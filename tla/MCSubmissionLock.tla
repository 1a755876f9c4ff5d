--------------------------- MODULE MCSubmissionLock ---------------------------
(***************************************************************************)
(* Instances of SubmissionLock for TLC.                                    *)
(***************************************************************************)
EXTENDS SubmissionLock, TLC

CONSTANTS w1, w2, w3, a1, a2, b, c, A, B, C

MCWorker == { w1, w2, w3 }
MCSub == { a1, a2, b, c }

\* a2 is the rejudge of a1.
MCDir == a1 :> A @@ a2 :> A @@ b :> B @@ c :> C

ASSUME OneRejudge

\* A rejudge right after the submission, one behind another submission, none.
MCInboxes == { <<a1, a2>>, <<a1, b, a2>>, <<a1, b, c>> }
=============================================================================
