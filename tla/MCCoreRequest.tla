---------------------------- MODULE MCCoreRequest ----------------------------
(***************************************************************************)
(* Instances of CoreRequest for TLC.                                       *)
(***************************************************************************)
EXTENDS CoreRequest, TLC

CONSTANTS w1, w2, w3, w4

MCWorker == { w1, w2, w3 }

\* Two masters and a single task; a master that needs every core; three masters,
\* more cores asked for than there are.
MCWorkloads == { <<2, 1, 2>>, <<3, 2>>, <<1, 3>>, <<4>> }

\* Four workers are a master in its second block, one that has still to unlock the
\* first, and two that answer the second.
MCWorker4 == { w1, w2, w3, w4 }
MCWorkloads4 == MCWorkloads \cup { <<2, 3>> }
Symmetry == Permutations(MCWorker4)
=============================================================================
