----------------------------- MODULE MCWorkerPool -----------------------------
(***************************************************************************)
(* Instances of WorkerPool for TLC.                                        *)
(***************************************************************************)
EXTENDS WorkerPool, TLC

CONSTANTS w1, w2, s1, s2, s3

MCWorker == { w1, w2 }
MCSub == { s1, s2, s3 }

Standard(parent, cond) ==
  [ depends_on |-> parent, depends_cond |-> cond, check_script |-> "standard" ]
Compile ==
  [ depends_on |-> -1, depends_cond |-> "ACCEPTED", check_script |-> "compile" ]

\* A compilation with two dependents, a single task, and a submission that verify
\* refuses.
MCGraph ==
  s1 :> [ judge_tasks |-> (0 :> Compile @@ 1 :> Standard(0, "ACCEPTED")
                           @@ 2 :> Standard(0, "ACCEPTED")),
          has_program |-> TRUE ]
  @@ s2 :> [ judge_tasks |-> (0 :> Standard(-1, "ACCEPTED")), has_program |-> TRUE ]
  @@ s3 :> [ judge_tasks |-> (0 :> Standard(0, "ACCEPTED")), has_program |-> TRUE ]

\* Both servers have work, or one of them has all of it.
MCInboxes == { << <<s1>>, <<s2>> >>, << <<>>, <<s3, s2>> >> }

MCVerdict == { "ACCEPTED", "COMPILATION_ERROR" }
=============================================================================
