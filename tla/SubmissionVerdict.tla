-------------------------- MODULE SubmissionVerdict --------------------------
(***************************************************************************)
(* What the judge promises for one programming submission, with no worker, *)
(* queue or lock in sight: a submission that verify refuses is reported    *)
(* invalid; one that it accepts gets a status for every task, each status  *)
(* is given once and never revised, the dependents of a task that did not  *)
(* do well enough are decided together with it, and the submission is      *)
(* finished exactly when its last task is decided.                         *)
(***************************************************************************)
EXTENDS TaskGraph

CONSTANT Submissions      \* the submissions a judge server may hand over

VARIABLES sub,            \* the submission
          phase,          \* where it is in its life
          results         \* results[i].status of every task, once accepted

vars == <<sub, phase, results>>

Phase == { "fetched", "invalid", "judging", "finished" }

Undecided(r) == { i \in DOMAIN r : r[i] = "PENDING" }

Init ==
  /\ sub \in Submissions
  /\ phase = "fetched"
  /\ results = <<>>

Reject ==
  /\ phase = "fetched"
  /\ ~ Verified(sub)
  /\ phase' = "invalid"
  /\ UNCHANGED <<sub, results>>

Accept ==
  /\ phase = "fetched"
  /\ Verified(sub)
  /\ phase' = "judging"
  /\ results' = [i \in DOMAIN sub.judge_tasks |-> "PENDING"]
  /\ UNCHANGED sub

\* One or more tasks get their status.
Decide ==
  /\ phase = "judging"
  /\ results' \in [DOMAIN sub.judge_tasks -> Status]
  /\ results' # results
  /\ \A i \in DOMAIN sub.judge_tasks : results[i] # "PENDING" => results'[i] = results[i]
  /\ Consistent(sub.judge_tasks, results')
  /\ phase' = IF Undecided(results') = {} THEN "finished" ELSE "judging"
  /\ UNCHANGED sub

Next == Reject \/ Accept \/ Decide

Spec == Init /\ [][Next]_vars
=============================================================================
