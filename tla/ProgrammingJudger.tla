-------------------------- MODULE ProgrammingJudger --------------------------
(***************************************************************************)
(* One programming submission in the hands of programming_judger and the   *)
(* workers: verify, distribute, and for each task a worker that pops it,   *)
(* judges it and, holding submission::mut, processes the verdict.          *)
(*                                                                         *)
(* The task queue is shared with other submissions; seen from one of them  *)
(* it holds a number of copies of each of its tasks, taken by any worker   *)
(* at any time (module WorkerPool has the queue itself).                   *)
(***************************************************************************)
EXTENDS TaskGraph, FiniteSets

CONSTANTS
  Worker,          \* the worker threads
  Submissions,     \* the submissions a judge server may hand over
  MaxTasks,        \* a bound on the tasks of a submission
  Verdict          \* the statuses that judging a task may end with

\* A submission as the judge server builds it: its tasks, and whether the
\* contestant's program is there.
IsSubmission(s) ==
  /\ \E n \in 0 .. MaxTasks : s.judge_tasks \in [0 .. n - 1 -> JudgeTask]
  /\ s.has_program \in BOOLEAN

ASSUME SubmissionsAssumption ==
  /\ MaxTasks \in Nat
  /\ \A s \in Submissions : IsSubmission(s)

ASSUME VerdictAssumption ==
  /\ Verdict \subseteq CompileOutcome \cup CheckOutcome
  /\ "ACCEPTED" \in Verdict

ASSUME WorkerAssumption == Worker # {} /\ "none" \notin Worker

VARIABLES
  sub,             \* the submission
  phase,           \* "fetched", "invalid", "judging" or "finished"
  results,         \* submission.results: the status of every task
  finished,        \* submission.finished: how many tasks were processed
  unsent,          \* the entry tasks distribute() has not pushed yet
  queued,          \* queued[i]: copies of task i in the task queue
  running,         \* running[i]: the workers judging task i
  summaries,       \* calls of judge_server->summarize so far
  finals           \* those of them made when all tasks were counted

vars == <<sub, phase, results, finished, unsent, queued, running, summaries, finals>>

tasks == sub.judge_tasks
Task == DOMAIN sub.judge_tasks
Undecided == { i \in Task : results[i] = "PENDING" }
Busy == UNION { running[i] : i \in DOMAIN running }

Init ==
  /\ sub \in Submissions
  /\ phase = "fetched"
  /\ results = <<>>
  /\ finished = 0
  /\ unsent = {}
  /\ queued = <<>>
  /\ running = <<>>
  /\ summaries = 0
  /\ finals = 0

\* verify says no: summarize_invalid, and the submission is dropped.
Refuse ==
  /\ phase = "fetched"
  /\ ~ Verified(sub)
  /\ phase' = "invalid"
  /\ UNCHANGED <<sub, results, finished, unsent, queued, running, summaries, finals>>

\* verify says yes: every result is PENDING and distribute() starts pushing.
Accept ==
  /\ phase = "fetched"
  /\ Verified(sub)
  /\ phase' = "judging"
  /\ results' = [i \in Task |-> "PENDING"]
  /\ unsent' = { i \in Task : Entry(tasks, i) }
  /\ queued' = [i \in Task |-> 0]
  /\ running' = [i \in Task |-> {}]
  /\ UNCHANGED <<sub, finished, summaries, finals>>

\* distribute() pushes the next entry task; workers may already take it.
Distribute ==
  \E i \in unsent :
    /\ \A j \in unsent : i <= j
    /\ unsent' = unsent \ {i}
    /\ queued' = [queued EXCEPT ![i] = @ + 1]
    /\ UNCHANGED <<sub, phase, results, finished, running, summaries, finals>>

\* Mutation: a worker reads the front of the queue and leaves it there.
PopPeek(w) ==
  /\ w \notin Busy
  /\ \E i \in DOMAIN queued :
       /\ queued[i] > 0
       /\ running' = [running EXCEPT ![i] = @ \cup {w}]
  /\ UNCHANGED <<sub, phase, results, finished, unsent, queued, summaries, finals>>

\* Worker w takes a task of the submission off the queue and judges it.
Pop(w) ==
  /\ w \notin Busy
  /\ \E i \in DOMAIN queued :
       /\ queued[i] > 0
       /\ queued' = [queued EXCEPT ![i] = @ - 1]
       /\ running' = [running EXCEPT ![i] = @ \cup {w}]
  /\ UNCHANGED <<sub, phase, results, finished, unsent, summaries, finals>>

\* Worker w has judged task i with this status and processes it under mut:
\* the status is recorded, the dependents whose condition fails are skipped by
\* recursion, the others are pushed, and each task of the recursion is counted
\* and summarized.  The call that counts the last task makes the final summary
\* and fires judge_finished.
Process(w, i, status) ==
  /\ w \in running[i]
  /\ LET skipped  == Skipped(tasks, i, status)
         released == Released(tasks, i, status)
         count    == 1 + Cardinality(skipped)
         last     == /\ finished < Cardinality(Task)
                     /\ finished + count >= Cardinality(Task)
     IN  /\ results' = [j \in Task |->
                          IF j = i THEN status
                          ELSE IF j \in skipped THEN "DEPENDENCY_NOT_SATISFIED"
                          ELSE results[j]]
         /\ queued' = [j \in Task |-> IF j \in released THEN queued[j] + 1 ELSE queued[j]]
         /\ finished' = finished + count
         /\ summaries' = summaries + count
         /\ finals' = IF last THEN finals + 1 ELSE finals
         /\ phase' = IF last THEN "finished" ELSE phase
  /\ running' = [running EXCEPT ![i] = @ \ {w}]
  /\ UNCHANGED <<sub, unsent>>

Judged(w) ==
  \E i \in DOMAIN running :
    \E status \in Outcome(tasks[i]) \cap Verdict : Process(w, i, status)

Next ==
  \/ Refuse
  \/ Accept
  \/ Distribute
  \/ \E w \in Worker : Pop(w) \/ Judged(w)

\* The fetching worker goes through verify and distribute without waiting for
\* anything modelled here, and a worker that judges none of this submission's tasks
\* loops over try_pop (what other submissions do to it: WorkerPool).  That judging a
\* task ends is not assumed: a program's limit is one of CPU time
\* (check_helper.sh:57; of wall time only on several cores, programming.cpp:180-182),
\* and exec_program waits without a timeout.
Fairness ==
  /\ WF_vars(Refuse) /\ WF_vars(Accept) /\ WF_vars(Distribute)
  /\ \A w \in Worker : WF_vars(Pop(w))

Spec == Init /\ [][Next]_vars /\ Fairness

-----------------------------------------------------------------------------
(* Properties.                                                             *)

\* The types of the variables; no counter runs past the number of tasks.
TypeOK ==
  /\ IsSubmission(sub)
  /\ phase \in { "fetched", "invalid", "judging", "finished" }
  /\ finished \in 0 .. Cardinality(Task)
  /\ summaries \in 0 .. Cardinality(Task)
  /\ finals \in 0 .. 1
  /\ unsent \subseteq Task
  /\ IF phase \in { "judging", "finished" }
     THEN /\ results \in [Task -> Status]
          /\ queued \in [Task -> Nat]
          /\ running \in [Task -> SUBSET Worker]
     ELSE results = <<>> /\ queued = <<>> /\ running = <<>>

\* Tasks on their way: about to be pushed, in the queue, or being judged.
Copies(i) ==
  (IF i \in unsent THEN 1 ELSE 0) + queued[i] + Cardinality(running[i])

\* A task is judged at most once, and only when its parent has a status that
\* satisfies its condition (programming.cpp:495-523): there is one copy of it
\* on its way while it is undecided and not waiting for its parent, and none
\* otherwise.
JudgedOnce ==
  phase \in { "judging", "finished" } =>
    \A i \in Task :
      LET ready == \/ Entry(tasks, i)
                   \/ Satisfied(tasks[i].depends_cond, results[tasks[i].depends_on])
                      /\ results[tasks[i].depends_on] # "PENDING"
      IN  Copies(i) = IF results[i] = "PENDING" /\ ready THEN 1 ELSE 0

\* A submission under judgement always has a task on its way: the recursion
\* over failed dependencies (programming.cpp:524-529) strands no task whatever
\* the graph, so the submission cannot hang with undecided results.
NotStranded ==
  phase = "judging" => \E i \in Task : Copies(i) > 0

\* Every task is counted and summarized as often as it was decided.  The final
\* summary is made once, at the moment the last task is counted, when every task
\* has its status and no worker, queue entry or distribute loop still refers to
\* the submission that judge_finished is about to give up (programming.cpp:533-545).
FinalSummary ==
  /\ phase \in { "judging", "finished" } =>
       finished = Cardinality(Task \ Undecided) /\ summaries = finished
  /\ finals = IF phase = "finished" THEN 1 ELSE 0
  /\ phase = "finished" =>
       /\ Undecided = {}
       /\ \A i \in Task : Copies(i) = 0
  /\ phase = "judging" => finished < Cardinality(Task)

\* The workers implement the promise made to the judge server.
Abstract == INSTANCE SubmissionVerdict
Implements == Abstract!Spec

\* Every submission the server hands over is reported invalid or finished, whatever
\* its graph and its verdicts, unless a worker judges one of its tasks for ever.
Disposed ==
  \/ phase = "fetched" ~> phase \in { "invalid", "finished" }
  \/ \E w \in Worker : <>[](w \in Busy)
=============================================================================
