------------------------------ MODULE WorkerPool ------------------------------
(***************************************************************************)
(* The worker threads (worker.cpp): each loops over the shared task queue, *)
(* fetches submissions when it finds the queue empty, judges, processes    *)
(* verdicts, and reclaims the submissions that are finished.               *)
(*                                                                         *)
(* What is shared: the FIFO task queue (each of its calls is atomic),      *)
(* server_mutex, which guards submissions and finished_submissions and is  *)
(* held over a whole round of fetching; submission::mut, held over process *)
(* and the callbacks it fires; and the stop flag, read without a lock.     *)
(*                                                                         *)
(* All tasks here need one core: the core queue has a module of its own    *)
(* (CoreRequest), and so have the directory locks that verify takes.       *)
(***************************************************************************)
EXTENDS TaskGraph, FiniteSets, Sequences, Functions

CONSTANTS
  Worker,          \* the worker threads
  Sub,             \* the submissions, as identifiers
  Graph,           \* Graph[s]: the tasks of s, and whether its program is there
  Servers,         \* the number of judge servers
  Inboxes,         \* what the servers may have to hand over, each a sequence
  Verdict,         \* the statuses that judging a task may end with
  MaxTasks,        \* a bound on the tasks of a submission
  None             \* no worker, no task

ASSUME PoolAssumption ==
  /\ Worker # {} /\ None \notin Worker \cup Sub
  /\ Servers \in Nat
  /\ Inboxes \subseteq [1 .. Servers -> Seq(Sub)]

\* What fetch_submission hands over is a new object each time, a rejudge as well.
ASSUME InboxAssumption ==
  \A boxes \in Inboxes : \A a, b \in 1 .. Servers :
    \A j \in DOMAIN boxes[a], k \in DOMAIN boxes[b] :
      boxes[a][j] = boxes[b][k] => a = b /\ j = k

ASSUME GraphAssumption ==
  /\ MaxTasks \in Nat
  /\ \A s \in Sub : \E n \in 0 .. MaxTasks : Graph[s].judge_tasks \in [0 .. n - 1 -> JudgeTask]

VARIABLES
  inbox,           \* what each judge server still has to hand over
  phase,           \* per submission: "waiting", "dropped", "invalid", "judging", "finished"
  results,         \* submission.results
  finished,        \* submission.finished
  unsent,          \* the entry tasks that distribute() has not pushed yet
  taskQueue,       \* the task queue
  serverMutex,     \* who holds server_mutex
  mut,             \* who holds submission::mut
  finishedSubmissions,
  freed,           \* the submissions whose memory was released
  stop,            \* the stop flag
  pc,              \* where each worker is in its loop
  task,            \* the task it popped
  poll             \* the judge server that it asks next

subVars == <<inbox, phase, results, finished, unsent>>
lifeVars == <<finishedSubmissions, freed>>
vars == <<subVars, lifeVars, taskQueue, serverMutex, mut, stop, pc, task, poll>>

Tasks(s) == Graph[s].judge_tasks
Task(s) == DOMAIN Tasks(s)

Init ==
  /\ inbox \in Inboxes
  /\ phase = [s \in Sub |-> "waiting"]
  /\ results = [s \in Sub |-> <<>>]
  /\ finished = [s \in Sub |-> 0]
  /\ unsent = [s \in Sub |-> {}]
  /\ taskQueue = <<>>
  /\ serverMutex = None
  /\ mut = [s \in Sub |-> None]
  /\ finishedSubmissions = {}
  /\ freed = {}
  /\ stop = FALSE
  /\ pc = [w \in Worker |-> "loop"]
  /\ task = [w \in Worker |-> None]
  /\ poll = [w \in Worker |-> 1]

-----------------------------------------------------------------------------
(* The loop: pop a task, or find the queue empty and stop or fetch.        *)

Goto(w, label) == pc' = [pc EXCEPT ![w] = label]

\* Mutation: try_pop returns the front without popping it.
TryPopPeek(w) ==
  /\ pc[w] = "loop"
  /\ IF taskQueue = <<>>
     THEN Goto(w, "empty") /\ UNCHANGED task
     ELSE Goto(w, "judging") /\ task' = [task EXCEPT ![w] = Head(taskQueue)]
  /\ UNCHANGED <<subVars, lifeVars, taskQueue, serverMutex, mut, stop, poll>>

TryPop(w) ==
  /\ pc[w] = "loop"
  /\ IF taskQueue = <<>>
     THEN Goto(w, "empty") /\ UNCHANGED <<taskQueue, task>>
     ELSE /\ Goto(w, "judging")
          /\ task' = [task EXCEPT ![w] = Head(taskQueue)]
          /\ taskQueue' = Tail(taskQueue)
  /\ UNCHANGED <<subVars, lifeVars, serverMutex, mut, stop, poll>>

\* Mutation: the flag was read once, before the loop.
CheckStopCached(w) ==
  /\ pc[w] = "empty"
  /\ Goto(w, "locking")
  /\ UNCHANGED <<subVars, lifeVars, taskQueue, serverMutex, mut, stop, task, poll>>

\* The flag is read after the queue was seen empty: in between another worker
\* may have pushed, and then that worker judges what it pushed.
CheckStop(w) ==
  /\ pc[w] = "empty"
  /\ Goto(w, IF stop THEN "stopped" ELSE "locking")
  /\ UNCHANGED <<subVars, lifeVars, taskQueue, serverMutex, mut, stop, task, poll>>

\* SIGINT.
StopWorkers ==
  /\ ~ stop
  /\ stop' = TRUE
  /\ UNCHANGED <<subVars, lifeVars, taskQueue, serverMutex, mut, pc, task, poll>>

-----------------------------------------------------------------------------
(* fetch_submission: one round over the judge servers under server_mutex.  *)

BeginFetch(w) ==
  /\ pc[w] = "locking"
  /\ serverMutex = None
  /\ serverMutex' = w
  /\ Goto(w, "fetching")
  /\ poll' = [poll EXCEPT ![w] = 1]
  /\ UNCHANGED <<subVars, lifeVars, taskQueue, mut, stop, task>>

NextServer(w) == poll' = [poll EXCEPT ![w] = @ + 1]

\* The server has nothing, or cannot be reached.
FetchNothing(w) ==
  /\ pc[w] = "fetching"
  /\ poll[w] <= Servers
  /\ NextServer(w)
  /\ UNCHANGED <<subVars, lifeVars, taskQueue, serverMutex, mut, stop, pc, task>>

\* The server hands over a submission.  It is registered when verify accepts it;
\* it is dropped when it is invalid or when anything on the way throws.
Fetch(w) ==
  /\ pc[w] = "fetching"
  /\ poll[w] <= Servers
  /\ inbox[poll[w]] # <<>>
  /\ LET s == Head(inbox[poll[w]])
     IN  /\ inbox' = [inbox EXCEPT ![poll[w]] = Tail(@)]
         /\ \/ /\ Verified(Graph[s])
               /\ phase' = [phase EXCEPT ![s] = "judging"]
               /\ results' = [results EXCEPT ![s] = [i \in Task(s) |-> "PENDING"]]
               /\ unsent' = [unsent EXCEPT ![s] = { i \in Task(s) : Entry(Tasks(s), i) }]
               /\ task' = [task EXCEPT ![w] = <<s, 0>>]
               /\ Goto(w, "distributing")
               /\ UNCHANGED poll
            \/ /\ ~ Verified(Graph[s])
               /\ phase' = [phase EXCEPT ![s] = "invalid"]
               /\ NextServer(w)
               /\ UNCHANGED <<results, unsent, task, pc>>
            \/ /\ phase' = [phase EXCEPT ![s] = "dropped"]
               /\ NextServer(w)
               /\ UNCHANGED <<results, unsent, task, pc>>
  /\ UNCHANGED <<lifeVars, taskQueue, finished, serverMutex, mut, stop>>

\* distribute() pushes the next entry task; other workers already take them.
Distribute(w) ==
  /\ pc[w] = "distributing"
  /\ LET s == task[w][1]
     IN  \/ \E i \in unsent[s] :
              /\ \A j \in unsent[s] : i <= j
              /\ unsent' = [unsent EXCEPT ![s] = @ \ {i}]
              /\ taskQueue' = Append(taskQueue, <<s, i>>)
              /\ UNCHANGED <<pc, task, poll>>
         \/ /\ unsent[s] = {}
            /\ Goto(w, "fetching")
            /\ task' = [task EXCEPT ![w] = None]
            /\ NextServer(w)
            /\ UNCHANGED <<unsent, taskQueue>>
  /\ UNCHANGED <<lifeVars, inbox, phase, results, finished, serverMutex, mut, stop>>

\* Mutation: the flag is looked at right after fetching.
EndFetchStop(w) ==
  /\ pc[w] = "fetching"
  /\ poll[w] > Servers
  /\ serverMutex' = None
  /\ Goto(w, IF stop THEN "stopped" ELSE "loop")
  /\ UNCHANGED <<subVars, lifeVars, taskQueue, mut, stop, task, poll>>

EndFetch(w) ==
  /\ pc[w] = "fetching"
  /\ poll[w] > Servers
  /\ serverMutex' = None
  /\ Goto(w, "loop")
  /\ UNCHANGED <<subVars, lifeVars, taskQueue, mut, stop, task, poll>>

-----------------------------------------------------------------------------
(* judge: the verdict is processed under mut.                              *)

\* The loop over the tasks pushes those it lets go in the order of their numbers.
Ascending(S) ==
  CHOOSE q \in [1 .. Cardinality(S) -> S] : \A j, k \in DOMAIN q : j < k => q[j] < q[k]

\* The worker that counts the last task keeps mut and goes on to the callbacks.
\* Any other one leaves mut in the same step: nothing in process blocks.
Process(w) ==
  /\ pc[w] = "judging"
  /\ LET s == task[w][1]
         i == task[w][2]
     IN  /\ mut[s] = None
         /\ \E status \in Outcome(Tasks(s)[i]) \cap Verdict :
              LET skipped  == Skipped(Tasks(s), i, status)
                  released == Released(Tasks(s), i, status)
                  count    == finished[s] + 1 + Cardinality(skipped)
                  last     == finished[s] < Cardinality(Task(s)) /\ count >= Cardinality(Task(s))
              IN  /\ results' = [results EXCEPT ![s] =
                       [j \in Task(s) |-> IF j = i THEN status
                                          ELSE IF j \in skipped THEN "DEPENDENCY_NOT_SATISFIED"
                                          ELSE @[j]]]
                  /\ finished' = [finished EXCEPT ![s] = count]
                  /\ taskQueue' = taskQueue \o
                       [k \in 1 .. Cardinality(released) |-> <<s, Ascending(released)[k]>>]
                  /\ phase' = [phase EXCEPT ![s] = IF last THEN "finished" ELSE @]
                  /\ mut' = [mut EXCEPT ![s] = IF last THEN w ELSE None]
                  /\ Goto(w, IF last THEN "finishing" ELSE "ending")
  /\ UNCHANGED <<lifeVars, inbox, unsent, serverMutex, stop, task, poll>>

\* Mutation: finish_submission does not take server_mutex.
FinishUnguarded(w) ==
  /\ pc[w] = "finishing"
  /\ finishedSubmissions' = finishedSubmissions \cup {task[w][1]}
  /\ Goto(w, "unlocking")
  /\ UNCHANGED <<subVars, freed, taskQueue, serverMutex, mut, stop, task, poll>>

\* finish_submission, called with mut held.
FinishSubmission(w) ==
  /\ pc[w] = "finishing"
  /\ serverMutex = None
  /\ finishedSubmissions' = finishedSubmissions \cup {task[w][1]}
  /\ Goto(w, "unlocking")
  /\ UNCHANGED <<subVars, freed, taskQueue, serverMutex, mut, stop, task, poll>>

\* judge() returns: the guard unlocks a mutex that lives in the submission.
Unlock(w) ==
  /\ pc[w] = "unlocking"
  /\ mut' = [mut EXCEPT ![task[w][1]] = None]
  /\ Goto(w, "ending")
  /\ UNCHANGED <<subVars, lifeVars, taskQueue, serverMutex, stop, task, poll>>

\* Mutation: a worker that sees no more tasks does not bother to reclaim.
EndJudgeTaskIdle(w) ==
  /\ pc[w] = "ending"
  /\ Goto(w, IF taskQueue = <<>> THEN "loop" ELSE "reaping")
  /\ task' = [task EXCEPT ![w] = None]
  /\ UNCHANGED <<subVars, lifeVars, taskQueue, serverMutex, mut, stop, poll>>

\* The deferred end_judge_task, which reads the submission of the task.
EndJudgeTask(w) ==
  /\ pc[w] = "ending"
  /\ Goto(w, "reaping")
  /\ task' = [task EXCEPT ![w] = None]
  /\ UNCHANGED <<subVars, lifeVars, taskQueue, serverMutex, mut, stop, poll>>

\* finished_submissions.clear() releases whatever any worker has finished.
Reap(w) ==
  /\ pc[w] = "reaping"
  /\ serverMutex = None
  /\ freed' = freed \cup finishedSubmissions
  /\ finishedSubmissions' = {}
  /\ Goto(w, "loop")
  /\ UNCHANGED <<subVars, taskQueue, serverMutex, mut, stop, task, poll>>

-----------------------------------------------------------------------------

FetchStep(w) == FetchNothing(w) \/ Fetch(w)
Locking(w) == BeginFetch(w) \/ FinishSubmission(w) \/ Reap(w)
Alone(w) ==
  \/ TryPop(w) \/ CheckStop(w) \/ Distribute(w) \/ EndFetch(w)
  \/ Process(w) \/ Unlock(w) \/ EndJudgeTask(w)

Next == StopWorkers \/ \E w \in Worker : FetchStep(w) \/ Locking(w) \/ Alone(w)

\* A thread is scheduled, a server answers or fails.  A mutex that is free again
\* and again is got in the end: a worker that fetched nothing sleeps before it asks
\* for server_mutex again.  Judging may last for ever: a program that sleeps uses up
\* no CPU time, which is what the limits are about (check_helper.sh:57;
\* programming.cpp:180-182), and exec_program waits without a timeout.
Fairness ==
  \A w \in Worker :
    /\ WF_vars(FetchStep(w))
    /\ WF_vars(Alone(w) /\ pc[w] # "judging")
    /\ SF_vars(Locking(w))

Spec == Init /\ [][Next]_vars /\ Fairness

-----------------------------------------------------------------------------
(* Properties.                                                             *)

Label ==
  { "loop", "empty", "stopped", "locking", "fetching", "distributing", "judging",
    "finishing", "unlocking", "ending", "reaping" }

\* The types of the variables.
TypeOK ==
  /\ inbox \in [1 .. Servers -> Seq(Sub)]
  /\ phase \in [Sub -> { "waiting", "dropped", "invalid", "judging", "finished" }]
  /\ \A s \in Sub :
       /\ results[s] = <<>> \/ results[s] \in [Task(s) -> Status]
       /\ unsent[s] \subseteq Task(s)
       /\ finished[s] \in 0 .. Cardinality(Task(s))
  /\ taskQueue \in Seq(Sub \X (0 .. MaxTasks - 1))
  /\ serverMutex \in Worker \cup {None}
  /\ mut \in [Sub -> Worker \cup {None}]
  /\ freed \subseteq Sub /\ finishedSubmissions \subseteq Sub
  /\ stop \in BOOLEAN
  /\ pc \in [Worker -> Label]
  /\ task \in [Worker -> (Sub \X (0 .. MaxTasks - 1)) \cup {None}]
  /\ poll \in [Worker -> 1 .. Servers + 1]

\* A submission that a task in the queue, a judging worker or a distributing one
\* points to is registered and its memory is there, although no pointer is
\* counted anywhere (worker.cpp:57-62, 215-218): while there is a task to judge it
\* is not finished, and distribute() is shielded by server_mutex even when the
\* tasks it pushed are all judged before it returns.
PointersLive ==
  /\ \A k \in DOMAIN taskQueue : phase[taskQueue[k][1]] = "judging"
  /\ \A w \in Worker :
       /\ pc[w] = "judging" => phase[task[w][1]] = "judging"
       /\ pc[w] = "distributing" => phase[task[w][1]] \in { "judging", "finished" }
       /\ pc[w] \in { "judging", "distributing" } =>
             task[w][1] \notin freed \cup finishedSubmissions

\* When the last worker stops nothing is left behind: no task in the queue, no
\* submission half judged, no finished one unreleased, no lock held.  Workers
\* look at the queue and at the flag in two steps (worker.cpp:167-174), and a
\* round of fetching that began before the flag was set may still push.
Drained ==
  (\A w \in Worker : pc[w] = "stopped") =>
    /\ taskQueue = <<>>
    /\ serverMutex = None
    /\ finishedSubmissions = {}
    /\ \A s \in Sub : /\ phase[s] # "judging" /\ mut[s] = None
                      /\ phase[s] = "finished" => s \in freed

\* Seen from one submission the pool is module ProgrammingJudger.
InPool(s) == phase[s] \in { "judging", "finished" }
Judger(s) ==
  INSTANCE ProgrammingJudger WITH
    Submissions <- { Graph[t] : t \in Sub },
    sub <- Graph[s],
    phase <- IF phase[s] \in { "waiting", "dropped" } THEN "fetched" ELSE phase[s],
    results <- results[s],
    finished <- finished[s],
    unsent <- unsent[s],
    queued <- IF InPool(s)
              THEN [i \in Task(s) |->
                     Cardinality({ k \in DOMAIN taskQueue : taskQueue[k] = <<s, i>> })]
              ELSE <<>>,
    running <- IF InPool(s)
               THEN [i \in Task(s) |->
                      { w \in Worker : pc[w] = "judging" /\ task[w] = <<s, i>> }]
               ELSE <<>>,
    summaries <- finished[s],
    finals <- IF phase[s] = "finished" THEN 1 ELSE 0

\* Each submission is judged as ProgrammingJudger says, whatever the other
\* submissions, the queue order and the fetching workers do.
ImplementsJudger ==
  /\ \A s \in Sub : Judger(s)!Init
  /\ [][\A s \in Sub : [Judger(s)!Next]_(Judger(s)!vars)]_vars

\* No worker is left: some judge a task, the others have stopped.
Exhausted ==
  /\ \A w \in Worker : pc[w] \in { "judging", "stopped" }
  /\ \E w \in Worker : pc[w] = "judging"

\* A program that never ends costs its own submission and one worker, nothing else:
\* any other submission that was registered is judged to the end and its memory is
\* released, also when the workers are told to stop meanwhile, unless such programs
\* hold every worker that has not stopped.
Reclaimed ==
  \/ <>[]Exhausted
  \/ \A s \in Sub :
       \/ phase[s] = "judging" ~> s \in freed
       \/ \E w \in Worker : <>[](pc[w] = "judging" /\ task[w][1] = s)

\* Told to stop, every worker stops, except those that judge one task for ever.
Stops ==
  \A w \in Worker : (stop ~> pc[w] = "stopped") \/ <>[](pc[w] = "judging")

\* What finish_submission takes for granted (worker.cpp:54-56, the submission is
\* over and its memory can go): a worker that still unlocks the submission's
\* mutex or reports the end of one of its tasks (worker.cpp:183-186) finds it there.
ReleasedUnused ==
  \A w \in Worker : pc[w] \in { "unlocking", "ending" } => task[w][1] \notin freed
=============================================================================
