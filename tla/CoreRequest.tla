----------------------------- MODULE CoreRequest -----------------------------
(***************************************************************************)
(* Tasks that need several cores (worker.cpp:146-206, messages.hpp): the   *)
(* worker that took such a task, the master, pushes one core_request per   *)
(* missing core and waits on a latch; a worker that pops a request adds    *)
(* its core to the master's list, counts the latch down and blocks on the  *)
(* master's condition variable.                                            *)
(*                                                                         *)
(* The latch, the condition variable and two mutexes live on the master's  *)
(* stack, in a block it leaves as soon as the latch opens and before it    *)
(* judges.  The answer that opens it still unlocks one mutex and locks the *)
(* other afterwards, perhaps when the block is gone, perhaps when the      *)
(* master is in the block of its next task, at the same addresses.         *)
(* No statement of the program notifies the condition variable.            *)
(*                                                                         *)
(* What is undefined in that ends the process in some builds (crashed) and *)
(* goes unnoticed in others.  A count_down of boost::latch is one step.    *)
(* Fetching, dependencies and verdicts are left to WorkerPool: the tasks   *)
(* are there from the start.                                               *)
(***************************************************************************)
EXTENDS Integers, Sequences, FiniteSets

CONSTANTS
  Worker,          \* the workers; a worker stands for its core as well
  Workloads,       \* the task queues to start from: per task, its number of cores
  None             \* no master

ASSUME WorkloadAssumption ==
  /\ IsFiniteSet(Worker)
  /\ Workloads \subseteq Seq(Nat \ {0})
  /\ None \notin Worker

VARIABLES
  taskQueue,       \* the task queue: cores of each waiting task
  coreQueue,       \* the core queue: a request is known by its master
  cores,           \* cores[w]: what the task of w asks for, 0 without a task
  cpus,            \* cpus[w]: the cores collected for the task of w
  latch,           \* latch[w]: the count of the latch of w
  unsent,          \* unsent[w]: the requests w still has to push
  inScope,         \* the masters whose latch, mutexes and condition variable exist
  writeLock,       \* writeLock[m]: who holds the write_lock of m
  reused,          \* (history) the masters that began their block while a worker was
                   \* still to unlock the write_lock of the one before
  serving,         \* serving[w]: the master whose request w answered
  stop,            \* the stop flag
  pc

locks == <<writeLock, reused>>
request == <<cores, latch, unsent, inScope>>
vars == <<taskQueue, coreQueue, request, cpus, locks, serving, stop, pc>>

Init ==
  /\ taskQueue \in Workloads
  /\ coreQueue = <<>>
  /\ cores = [w \in Worker |-> 0]
  /\ cpus = [w \in Worker |-> <<>>]
  /\ latch = [w \in Worker |-> 0]
  /\ unsent = [w \in Worker |-> 0]
  /\ inScope = {}
  /\ writeLock = [w \in Worker |-> None]
  /\ reused = {}
  /\ serving = [w \in Worker |-> None]
  /\ stop = FALSE
  /\ pc = [w \in Worker |-> "loop"]

Goto(w, from, to) == pc[w] = from /\ pc' = [pc EXCEPT ![w] = to]

\* The process ends, and all its threads with it.
Crash ==
  /\ pc' = [w \in Worker |-> "crashed"]
  /\ coreQueue' = <<>>
  /\ latch' = [w \in Worker |-> 0]
  /\ unsent' = [w \in Worker |-> 0]
  /\ inScope' = {}
  /\ UNCHANGED <<taskQueue, cores, cpus, locks, serving, stop>>

-----------------------------------------------------------------------------
(* Answering a request.                                                    *)

PopRequest(w) ==
  /\ IF coreQueue = <<>>
     THEN Goto(w, "loop", "popping") /\ UNCHANGED <<coreQueue, serving>>
     ELSE /\ Goto(w, "loop", "granting")
          /\ serving' = [serving EXCEPT ![w] = Head(coreQueue)]
          /\ coreQueue' = Tail(coreQueue)
  /\ UNCHANGED <<taskQueue, request, cpus, locks, stop>>

\* Mutation: write_lock is not taken.
LockListNot(w) ==
  /\ Goto(w, "granting", "adding")
  /\ UNCHANGED <<taskQueue, coreQueue, request, cpus, locks, serving, stop>>

\* The scoped_lock on write_lock.
LockList(w) ==
  /\ Goto(w, "granting", "adding")
  /\ writeLock[serving[w]] = None
  /\ writeLock' = [writeLock EXCEPT ![serving[w]] = w]
  /\ UNCHANGED <<taskQueue, coreQueue, request, cpus, reused, serving, stop>>

\* The core is added and the latch counted down.  Two workers that add to one list at
\* once (see Unlock) lose a core or end the process.
Grant(w) ==
  LET m     == serving[w]
      apart == \A v \in Worker \ {w} : ~ (pc[v] = "adding" /\ serving[v] = m)
  IN  \/ /\ Goto(w, "adding", "unlocking")
         /\ \/ cpus' = [cpus EXCEPT ![m] = Append(@, w)]
            \/ ~ apart /\ UNCHANGED cpus
         /\ latch' = [latch EXCEPT ![m] = @ - 1]
         /\ UNCHANGED <<taskQueue, coreQueue, cores, unsent, inScope, locks, serving, stop>>
      \/ pc[w] = "adding" /\ ~ apart /\ Crash

\* The scoped_lock ends.  When the latch is open the master may have left the block,
\* and unlocking writes into whatever its stack holds now; when it is in its next
\* block, the lock there is released, whoever holds it.
Unlock(w) ==
  \/ /\ Goto(w, "unlocking", "granted")
     /\ writeLock' = [writeLock EXCEPT ![serving[w]] = None]
     /\ UNCHANGED <<taskQueue, coreQueue, request, cpus, reused, serving, stop>>
  \/ pc[w] = "unlocking" /\ serving[w] \notin inScope /\ Crash

\* cv->wait.  The master may have left the block already: what locking and waiting
\* then do to its stack is undefined, and the worker blocks, falls through or ends
\* the process.
Wait(w) ==
  \/ /\ \/ Goto(w, "granted", "waiting") /\ UNCHANGED serving
        \/ /\ serving[w] \notin inScope
           /\ Goto(w, "granted", "popping")
           /\ serving' = [serving EXCEPT ![w] = None]
     /\ UNCHANGED <<taskQueue, coreQueue, request, cpus, locks, stop>>
  \/ pc[w] = "granted" /\ serving[w] \notin inScope /\ Crash

\* The wait has no predicate, so that a spurious wakeup ends it.
WakeSpuriously(w) ==
  /\ Goto(w, "waiting", "popping")
  /\ serving' = [serving EXCEPT ![w] = None]
  /\ UNCHANGED <<taskQueue, coreQueue, request, cpus, locks, stop>>

-----------------------------------------------------------------------------
(* Taking and judging a task.                                              *)

Late(v, w) == pc[v] = "unlocking" /\ serving[v] = w

\* With nothing to pop the worker stops, or asks the judge servers in vain.
PopTask(w) ==
  /\ \/ /\ taskQueue = <<>>
        /\ Goto(w, "popping", IF stop THEN "stopped" ELSE "loop")
        /\ UNCHANGED <<taskQueue, request, cpus, locks>>
     \/ /\ taskQueue # <<>>
        /\ LET need == Head(taskQueue)
           IN  /\ Goto(w, "popping", IF need > 1 THEN "requesting" ELSE "judging")
               /\ cores' = [cores EXCEPT ![w] = need]
               /\ latch' = [latch EXCEPT ![w] = need - 1]
               /\ unsent' = [unsent EXCEPT ![w] = need - 1]
               /\ inScope' = IF need > 1 THEN inScope \cup {w} ELSE inScope
        /\ writeLock' = [writeLock EXCEPT ![w] = None]
        /\ reused' = IF \E v \in Worker : Late(v, w) THEN reused \cup {w} ELSE reused \ {w}
        /\ cpus' = [cpus EXCEPT ![w] = <<w>>]
        /\ taskQueue' = Tail(taskQueue)
  /\ UNCHANGED <<coreQueue, serving, stop>>

\* Mutation: one request per core, the master's own included.
PushRequestAll(w) ==
  /\ Goto(w, "requesting", IF unsent[w] = 0 THEN "latched" ELSE "requesting")
  /\ unsent' = [unsent EXCEPT ![w] = IF @ = 0 THEN 0 ELSE @ - 1]
  /\ coreQueue' = Append(coreQueue, w)
  /\ UNCHANGED <<taskQueue, cores, latch, inScope, cpus, locks, serving, stop>>

PushRequest(w) ==
  /\ Goto(w, "requesting", IF unsent[w] = 1 THEN "latched" ELSE "requesting")
  /\ unsent' = [unsent EXCEPT ![w] = @ - 1]
  /\ coreQueue' = Append(coreQueue, w)
  /\ UNCHANGED <<taskQueue, cores, latch, inScope, cpus, locks, serving, stop>>

\* Mutation: the master goes on when the first core has arrived.
PassLatchEarly(w) ==
  /\ latch[w] < cores[w] - 1
  /\ inScope' = inScope \ {w}
  /\ Goto(w, "latched", "judging")
  /\ UNCHANGED <<taskQueue, coreQueue, cores, latch, unsent, cpus, locks, serving, stop>>

\* latch.wait returns and the block ends.  Destroying a condition variable with a
\* waiter is undefined: the destructor returns, or it blocks for ever.
PassLatch(w) ==
  /\ latch[w] = 0
  /\ inScope' = inScope \ {w}
  /\ \/ Goto(w, "latched", "judging")
     \/ /\ \E v \in Worker : pc[v] = "waiting" /\ serving[v] = w
        /\ Goto(w, "latched", "destroying")
  /\ UNCHANGED <<taskQueue, coreQueue, cores, latch, unsent, cpus, locks, serving, stop>>

Judge(w) ==
  /\ Goto(w, "judging", "loop")
  /\ cores' = [cores EXCEPT ![w] = 0]
  /\ cpus' = [cpus EXCEPT ![w] = <<>>]
  /\ UNCHANGED <<taskQueue, coreQueue, latch, unsent, inScope, locks, serving, stop>>

StopWorkers ==
  /\ ~ stop
  /\ stop' = TRUE
  /\ UNCHANGED <<taskQueue, coreQueue, request, cpus, locks, serving, pc>>

-----------------------------------------------------------------------------

Step(w) ==
  \/ PopRequest(w) \/ LockList(w) \/ Grant(w) \/ Unlock(w) \/ Wait(w)
  \/ PopTask(w) \/ PushRequest(w) \/ PassLatch(w) \/ Judge(w)

Next == StopWorkers \/ \E w \in Worker : Step(w) \/ WakeSpuriously(w)

\* Threads are scheduled; judging need not end (see WorkerPool), and nobody owes a
\* worker a spurious wakeup.
Fairness == \A w \in Worker : WF_vars(Step(w) /\ pc[w] # "judging")

Spec == Init /\ [][Next]_vars /\ Fairness

-----------------------------------------------------------------------------
(* Properties.                                                             *)

Label ==
  { "loop", "granting", "adding", "unlocking", "granted", "waiting", "popping",
    "requesting", "latched", "destroying", "judging", "stopped", "crashed" }

\* The types of the variables.
TypeOK ==
  /\ taskQueue \in Seq(Nat)
  /\ coreQueue \in Seq(Worker)
  /\ cores \in [Worker -> Nat] /\ latch \in [Worker -> Nat] /\ unsent \in [Worker -> Nat]
  /\ cpus \in [Worker -> Seq(Worker)]
  /\ inScope \subseteq Worker /\ reused \subseteq Worker
  /\ writeLock \in [Worker -> Worker \cup {None}]
  /\ serving \in [Worker -> Worker \cup {None}]
  /\ stop \in BOOLEAN
  /\ pc \in [Worker -> Label]

\* The pointers of a request are good up to the moment its answer counts the latch
\* down: as long as a request is in the core queue or a worker is about to lock the
\* list or to add its core, the master has not left the block with the latch and the
\* lock, and its latch is still closed (worker.cpp:152-156, 192-206).  What is used of
\* them later may be gone: Unlock and Wait say what comes of that.
RequestAlive ==
  \A m \in Worker :
    \/ \E k \in DOMAIN coreQueue : coreQueue[k] = m
    \/ \E w \in Worker : pc[w] \in { "granting", "adding" } /\ serving[w] = m
    => m \in inScope /\ latch[m] > 0

\* A task is judged with as many entries in its CPU list as it asked cores, its
\* master's core first, however the answers to several masters interleave
\* (worker.cpp:191-209), unless its block began while a worker had still to unlock
\* the one before: then two workers may come to add their cores at once.
CountedCores ==
  \A w \in Worker : pc[w] = "judging" /\ w \notin reused =>
    Len(cpus[w]) = cores[w] /\ cpus[w][1] = w

\* "The master releases this lock when judging is over" (messages.hpp:50-54): a
\* worker that lent its core to a task that is being judged is blocked until that
\* task is judged (worker.hpp:62-65), and not for ever if all judging ends.
CoresReturned ==
  (\A m \in Worker : []<>(pc[m] # "judging")) =>
    \A w, m \in Worker :
      pc[w] = "waiting" /\ serving[w] = m /\ pc[m] = "judging" ~> pc[w] # "waiting"
=============================================================================
