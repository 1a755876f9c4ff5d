------------------------ MODULE ProgrammingJudgerProofs ------------------------
(***************************************************************************)
(* Proofs about ProgrammingJudger, for every set of workers, every set of  *)
(* submissions and every task graph: its invariants, and that it           *)
(* implements SubmissionVerdict.                                           *)
(***************************************************************************)
EXTENDS ProgrammingJudger, FiniteSetTheorems, WellFoundedInduction, TLAPS

-----------------------------------------------------------------------------
(* The task graph: the recursion of process() over a graph of any size and *)
(* shape that verify accepts.                                              *)

\* A graph verify accepts: every task depends on an earlier one or on none.
Forward(graph) ==
  \A i \in DOMAIN graph : /\ graph[i] \in JudgeTask
                          /\ i \in Nat
                          /\ graph[i].depends_on < i
                          /\ ~ Entry(graph, i) => graph[i].depends_on \in DOMAIN graph

\* No dependent of a skipped task is ever judged, whatever its condition.
LEMMA SkippedFails ==
  ASSUME NEW cond
  PROVE  ~ Satisfied(cond, "DEPENDENCY_NOT_SATISFIED")
BY DEF Satisfied, Failing

\* A larger set of processed tasks refuses more dependents.
LEMMA RefusedMonotone ==
  ASSUME NEW graph, NEW t, NEW status, NEW S, NEW T, S \subseteq T
  PROVE  Refused(graph, t, status, S) \subseteq Refused(graph, t, status, T)
BY DEF Refused

\* Skipped is contained in every closed set.
LEMMA SkippedLeast ==
  ASSUME NEW graph, NEW t, NEW status, NEW S \in SUBSET (DOMAIN graph),
         Refused(graph, t, status, S) \subseteq S
  PROVE  Skipped(graph, t, status) \subseteq S
BY DEF Skipped

\* The recursion leaves out no dependent that it must skip.
LEMMA SkippedClosed ==
  ASSUME NEW graph, NEW t, NEW status
  PROVE  Refused(graph, t, status, Skipped(graph, t, status))
           \subseteq Skipped(graph, t, status)
<1> DEFINE K == Skipped(graph, t, status)
<1> SUFFICES ASSUME NEW i \in Refused(graph, t, status, K),
                    NEW S \in SUBSET (DOMAIN graph),
                    Refused(graph, t, status, S) \subseteq S
             PROVE  i \in S
  BY DEF Skipped, Refused
<1>1. K \subseteq S
  BY SkippedLeast
<1>2. Refused(graph, t, status, K) \subseteq Refused(graph, t, status, S)
  BY <1>1, RefusedMonotone
<1> QED
  BY <1>2

\* The recursion skips no task without a reason.
LEMMA SkippedSupported ==
  ASSUME NEW graph, NEW t, NEW status
  PROVE  Skipped(graph, t, status)
           \subseteq Refused(graph, t, status, Skipped(graph, t, status))
<1> DEFINE K == Skipped(graph, t, status)
           R == Refused(graph, t, status, K)
<1>1. R \subseteq K
  BY SkippedClosed
<1>2. Refused(graph, t, status, R) \subseteq R
  BY <1>1, RefusedMonotone
<1>3. R \in SUBSET (DOMAIN graph)
  BY DEF Refused
<1> HIDE DEF R, K
<1>4. Skipped(graph, t, status) \subseteq R
  BY <1>2, <1>3, SkippedLeast
<1> QED
  BY <1>4 DEF K, R

\* The recursion only goes forward: it never comes back to the task it started from.
LEMMA SkippedForward ==
  ASSUME NEW graph, Forward(graph), NEW t \in DOMAIN graph, NEW status
  PROVE  \A i \in Skipped(graph, t, status) : i \in DOMAIN graph /\ i > t
<1> DEFINE L == { i \in DOMAIN graph : i > t }
<1>1. Refused(graph, t, status, L) \subseteq L
  BY DEF Refused, Forward, JudgeTask
<1>2. Skipped(graph, t, status) \subseteq L
  <2> L \in SUBSET (DOMAIN graph)
    OBVIOUS
  <2> HIDE DEF L
  <2> QED
    BY <1>1, SkippedLeast
<1> QED
  BY <1>2

\* What is pushed to the queue: the direct dependents whose condition holds.
LEMMA ReleasedDirect ==
  ASSUME NEW graph, NEW t, NEW status
  PROVE  Released(graph, t, status) =
           { i \in DOMAIN graph : /\ graph[i].depends_on = t
                                  /\ Satisfied(graph[i].depends_cond, status) }
BY SkippedFails DEF Released

\* Processing an undecided task reaches undecided tasks only: no status that
\* was given once is overwritten.
LEMMA SkippedUndecided ==
  ASSUME NEW graph, Forward(graph), NEW verdict, NEW t \in DOMAIN graph, NEW status,
         Consistent(graph, verdict), verdict[t] = "PENDING", t \in Nat
  PROVE  \A i \in Skipped(graph, t, status) : verdict[i] = "PENDING"
<1> DEFINE P == { i \in DOMAIN graph : verdict[i] = "PENDING" /\ i > t }
<1>1. ASSUME NEW i \in Refused(graph, t, status, P)
      PROVE  i \in P
  <2>1. /\ i \in DOMAIN graph
        /\ \/ graph[i].depends_on = t
           \/ graph[i].depends_on \in P
    BY DEF Refused
  <2>2. graph[i].depends_on \in DOMAIN graph /\ verdict[graph[i].depends_on] = "PENDING"
    BY <2>1
  <2>3. ~ Entry(graph, i)
    BY <2>2 DEF Forward, Entry
  <2>4. verdict[i] = "PENDING"
    BY <2>1, <2>2, <2>3 DEF Consistent
  <2>5. i > t
    BY <2>1 DEF Forward, JudgeTask
  <2> QED
    BY <2>1, <2>4, <2>5
<1>2. Skipped(graph, t, status) \subseteq P
  <2>1. P \in SUBSET (DOMAIN graph)
    OBVIOUS
  <2> HIDE DEF P
  <2> QED
    BY <1>1, <2>1, SkippedLeast
<1> QED
  BY <1>2

\* The table stays consistent when a ready task t gets a status of its own and
\* everything the recursion reaches is skipped: the least set Skipped is exactly
\* what keeps every dependent in step with its parent.
THEOREM ProcessConsistent ==
  ASSUME NEW graph, Forward(graph), NEW verdict, NEW t \in DOMAIN graph, t \in Nat,
         NEW status, status # "PENDING", status # "DEPENDENCY_NOT_SATISFIED",
         Consistent(graph, verdict), verdict[t] = "PENDING",
         \/ Entry(graph, t)
         \/ /\ verdict[graph[t].depends_on] # "PENDING"
            /\ Satisfied(graph[t].depends_cond, verdict[graph[t].depends_on])
  PROVE  Consistent(graph,
           [j \in DOMAIN graph |->
              IF j = t THEN status
              ELSE IF j \in Skipped(graph, t, status) THEN "DEPENDENCY_NOT_SATISFIED"
              ELSE verdict[j]])
<1> DEFINE K == Skipped(graph, t, status)
           after == [j \in DOMAIN graph |->
                       IF j = t THEN status
                       ELSE IF j \in K THEN "DEPENDENCY_NOT_SATISFIED"
                       ELSE verdict[j]]
<1>1. K \subseteq DOMAIN graph /\ t \notin K
  BY SkippedForward
<1>2. \A i \in K : verdict[i] = "PENDING"
  BY SkippedUndecided
<1>3. \A i \in DOMAIN graph :
        i \in K <=> \/ /\ graph[i].depends_on = t
                       /\ ~ Satisfied(graph[i].depends_cond, status)
                    \/ graph[i].depends_on \in K
  BY SkippedClosed, SkippedSupported, SkippedFails DEF Refused
<1> SUFFICES ASSUME NEW i \in DOMAIN graph, ~ Entry(graph, i),
                    NEW p, p = graph[i].depends_on
             PROVE  IF after[p] = "PENDING" THEN after[i] = "PENDING"
                    ELSE Satisfied(graph[i].depends_cond, after[p])
                           <=> after[i] # "DEPENDENCY_NOT_SATISFIED"
  BY DEF Consistent
<1>4. p \in DOMAIN graph /\ p < i /\ p \in Int /\ i \in Int
  BY DEF Forward, JudgeTask
<1>5. IF verdict[p] = "PENDING" THEN verdict[i] = "PENDING"
      ELSE Satisfied(graph[i].depends_cond, verdict[p])
             <=> verdict[i] # "DEPENDENCY_NOT_SATISFIED"
  BY DEF Consistent
<1> HIDE DEF K
<1>6. CASE p = t
  <2>1. after[p] = status /\ i # t /\ verdict[i] = "PENDING"
    BY <1>6, <1>4, <1>5
  <2>2. i \in K <=> ~ Satisfied(graph[i].depends_cond, status)
    <3>1. graph[i].depends_on = t /\ graph[i].depends_on \notin K
      BY <1>1, <1>6
    <3>. QED  BY <1>3, <3>1
  <2> QED
    BY <2>1, <2>2
<1>7. CASE p \in K
  <2>1. i \in K
    BY <1>3, <1>7
  <2>2. after[p] = "DEPENDENCY_NOT_SATISFIED" /\ after[i] = "DEPENDENCY_NOT_SATISFIED"
    BY <1>1, <1>4, <1>7, <2>1
  <2> QED
    BY <2>2, SkippedFails
<1>8. CASE p # t /\ p \notin K
  <2>1. i \notin K /\ after[p] = verdict[p]
    BY <1>3, <1>4, <1>8
  <2>2. CASE i = t
    <3>1. verdict[p] # "PENDING" /\ Satisfied(graph[i].depends_cond, verdict[p])
      BY <2>2
    <3> QED
      BY <2>1, <2>2, <3>1
  <2>3. CASE i # t
    <3>1. after[i] = verdict[i]
      BY <2>1, <2>3
    <3> QED
      BY <2>1, <3>1, <1>5
  <2> QED
    BY <2>2, <2>3
<1> QED
  BY <1>6, <1>7, <1>8

\* Every nonempty set of natural numbers has a least element.
LEMMA LeastElement ==
  ASSUME NEW S \in SUBSET Nat, S # {}
  PROVE  \E m \in S : \A k \in S : m <= k
<1> DEFINE R == { p \in Nat \X Nat : p[1] < p[2] }
<1>1. IsWellFoundedOn(R, Nat)
  BY NatLessThanWellFounded DEF OpToRel
<1> HIDE DEF R
<1>2. PICK m \in S : \A k \in S : ~ (<<k, m>> \in R)
  BY <1>1, WFMin
<1>3. ASSUME NEW k \in S
      PROVE  m <= k
  <2>1. k \in Nat /\ m \in Nat
    OBVIOUS
  <2>2. <<k, m>> \notin R
    BY <1>2
  <2>3. ~ (k < m)
    BY <2>1, <2>2 DEF R
  <2> QED
    BY <2>1, <2>3
<1> QED
  BY <1>3

-----------------------------------------------------------------------------
(* The inductive invariant.                                                *)

Started == phase \in { "judging", "finished" }

\* The parent of task i, if it has one, lets it be judged.
Ready(i) ==
  \/ Entry(tasks, i)
  \/ /\ results[tasks[i].depends_on] # "PENDING"
     /\ Satisfied(tasks[i].depends_cond, results[tasks[i].depends_on])

\* The three places where the one copy of a task can be, and the lack of it.
InDistribute(i) == i \in unsent /\ queued[i] = 0 /\ running[i] = {}
InQueue(i) == i \notin unsent /\ queued[i] = 1 /\ running[i] = {}
WithWorker(i) == i \notin unsent /\ queued[i] = 0 /\ \E w \in Worker : running[i] = {w}
Nowhere(i) == i \notin unsent /\ queued[i] = 0 /\ running[i] = {}

OneCopy ==
  \A i \in Task :
    IF results[i] = "PENDING" /\ Ready(i)
    THEN InDistribute(i) \/ InQueue(i) \/ WithWorker(i)
    ELSE Nowhere(i)

Counted ==
  /\ finished = Cardinality(Task \ Undecided)
  /\ summaries = finished
  /\ finals = IF phase = "finished" THEN 1 ELSE 0
  /\ phase = "finished" <=> Undecided = {}

Types ==
  /\ sub \in Submissions
  /\ phase \in { "fetched", "invalid", "judging", "finished" }
  /\ unsent \subseteq Task
  /\ Started => /\ results \in [Task -> Status]
                /\ queued \in [Task -> Nat]
                /\ running \in [Task -> SUBSET Worker]
  /\ ~ Started => /\ results = <<>> /\ queued = <<>> /\ running = <<>>
                  /\ unsent = {}
                  /\ finished = 0 /\ summaries = 0 /\ finals = 0

IInv ==
  /\ Types
  /\ Started => /\ Verified(sub)
                /\ Consistent(tasks, results)
                /\ OneCopy
                /\ Counted

-----------------------------------------------------------------------------
(* What every submission looks like.                                       *)

\* The tasks of a submission are finitely many and numbered from zero.
LEMMA TasksFinite ==
  ASSUME Types
  PROVE  /\ IsFiniteSet(Task)
         /\ Task \subseteq Nat
         /\ \A i \in Task : tasks[i] \in JudgeTask
         /\ \A i, j \in Task : j \in Nat /\ (j < i => j \in Task)
         /\ \A i \in Task, p \in Nat : p < i => p \in Task
<1>1. PICK n \in 0 .. MaxTasks : sub.judge_tasks \in [0 .. n - 1 -> JudgeTask]
  BY SubmissionsAssumption DEF Types, IsSubmission
<1>2. n \in Nat
  BY SubmissionsAssumption, <1>1
<1>3. Task = 0 .. n - 1
  BY <1>1 DEF Task
<1>4. IsFiniteSet(0 .. n - 1)
  BY <1>2, FS_Interval
<1> QED
  BY <1>1, <1>2, <1>3, <1>4 DEF tasks

\* The graph of a verified submission runs forward.
LEMMA VerifiedForward ==
  ASSUME Types, Verified(sub)
  PROVE  Forward(tasks) /\ DOMAIN tasks = Task
<1>1. DOMAIN tasks = Task
  BY DEF tasks, Task
<1> SUFFICES ASSUME NEW i \in Task
             PROVE  /\ tasks[i] \in JudgeTask
                    /\ i \in Nat
                    /\ tasks[i].depends_on < i
                    /\ ~ Entry(tasks, i) => tasks[i].depends_on \in Task
  BY <1>1 DEF Forward
<1>2. tasks[i] \in JudgeTask /\ i \in Nat
  BY TasksFinite
<1>3. tasks[i].depends_on < i
  BY <1>1 DEF Verified, tasks
<1>4. ~ Entry(tasks, i) => tasks[i].depends_on \in Nat
  BY <1>2 DEF Entry, JudgeTask
<1> QED
  BY <1>2, <1>3, <1>4, TasksFinite

\* Every status a judged task ends with is a final status of its own.
LEMMA OutcomeStatus ==
  ASSUME NEW task, NEW status \in Outcome(task)
  PROVE  status \in Status /\ status # "PENDING" /\ status # "DEPENDENCY_NOT_SATISFIED"
BY DEF Outcome, CompileOutcome, CheckOutcome, Status

-----------------------------------------------------------------------------
(* The invariant holds initially and every step preserves it.              *)

LEMMA InitInv == Init => IInv
BY DEF Init, IInv, Types, Started

LEMMA RefuseInv == IInv /\ Refuse => IInv'
BY DEF Refuse, IInv, Types, Started, Task

LEMMA AcceptInv == IInv /\ Accept => IInv'
<1> SUFFICES ASSUME IInv, Accept
             PROVE  IInv'
  OBVIOUS
<1>1. Types /\ Verified(sub) /\ sub' = sub /\ phase' = "judging"
      /\ Task' = Task /\ tasks' = tasks /\ finished = 0 /\ summaries = 0 /\ finals = 0
  BY DEF IInv, Types, Started, Accept, Task, tasks
<1>2. Forward(tasks) /\ DOMAIN tasks = Task
  BY <1>1, VerifiedForward
<1>3. \A i \in Task : results'[i] = "PENDING"
  BY DEF Accept
<1>4. Types'
  BY <1>1 DEF Types, Accept, Started, Status, Task
<1>5. Consistent(tasks, results')
  BY <1>2, <1>3 DEF Consistent, Forward
<1>6. OneCopy'
  <2> SUFFICES ASSUME NEW i \in Task
               PROVE  IF Ready(i)' THEN InDistribute(i)' ELSE Nowhere(i)'
    BY <1>1, <1>3 DEF OneCopy
  <2>1. Ready(i)' <=> Entry(tasks, i)
    BY <1>1, <1>2, <1>3 DEF Ready, Forward
  <2>2. (i \in unsent') <=> Entry(tasks, i)
    BY DEF Accept
  <2>3. queued'[i] = 0 /\ running'[i] = {}
    BY DEF Accept
  <2> QED
    BY <2>1, <2>2, <2>3 DEF InDistribute, Nowhere
<1>7. Counted'
  <2>1. Undecided' = Task
    BY <1>1, <1>3 DEF Undecided
  <2>2. Task # {}
    BY <1>1 DEF Verified, Task
  <2>3. Cardinality({}) = 0
    BY FS_EmptySet
  <2>4. finished' = 0 /\ summaries' = 0 /\ finals' = 0
    BY <1>1 DEF Accept
  <2>5. Task' \ Undecided' = {}
    BY <2>1, <1>1
  <2> QED
    BY <1>1, <2>1, <2>2, <2>3, <2>4, <2>5 DEF Counted
<1> QED
  BY <1>1, <1>4, <1>5, <1>6, <1>7 DEF IInv

\* A task in a place is in it as the only copy: it is undecided and ready.
LEMMA CopyReady ==
  ASSUME IInv, Started, NEW i \in Task, ~ Nowhere(i)
  PROVE  /\ results[i] = "PENDING" /\ Ready(i)
         /\ InDistribute(i) \/ InQueue(i) \/ WithWorker(i)
BY DEF IInv, OneCopy

LEMMA DistributeInv == IInv /\ Distribute => IInv'
<1> SUFFICES ASSUME IInv, NEW i \in unsent,
                    unsent' = unsent \ {i},
                    queued' = [queued EXCEPT ![i] = @ + 1],
                    UNCHANGED <<sub, phase, results, finished, running, summaries, finals>>
             PROVE  IInv'
  BY DEF Distribute
<1>1. Started /\ i \in Task /\ queued \in [Task -> Nat]
  BY DEF IInv, Types
<1>2. Task' = Task /\ tasks' = tasks /\ Undecided' = Undecided /\ Started'
  BY <1>1 DEF Task, tasks, Undecided, Started
<1>3. InDistribute(i) /\ results[i] = "PENDING" /\ Ready(i)
  BY <1>1, CopyReady DEF Nowhere, InDistribute, InQueue, WithWorker
<1>4. Types'
  BY <1>1, <1>2 DEF IInv, Types, Started
<1>5. OneCopy'
  <2> SUFFICES ASSUME NEW j \in Task
               PROVE  IF results[j] = "PENDING" /\ Ready(j)
                      THEN InDistribute(j)' \/ InQueue(j)' \/ WithWorker(j)'
                      ELSE Nowhere(j)'
    BY <1>2 DEF OneCopy, Ready
  <2>1. CASE j = i
    BY <2>1, <1>1, <1>3 DEF InDistribute, InQueue
  <2>2. CASE j # i
    <3>1. queued'[j] = queued[j] /\ running'[j] = running[j] /\ (j \in unsent' <=> j \in unsent)
      BY <2>2, <1>1
    <3> QED
      BY <1>1, <3>1 DEF IInv, OneCopy, InDistribute, InQueue, WithWorker, Nowhere
  <2> QED
    BY <2>1, <2>2
<1>6. Counted'
  BY <1>1, <1>2 DEF IInv, Counted
<1> QED
  BY <1>1, <1>2, <1>4, <1>5, <1>6 DEF IInv

LEMMA PopInv == ASSUME NEW w \in Worker PROVE IInv /\ Pop(w) => IInv'
<1> SUFFICES ASSUME IInv, NEW i \in DOMAIN queued,
                    queued[i] > 0,
                    queued' = [queued EXCEPT ![i] = @ - 1],
                    running' = [running EXCEPT ![i] = @ \cup {w}],
                    UNCHANGED <<sub, phase, results, finished, unsent, summaries, finals>>
             PROVE  IInv'
  BY DEF Pop
<1>1. Started /\ i \in Task /\ queued \in [Task -> Nat] /\ running \in [Task -> SUBSET Worker]
  BY DEF IInv, Types
<1>2. Task' = Task /\ tasks' = tasks /\ Undecided' = Undecided /\ Started'
  BY <1>1 DEF Task, tasks, Undecided, Started
<1>3. InQueue(i) /\ results[i] = "PENDING" /\ Ready(i)
  BY <1>1, CopyReady DEF Nowhere, InDistribute, InQueue, WithWorker
<1>4. queued'[i] = 0 /\ running'[i] = {w}
  BY <1>1, <1>3 DEF InQueue
<1>5. Types'
  <2>1. queued' \in [Task -> Nat]
    BY <1>1, <1>4
  <2>2. running' \in [Task -> SUBSET Worker]
    BY <1>1
  <2> QED
    BY <1>1, <1>2, <2>1, <2>2 DEF IInv, Types, Started
<1>6. OneCopy'
  <2> SUFFICES ASSUME NEW j \in Task
               PROVE  IF results[j] = "PENDING" /\ Ready(j)
                      THEN InDistribute(j)' \/ InQueue(j)' \/ WithWorker(j)'
                      ELSE Nowhere(j)'
    BY <1>2 DEF OneCopy, Ready
  <2>1. CASE j = i
    BY <2>1, <1>3, <1>4 DEF InQueue, WithWorker
  <2>2. CASE j # i
    <3>1. queued'[j] = queued[j] /\ running'[j] = running[j] /\ (j \in unsent' <=> j \in unsent)
      BY <2>2, <1>1
    <3> QED
      BY <1>1, <3>1 DEF IInv, OneCopy, InDistribute, InQueue, WithWorker, Nowhere
  <2> QED
    BY <2>1, <2>2
<1>7. Counted'
  BY <1>1, <1>2 DEF IInv, Counted
<1> QED
  BY <1>1, <1>2, <1>5, <1>6, <1>7 DEF IInv

\* The step of a worker that processes its verdict.
LEMMA ProcessInv ==
  ASSUME NEW w \in Worker, NEW i \in DOMAIN running,
         NEW status \in Outcome(tasks[i]), IInv, Process(w, i, status)
  PROVE  /\ IInv'
         /\ phase = "judging" /\ Started' /\ sub' = sub
         /\ i \in Task /\ results[i] = "PENDING" /\ results'[i] # "PENDING"
         /\ \A j \in Task : results[j] # "PENDING" => results'[j] = results[j]
<1> DEFINE K == Skipped(tasks, i, status)
           R == Released(tasks, i, status)
           count == 1 + Cardinality(K)
           last == finished < Cardinality(Task) /\ finished + count >= Cardinality(Task)
<1>1. /\ Started /\ i \in Task /\ i \in Nat /\ Types
      /\ queued \in [Task -> Nat] /\ running \in [Task -> SUBSET Worker]
      /\ results \in [Task -> Status]
  BY TasksFinite DEF IInv, Types
<1>2. Forward(tasks) /\ DOMAIN tasks = Task
  BY <1>1, VerifiedForward DEF IInv
<1>3. WithWorker(i) /\ running[i] = {w} /\ results[i] = "PENDING" /\ Ready(i)
  BY <1>1, CopyReady DEF Process, Nowhere, InDistribute, InQueue, WithWorker
<1>4. /\ status \in Status /\ status # "PENDING" /\ status # "DEPENDENCY_NOT_SATISFIED"
  BY OutcomeStatus
<1>5. /\ K \subseteq Task /\ i \notin K
      /\ \A j \in K : results[j] = "PENDING"
  BY <1>1, <1>2, <1>3, SkippedForward, SkippedUndecided DEF IInv
<1>6. \A j \in Task :
        j \in K <=> \/ /\ tasks[j].depends_on = i
                       /\ ~ Satisfied(tasks[j].depends_cond, status)
                    \/ tasks[j].depends_on \in K
  BY <1>2, SkippedClosed, SkippedSupported, SkippedFails DEF Refused
<1>7. R = { j \in Task : tasks[j].depends_on = i /\ Satisfied(tasks[j].depends_cond, status) }
  BY <1>2, ReleasedDirect
<1>8. /\ Task' = Task /\ tasks' = tasks /\ sub' = sub /\ unsent' = unsent
      /\ results' = [j \in Task |-> IF j = i THEN status
                                    ELSE IF j \in K THEN "DEPENDENCY_NOT_SATISFIED"
                                    ELSE results[j]]
      /\ queued' = [j \in Task |-> IF j \in R THEN queued[j] + 1 ELSE queued[j]]
      /\ running' = [running EXCEPT ![i] = @ \ {w}]
  BY DEF Process, Task, tasks
<1>9. /\ finished' = finished + count /\ summaries' = summaries + count
      /\ finals' = IF last THEN finals + 1 ELSE finals
      /\ phase' = IF last THEN "finished" ELSE phase
  BY DEF Process
<1> HIDE DEF K, R, count, last
<1>10. Consistent(tasks, results')
  <2>1. \/ Entry(tasks, i)
        \/ /\ results[tasks[i].depends_on] # "PENDING"
           /\ Satisfied(tasks[i].depends_cond, results[tasks[i].depends_on])
    BY <1>3 DEF Ready
  <2> QED
    BY <1>1, <1>2, <1>3, <1>4, <1>8, <2>1, ProcessConsistent DEF IInv, K
<1>11. results' \in [Task -> Status] /\ queued' \in [Task -> Nat]
       /\ running' \in [Task -> SUBSET Worker]
  BY <1>1, <1>4, <1>8 DEF Status
<1>12. Undecided' = Undecided \ ({i} \cup K)
  BY <1>4, <1>5, <1>8 DEF Undecided
<1>13. i \in Undecided /\ K \subseteq Undecided /\ Undecided \subseteq Task
  BY <1>1, <1>3, <1>5 DEF Undecided
<1>14. phase = "judging" /\ finals = 0 /\ finished = Cardinality(Task \ Undecided)
       /\ summaries = finished
  BY <1>1, <1>13 DEF IInv, Counted, Started
<1>15. /\ finished \in Nat /\ count \in Nat
       /\ Cardinality(Task \ Undecided') = finished + count
       /\ Cardinality(Task) \in Nat
       /\ finished < Cardinality(Task)
       /\ Undecided' = {} <=> finished + count >= Cardinality(Task)
  <2> DEFINE D == Task \ Undecided
             E == Task \ Undecided'
  <2>1. IsFiniteSet(Task) /\ Cardinality(Task) \in Nat
    BY <1>1, TasksFinite, FS_CardinalityType
  <2>2. D \in SUBSET Task /\ E \in SUBSET Task /\ K \in SUBSET Task
    BY <1>5
  <2> HIDE DEF D, E
  <2>3. IsFiniteSet(D) /\ IsFiniteSet(E) /\ IsFiniteSet(K)
        /\ Cardinality(D) <= Cardinality(Task) /\ Cardinality(E) <= Cardinality(Task)
        /\ (Cardinality(Task) = Cardinality(D) => Task = D)
        /\ (Cardinality(Task) = Cardinality(E) => Task = E)
    BY <2>1, <2>2, FS_Subset
  <2>4. Cardinality(D) \in Nat /\ Cardinality(E) \in Nat /\ Cardinality(K) \in Nat
    BY <2>3, FS_CardinalityType
  <2>5. IsFiniteSet(D \cup {i}) /\ Cardinality(D \cup {i}) = Cardinality(D) + 1
    <3>1. i \notin D
      BY <1>13 DEF D
    <3> QED
      BY <2>3, <3>1, FS_AddElement
  <2>6. E = (D \cup {i}) \cup K
    BY <1>12, <1>13 DEF D, E
  <2>7. (D \cup {i}) \cap K = {}
    BY <1>5, <1>13 DEF D
  <2>8. Cardinality(E) = Cardinality(D \cup {i}) + Cardinality(K)
    <3>1. Cardinality((D \cup {i}) \cap K) = 0
      BY <2>7, FS_EmptySet
    <3>2. Cardinality((D \cup {i}) \cup K)
            = Cardinality(D \cup {i}) + Cardinality(K) - Cardinality((D \cup {i}) \cap K)
      BY <2>3, <2>5, FS_Union
    <3> QED
      BY <2>4, <2>5, <2>6, <3>1, <3>2
  <2>9. D # Task
    BY <1>13 DEF D
  <2>10. Undecided' = {} <=> E = Task
    BY <1>12, <1>13 DEF E
  <2>11. finished = Cardinality(D)
    BY <1>14 DEF D
  <2>12. count = 1 + Cardinality(K)
    BY DEF count
  <2>13. Cardinality(E) = finished + count
    BY <2>4, <2>5, <2>8, <2>11, <2>12
  <2>14. finished < Cardinality(Task)
    BY <2>1, <2>3, <2>4, <2>9, <2>11
  <2>15. E = Task <=> finished + count >= Cardinality(Task)
    BY <2>1, <2>3, <2>4, <2>13
  <2> QED
    BY <2>1, <2>4, <2>10, <2>11, <2>12, <2>13, <2>14, <2>15 DEF E
<1>16. last <=> Undecided' = {}
  BY <1>15 DEF last
<1>17. Started' /\ (phase' = "finished" <=> Undecided' = {})
       /\ phase' \in { "judging", "finished" }
  BY <1>9, <1>14, <1>16 DEF Started
<1>18. Types'
  BY <1>1, <1>8, <1>11, <1>17 DEF Types, Started
<1>19. Counted'
  BY <1>8, <1>9, <1>14, <1>15, <1>16, <1>17 DEF Counted
<1>20. OneCopy'
  <2> SUFFICES ASSUME NEW j \in Task
               PROVE  IF results'[j] = "PENDING" /\ Ready(j)'
                      THEN InDistribute(j)' \/ InQueue(j)' \/ WithWorker(j)'
                      ELSE Nowhere(j)'
    BY <1>8 DEF OneCopy
  <2>1. CASE j = i
    <3>1. i \notin R
      BY <1>2, <1>7 DEF Forward, JudgeTask
    <3>2. queued'[i] = 0 /\ running'[i] = {} /\ i \notin unsent'
      BY <1>1, <1>3, <1>8, <3>1 DEF WithWorker
    <3>3. results'[i] # "PENDING"
      BY <1>1, <1>4, <1>8
    <3> QED
      BY <2>1, <3>2, <3>3 DEF Nowhere
  <2>2. CASE j # i /\ tasks[j].depends_on \in K \cup {i}
    <3>1. results[tasks[j].depends_on] = "PENDING" /\ tasks[j].depends_on \in Task
      BY <1>1, <1>3, <1>5, <2>2
    <3>2. ~ Entry(tasks, j)
      BY <1>1, <1>5, <3>1, TasksFinite DEF Entry
    <3>3. results[j] = "PENDING"
      BY <1>1, <1>2, <3>1, <3>2 DEF IInv, Consistent
    <3>4. Nowhere(j)
      BY <1>1, <3>1, <3>2 DEF IInv, OneCopy, Ready
    <3>5. running'[j] = {} /\ j \notin unsent'
      BY <1>1, <1>8, <2>2, <3>4 DEF Nowhere
    <3>6. CASE j \in K
      <4>1. j \notin R
        BY <1>5, <1>6, <1>7, <3>6
      <4>2. queued'[j] = 0 /\ results'[j] # "PENDING"
        BY <1>8, <2>2, <3>4, <3>6, <4>1 DEF Nowhere
      <4> QED
        BY <3>5, <4>2 DEF Nowhere
    <3>7. CASE j \notin K
      <4>1. tasks[j].depends_on = i /\ Satisfied(tasks[j].depends_cond, status)
        BY <1>6, <2>2, <3>7
      <4>2. j \in R
        BY <1>7, <4>1
      <4>3. queued'[j] = 1 /\ results'[j] = "PENDING"
        BY <1>8, <2>2, <3>3, <3>4, <3>7, <4>2 DEF Nowhere
      <4>4. Ready(j)'
        BY <1>1, <1>4, <1>8, <4>1 DEF Ready
      <4> QED
        BY <3>5, <4>3, <4>4 DEF InQueue
    <3> QED
      BY <3>6, <3>7
  <2>3. CASE j # i /\ tasks[j].depends_on \notin K \cup {i}
    <3>1. j \notin K /\ j \notin R
      BY <1>6, <1>7, <2>3
    <3>2. results'[j] = results[j] /\ queued'[j] = queued[j] /\ running'[j] = running[j]
      BY <1>1, <1>8, <2>3, <3>1
    <3>3. ~ Entry(tasks, j) => results'[tasks[j].depends_on] = results[tasks[j].depends_on]
      BY <1>2, <1>8, <2>3 DEF Forward
    <3>4. Ready(j)' <=> Ready(j)
      BY <1>8, <3>3 DEF Ready
    <3> QED
      BY <1>1, <1>8, <3>2, <3>4
         DEF IInv, OneCopy, InDistribute, InQueue, WithWorker, Nowhere
  <2> QED
    BY <2>1, <2>2, <2>3
<1>21. Verified(sub)'
  BY <1>1, <1>8 DEF IInv, Verified
<1>22. IInv'
  BY <1>8, <1>10, <1>17, <1>18, <1>19, <1>20, <1>21 DEF IInv
<1>23. results'[i] = status /\ \A j \in Task : results[j] # "PENDING" => results'[j] = results[j]
  BY <1>1, <1>3, <1>5, <1>8
<1> QED
  BY <1>1, <1>3, <1>4, <1>8, <1>14, <1>17, <1>22, <1>23

\* The strengthened invariant holds in every reachable state.
THEOREM Invariance == Spec => []IInv
<1>1. Init => IInv
  BY InitInv
<1>2. IInv /\ [Next]_vars => IInv'
  <2> SUFFICES ASSUME IInv, [Next]_vars
               PROVE  IInv'
    OBVIOUS
  <2>1. CASE Refuse
    BY <2>1, RefuseInv
  <2>2. CASE Accept
    BY <2>2, AcceptInv
  <2>3. CASE Distribute
    BY <2>3, DistributeInv
  <2>4. ASSUME NEW w \in Worker, Pop(w)
        PROVE  IInv'
    BY <2>4, PopInv
  <2>5. ASSUME NEW w \in Worker, Judged(w)
        PROVE  IInv'
    BY <2>5, ProcessInv DEF Judged
  <2>6. CASE UNCHANGED vars
    BY <2>6 DEF vars, IInv, Types, Started, OneCopy, Counted, Undecided, Task, tasks,
                Ready, InDistribute, InQueue, WithWorker, Nowhere
  <2> QED
    BY <2>1, <2>2, <2>3, <2>4, <2>5, <2>6 DEF Next
<1> QED
  BY <1>1, <1>2, PTL DEF Spec

-----------------------------------------------------------------------------
(* The properties the runs check.                                          *)

\* Where the copies of a task are, as numbers.
LEMMA CopiesCount ==
  ASSUME IInv, Started, NEW i \in Task
  PROVE  /\ Nowhere(i) => Copies(i) = 0
         /\ InDistribute(i) \/ InQueue(i) \/ WithWorker(i) => Copies(i) = 1
<1>1. Cardinality({}) = 0 /\ \A w : Cardinality({w}) = 1
  BY FS_EmptySet, FS_Singleton
<1>2. Nowhere(i) => Copies(i) = 0
  BY <1>1 DEF Nowhere, Copies
<1>3. InDistribute(i) => Copies(i) = 1
  BY <1>1 DEF InDistribute, Copies
<1>4. InQueue(i) => Copies(i) = 1
  BY <1>1 DEF InQueue, Copies
<1>5. ASSUME WithWorker(i)
      PROVE  Copies(i) = 1
  <2>1. PICK w \in Worker : running[i] = {w}
    BY <1>5 DEF WithWorker
  <2>2. Cardinality(running[i]) = 1
    BY <1>1, <2>1
  <2>3. i \notin unsent /\ queued[i] = 0
    BY <1>5 DEF WithWorker
  <2> QED
    BY <2>2, <2>3 DEF Copies
<1> QED
  BY <1>2, <1>3, <1>4, <1>5

\* Every counter stays within the number of tasks and every table has its type.
THEOREM TypeCorrect == Spec => []TypeOK
<1>1. ASSUME IInv
      PROVE  TypeOK
  <2>1. IsFiniteSet(Task) /\ IsSubmission(sub)
    BY <1>1, TasksFinite, SubmissionsAssumption DEF IInv, Types
  <2>2. Cardinality(Task) \in Nat /\ Cardinality(Task \ Undecided) \in 0 .. Cardinality(Task)
    <3>1. Task \ Undecided \in SUBSET Task
      OBVIOUS
    <3>2. IsFiniteSet(Task \ Undecided) /\ Cardinality(Task \ Undecided) <= Cardinality(Task)
      BY <2>1, <3>1, FS_Subset
    <3> QED
      BY <2>1, <3>2, FS_CardinalityType
  <2>3. CASE Started
    BY <1>1, <2>1, <2>2, <2>3 DEF IInv, Types, Counted, TypeOK, Started
  <2>4. CASE ~ Started
    BY <1>1, <2>1, <2>2, <2>4 DEF IInv, Types, TypeOK, Started
  <2> QED
    BY <2>3, <2>4
<1> QED
  BY <1>1, Invariance, PTL

\* A task is judged at most once, and only after its parent did well enough.
THEOREM EveryTaskJudgedOnce == Spec => []JudgedOnce
<1>1. ASSUME IInv
      PROVE  JudgedOnce
  <2> SUFFICES ASSUME Started, NEW i \in Task
               PROVE  Copies(i) = IF results[i] = "PENDING" /\ Ready(i) THEN 1 ELSE 0
    BY DEF JudgedOnce, Started, Ready
  <2> QED
    BY <1>1, CopiesCount DEF IInv, OneCopy
<1> QED
  BY <1>1, Invariance, PTL

\* Whatever the graph, a submission under judgement has a task on its way.
THEOREM NeverStranded == Spec => []NotStranded
<1>1. ASSUME IInv, phase = "judging"
      PROVE  \E i \in Task : Copies(i) > 0
  <2>1. Started /\ Verified(sub) /\ Types /\ Undecided # {} /\ Undecided \subseteq Task
    BY <1>1 DEF IInv, Counted, Started, Undecided
  <2>2. Task \subseteq Nat /\ Forward(tasks) /\ DOMAIN tasks = Task
    BY <2>1, TasksFinite, VerifiedForward
  <2>3. PICK i \in Undecided : \A j \in Undecided : i <= j
    BY <2>1, <2>2, LeastElement
  <2>4. Ready(i)
    <3>1. CASE Entry(tasks, i)
      BY <3>1 DEF Ready
    <3>2. CASE ~ Entry(tasks, i)
      <4>1. tasks[i].depends_on \in Task /\ tasks[i].depends_on < i
        BY <2>1, <2>2, <3>2 DEF Forward
      <4>2. results[tasks[i].depends_on] # "PENDING"
        <5>1. i \in Int /\ tasks[i].depends_on \in Int
          <6>1. i \in Task
            BY <2>1, <2>3
          <6>2. Task \subseteq Int
            BY <2>2
          <6> QED
            BY <4>1, <6>1, <6>2
        <5>2. tasks[i].depends_on \notin Undecided
          BY <2>3, <4>1, <5>1
        <5> QED
          BY <4>1, <5>2 DEF Undecided
      <4>3. results[i] # "DEPENDENCY_NOT_SATISFIED"
        BY <2>3 DEF Undecided
      <4>4. Satisfied(tasks[i].depends_cond, results[tasks[i].depends_on])
        BY <1>1, <2>1, <2>2, <3>2, <4>2, <4>3 DEF IInv, Consistent
      <4> QED
        BY <4>2, <4>4 DEF Ready
    <3> QED
      BY <3>1, <3>2
  <2>5. Copies(i) = 1
    BY <1>1, <2>1, <2>3, <2>4, CopiesCount DEF IInv, OneCopy, Undecided
  <2> QED
    BY <2>1, <2>5
<1>2. IInv => NotStranded
  BY <1>1 DEF NotStranded
<1> QED
  BY <1>2, Invariance, PTL

\* The server gets one summary for each task that is decided, and exactly one final
\* summary, when nothing is left to do.
THEOREM OneFinalSummary == Spec => []FinalSummary
<1>1. ASSUME IInv
      PROVE  FinalSummary
  <2>1. CASE phase = "finished"
    <3>1. /\ Started /\ Undecided = {} /\ finals = 1
          /\ finished = Cardinality(Task \ Undecided) /\ summaries = finished
      BY <1>1, <2>1 DEF IInv, Counted, Started
    <3>2. ASSUME NEW i \in Task
          PROVE  Copies(i) = 0
      BY <1>1, <3>1, CopiesCount DEF IInv, OneCopy, Undecided
    <3> QED
      BY <2>1, <3>1, <3>2 DEF FinalSummary
  <2>2. CASE phase = "judging"
    <3>1. /\ Types /\ finals = 0 /\ Undecided # {}
          /\ finished = Cardinality(Task \ Undecided) /\ summaries = finished
      BY <1>1, <2>2 DEF IInv, Counted, Started
    <3>2. Task \ Undecided \in SUBSET Task /\ Task \ Undecided # Task
      BY <3>1 DEF Undecided
    <3>3. IsFiniteSet(Task) /\ IsFiniteSet(Task \ Undecided)
          /\ Cardinality(Task \ Undecided) <= Cardinality(Task)
          /\ Cardinality(Task \ Undecided) # Cardinality(Task)
      BY <3>1, <3>2, TasksFinite, FS_Subset
    <3>4. Cardinality(Task) \in Nat /\ Cardinality(Task \ Undecided) \in Nat
      BY <3>3, FS_CardinalityType
    <3> QED
      BY <2>2, <3>1, <3>3, <3>4 DEF FinalSummary
  <2>3. CASE phase \notin { "judging", "finished" }
    BY <1>1, <2>3 DEF IInv, Types, Started, FinalSummary
  <2> QED
    BY <2>1, <2>2, <2>3
<1> QED
  BY <1>1, Invariance, PTL

-----------------------------------------------------------------------------
(* The refinement: workers, queue and counters forgotten, what is left is  *)
(* a behaviour of SubmissionVerdict.                                       *)

\* The instance of SubmissionVerdict has copies of the definitions of TaskGraph.
LEMMA SameGraph ==
  /\ \A s : Abstract!Verified(s) <=> Verified(s)
  /\ \A t, r : Abstract!Consistent(t, r) <=> Consistent(t, r)
  /\ Abstract!Status = Status
  /\ \A r : Abstract!Undecided(r) = { i \in DOMAIN r : r[i] = "PENDING" }
<1>1. ASSUME NEW s
      PROVE  Abstract!Verified(s) <=> Verified(s)
  BY DEF Abstract!Verified, Verified, Abstract!Entry, Entry, Abstract!IsCompile, IsCompile
<1>2. \A c, q : Abstract!Satisfied(c, q) <=> Satisfied(c, q)
  BY DEF Abstract!Satisfied, Satisfied, Abstract!Failing, Failing
<1>3. ASSUME NEW t, NEW r
      PROVE  Abstract!Consistent(t, r) <=> Consistent(t, r)
  BY <1>2 DEF Abstract!Consistent, Consistent, Abstract!Entry, Entry
<1>4. Abstract!Status = Status
  BY DEF Abstract!Status, Status
<1>5. \A r : Abstract!Undecided(r) = { i \in DOMAIN r : r[i] = "PENDING" }
  BY DEF Abstract!Undecided
<1> QED
  BY <1>1, <1>3, <1>4, <1>5

\* A worker that processes its verdict decides one or more tasks.
LEMMA ProcessDecides ==
  ASSUME IInv, NEW w \in Worker, Judged(w)
  PROVE  Abstract!Decide
<1>0. PICK i \in DOMAIN running :
        \E status \in Outcome(tasks[i]) \cap Verdict : Process(w, i, status)
  BY DEF Judged
<1>1. PICK status \in Outcome(tasks[i]) : Process(w, i, status)
  BY <1>0
<1>2. /\ IInv' /\ phase = "judging" /\ Started' /\ sub' = sub
      /\ i \in Task /\ results[i] = "PENDING" /\ results'[i] # "PENDING"
      /\ \A j \in Task : results[j] # "PENDING" => results'[j] = results[j]
  BY <1>1, ProcessInv
<1>3. Task' = Task /\ tasks' = tasks /\ Task = DOMAIN sub.judge_tasks
      /\ tasks = sub.judge_tasks
  BY <1>2 DEF Task, tasks
<1>4. results' \in [Task -> Status]
  BY <1>2, <1>3 DEF IInv, Types
<1>5. Consistent(tasks, results')
  BY <1>2, <1>3 DEF IInv
<1>6. Undecided' = { j \in DOMAIN results' : results'[j] = "PENDING" }
  BY <1>3, <1>4 DEF Undecided
<1>7. phase' = IF Undecided' = {} THEN "finished" ELSE "judging"
  BY <1>2 DEF IInv, Counted, Started
<1>8. phase' = IF Abstract!Undecided(results') = {} THEN "finished" ELSE "judging"
  BY <1>6, <1>7, SameGraph
<1>9. results' # results
  BY <1>2
<1>10. /\ results' \in [DOMAIN sub.judge_tasks -> Abstract!Status]
       /\ Abstract!Consistent(sub.judge_tasks, results')
       /\ \A j \in DOMAIN sub.judge_tasks : results[j] # "PENDING" => results'[j] = results[j]
  BY <1>2, <1>3, <1>4, <1>5, SameGraph
<1> QED
  BY <1>2, <1>8, <1>9, <1>10 DEF Abstract!Decide

\* The workers implement what the judger promises about a submission.
THEOREM ImplementsVerdict == Spec => Implements
<1>1. Init => Abstract!Init
  BY DEF Init, Abstract!Init
<1>2. IInv /\ [Next]_vars => [Abstract!Next]_(Abstract!vars)
  <2> SUFFICES ASSUME IInv, [Next]_vars
               PROVE  Abstract!Next \/ UNCHANGED <<sub, phase, results>>
    BY DEF Abstract!vars
  <2>1. CASE Refuse
    <3>1. Abstract!Reject
      BY <2>1, SameGraph DEF Refuse, Abstract!Reject
    <3> QED
      BY <3>1 DEF Abstract!Next
  <2>2. CASE Accept
    <3>1. Abstract!Accept
      BY <2>2, SameGraph DEF Accept, Abstract!Accept, Task
    <3> QED
      BY <3>1 DEF Abstract!Next
  <2>3. CASE Distribute
    BY <2>3 DEF Distribute
  <2>4. ASSUME NEW w \in Worker, Pop(w)
        PROVE  UNCHANGED <<sub, phase, results>>
    BY <2>4 DEF Pop
  <2>5. ASSUME NEW w \in Worker, Judged(w)
        PROVE  Abstract!Next
    BY <2>5, ProcessDecides DEF Abstract!Next
  <2>6. CASE UNCHANGED vars
    BY <2>6 DEF vars
  <2> QED
    BY <2>1, <2>2, <2>3, <2>4, <2>5, <2>6 DEF Next
<1> QED
  BY <1>1, <1>2, Invariance, PTL DEF Spec, Implements, Abstract!Spec

=============================================================================
