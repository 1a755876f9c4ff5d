--------------------------- MODULE WorkerPoolProofs ---------------------------
(***************************************************************************)
(* Theorems of WorkerPool, with their proofs, for any workers, submissions *)
(* and task graphs, any number of judge servers and whatever they hand     *)
(* over.                                                                   *)
(*                                                                         *)
(* No pointer to a submission is counted anywhere.  What keeps it from     *)
(* being released too early is that a task has one copy on its way exactly *)
(* while it is undecided and may be judged (Accounted), and that the       *)
(* worker that hands out the first copies has server_mutex (Life).  What   *)
(* keeps workers from leaving something behind is that whoever adds to the *)
(* queue looks at the queue again before it stops (Attended).              *)
(***************************************************************************)
EXTENDS WorkerPool, FiniteSetTheorems, WellFoundedInduction, TLAPS

-----------------------------------------------------------------------------
(* The task graph: the recursion of process() over a graph of any size and *)
(* shape that verify accepts.                                              *)

\* A graph verify accepts: every task depends on an earlier one or on none.
Forward(graph) ==
  \A i \in DOMAIN graph : /\ graph[i] \in JudgeTask
                          /\ i \in Nat
                          /\ graph[i].depends_on < i
                          /\ ~ Entry(graph, i) => graph[i].depends_on \in DOMAIN graph

\* No dependent of a skipped task is ever judged, whatever its condition.
LEMMA SkippedFails ==
  ASSUME NEW cond
  PROVE  ~ Satisfied(cond, "DEPENDENCY_NOT_SATISFIED")
BY DEF Satisfied, Failing

\* A larger set of processed tasks refuses more dependents.
LEMMA RefusedMonotone ==
  ASSUME NEW graph, NEW t, NEW status, NEW S, NEW T, S \subseteq T
  PROVE  Refused(graph, t, status, S) \subseteq Refused(graph, t, status, T)
BY DEF Refused

\* Skipped is contained in every closed set.
LEMMA SkippedLeast ==
  ASSUME NEW graph, NEW t, NEW status, NEW S \in SUBSET (DOMAIN graph),
         Refused(graph, t, status, S) \subseteq S
  PROVE  Skipped(graph, t, status) \subseteq S
BY DEF Skipped

\* The recursion leaves out no dependent that it must skip.
LEMMA SkippedClosed ==
  ASSUME NEW graph, NEW t, NEW status
  PROVE  Refused(graph, t, status, Skipped(graph, t, status))
           \subseteq Skipped(graph, t, status)
<1> DEFINE K == Skipped(graph, t, status)
<1> SUFFICES ASSUME NEW i \in Refused(graph, t, status, K),
                    NEW S \in SUBSET (DOMAIN graph),
                    Refused(graph, t, status, S) \subseteq S
             PROVE  i \in S
  BY DEF Skipped, Refused
<1>1. K \subseteq S
  BY SkippedLeast
<1>2. Refused(graph, t, status, K) \subseteq Refused(graph, t, status, S)
  BY <1>1, RefusedMonotone
<1> QED
  BY <1>2

\* The recursion skips no task without a reason.
LEMMA SkippedSupported ==
  ASSUME NEW graph, NEW t, NEW status
  PROVE  Skipped(graph, t, status)
           \subseteq Refused(graph, t, status, Skipped(graph, t, status))
<1> DEFINE K == Skipped(graph, t, status)
           R == Refused(graph, t, status, K)
<1>1. R \subseteq K
  BY SkippedClosed
<1>2. Refused(graph, t, status, R) \subseteq R
  BY <1>1, RefusedMonotone
<1>3. R \in SUBSET (DOMAIN graph)
  BY DEF Refused
<1> HIDE DEF R, K
<1>4. Skipped(graph, t, status) \subseteq R
  BY <1>2, <1>3, SkippedLeast
<1> QED
  BY <1>4 DEF K, R

\* The recursion only goes forward: it never comes back to the task it started from.
LEMMA SkippedForward ==
  ASSUME NEW graph, Forward(graph), NEW t \in DOMAIN graph, NEW status
  PROVE  \A i \in Skipped(graph, t, status) : i \in DOMAIN graph /\ i > t
<1> DEFINE L == { i \in DOMAIN graph : i > t }
<1>1. Refused(graph, t, status, L) \subseteq L
  BY DEF Refused, Forward, JudgeTask
<1>2. Skipped(graph, t, status) \subseteq L
  <2> L \in SUBSET (DOMAIN graph)
    OBVIOUS
  <2> HIDE DEF L
  <2> QED
    BY <1>1, SkippedLeast
<1> QED
  BY <1>2

\* What is pushed to the queue: the direct dependents whose condition holds.
LEMMA ReleasedDirect ==
  ASSUME NEW graph, NEW t, NEW status
  PROVE  Released(graph, t, status) =
           { i \in DOMAIN graph : /\ graph[i].depends_on = t
                                  /\ Satisfied(graph[i].depends_cond, status) }
BY SkippedFails DEF Released

\* Processing an undecided task reaches undecided tasks only: no status that
\* was given once is overwritten.
LEMMA SkippedUndecided ==
  ASSUME NEW graph, Forward(graph), NEW verdict, NEW t \in DOMAIN graph, NEW status,
         Consistent(graph, verdict), verdict[t] = "PENDING", t \in Nat
  PROVE  \A i \in Skipped(graph, t, status) : verdict[i] = "PENDING"
<1> DEFINE P == { i \in DOMAIN graph : verdict[i] = "PENDING" /\ i > t }
<1>1. ASSUME NEW i \in Refused(graph, t, status, P)
      PROVE  i \in P
  <2>1. /\ i \in DOMAIN graph
        /\ \/ graph[i].depends_on = t
           \/ graph[i].depends_on \in P
    BY DEF Refused
  <2>2. graph[i].depends_on \in DOMAIN graph /\ verdict[graph[i].depends_on] = "PENDING"
    BY <2>1
  <2>3. ~ Entry(graph, i)
    BY <2>2 DEF Forward, Entry
  <2>4. verdict[i] = "PENDING"
    BY <2>1, <2>2, <2>3 DEF Consistent
  <2>5. i > t
    BY <2>1 DEF Forward, JudgeTask
  <2> QED
    BY <2>1, <2>4, <2>5
<1>2. Skipped(graph, t, status) \subseteq P
  <2>1. P \in SUBSET (DOMAIN graph)
    OBVIOUS
  <2> HIDE DEF P
  <2> QED
    BY <1>1, <2>1, SkippedLeast
<1> QED
  BY <1>2

\* The table stays consistent when a ready task t gets a status of its own and
\* everything the recursion reaches is skipped: the least set Skipped is exactly
\* what keeps every dependent in step with its parent.
LEMMA ProcessConsistent ==
  ASSUME NEW graph, Forward(graph), NEW verdict, NEW t \in DOMAIN graph, t \in Nat,
         NEW status, status # "PENDING", status # "DEPENDENCY_NOT_SATISFIED",
         Consistent(graph, verdict), verdict[t] = "PENDING",
         \/ Entry(graph, t)
         \/ /\ verdict[graph[t].depends_on] # "PENDING"
            /\ Satisfied(graph[t].depends_cond, verdict[graph[t].depends_on])
  PROVE  Consistent(graph,
           [j \in DOMAIN graph |->
              IF j = t THEN status
              ELSE IF j \in Skipped(graph, t, status) THEN "DEPENDENCY_NOT_SATISFIED"
              ELSE verdict[j]])
<1> DEFINE K == Skipped(graph, t, status)
           after == [j \in DOMAIN graph |->
                       IF j = t THEN status
                       ELSE IF j \in K THEN "DEPENDENCY_NOT_SATISFIED"
                       ELSE verdict[j]]
<1>1. K \subseteq DOMAIN graph /\ t \notin K
  BY SkippedForward
<1>2. \A i \in K : verdict[i] = "PENDING"
  BY SkippedUndecided
<1>3. \A i \in DOMAIN graph :
        i \in K <=> \/ /\ graph[i].depends_on = t
                       /\ ~ Satisfied(graph[i].depends_cond, status)
                    \/ graph[i].depends_on \in K
  BY SkippedClosed, SkippedSupported, SkippedFails DEF Refused
<1> SUFFICES ASSUME NEW i \in DOMAIN graph, ~ Entry(graph, i),
                    NEW p, p = graph[i].depends_on
             PROVE  IF after[p] = "PENDING" THEN after[i] = "PENDING"
                    ELSE Satisfied(graph[i].depends_cond, after[p])
                           <=> after[i] # "DEPENDENCY_NOT_SATISFIED"
  BY DEF Consistent
<1>4. p \in DOMAIN graph /\ p < i /\ p \in Int /\ i \in Int
  BY DEF Forward, JudgeTask
<1>5. IF verdict[p] = "PENDING" THEN verdict[i] = "PENDING"
      ELSE Satisfied(graph[i].depends_cond, verdict[p])
             <=> verdict[i] # "DEPENDENCY_NOT_SATISFIED"
  BY DEF Consistent
<1> HIDE DEF K
<1>6. CASE p = t
  <2>1. after[p] = status /\ i # t /\ verdict[i] = "PENDING"
    BY <1>6, <1>4, <1>5
  <2>2. i \in K <=> ~ Satisfied(graph[i].depends_cond, status)
    <3>1. graph[i].depends_on = t /\ graph[i].depends_on \notin K
      BY <1>1, <1>6
    <3>. QED  BY <1>3, <3>1
  <2> QED
    BY <2>1, <2>2
<1>7. CASE p \in K
  <2>1. i \in K
    BY <1>3, <1>7
  <2>2. after[p] = "DEPENDENCY_NOT_SATISFIED" /\ after[i] = "DEPENDENCY_NOT_SATISFIED"
    BY <1>1, <1>4, <1>7, <2>1
  <2> QED
    BY <2>2, SkippedFails
<1>8. CASE p # t /\ p \notin K
  <2>1. i \notin K /\ after[p] = verdict[p]
    BY <1>3, <1>4, <1>8
  <2>2. CASE i = t
    <3>1. verdict[p] # "PENDING" /\ Satisfied(graph[i].depends_cond, verdict[p])
      BY <2>2
    <3> QED
      BY <2>1, <2>2, <3>1
  <2>3. CASE i # t
    <3>1. after[i] = verdict[i]
      BY <2>1, <2>3
    <3> QED
      BY <2>1, <3>1, <1>5
  <2> QED
    BY <2>2, <2>3
<1> QED
  BY <1>6, <1>7, <1>8

\* Every nonempty set of natural numbers has a least element.
LEMMA LeastElement ==
  ASSUME NEW S \in SUBSET Nat, S # {}
  PROVE  \E m \in S : \A k \in S : m <= k
<1> DEFINE R == { p \in Nat \X Nat : p[1] < p[2] }
<1>1. IsWellFoundedOn(R, Nat)
  BY NatLessThanWellFounded DEF OpToRel
<1> HIDE DEF R
<1>2. PICK m \in S : \A k \in S : ~ (<<k, m>> \in R)
  BY <1>1, WFMin
<1>3. ASSUME NEW k \in S
      PROVE  m <= k
  <2>1. k \in Nat /\ m \in Nat
    OBVIOUS
  <2>2. <<k, m>> \notin R
    BY <1>2
  <2>3. ~ (k < m)
    BY <2>1, <2>2 DEF R
  <2> QED
    BY <2>1, <2>3
<1> QED
  BY <1>3

-----------------------------------------------------------------------------
(* The inductive invariant.                                                *)

\* The entries of the task queue: a submission and the number of one of its tasks.
Item == { p \in Sub \X Nat : p[2] \in Task(p[1]) }

Undecided(s) == { i \in Task(s) : results[s][i] = "PENDING" }

\* By the results r, task i is undecided, and its parent, if it has one, lets it be judged.
Due(tasks, r, i) ==
  /\ r[i] = "PENDING"
  /\ \/ Entry(tasks, i)
     \/ /\ r[tasks[i].depends_on] # "PENDING"
        /\ Satisfied(tasks[i].depends_cond, r[tasks[i].depends_on])

\* The places where the copy of a task can be, and the tasks that are somewhere.
Unsent == { p \in Item : p[2] \in unsent[p[1]] }
Running == { w \in Worker : pc[w] = "judging" }
Copied == Unsent \cup Range(taskQueue) \cup { task[w] : w \in Running }

Mailboxes ==
  /\ inbox \in [1 .. Servers -> Seq(Sub)]
  /\ \A a \in 1 .. Servers : \A j \in DOMAIN inbox[a] : phase[inbox[a][j]] = "waiting"
  /\ \A a, b \in 1 .. Servers : \A j \in DOMAIN inbox[a], k \in DOMAIN inbox[b] :
       inbox[a][j] = inbox[b][k] => a = b /\ j = k

Workers ==
  /\ pc \in [Worker -> Label] /\ poll \in [Worker -> 1 .. Servers + 1] /\ stop \in BOOLEAN
  /\ task \in [Worker -> Item \cup {None}]
  /\ \A w \in Worker :
       pc[w] \in { "distributing", "judging", "finishing", "unlocking", "ending" } =>
         task[w] \in Item
  /\ \A w \in Worker : pc[w] = "distributing" => poll[w] <= Servers

\* No task is in two places, or twice in one of them.
OneCopy ==
  /\ taskQueue \in Seq(Item) /\ unsent \in [Sub -> SUBSET Nat]
  /\ \A s \in Sub : unsent[s] \subseteq Task(s)
  /\ IsInjective(taskQueue)
  /\ \A w, v \in Running : task[w] = task[v] => w = v
  /\ \A w \in Running : task[w] \notin Range(taskQueue) \cup Unsent
  /\ Range(taskQueue) \cap Unsent = {}

\* A registered submission has a copy of each task that is undecided and may be judged.
Accounted(s) ==
  IF InPool(s)
  THEN /\ Verified(Graph[s]) /\ results[s] \in [Task(s) -> Status]
       /\ Consistent(Tasks(s), results[s])
       /\ finished[s] = Cardinality(Task(s) \ Undecided(s))
       /\ phase[s] = "finished" <=> Undecided(s) = {}
       /\ \A i \in Task(s) : <<s, i>> \in Copied <=> Due(Tasks(s), results[s], i)
  ELSE /\ results[s] = << >> /\ finished[s] = 0
       /\ \A i \in Task(s) : <<s, i>> \notin Copied

Submissions ==
  /\ phase \in [Sub -> { "waiting", "dropped", "invalid", "judging", "finished" }]
  /\ DOMAIN results = Sub /\ DOMAIN finished = Sub
  /\ \A s \in Sub : Accounted(s)

Locks ==
  /\ serverMutex \in Worker \cup {None} /\ mut \in [Sub -> Worker \cup {None}]
  /\ \A w \in Worker : serverMutex = w <=> pc[w] \in { "fetching", "distributing" }
  /\ \A s \in Sub, w \in Worker :
       mut[s] = w <=> pc[w] \in { "finishing", "unlocking" } /\ task[w][1] = s

\* A submission is given up by the worker that finished it, and not while another one
\* distributes it.
Life ==
  /\ finishedSubmissions \subseteq Sub /\ freed \subseteq Sub
  /\ \A s \in Sub :
       /\ s \in finishedSubmissions \cup freed => phase[s] = "finished"
       /\ phase[s] = "finished" =>
            \/ s \in finishedSubmissions \cup freed
            \/ \E w \in Worker : pc[w] = "finishing" /\ task[w][1] = s
       /\ unsent[s] # {} => \E w \in Worker : pc[w] = "distributing" /\ task[w][1] = s
  /\ \A w \in Worker :
       /\ pc[w] = "distributing" =>
            InPool(task[w][1]) /\ task[w][1] \notin finishedSubmissions \cup freed
       /\ pc[w] = "finishing" => phase[task[w][1]] = "finished"

\* Where there is something left to do, there is a worker who comes to it.
Attended ==
  /\ taskQueue # << >> => \E w \in Worker : pc[w] \notin { "empty", "stopped" }
  /\ finishedSubmissions # {} => \E w \in Worker : pc[w] \in { "unlocking", "ending", "reaping" }

IInv == Mailboxes /\ Workers /\ OneCopy /\ Submissions /\ Locks /\ Life /\ Attended

-----------------------------------------------------------------------------
(* Sequences without repetitions.                                          *)

\* Taking the first element off takes it out of the range.
LEMMA Popped ==
  ASSUME NEW X, NEW q \in Seq(X), q # << >>, IsInjective(q)
  PROVE  /\ Head(q) \in Range(q) /\ Head(q) \in X /\ Tail(q) \in Seq(X)
         /\ IsInjective(Tail(q)) /\ Range(Tail(q)) = Range(q) \ {Head(q)}
<1>1. Len(q) \in Nat \ {0} /\ DOMAIN q = 1 .. Len(q) /\ Head(q) = q[1]
  OBVIOUS
<1>2. Tail(q) \in Seq(X) /\ Len(Tail(q)) = Len(q) - 1 /\ DOMAIN Tail(q) = 1 .. Len(q) - 1
      /\ \A k \in 1 .. Len(q) - 1 : Tail(q)[k] = q[k + 1]
  OBVIOUS
<1>3. \A j, k \in DOMAIN q : q[j] = q[k] => j = k
  BY DEF IsInjective
<1>4. IsInjective(Tail(q))
  BY <1>1, <1>2, <1>3 DEF IsInjective
<1>5. Range(Tail(q)) \subseteq Range(q) \ {Head(q)}
  BY <1>1, <1>2, <1>3 DEF Range
<1>6. ASSUME NEW x \in Range(q), x # Head(q)
      PROVE  x \in Range(Tail(q))
  <2>1. PICK k \in DOMAIN q : x = q[k]
    BY DEF Range
  <2>2. k - 1 \in 1 .. Len(q) - 1 /\ Tail(q)[k - 1] = x
    BY <1>1, <1>2, <1>6, <2>1
  <2>. QED  BY <1>2, <2>2 DEF Range
<1>7. Head(q) \in Range(q)
  <2>1. 1 \in DOMAIN q
    BY <1>1
  <2>. QED  BY <1>1, <2>1 DEF Range
<1>8. Head(q) \in X
  OBVIOUS
<1>. QED  BY <1>2, <1>4, <1>5, <1>6, <1>7, <1>8

\* Adding elements that are not there.
LEMMA Pushed ==
  ASSUME NEW X, NEW q \in Seq(X), IsInjective(q), NEW p \in Seq(X), IsInjective(p),
         Range(q) \cap Range(p) = {}
  PROVE  /\ q \o p \in Seq(X) /\ IsInjective(q \o p) /\ Range(q \o p) = Range(q) \cup Range(p)
<1>. DEFINE r == q \o p
<1>1. r \in Seq(X) /\ Len(r) = Len(q) + Len(p) /\ DOMAIN r = 1 .. Len(q) + Len(p)
      /\ (\A k \in 1 .. Len(q) : r[k] = q[k])
      /\ \A k \in 1 .. Len(q) + Len(p) : k > Len(q) => r[k] = p[k - Len(q)]
  OBVIOUS
<1>2. Len(q) \in Nat /\ Len(p) \in Nat /\ DOMAIN q = 1 .. Len(q) /\ DOMAIN p = 1 .. Len(p)
  OBVIOUS
<1>. HIDE DEF r
<1>3. \A k \in DOMAIN r : \/ k \in DOMAIN q /\ r[k] = q[k]
                          \/ k > Len(q) /\ k - Len(q) \in DOMAIN p /\ r[k] = p[k - Len(q)]
  BY <1>1, <1>2
<1>4. (\A k \in DOMAIN q : q[k] \in Range(q)) /\ \A k \in DOMAIN p : p[k] \in Range(p)
  BY DEF Range
<1>5. ASSUME NEW j \in DOMAIN r, NEW k \in DOMAIN r, r[j] = r[k]
      PROVE  j = k
  <2>1. CASE j \in DOMAIN q /\ k \in DOMAIN q
    BY <1>1, <1>2, <1>5, <2>1 DEF IsInjective
  <2>2. CASE j \notin DOMAIN q /\ k \notin DOMAIN q
    <3>1. j - Len(q) = k - Len(q)
      BY <1>3, <1>5, <2>2 DEF IsInjective
    <3>. QED  BY <1>1, <1>2, <3>1
  <2>3. CASE j \in DOMAIN q /\ k \notin DOMAIN q
    BY <1>1, <1>2, <1>3, <1>4, <1>5, <2>3
  <2>4. CASE j \notin DOMAIN q /\ k \in DOMAIN q
    BY <1>1, <1>2, <1>3, <1>4, <1>5, <2>4
  <2>. QED  BY <2>1, <2>2, <2>3, <2>4
<1>6. Range(r) \subseteq Range(q) \cup Range(p)
  BY <1>3, <1>4 DEF Range
<1>7. ASSUME NEW x \in Range(q)  PROVE x \in Range(r)
  <2>1. PICK k \in DOMAIN q : x = q[k]
    BY DEF Range
  <2>2. k \in DOMAIN r /\ r[k] = x
    BY <1>1, <1>2, <2>1
  <2>. QED  BY <2>2 DEF Range
<1>8. ASSUME NEW x \in Range(p)  PROVE x \in Range(r)
  <2>1. PICK k \in DOMAIN p : x = p[k]
    BY DEF Range
  <2>2. k + Len(q) \in DOMAIN r /\ k + Len(q) > Len(q) /\ (k + Len(q)) - Len(q) = k
    BY <1>1, <1>2
  <2>3. r[k + Len(q)] = p[(k + Len(q)) - Len(q)]
    BY <1>1, <2>2
  <2>. QED  BY <2>1, <2>2, <2>3 DEF Range
<1>. QED  BY <1>1, <1>5, <1>6, <1>7, <1>8 DEF IsInjective, r

\* One element is a sequence of one.
LEMMA PushedOne ==
  ASSUME NEW X, NEW q \in Seq(X), IsInjective(q), NEW x \in X, x \notin Range(q)
  PROVE  /\ Append(q, x) \in Seq(X) /\ IsInjective(Append(q, x))
         /\ Range(Append(q, x)) = Range(q) \cup {x}
<1>. DEFINE p == << x >>
<1>1. p \in Seq(X) /\ DOMAIN p = {1} /\ p[1] = x /\ Append(q, x) = q \o p
  OBVIOUS
<1>. HIDE DEF p
<1>2. IsInjective(p) /\ Range(p) = {x}
  BY <1>1 DEF IsInjective, Range
<1>. QED  BY <1>1, <1>2, Pushed

\* A finite set of numbers can be put in order: the place of a number is how many are not
\* above it.
LEMMA AscendingOrder ==
  ASSUME NEW S, IsFiniteSet(S), S \subseteq Nat
  PROVE  /\ Cardinality(S) \in Nat /\ Ascending(S) \in [ 1 .. Cardinality(S) -> S ]
         /\ IsInjective(Ascending(S)) /\ Range(Ascending(S)) = S
<1>. DEFINE n == Cardinality(S)
            upTo(i) == { j \in S : j <= i }
            place == [ i \in S |-> Cardinality(upTo(i)) ]
<1>1. n \in Nat /\ IsFiniteSet(1 .. n) /\ Cardinality(1 .. n) = n
  BY FS_CardinalityType, FS_Interval
<1>2. ASSUME NEW i \in S
      PROVE  IsFiniteSet(upTo(i)) /\ Cardinality(upTo(i)) \in 1 .. n
  <2>1. upTo(i) \in SUBSET S /\ upTo(i) # {}
    OBVIOUS
  <2>. HIDE DEF upTo
  <2>2. IsFiniteSet(upTo(i)) /\ Cardinality(upTo(i)) <= n
    BY <2>1, FS_Subset
  <2>3. Cardinality(upTo(i)) \in Nat /\ Cardinality(upTo(i)) # 0
    BY <2>1, <2>2, FS_CardinalityType, FS_EmptySet
  <2>. QED  BY <1>1, <2>2, <2>3
<1>3. ASSUME NEW i \in S, NEW j \in S, i < j
      PROVE  Cardinality(upTo(i)) < Cardinality(upTo(j))
  <2>0. i \in Nat /\ j \in Nat
    OBVIOUS
  <2>1. upTo(i) \in SUBSET upTo(j) /\ j \in upTo(j) /\ j \notin upTo(i)
    <3>1. ASSUME NEW x \in S, x <= i  PROVE x <= j
      <4>1. x \in Nat
        OBVIOUS
      <4>. QED  BY <1>3, <2>0, <3>1, <4>1
    <3>2. upTo(i) \subseteq upTo(j)
      BY <3>1
    <3>3. j \in upTo(j)
      BY <2>0
    <3>4. j \notin upTo(i)
      BY <1>3, <2>0
    <3>. QED  BY <3>2, <3>3, <3>4
  <2>2. /\ Cardinality(upTo(i)) <= Cardinality(upTo(j))
        /\ Cardinality(upTo(j)) # Cardinality(upTo(i))
    <3>. HIDE DEF upTo
    <3>. QED  BY <1>2, <2>1, FS_Subset
  <2>3. Cardinality(upTo(i)) \in 1 .. n /\ Cardinality(upTo(j)) \in 1 .. n
    BY <1>2
  <2>. HIDE DEF upTo
  <2>. QED  BY <1>1, <2>2, <2>3
<1>. HIDE DEF upTo
<1>4. place \in Injection(S, 1 .. n)
  <2>1. ASSUME NEW i \in S, NEW j \in S, place[i] = place[j]  PROVE i = j
    <3>1. i \in Nat /\ j \in Nat
      OBVIOUS
    <3>2. ~ (i < j) /\ ~ (j < i)
      BY <1>1, <1>2, <1>3, <2>1
    <3>. QED  BY <3>1, <3>2
  <2>. QED  BY <1>2, <2>1 DEF Injection, IsInjective
<1>5. place \in Surjection(S, 1 .. n)
  BY <1>1, <1>4, FS_Injection
<1>. DEFINE q == [ k \in 1 .. n |-> CHOOSE i \in S : place[i] = k ]
<1>6. \A k \in 1 .. n : q[k] \in S /\ place[q[k]] = k
  BY <1>5 DEF Surjection
<1>7. q \in [ 1 .. n -> S ] /\ DOMAIN q = 1 .. n
  BY <1>6
<1>. HIDE DEF q, place
<1>8. \A j, k \in DOMAIN q : j < k => q[j] < q[k]
  <2>. SUFFICES ASSUME NEW j \in 1 .. n, NEW k \in 1 .. n, j < k  PROVE q[j] < q[k]
    BY <1>7
  <2>1. q[j] \in Nat /\ q[k] \in Nat /\ q[j] \in S /\ q[k] \in S
    BY <1>6
  <2>2. q[j] # q[k]
    BY <1>6
  <2>3. \A x, y \in S : x < y => place[x] < place[y]
    BY <1>3 DEF place
  <2>4. place[q[j]] = j /\ place[q[k]] = k /\ ~ (k < j)
    BY <1>1, <1>6
  <2>5. ~ (q[k] < q[j])
    BY <2>1, <2>3, <2>4
  <2>. QED  BY <2>1, <2>2, <2>5
<1>9. /\ Ascending(S) \in [ 1 .. n -> S ]
      /\ \A j, k \in DOMAIN Ascending(S) : j < k => Ascending(S)[j] < Ascending(S)[k]
  BY <1>7, <1>8 DEF Ascending
<1>10. Ascending(S) \in Injection(1 .. n, S)
  <2>1. ASSUME NEW j \in 1 .. n, NEW k \in 1 .. n, Ascending(S)[j] = Ascending(S)[k]
        PROVE  j = k
    <3>1. Ascending(S)[j] \in Nat /\ Ascending(S)[k] \in Nat
      BY <1>9
    <3>2. ~ (j < k) /\ ~ (k < j)
      BY <1>9, <2>1, <3>1
    <3>. QED  BY <1>1, <3>2
  <2>. QED  BY <1>9, <2>1 DEF Injection, IsInjective
<1>11. Ascending(S) \in Surjection(1 .. n, S)
  BY <1>1, <1>10, FS_Injection
<1>12. Range(Ascending(S)) = S
  BY <1>9, <1>11 DEF Surjection, Range
<1>. QED  BY <1>1, <1>9, <1>10, <1>12 DEF Injection

-----------------------------------------------------------------------------
(* What every submission looks like.                                       *)

\* The tasks of a submission are finitely many and numbered from zero.
LEMMA TasksFinite ==
  ASSUME NEW s \in Sub
  PROVE  /\ IsFiniteSet(Task(s)) /\ Task(s) \subseteq 0 .. MaxTasks - 1
         /\ Cardinality(Task(s)) \in Nat
         /\ \A i \in Task(s) : Tasks(s)[i] \in JudgeTask
         /\ \A i \in Task(s), p \in Nat : p < i => p \in Task(s)
         /\ Task(s) # {} => 0 \in Task(s)
<1>1. PICK n \in 0 .. MaxTasks : Graph[s].judge_tasks \in [0 .. n - 1 -> JudgeTask]
  BY GraphAssumption
<1>2. n \in Nat /\ MaxTasks \in Nat /\ n <= MaxTasks
  BY <1>1, GraphAssumption
<1>3. Task(s) = 0 .. n - 1 /\ \A i \in Task(s) : Tasks(s)[i] \in JudgeTask
  BY <1>1 DEF Task, Tasks
<1>4. IsFiniteSet(Task(s)) /\ Cardinality(Task(s)) \in Nat
  BY <1>2, <1>3, FS_Interval, FS_CardinalityType
<1>. QED  BY <1>2, <1>3, <1>4

\* The entries of the queue have the type that TypeOK gives them.
LEMMA Items ==
  /\ Item \subseteq Sub \X (0 .. MaxTasks - 1)
  /\ \A p \in Item : p[1] \in Sub /\ p[2] \in Task(p[1]) /\ p = << p[1], p[2] >>
  /\ \A s \in Sub : \A i \in Task(s) : << s, i >> \in Item
<1>1. \A s \in Sub : Task(s) \subseteq Nat /\ Task(s) \subseteq 0 .. MaxTasks - 1
  BY TasksFinite, GraphAssumption
<1>. QED  BY <1>1 DEF Item

\* The graph of a verified submission runs forward.
LEMMA VerifiedForward ==
  ASSUME NEW s \in Sub, Verified(Graph[s])
  PROVE  Forward(Tasks(s))
<1>. SUFFICES ASSUME NEW i \in Task(s)
              PROVE  /\ Tasks(s)[i] \in JudgeTask
                     /\ i \in Nat
                     /\ Tasks(s)[i].depends_on < i
                     /\ ~ Entry(Tasks(s), i) => Tasks(s)[i].depends_on \in Task(s)
  BY DEF Forward, Task
<1>1. Tasks(s)[i] \in JudgeTask /\ i \in Nat
  BY TasksFinite, GraphAssumption
<1>2. Tasks(s)[i].depends_on < i
  BY DEF Verified, Tasks, Task
<1>3. ~ Entry(Tasks(s), i) => Tasks(s)[i].depends_on \in Nat
  BY <1>1 DEF Entry, JudgeTask
<1>. QED  BY <1>1, <1>2, <1>3, TasksFinite

\* When submission is registered, its entry tasks are those that may be judged.
LEMMA EntriesDue ==
  ASSUME NEW tasks, Forward(tasks), NEW r, r = [i \in DOMAIN tasks |-> "PENDING"]
  PROVE  /\ r \in [DOMAIN tasks -> Status] /\ Consistent(tasks, r)
         /\ \A i \in DOMAIN tasks : Due(tasks, r, i) <=> Entry(tasks, i)
<1>1. r \in [DOMAIN tasks -> Status]
  BY DEF Status
<1>2. Consistent(tasks, r)
  BY DEF Consistent, Forward
<1>3. \A i \in DOMAIN tasks : Due(tasks, r, i) <=> Entry(tasks, i)
  BY DEF Due, Forward
<1>. QED  BY <1>1, <1>2, <1>3

\* What processing a verdict changes about the tasks that may be judged: those that are
\* released come in, the judged one goes out.
LEMMA Processed ==
  ASSUME NEW tasks, Forward(tasks), NEW r \in [DOMAIN tasks -> Status], Consistent(tasks, r),
         NEW i \in DOMAIN tasks, Due(tasks, r, i), NEW status \in Outcome(tasks[i]),
         NEW after,
         after = [j \in DOMAIN tasks |->
                    IF j = i THEN status
                    ELSE IF j \in Skipped(tasks, i, status) THEN "DEPENDENCY_NOT_SATISFIED"
                    ELSE r[j]]
  PROVE  /\ after \in [DOMAIN tasks -> Status] /\ Consistent(tasks, after)
         /\ Skipped(tasks, i, status) \subseteq DOMAIN tasks
         /\ \A j \in Skipped(tasks, i, status) : r[j] = "PENDING" /\ j # i
         /\ \A j \in DOMAIN tasks :
              after[j] = "PENDING" <=>
                r[j] = "PENDING" /\ j # i /\ j \notin Skipped(tasks, i, status)
         /\ Released(tasks, i, status) \subseteq DOMAIN tasks
         /\ \A j \in Released(tasks, i, status) : ~ Due(tasks, r, j)
         /\ \A j \in DOMAIN tasks :
              Due(tasks, after, j) <=>
                j \in Released(tasks, i, status) \/ (j # i /\ Due(tasks, r, j))
<1>. DEFINE K == Skipped(tasks, i, status)
            R == Released(tasks, i, status)
<1>1. i \in Nat /\ r[i] = "PENDING"
  BY DEF Forward, Due
<1>2. status \in Status /\ status # "PENDING" /\ status # "DEPENDENCY_NOT_SATISFIED"
  BY DEF Outcome, CompileOutcome, CheckOutcome, Status
<1>3. K \subseteq DOMAIN tasks /\ i \notin K /\ \A j \in K : r[j] = "PENDING"
  BY <1>1, SkippedForward, SkippedUndecided
<1>4. Consistent(tasks, after)
  BY <1>1, <1>2, ProcessConsistent DEF Due
<1>5. \A j \in DOMAIN tasks :
        j \in K <=> \/ /\ tasks[j].depends_on = i
                       /\ ~ Satisfied(tasks[j].depends_cond, status)
                    \/ tasks[j].depends_on \in K
  BY SkippedClosed, SkippedSupported, SkippedFails DEF Refused
<1>6. R = { j \in DOMAIN tasks :
              tasks[j].depends_on = i /\ Satisfied(tasks[j].depends_cond, status) }
  BY ReleasedDirect
<1>. HIDE DEF K, R
<1>7. \A j \in DOMAIN tasks :
        after[j] = IF j = i THEN status ELSE IF j \in K THEN "DEPENDENCY_NOT_SATISFIED" ELSE r[j]
  BY DEF K
<1>8. after \in [DOMAIN tasks -> Status]
  BY <1>2 DEF Status
<1>9. \A j \in DOMAIN tasks : after[j] = "PENDING" <=> r[j] = "PENDING" /\ j # i /\ j \notin K
  BY <1>2, <1>7
<1>10. ASSUME NEW j \in DOMAIN tasks, tasks[j].depends_on \in K \cup {i}
       PROVE  ~ Entry(tasks, j) /\ r[j] = "PENDING" /\ ~ Due(tasks, r, j) /\ j # i
  <2>1. tasks[j].depends_on \in DOMAIN tasks /\ r[tasks[j].depends_on] = "PENDING"
    BY <1>1, <1>3, <1>10
  <2>2. ~ Entry(tasks, j)
    BY <2>1 DEF Forward, Entry
  <2>3. r[j] = "PENDING"
    BY <2>1, <2>2 DEF Consistent
  <2>4. ~ Due(tasks, r, j)
    BY <2>1, <2>2 DEF Due
  <2>. QED  BY <2>2, <2>3, <2>4
<1>11. \A j \in R : ~ Due(tasks, r, j)
  BY <1>6, <1>10
<1>12. ASSUME NEW j \in DOMAIN tasks
       PROVE  Due(tasks, after, j) <=> j \in R \/ (j # i /\ Due(tasks, r, j))
  <2>1. CASE j = i
    BY <1>2, <1>6, <1>7, <1>10, <2>1 DEF Due
  <2>2. CASE j # i /\ tasks[j].depends_on \in K
    <3>1. j \in K /\ j \notin R
      BY <1>3, <1>5, <1>6, <2>2
    <3>. QED  BY <1>9, <1>10, <2>2, <3>1 DEF Due
  <2>3. CASE j # i /\ tasks[j].depends_on = i
    <3>1. r[j] = "PENDING" /\ ~ Entry(tasks, j) /\ ~ Due(tasks, r, j) /\ after[i] = status
      BY <1>7, <1>10, <2>3
    <3>2. (j \in R <=> Satisfied(tasks[j].depends_cond, status)) /\ (j \in K <=> j \notin R)
      BY <1>3, <1>5, <1>6, <2>3
    <3>. QED  BY <1>2, <1>9, <2>3, <3>1, <3>2 DEF Due
  <2>4. CASE j # i /\ tasks[j].depends_on \notin K \cup {i}
    <3>1. j \notin K /\ j \notin R /\ after[j] = r[j]
      BY <1>5, <1>6, <1>7, <2>4
    <3>2. ~ Entry(tasks, j) => after[tasks[j].depends_on] = r[tasks[j].depends_on]
      BY <1>7, <2>4 DEF Forward
    <3>. QED  BY <2>4, <3>1, <3>2 DEF Due
  <2>. QED  BY <2>1, <2>2, <2>3, <2>4
<1>13. R \subseteq DOMAIN tasks
  BY <1>6
<1>. QED  BY <1>3, <1>4, <1>8, <1>9, <1>11, <1>12, <1>13 DEF K, R

\* How the counter of decided tasks moves with it: of the tasks T, U are undecided, and i and
\* the skipped K are decided now.
Counted(T, U, i, K) ==
  /\ Cardinality(T \ (U \ ({i} \cup K))) = Cardinality(T \ U) + 1 + Cardinality(K)
  /\ Cardinality(T \ U) < Cardinality(T)
  /\ U \ ({i} \cup K) = {} <=> Cardinality(T \ U) + 1 + Cardinality(K) >= Cardinality(T)

LEMMA Counting ==
  ASSUME NEW T, IsFiniteSet(T), NEW U \in SUBSET T, NEW i \in U, NEW K \in SUBSET (U \ {i})
  PROVE  Counted(T, U, i, K)
<1>0. PICK V, D, E : V = U \ ({i} \cup K) /\ D = T \ U /\ E = T \ V
  OBVIOUS
<1>1. D \in SUBSET T /\ E \in SUBSET T /\ K \in SUBSET T
  BY <1>0
<1>2. E = (D \cup {i}) \cup K /\ i \notin D /\ (D \cup {i}) \cap K = {} /\ D # T
  BY <1>0
<1>3. V = {} <=> E = T
  BY <1>0
<1>4. /\ IsFiniteSet(D) /\ IsFiniteSet(E) /\ IsFiniteSet(K)
      /\ Cardinality(D) <= Cardinality(T) /\ Cardinality(E) <= Cardinality(T)
      /\ Cardinality(T) # Cardinality(D) /\ (Cardinality(T) = Cardinality(E) => E = T)
  BY <1>1, <1>2, FS_Subset
<1>5. Cardinality(D) \in Nat /\ Cardinality(E) \in Nat /\ Cardinality(K) \in Nat
      /\ Cardinality(T) \in Nat
  BY <1>4, FS_CardinalityType
<1>6. IsFiniteSet(D \cup {i}) /\ Cardinality(D \cup {i}) = Cardinality(D) + 1
  BY <1>2, <1>4, FS_AddElement
<1>7. Cardinality(E) = Cardinality(D) + 1 + Cardinality(K)
  <2>1. Cardinality((D \cup {i}) \cap K) = 0
    BY <1>2, FS_EmptySet
  <2>2. Cardinality((D \cup {i}) \cup K)
          = Cardinality(D \cup {i}) + Cardinality(K) - Cardinality((D \cup {i}) \cap K)
    BY <1>4, <1>6, FS_Union
  <2>3. Cardinality(E) = Cardinality((D \cup {i}) \cup K)
    BY <1>2
  <2>. QED  BY <1>5, <1>6, <2>1, <2>2, <2>3
<1>8. /\ Cardinality(E) = Cardinality(D) + 1 + Cardinality(K)
      /\ Cardinality(D) < Cardinality(T)
      /\ V = {} <=> Cardinality(D) + 1 + Cardinality(K) >= Cardinality(T)
  BY <1>3, <1>4, <1>5, <1>7
<1>. QED  BY <1>0, <1>8 DEF Counted

-----------------------------------------------------------------------------
(* The steps that leave the tasks where they are.                          *)

\* A worker moves on in its loop.
LEMMA Moves ==
  ASSUME Workers, NEW w \in Worker, NEW l \in Label, Goto(w, l)
  PROVE  /\ pc' \in [Worker -> Label] /\ pc'[w] = l
         /\ \A v \in Worker : v # w => pc'[v] = pc[v]
BY DEF Workers, Goto

\* Nothing is pushed, popped or decided.
LEMMA Quiet ==
  ASSUME IInv, UNCHANGED <<subVars, taskQueue>>, Running' = Running,
         \A v \in Running : task'[v] = task[v]
  PROVE  Mailboxes' /\ OneCopy' /\ Submissions'
<1>. USE DEF IInv
<1>1. UNCHANGED <<inbox, phase, results, finished, unsent>>
  BY DEF subVars
<1>2. Mailboxes'
  BY <1>1 DEF Mailboxes
<1>3. Unsent' = Unsent
  BY <1>1 DEF Unsent, Item, Task, Tasks
<1>4. { task'[v] : v \in Running' } = { task[v] : v \in Running }
  OBVIOUS
<1>5. Copied' = Copied
  BY <1>3, <1>4 DEF Copied
<1>6. OneCopy'
  BY <1>1, <1>3 DEF OneCopy, Item, Task, Tasks
<1>7. Submissions'
  BY <1>1, <1>5 DEF Submissions, Accounted, InPool, Undecided, Task, Tasks
<1>. QED  BY <1>2, <1>6, <1>7

\* The same for a worker that goes from one label to another, not to judge or from judging.
LEMMA QuietMove ==
  ASSUME IInv, UNCHANGED <<subVars, taskQueue>>, NEW w \in Worker, NEW l \in Label, Goto(w, l),
         pc[w] # "judging", l # "judging", \A v \in Worker : v # w => task'[v] = task[v]
  PROVE  /\ Mailboxes' /\ OneCopy' /\ Submissions'
         /\ pc' \in [Worker -> Label] /\ pc'[w] = l /\ \A v \in Worker : v # w => pc'[v] = pc[v]
<1>1. /\ pc' \in [Worker -> Label] /\ pc'[w] = l
      /\ \A v \in Worker : v # w => pc'[v] = pc[v]
  BY Moves DEF IInv
<1>2. Running' = Running /\ \A v \in Running : task'[v] = task[v]
  BY <1>1 DEF Running
<1>. QED  BY <1>1, <1>2, Quiet

\* A worker finds the queue empty.
LEMMA EmptyStep ==
  ASSUME IInv, NEW w \in Worker, TryPop(w), taskQueue = << >>
  PROVE  IInv'
<1>. USE DEF IInv
<1>1. /\ pc[w] = "loop" /\ Goto(w, "empty")
      /\ UNCHANGED <<subVars, lifeVars, taskQueue, serverMutex, mut, stop, task, poll>>
  BY DEF TryPop
<1>2. UNCHANGED <<inbox, phase, results, finished, unsent, finishedSubmissions, freed>>
  BY <1>1 DEF subVars, lifeVars
<1>3. /\ Mailboxes' /\ OneCopy' /\ Submissions'
      /\ pc' \in [Worker -> Label] /\ pc'[w] = "empty"
      /\ \A v \in Worker : v # w => pc'[v] = pc[v]
  <2>1. "empty" \in Label
    BY DEF Label
  <2>. QED  BY <1>1, <2>1, QuietMove
<1>4. Workers'
  BY <1>1, <1>2, <1>3 DEF Workers, Item, Task, Tasks
<1>5. Locks'
  BY <1>1, <1>3 DEF Locks
<1>6. Life'
  BY <1>1, <1>2, <1>3 DEF Life, InPool
<1>7. Attended'
  BY <1>1, <1>2, <1>3 DEF Attended
<1>. QED  BY <1>3, <1>4, <1>5, <1>6, <1>7

\* It looks at the flag, and stops or asks for server_mutex.
LEMMA CheckStopStep ==
  ASSUME IInv, NEW w \in Worker, CheckStop(w)
  PROVE  IInv'
<1>. USE DEF IInv
<1>0. PICK l \in { "stopped", "locking" } : Goto(w, l)
  BY DEF CheckStop
<1>1. /\ pc[w] = "empty"
      /\ UNCHANGED <<subVars, lifeVars, taskQueue, serverMutex, mut, stop, task, poll>>
  BY DEF CheckStop
<1>2. UNCHANGED <<inbox, phase, results, finished, unsent, finishedSubmissions, freed>>
  BY <1>1 DEF subVars, lifeVars
<1>3. /\ Mailboxes' /\ OneCopy' /\ Submissions'
      /\ pc' \in [Worker -> Label] /\ pc'[w] = l
      /\ \A v \in Worker : v # w => pc'[v] = pc[v]
  <2>1. l \in Label /\ l # "judging"
    BY DEF Label
  <2>. QED  BY <1>0, <1>1, <2>1, QuietMove
<1>4. Workers'
  BY <1>1, <1>2, <1>3 DEF Workers, Item, Task, Tasks
<1>5. Locks'
  BY <1>1, <1>3 DEF Locks
<1>6. Life'
  BY <1>1, <1>2, <1>3 DEF Life, InPool
<1>7. Attended'
  BY <1>1, <1>2, <1>3 DEF Attended
<1>. QED  BY <1>3, <1>4, <1>5, <1>6, <1>7

\* It gets server_mutex and starts a round over the judge servers.
LEMMA BeginFetchStep ==
  ASSUME IInv, NEW w \in Worker, BeginFetch(w)
  PROVE  IInv'
<1>. USE DEF IInv
<1>1. /\ pc[w] = "locking" /\ Goto(w, "fetching") /\ serverMutex = None /\ serverMutex' = w
      /\ poll' = [poll EXCEPT ![w] = 1]
      /\ UNCHANGED <<subVars, lifeVars, taskQueue, mut, stop, task>>
  BY DEF BeginFetch
<1>2. UNCHANGED <<inbox, phase, results, finished, unsent, finishedSubmissions, freed>>
  BY <1>1 DEF subVars, lifeVars
<1>3. /\ Mailboxes' /\ OneCopy' /\ Submissions'
      /\ pc' \in [Worker -> Label] /\ pc'[w] = "fetching"
      /\ \A v \in Worker : v # w => pc'[v] = pc[v]
  <2>1. "fetching" \in Label
    BY DEF Label
  <2>. QED  BY <1>1, <2>1, QuietMove
<1>4. Workers'
  <2>1. poll' \in [Worker -> 1 .. Servers + 1]
    <3>1. 1 \in 1 .. Servers + 1
      BY PoolAssumption
    <3>. QED  BY <1>1, <3>1 DEF Workers
  <2>. QED  BY <1>1, <1>2, <1>3, <2>1 DEF Workers, Item, Task, Tasks
<1>5. Locks'
  <2>1. \A v \in Worker : v # None /\ (v # w => pc[v] \notin { "fetching", "distributing" })
    BY <1>1, PoolAssumption DEF Locks
  <2>. QED  BY <1>1, <1>3, <2>1 DEF Locks
<1>6. Life'
  BY <1>1, <1>2, <1>3 DEF Life, InPool
<1>7. Attended'
  BY <1>1, <1>2, <1>3 DEF Attended
<1>. QED  BY <1>3, <1>4, <1>5, <1>6, <1>7

\* The round ends, and with it the lock.
LEMMA EndFetchStep ==
  ASSUME IInv, NEW w \in Worker, EndFetch(w)
  PROVE  IInv'
<1>. USE DEF IInv
<1>1. /\ pc[w] = "fetching" /\ Goto(w, "loop") /\ serverMutex' = None
      /\ UNCHANGED <<subVars, lifeVars, taskQueue, mut, stop, task, poll>>
  BY DEF EndFetch
<1>2. UNCHANGED <<inbox, phase, results, finished, unsent, finishedSubmissions, freed>>
  BY <1>1 DEF subVars, lifeVars
<1>3. /\ Mailboxes' /\ OneCopy' /\ Submissions'
      /\ pc' \in [Worker -> Label] /\ pc'[w] = "loop"
      /\ \A v \in Worker : v # w => pc'[v] = pc[v]
  <2>1. "loop" \in Label
    BY DEF Label
  <2>. QED  BY <1>1, <2>1, QuietMove
<1>4. Workers'
  BY <1>1, <1>2, <1>3 DEF Workers, Item, Task, Tasks
<1>5. Locks'
  <2>1. serverMutex = w /\ \A v \in Worker : v # None
    BY <1>1, PoolAssumption DEF Locks
  <2>2. \A v \in Worker : v # w => pc[v] \notin { "fetching", "distributing" }
    BY <2>1 DEF Locks
  <2>. QED  BY <1>1, <1>3, <2>1, <2>2 DEF Locks
<1>6. Life'
  BY <1>1, <1>2, <1>3 DEF Life, InPool
<1>7. Attended'
  BY <1>1, <1>2, <1>3 DEF Attended
<1>. QED  BY <1>3, <1>4, <1>5, <1>6, <1>7

\* A server without a submission, SIGINT, and steps that change nothing.
LEMMA IdleStep ==
  ASSUME IInv, stop' \in BOOLEAN, poll' \in [Worker -> 1 .. Servers + 1],
         \A v \in Worker : pc[v] = "distributing" => poll'[v] = poll[v],
         UNCHANGED <<subVars, lifeVars, taskQueue, serverMutex, mut, pc, task>>
  PROVE  IInv'
<1>. USE DEF IInv
<1>1. UNCHANGED <<inbox, phase, results, finished, unsent, finishedSubmissions, freed>>
  BY DEF subVars, lifeVars
<1>2. Mailboxes' /\ OneCopy' /\ Submissions'
  BY Quiet DEF Running
<1>3. Workers'
  BY <1>1 DEF Workers, Item, Task, Tasks
<1>4. Locks' /\ Life' /\ Attended'
  BY <1>1 DEF Locks, Life, InPool, Attended
<1>. QED  BY <1>2, <1>3, <1>4

\* The next judge server, in a round that goes on.
LEMMA NextPoll ==
  ASSUME Workers, NEW w \in Worker, poll[w] <= Servers, NextServer(w)
  PROVE  /\ poll' \in [Worker -> 1 .. Servers + 1]
         /\ \A v \in Worker : v # w => poll'[v] = poll[v]
<1>1. poll[w] \in 1 .. Servers + 1 /\ Servers \in Nat
  BY PoolAssumption DEF Workers
<1>2. poll[w] + 1 \in 1 .. Servers + 1
  BY <1>1
<1>. QED  BY <1>2 DEF NextServer, Workers

\* The submission that was finished is given up, under server_mutex.
LEMMA FinishStep ==
  ASSUME IInv, NEW w \in Worker, FinishSubmission(w)
  PROVE  IInv'
<1>. USE DEF IInv
<1>0. /\ pc[w] = "finishing" /\ Goto(w, "unlocking") /\ serverMutex = None
      /\ finishedSubmissions' = finishedSubmissions \cup {task[w][1]}
      /\ UNCHANGED <<subVars, freed, taskQueue, serverMutex, mut, stop, task, poll>>
  BY DEF FinishSubmission
<1>. DEFINE s == task[w][1]
<1>1. s \in Sub /\ mut[s] = w /\ w # None
  BY <1>0, Items, PoolAssumption DEF Workers, Locks
<1>2. UNCHANGED <<inbox, phase, results, finished, unsent>>
  BY <1>0 DEF subVars
<1>3. /\ Mailboxes' /\ OneCopy' /\ Submissions'
      /\ pc' \in [Worker -> Label] /\ pc'[w] = "unlocking"
      /\ \A v \in Worker : v # w => pc'[v] = pc[v]
  <2>1. "unlocking" \in Label
    BY DEF Label
  <2>. QED  BY <1>0, <2>1, QuietMove
<1>4. Workers'
  BY <1>0, <1>2, <1>3 DEF Workers, Item, Task, Tasks
<1>5. Locks'
  BY <1>0, <1>3 DEF Locks
<1>6. Life'
  <2>1. phase[s] = "finished"
    BY <1>0, <1>1 DEF Life
  <2>2. \A v \in Worker : pc[v] # "distributing"
    BY <1>0, PoolAssumption DEF Locks
  <2>3. \A t \in Sub : unsent[t] = {}
    BY <2>2 DEF Life
  <2>. QED  BY <1>0, <1>1, <1>2, <1>3, <2>1, <2>2, <2>3 DEF Life
<1>7. Attended'
  BY <1>0, <1>2, <1>3 DEF Attended
<1>. QED  BY <1>3, <1>4, <1>5, <1>6, <1>7

\* Its mutex is unlocked.
LEMMA UnlockStep ==
  ASSUME IInv, NEW w \in Worker, Unlock(w)
  PROVE  IInv'
<1>. USE DEF IInv
<1>. DEFINE s == task[w][1]
<1>1. /\ pc[w] = "unlocking" /\ Goto(w, "ending") /\ mut' = [mut EXCEPT ![s] = None]
      /\ UNCHANGED <<subVars, lifeVars, taskQueue, serverMutex, stop, task, poll>>
  BY DEF Unlock
<1>2. UNCHANGED <<inbox, phase, results, finished, unsent, finishedSubmissions, freed>>
  BY <1>1 DEF subVars, lifeVars
<1>3. /\ Mailboxes' /\ OneCopy' /\ Submissions'
      /\ pc' \in [Worker -> Label] /\ pc'[w] = "ending"
      /\ \A v \in Worker : v # w => pc'[v] = pc[v]
  <2>1. "ending" \in Label
    BY DEF Label
  <2>. QED  BY <1>1, <2>1, QuietMove
<1>4. Workers'
  BY <1>1, <1>2, <1>3 DEF Workers, Item, Task, Tasks
<1>5. Locks'
  <2>1. s \in Sub /\ mut[s] = w
    BY <1>1, Items DEF Workers, Locks
  <2>2. mut' \in [Sub -> Worker \cup {None}] /\ mut'[s] = None
        /\ \A t \in Sub : t # s => mut'[t] = mut[t]
    BY <1>1, <2>1 DEF Locks
  <2>3. \A v \in Worker : v # w => ~ (pc[v] \in { "finishing", "unlocking" } /\ task[v][1] = s)
    BY <2>1 DEF Locks
  <2>4. \A v \in Worker : v # None
    BY PoolAssumption
  <2>5. \A t \in Sub, v \in Worker :
          mut'[t] = v <=> pc'[v] \in { "finishing", "unlocking" } /\ task[v][1] = t
    BY <1>3, <2>1, <2>2, <2>3, <2>4 DEF Locks
  <2>. QED  BY <1>1, <1>3, <2>2, <2>5 DEF Locks
<1>6. Life'
  BY <1>1, <1>2, <1>3 DEF Life, InPool
<1>7. Attended'
  BY <1>1, <1>2, <1>3 DEF Attended
<1>. QED  BY <1>3, <1>4, <1>5, <1>6, <1>7

\* The task is over.
LEMMA EndStep ==
  ASSUME IInv, NEW w \in Worker, EndJudgeTask(w)
  PROVE  IInv'
<1>. USE DEF IInv
<1>1. /\ pc[w] = "ending" /\ Goto(w, "reaping") /\ task' = [task EXCEPT ![w] = None]
      /\ UNCHANGED <<subVars, lifeVars, taskQueue, serverMutex, mut, stop, poll>>
  BY DEF EndJudgeTask
<1>2. UNCHANGED <<inbox, phase, results, finished, unsent, finishedSubmissions, freed>>
  BY <1>1 DEF subVars, lifeVars
<1>3. \A v \in Worker : v # w => task'[v] = task[v]
  BY <1>1 DEF Workers
<1>4. /\ Mailboxes' /\ OneCopy' /\ Submissions'
      /\ pc' \in [Worker -> Label] /\ pc'[w] = "reaping"
      /\ \A v \in Worker : v # w => pc'[v] = pc[v]
  <2>1. "reaping" \in Label
    BY DEF Label
  <2>. QED  BY <1>1, <1>3, <2>1, QuietMove
<1>5. Workers'
  BY <1>1, <1>2, <1>3, <1>4 DEF Workers, Item, Task, Tasks
<1>6. Locks'
  BY <1>1, <1>3, <1>4 DEF Locks
<1>7. Life'
  BY <1>1, <1>2, <1>3, <1>4 DEF Life, InPool
<1>8. Attended'
  BY <1>1, <1>2, <1>4 DEF Attended
<1>. QED  BY <1>4, <1>5, <1>6, <1>7, <1>8

\* Whatever was finished is released.
LEMMA ReapStep ==
  ASSUME IInv, NEW w \in Worker, Reap(w)
  PROVE  IInv'
<1>. USE DEF IInv
<1>1. /\ pc[w] = "reaping" /\ Goto(w, "loop")
      /\ freed' = freed \cup finishedSubmissions /\ finishedSubmissions' = {}
      /\ UNCHANGED <<subVars, taskQueue, serverMutex, mut, stop, task, poll>>
  BY DEF Reap
<1>2. UNCHANGED <<inbox, phase, results, finished, unsent>>
  BY <1>1 DEF subVars
<1>3. /\ Mailboxes' /\ OneCopy' /\ Submissions'
      /\ pc' \in [Worker -> Label] /\ pc'[w] = "loop"
      /\ \A v \in Worker : v # w => pc'[v] = pc[v]
  <2>1. "loop" \in Label
    BY DEF Label
  <2>. QED  BY <1>1, <2>1, QuietMove
<1>4. Workers'
  BY <1>1, <1>2, <1>3 DEF Workers, Item, Task, Tasks
<1>5. Locks'
  BY <1>1, <1>3 DEF Locks
<1>6. Life'
  BY <1>1, <1>2, <1>3 DEF Life, InPool
<1>7. Attended'
  BY <1>1, <1>3 DEF Attended
<1>. QED  BY <1>3, <1>4, <1>5, <1>6, <1>7

-----------------------------------------------------------------------------
(* The steps that move tasks.                                              *)

\* The first task of the queue goes to a worker.
LEMMA PopStep ==
  ASSUME IInv, NEW w \in Worker, TryPop(w), taskQueue # << >>
  PROVE  IInv'
<1>. USE DEF IInv
<1>. DEFINE h == Head(taskQueue)
<1>1. /\ pc[w] = "loop" /\ Goto(w, "judging") /\ task' = [task EXCEPT ![w] = h]
      /\ taskQueue' = Tail(taskQueue)
      /\ UNCHANGED <<subVars, lifeVars, serverMutex, mut, stop, poll>>
  BY DEF TryPop
<1>2. UNCHANGED <<inbox, phase, results, finished, unsent, finishedSubmissions, freed>>
  BY <1>1 DEF subVars, lifeVars
<1>3. /\ h \in Range(taskQueue) /\ h \in Item /\ taskQueue' \in Seq(Item)
      /\ IsInjective(taskQueue') /\ Range(taskQueue') = Range(taskQueue) \ {h}
  BY <1>1, Popped DEF OneCopy
<1>. HIDE DEF h
<1>4. task'[w] = h /\ \A v \in Worker : v # w => task'[v] = task[v]
  BY <1>1 DEF Workers
<1>5. pc' \in [Worker -> Label] /\ pc'[w] = "judging" /\ \A v \in Worker : v # w => pc'[v] = pc[v]
  <2>1. "judging" \in Label
    BY DEF Label
  <2>. QED  BY <1>1, <2>1, Moves
<1>6. Running' = Running \cup {w} /\ w \notin Running
  BY <1>1, <1>5 DEF Running
<1>7. Unsent' = Unsent /\ Item' = Item
  BY <1>2 DEF Unsent, Item, Task, Tasks
<1>8. Copied' = Copied
  <2>1. { task'[v] : v \in Running' } = { task[v] : v \in Running } \cup {h}
    BY <1>4, <1>6 DEF Running
  <2>. QED  BY <1>3, <1>7, <2>1 DEF Copied
<1>9. Mailboxes'
  BY <1>2 DEF Mailboxes
<1>10. OneCopy'
  <2>1. \A v \in Running : task[v] # h
    BY <1>3 DEF OneCopy
  <2>2. \A u, v \in Running' : task'[u] = task'[v] => u = v
    BY <1>4, <1>6, <2>1 DEF OneCopy, Running
  <2>3. \A v \in Running' : task'[v] \notin Range(taskQueue') \cup Unsent'
    BY <1>3, <1>4, <1>6, <1>7 DEF OneCopy, Running
  <2>4. Range(taskQueue') \cap Unsent' = {}
    BY <1>3, <1>7 DEF OneCopy
  <2>. QED  BY <1>2, <1>3, <1>7, <2>2, <2>3, <2>4 DEF OneCopy, Task, Tasks
<1>11. Submissions'
  BY <1>2, <1>8 DEF Submissions, Accounted, InPool, Undecided, Task, Tasks
<1>12. Workers'
  BY <1>1, <1>3, <1>4, <1>5, <1>7 DEF Workers
<1>13. Locks'
  BY <1>1, <1>4, <1>5 DEF Locks
<1>14. Life'
  BY <1>1, <1>2, <1>4, <1>5 DEF Life, InPool
<1>15. Attended'
  BY <1>1, <1>2, <1>5 DEF Attended
<1>. QED  BY <1>9, <1>10, <1>11, <1>12, <1>13, <1>14, <1>15

\* distribute pushes an entry task.
LEMMA PushStep ==
  ASSUME IInv, NEW w \in Worker, pc[w] = "distributing", NEW s, s = task[w][1],
         NEW i \in unsent[s], unsent' = [unsent EXCEPT ![s] = @ \ {i}],
         taskQueue' = Append(taskQueue, << s, i >>),
         UNCHANGED <<pc, task, poll, lifeVars, inbox, phase, results, finished, serverMutex, mut,
                     stop>>
  PROVE  IInv'
<1>. USE DEF IInv
<1>1. UNCHANGED <<finishedSubmissions, freed>>
  BY DEF lifeVars
<1>2. s \in Sub /\ i \in Task(s) /\ << s, i >> \in Item
  BY Items DEF Workers, OneCopy
<1>3. << s, i >> \in Unsent
  BY <1>2 DEF Unsent
<1>4. /\ taskQueue' \in Seq(Item) /\ IsInjective(taskQueue')
      /\ Range(taskQueue') = Range(taskQueue) \cup {<< s, i >>}
  BY <1>2, <1>3, PushedOne DEF OneCopy
<1>5. unsent' \in [Sub -> SUBSET Nat] /\ \A t \in Sub : unsent'[t] \subseteq unsent[t]
  BY <1>2 DEF OneCopy
<1>6. Unsent' = Unsent \ {<< s, i >>} /\ Item' = Item
  <2>1. Item' = Item
    BY DEF Item, Task, Tasks
  <2>2. ASSUME NEW p \in Item  PROVE p[2] \in unsent'[p[1]] <=> p \in Unsent /\ p # << s, i >>
    <3>1. p[1] \in Sub /\ p = << p[1], p[2] >>
      BY Items
    <3>2. p = << s, i >> <=> p[1] = s /\ p[2] = i
      BY <3>1
    <3>3. p[2] \in unsent'[p[1]] <=> p[2] \in unsent[p[1]] /\ ~ (p[1] = s /\ p[2] = i)
      BY <1>2, <3>1 DEF OneCopy
    <3>. QED  BY <3>2, <3>3 DEF Unsent
  <2>. QED  BY <2>1, <2>2 DEF Unsent
<1>7. Running' = Running /\ { task'[v] : v \in Running' } = { task[v] : v \in Running }
  BY DEF Running
<1>8. Copied' = Copied
  BY <1>3, <1>4, <1>6, <1>7 DEF Copied
<1>9. Mailboxes'
  BY DEF Mailboxes
<1>10. OneCopy'
  <2>1. \A v \in Running : task[v] # << s, i >>
    BY <1>3 DEF OneCopy
  <2>2. \A v \in Running' : task'[v] \notin Range(taskQueue') \cup Unsent'
    BY <1>4, <1>6, <1>7, <2>1 DEF OneCopy
  <2>3. Range(taskQueue') \cap Unsent' = {}
    BY <1>4, <1>6 DEF OneCopy
  <2>. QED  BY <1>4, <1>5, <1>6, <1>7, <2>2, <2>3 DEF OneCopy, Task, Tasks
<1>11. Submissions'
  BY <1>8 DEF Submissions, Accounted, InPool, Undecided, Task, Tasks
<1>12. Workers'
  BY <1>6 DEF Workers
<1>13. Locks'
  BY DEF Locks
<1>14. Life'
  <2>1. \A t \in Sub : unsent'[t] # {} => unsent[t] # {}
    BY <1>5
  <2>. QED  BY <1>1, <2>1 DEF Life, InPool
<1>15. Attended'
  BY <1>1 DEF Attended
<1>. QED  BY <1>9, <1>10, <1>11, <1>12, <1>13, <1>14, <1>15

\* It has pushed them all.
LEMMA DistributedStep ==
  ASSUME IInv, NEW w \in Worker, pc[w] = "distributing", unsent[task[w][1]] = {},
         Goto(w, "fetching"), task' = [task EXCEPT ![w] = None],
         poll' \in [Worker -> 1 .. Servers + 1], \A v \in Worker : v # w => poll'[v] = poll[v],
         UNCHANGED <<unsent, taskQueue, lifeVars, inbox, phase, results, finished, serverMutex,
                     mut, stop>>
  PROVE  IInv'
<1>. USE DEF IInv
<1>1. UNCHANGED <<subVars, taskQueue>> /\ UNCHANGED <<finishedSubmissions, freed>>
  BY DEF subVars, lifeVars
<1>2. \A v \in Worker : v # w => task'[v] = task[v]
  BY DEF Workers
<1>3. /\ Mailboxes' /\ OneCopy' /\ Submissions'
      /\ pc' \in [Worker -> Label] /\ pc'[w] = "fetching"
      /\ \A v \in Worker : v # w => pc'[v] = pc[v]
  <2>1. "fetching" \in Label
    BY DEF Label
  <2>. QED  BY <1>1, <1>2, <2>1, QuietMove
<1>4. Workers'
  BY <1>2, <1>3 DEF Workers, Item, Task, Tasks
<1>5. Locks'
  BY <1>2, <1>3 DEF Locks
<1>6. Life'
  BY <1>1, <1>2, <1>3 DEF Life, InPool
<1>7. Attended'
  BY <1>1, <1>3 DEF Attended
<1>. QED  BY <1>3, <1>4, <1>5, <1>6, <1>7

\* A judge server hands over the next submission it has, which was not seen before.
LEMMA Taken ==
  ASSUME Mailboxes, NEW a \in 1 .. Servers, inbox[a] # << >>,
         inbox' = [inbox EXCEPT ![a] = Tail(@)], NEW s, s = Head(inbox[a]), NEW x,
         phase \in [Sub -> { "waiting", "dropped", "invalid", "judging", "finished" }],
         phase' = [phase EXCEPT ![s] = x]
  PROVE  /\ s \in Sub /\ phase[s] = "waiting" /\ Mailboxes'
         /\ phase'[s] = x /\ \A t \in Sub : t # s => phase'[t] = phase[t]
<1>1. /\ inbox[a] \in Seq(Sub) /\ Len(inbox[a]) \in Nat \ {0} /\ s = inbox[a][1]
      /\ DOMAIN inbox[a] = 1 .. Len(inbox[a])
  BY DEF Mailboxes
<1>2. s \in Sub /\ 1 \in DOMAIN inbox[a] /\ phase[s] = "waiting"
  BY <1>1 DEF Mailboxes
<1>3. phase'[s] = x /\ \A t \in Sub : t # s => phase'[t] = phase[t]
  BY <1>2
<1>4. inbox' \in [1 .. Servers -> Seq(Sub)] /\ inbox'[a] = Tail(inbox[a])
      /\ \A b \in 1 .. Servers : b # a => inbox'[b] = inbox[b]
  BY <1>1 DEF Mailboxes
<1>5. \A k \in DOMAIN inbox'[a] : k + 1 \in DOMAIN inbox[a] /\ k \in Nat \ {0}
                                  /\ inbox'[a][k] = inbox[a][k + 1]
  BY <1>1, <1>4
<1>. DEFINE old(b, k) == IF b = a THEN k + 1 ELSE k
<1>6. ASSUME NEW b \in 1 .. Servers, NEW k \in DOMAIN inbox'[b]
      PROVE  /\ old(b, k) \in DOMAIN inbox[b] /\ inbox'[b][k] = inbox[b][old(b, k)]
             /\ k \in Nat /\ (b = a => old(b, k) # 1)
  <2>1. CASE b = a
    BY <1>5, <2>1
  <2>2. CASE b # a
    <3>1. inbox[b] \in Seq(Sub)
      BY DEF Mailboxes
    <3>. QED  BY <1>4, <2>2, <3>1
  <2>. QED  BY <2>1, <2>2
<1>7. ASSUME NEW b \in 1 .. Servers, NEW k \in DOMAIN inbox'[b]
      PROVE  phase'[inbox'[b][k]] = "waiting"
  <2>1. inbox'[b][k] # s
    BY <1>1, <1>2, <1>6 DEF Mailboxes
  <2>2. inbox'[b][k] \in Sub /\ phase[inbox'[b][k]] = "waiting"
    <3>1. inbox[b] \in Seq(Sub)
      BY DEF Mailboxes
    <3>. QED  BY <1>6, <3>1 DEF Mailboxes
  <2>. QED  BY <1>3, <2>1, <2>2
<1>8. ASSUME NEW b \in 1 .. Servers, NEW c \in 1 .. Servers, NEW j \in DOMAIN inbox'[b],
             NEW k \in DOMAIN inbox'[c], inbox'[b][j] = inbox'[c][k]
      PROVE  b = c /\ j = k
  <2>1. b = c /\ old(b, j) = old(c, k)
    BY <1>6, <1>8 DEF Mailboxes
  <2>. QED  BY <1>6, <2>1
<1>. QED  BY <1>2, <1>3, <1>4, <1>7, <1>8 DEF Mailboxes

\* A submission that verify refuses, or that an exception loses, is not registered.
LEMMA RejectStep ==
  ASSUME IInv, NEW a \in 1 .. Servers, inbox[a] # << >>,
         inbox' = [inbox EXCEPT ![a] = Tail(@)], NEW s, s = Head(inbox[a]),
         NEW x \in { "invalid", "dropped" }, phase' = [phase EXCEPT ![s] = x],
         poll' \in [Worker -> 1 .. Servers + 1],
         \A v \in Worker : pc[v] = "distributing" => poll'[v] = poll[v],
         UNCHANGED <<lifeVars, results, unsent, taskQueue, finished, serverMutex, mut, stop, pc,
                     task>>
  PROVE  IInv'
<1>. USE DEF IInv
<1>1. UNCHANGED <<finishedSubmissions, freed>>
  BY DEF lifeVars
<1>2. /\ s \in Sub /\ phase[s] = "waiting" /\ Mailboxes'
      /\ phase'[s] = x /\ \A t \in Sub : t # s => phase'[t] = phase[t]
  BY Taken DEF Submissions
<1>3. phase' \in [Sub -> { "waiting", "dropped", "invalid", "judging", "finished" }]
  BY DEF Submissions
<1>4. \A t \in Sub : (InPool(t)' <=> InPool(t)) /\ (InPool(t) => phase'[t] = phase[t])
  BY <1>2 DEF InPool
<1>5. Unsent' = Unsent /\ Copied' = Copied
  BY DEF Unsent, Copied, Running, Item, Task, Tasks
<1>6. OneCopy'
  BY <1>5 DEF OneCopy, Running, Item, Task, Tasks
<1>7. Submissions'
  <2>1. ASSUME NEW t \in Sub  PROVE Accounted(t)'
    <3>1. Accounted(t)
      BY DEF Submissions
    <3>2. CASE InPool(t)
      <4>1. InPool(t)' /\ phase'[t] = phase[t]
        BY <1>4, <3>2
      <4>. QED  BY <1>5, <3>1, <3>2, <4>1 DEF Accounted, Undecided, Task, Tasks
    <3>3. CASE ~ InPool(t)
      <4>1. ~ InPool(t)'
        BY <1>4, <3>3
      <4>. QED  BY <1>5, <3>1, <3>3, <4>1 DEF Accounted, Task, Tasks
    <3>. QED  BY <3>2, <3>3
  <2>. QED  BY <1>3, <2>1 DEF Submissions
<1>8. Workers'
  BY DEF Workers, Item, Task, Tasks
<1>9. Locks'
  BY DEF Locks
<1>10. Life'
  <2>1. \A t \in Sub : phase'[t] = "finished" <=> phase[t] = "finished"
    BY <1>2
  <2>2. \A v \in Worker : pc[v] \in { "distributing", "finishing" } => task[v][1] \in Sub
    BY Items DEF Workers
  <2>. QED  BY <1>1, <1>4, <2>1, <2>2 DEF Life
<1>11. Attended'
  BY <1>1 DEF Attended
<1>. QED  BY <1>2, <1>6, <1>7, <1>8, <1>9, <1>10, <1>11

\* One that verify accepts is registered, and its entry tasks are about to be pushed.
LEMMA RegisterStep ==
  ASSUME IInv, NEW w \in Worker, pc[w] = "fetching", poll[w] <= Servers,
         NEW a \in 1 .. Servers, inbox[a] # << >>,
         inbox' = [inbox EXCEPT ![a] = Tail(@)], NEW s, s = Head(inbox[a]), Verified(Graph[s]),
         phase' = [phase EXCEPT ![s] = "judging"],
         results' = [results EXCEPT ![s] = [i \in Task(s) |-> "PENDING"]],
         unsent' = [unsent EXCEPT ![s] = { i \in Task(s) : Entry(Tasks(s), i) }],
         task' = [task EXCEPT ![w] = << s, 0 >>], Goto(w, "distributing"),
         UNCHANGED <<lifeVars, taskQueue, finished, serverMutex, mut, stop, poll>>
  PROVE  IInv'
<1>. USE DEF IInv
<1>. DEFINE pending == [i \in Task(s) |-> "PENDING"]
            entries == { i \in Task(s) : Entry(Tasks(s), i) }
<1>1. UNCHANGED <<finishedSubmissions, freed>>
  BY DEF lifeVars
<1>2. /\ s \in Sub /\ phase[s] = "waiting" /\ Mailboxes'
      /\ phase'[s] = "judging" /\ \A t \in Sub : t # s => phase'[t] = phase[t]
  BY Taken DEF Submissions
<1>3. /\ results[s] = << >> /\ finished[s] = 0 /\ \A i \in Task(s) : << s, i >> \notin Copied
  BY <1>2 DEF Submissions, Accounted, InPool
<1>4. /\ DOMAIN results' = Sub /\ results'[s] = pending
      /\ \A t \in Sub : t # s => results'[t] = results[t]
  BY <1>2 DEF Submissions
<1>5. /\ unsent' \in [Sub -> SUBSET Nat] /\ unsent'[s] = entries
      /\ \A t \in Sub : t # s => unsent'[t] = unsent[t]
  <2>1. entries \in SUBSET Nat
    BY <1>2, TasksFinite, GraphAssumption
  <2>. QED  BY <1>2, <2>1 DEF OneCopy
<1>6. /\ IsFiniteSet(Task(s)) /\ Task(s) # {} /\ 0 \in Task(s) /\ << s, 0 >> \in Item
  <2>1. Task(s) # {}
    BY DEF Verified, Task, Tasks
  <2>. QED  BY <1>2, <2>1, TasksFinite, Items
<1>7. /\ pending \in [Task(s) -> Status] /\ Consistent(Tasks(s), pending)
      /\ \A i \in Task(s) : Due(Tasks(s), pending, i) <=> Entry(Tasks(s), i)
  <2>1. Forward(Tasks(s)) /\ DOMAIN Tasks(s) = Task(s)
    BY <1>2, VerifiedForward DEF Task
  <2>. QED  BY <2>1, EntriesDue
<1>8. /\ task'[w] = << s, 0 >> /\ \A v \in Worker : v # w => task'[v] = task[v]
  BY DEF Workers
<1>9. /\ pc' \in [Worker -> Label] /\ pc'[w] = "distributing"
      /\ \A v \in Worker : v # w => pc'[v] = pc[v]
  <2>1. "distributing" \in Label
    BY DEF Label
  <2>. QED  BY <2>1, Moves
<1>10. Running' = Running /\ \A v \in Running : task'[v] = task[v]
  BY <1>8, <1>9 DEF Running
<1>11. Item' = Item
  BY DEF Item, Task, Tasks
<1>12. Unsent' = Unsent \cup { << s, i >> : i \in entries }
  <2>1. ASSUME NEW p \in Item
        PROVE  p[2] \in unsent'[p[1]] <=> p \in Unsent \/ \E i \in entries : p = << s, i >>
    <3>1. p[1] \in Sub /\ p[2] \in Task(p[1]) /\ p = << p[1], p[2] >>
      BY Items
    <3>2. CASE p[1] = s
      <4>1. p \notin Unsent
        BY <1>3, <3>1, <3>2 DEF Copied
      <4>. QED  BY <1>5, <3>1, <3>2, <4>1
    <3>3. CASE p[1] # s
      BY <1>5, <3>1, <3>3 DEF Unsent
    <3>. QED  BY <3>2, <3>3
  <2>2. \A i \in entries : << s, i >> \in Item
    BY <1>2, Items
  <2>. HIDE DEF entries
  <2>3. Unsent' = { p \in Item : p[2] \in unsent'[p[1]] }
    BY <1>11 DEF Unsent
  <2>4. Unsent \subseteq Item
    BY DEF Unsent
  <2>. QED  BY <2>1, <2>2, <2>3, <2>4
<1>13. Copied' = Copied \cup { << s, i >> : i \in entries }
  <2>1. { task'[v] : v \in Running' } = { task[v] : v \in Running }
    BY <1>10
  <2>. QED  BY <1>12, <2>1 DEF Copied
<1>14. OneCopy'
  <2>1. \A i \in entries : /\ << s, i >> \notin Range(taskQueue)
                           /\ \A v \in Running : task[v] # << s, i >>
    BY <1>3 DEF Copied
  <2>2. ASSUME NEW v \in Running'  PROVE task'[v] \notin Range(taskQueue') \cup Unsent'
    <3>1. v \in Running /\ task'[v] = task[v] /\ task[v] \notin Range(taskQueue) \cup Unsent
      BY <1>10 DEF OneCopy
    <3>2. task[v] \notin { << s, i >> : i \in entries }
      BY <2>1, <3>1
    <3>. QED  BY <1>12, <3>1, <3>2
  <2>3. Range(taskQueue') \cap Unsent' = {}
    BY <1>12, <2>1 DEF OneCopy
  <2>4. \A t \in Sub : unsent'[t] \subseteq Task(t)
    BY <1>5 DEF OneCopy
  <2>5. \A u, v \in Running' : task'[u] = task'[v] => u = v
    BY <1>10 DEF OneCopy
  <2>. QED  BY <1>5, <1>11, <2>2, <2>3, <2>4, <2>5 DEF OneCopy, Task, Tasks
<1>15. Accounted(s)'
  <2>1. InPool(s)'
    BY <1>2 DEF InPool
  <2>2. Undecided(s)' = Task(s) /\ Task(s) \ Task(s) = {} /\ Cardinality({}) = 0
    BY <1>4, FS_EmptySet DEF Undecided, Task, Tasks
  <2>3. \A i \in Task(s) : << s, i >> \in Copied' <=> i \in entries
    BY <1>3, <1>13
  <2>. QED  BY <1>2, <1>3, <1>4, <1>6, <1>7, <2>1, <2>2, <2>3 DEF Accounted, Task, Tasks
<1>16. ASSUME NEW t \in Sub, t # s  PROVE Accounted(t)'
  <2>1. Accounted(t) /\ results'[t] = results[t] /\ phase'[t] = phase[t]
    BY <1>2, <1>4, <1>16 DEF Submissions
  <2>2. \A i \in Task(t) : << t, i >> \in Copied' <=> << t, i >> \in Copied
    BY <1>13, <1>16
  <2>. QED  BY <2>1, <2>2 DEF Accounted, InPool, Undecided, Task, Tasks
<1>17. Submissions'
  <2>1. phase' \in [Sub -> { "waiting", "dropped", "invalid", "judging", "finished" }]
    BY DEF Submissions
  <2>. QED  BY <1>4, <1>15, <1>16, <2>1 DEF Submissions
<1>18. Workers'
  <2>1. task' \in [Worker -> Item \cup {None}]
    BY <1>6 DEF Workers
  <2>. QED  BY <1>6, <1>8, <1>9, <1>11, <2>1 DEF Workers
<1>19. Locks'
  BY <1>8, <1>9 DEF Locks
<1>20. Life'
  <2>1. s \notin finishedSubmissions \cup freed
    BY <1>2 DEF Life
  <2>2. ASSUME NEW t \in Sub
        PROVE  /\ t \in finishedSubmissions \cup freed => phase'[t] = "finished"
               /\ phase'[t] = "finished" =>
                    \/ t \in finishedSubmissions \cup freed
                    \/ \E v \in Worker : pc'[v] = "finishing" /\ task'[v][1] = t
               /\ unsent'[t] # {} =>
                    \E v \in Worker : pc'[v] = "distributing" /\ task'[v][1] = t
    <3>1. CASE t = s
      BY <1>2, <1>8, <1>9, <2>1, <3>1
    <3>2. CASE t # s
      BY <1>2, <1>5, <1>8, <1>9, <3>2 DEF Life
    <3>. QED  BY <3>1, <3>2
  <2>3. ASSUME NEW v \in Worker
        PROVE  /\ pc'[v] = "distributing" =>
                    InPool(task[v][1])' /\ task'[v][1] \notin finishedSubmissions \cup freed
               /\ pc'[v] = "finishing" => phase'[task'[v][1]] = "finished"
    <3>1. CASE v = w
      BY <1>2, <1>8, <1>9, <2>1, <3>1 DEF InPool
    <3>2. CASE v # w
      <4>1. pc[v] \in { "distributing", "finishing" } => task[v][1] \in Sub
        BY Items DEF Workers
      <4>2. pc'[v] = pc[v] /\ task'[v] = task[v]
        BY <1>8, <1>9, <3>2
      <4>3. \A t \in Sub : InPool(t) => InPool(t)' /\ phase'[t] = phase[t]
        BY <1>2 DEF InPool
      <4>4. \A t \in Sub : phase[t] = "finished" => phase'[t] = "finished"
        BY <1>2
      <4>. QED  BY <4>1, <4>2, <4>3, <4>4 DEF Life
    <3>. QED  BY <3>1, <3>2
  <2>4. finishedSubmissions' \subseteq Sub /\ freed' \subseteq Sub
    BY <1>1 DEF Life
  <2>. QED  BY <1>1, <2>2, <2>3, <2>4 DEF Life
<1>21. Attended'
  BY <1>1, <1>9 DEF Attended
<1>. QED  BY <1>2, <1>14, <1>17, <1>18, <1>19, <1>20, <1>21

\* A verdict is processed: the task is decided, its dependents are skipped or pushed, and
\* the submission is finished when that was the last of its tasks.
LEMMA ProcessStep ==
  ASSUME IInv, NEW w \in Worker, Process(w)
  PROVE  IInv'
<1>. USE DEF IInv
<1>0. PICK s \in Sub, i \in Nat : task[w] = << s, i >> /\ i \in Task(s)
  <2>1. task[w] \in Item
    BY DEF Workers, Process
  <2>. QED  BY <2>1 DEF Item
<1>1. /\ w \in Running /\ pc[w] = "judging" /\ s \in Sub /\ i \in Task(s)
      /\ task[w] = << s, i >> /\ mut[s] = None
  BY <1>0 DEF Process, Running
<1>2. PICK status \in Outcome(Tasks(s)[i]) :
        LET skipped  == Skipped(Tasks(s), i, status)
            released == Released(Tasks(s), i, status)
            count    == finished[s] + 1 + Cardinality(skipped)
            last     == finished[s] < Cardinality(Task(s)) /\ count >= Cardinality(Task(s))
        IN  /\ results' = [results EXCEPT ![s] =
                 [j \in Task(s) |-> IF j = i THEN status
                                    ELSE IF j \in skipped THEN "DEPENDENCY_NOT_SATISFIED"
                                    ELSE @[j]]]
            /\ finished' = [finished EXCEPT ![s] = count]
            /\ taskQueue' = taskQueue \o
                 [k \in 1 .. Cardinality(released) |-> << s, Ascending(released)[k] >>]
            /\ phase' = [phase EXCEPT ![s] = IF last THEN "finished" ELSE @]
            /\ mut' = [mut EXCEPT ![s] = IF last THEN w ELSE None]
            /\ Goto(w, IF last THEN "finishing" ELSE "ending")
  <2>1. task[w][1] = s /\ task[w][2] = i
    BY <1>0
  <2>. QED  BY <2>1, Zenon DEF Process
<1>. DEFINE K == Skipped(Tasks(s), i, status)
            R == Released(Tasks(s), i, status)
            count == finished[s] + 1 + Cardinality(K)
            last == finished[s] < Cardinality(Task(s)) /\ count >= Cardinality(Task(s))
            after == [j \in Task(s) |-> IF j = i THEN status
                                        ELSE IF j \in K THEN "DEPENDENCY_NOT_SATISFIED"
                                        ELSE results[s][j]]
            pushed == [k \in 1 .. Cardinality(R) |-> << s, Ascending(R)[k] >>]
            l == IF last THEN "finishing" ELSE "ending"
<1>3. UNCHANGED <<finishedSubmissions, freed, inbox, unsent, serverMutex, stop, task, poll>>
  BY DEF Process, lifeVars
<1>4. << s, i >> \in Copied
  BY <1>1 DEF Copied
<1>5. /\ InPool(s) /\ Verified(Graph[s]) /\ results[s] \in [Task(s) -> Status]
      /\ Consistent(Tasks(s), results[s]) /\ Due(Tasks(s), results[s], i)
      /\ finished[s] = Cardinality(Task(s) \ Undecided(s))
      /\ \A j \in Task(s) : << s, j >> \in Copied <=> Due(Tasks(s), results[s], j)
  BY <1>1, <1>4 DEF Submissions, Accounted
<1>6. i \in Undecided(s) /\ Undecided(s) \in SUBSET Task(s) /\ phase[s] = "judging"
  <2>1. i \in Undecided(s)
    BY <1>1, <1>5 DEF Undecided, Due
  <2>. QED  BY <1>1, <1>5, <2>1 DEF Submissions, Accounted, Undecided, InPool
<1>7. /\ results' = [results EXCEPT ![s] = after] /\ finished' = [finished EXCEPT ![s] = count]
      /\ taskQueue' = taskQueue \o pushed
      /\ phase' = [phase EXCEPT ![s] = IF last THEN "finished" ELSE "judging"]
      /\ mut' = [mut EXCEPT ![s] = IF last THEN w ELSE None]
      /\ Goto(w, l)
  <2>1. results' = [results EXCEPT ![s] = after]
    BY <1>2
  <2>2. phase' = [phase EXCEPT ![s] = IF last THEN "finished" ELSE "judging"]
    BY <1>2, <1>6
  <2>. QED  BY <1>2, <2>1, <2>2
<1>8. /\ after \in [Task(s) -> Status] /\ Consistent(Tasks(s), after)
      /\ K \subseteq Task(s) /\ \A j \in K : results[s][j] = "PENDING" /\ j # i
      /\ \A j \in Task(s) :
           after[j] = "PENDING" <=> results[s][j] = "PENDING" /\ j # i /\ j \notin K
      /\ R \subseteq Task(s) /\ \A j \in R : ~ Due(Tasks(s), results[s], j)
      /\ \A j \in Task(s) :
           Due(Tasks(s), after, j) <=> j \in R \/ (j # i /\ Due(Tasks(s), results[s], j))
  <2>1. Forward(Tasks(s)) /\ DOMAIN Tasks(s) = Task(s)
    BY <1>1, <1>5, VerifiedForward DEF Task
  <2>. QED  BY <1>1, <1>5, <2>1, Processed
<1>9. l \in Label /\ l # "judging" /\ l \in { "finishing", "ending" }
      /\ (l = "finishing" <=> last)
  BY DEF Label
<1>10. IsFiniteSet(Task(s)) /\ IsFiniteSet(R) /\ R \subseteq Nat
  BY <1>1, <1>8, TasksFinite, GraphAssumption, FS_Subset
<1>11. /\ Cardinality(R) \in Nat /\ Ascending(R) \in [1 .. Cardinality(R) -> R]
       /\ IsInjective(Ascending(R)) /\ Range(Ascending(R)) = R
  BY <1>10, AscendingOrder
<1>. HIDE DEF K, R, count, last, after, l
<1>12. /\ pushed \in Seq(Item) /\ IsInjective(pushed) /\ Range(pushed) = { << s, j >> : j \in R }
  <2>1. \A j \in R : << s, j >> \in Item
    BY <1>1, <1>8, Items
  <2>2. DOMAIN pushed = 1 .. Cardinality(R) /\ DOMAIN Ascending(R) = 1 .. Cardinality(R)
        /\ \A k \in 1 .. Cardinality(R) : pushed[k] = << s, Ascending(R)[k] >>
                                          /\ Ascending(R)[k] \in R
    BY <1>11
  <2>3. pushed \in Seq(Item)
    BY <1>11, <2>1, <2>2
  <2>. HIDE DEF pushed
  <2>4. IsInjective(pushed)
    BY <1>11, <2>2 DEF IsInjective
  <2>5. Range(pushed) = { << s, j >> : j \in R }
    <3>1. ASSUME NEW j \in R  PROVE << s, j >> \in Range(pushed)
      <4>1. PICK k \in 1 .. Cardinality(R) : Ascending(R)[k] = j
        BY <1>11, <2>2 DEF Range
      <4>. QED  BY <2>2, <4>1 DEF Range
    <3>2. Range(pushed) \subseteq { << s, j >> : j \in R }
      BY <2>2 DEF Range
    <3>. QED  BY <3>1, <3>2
  <2>. QED  BY <2>3, <2>4, <2>5
<1>. HIDE DEF pushed
<1>13. \A j \in R : << s, j >> \notin Copied
  BY <1>5, <1>8
<1>14. /\ taskQueue' \in Seq(Item) /\ IsInjective(taskQueue')
       /\ Range(taskQueue') = Range(taskQueue) \cup { << s, j >> : j \in R }
  <2>1. Range(taskQueue) \cap Range(pushed) = {}
    BY <1>12, <1>13 DEF Copied
  <2>. QED  BY <1>7, <1>12, <2>1, Pushed DEF OneCopy
<1>15. pc' \in [Worker -> Label] /\ pc'[w] = l /\ \A v \in Worker : v # w => pc'[v] = pc[v]
  BY <1>7, <1>9, Moves
<1>16. Running' = Running \ {w} /\ Item' = Item /\ Unsent' = Unsent
  <2>1. Item' = Item /\ Unsent' = Unsent
    BY <1>3 DEF Unsent, Item, Task, Tasks
  <2>2. Running' = Running \ {w}
    BY <1>9, <1>15 DEF Running
  <2>. QED  BY <2>1, <2>2
<1>17. \A p \in Item : p \in Copied' <=> p \in { << s, j >> : j \in R } \/ (p \in Copied /\ p # << s, i >>)
  <2>1. << s, i >> \notin Range(taskQueue) \cup Unsent /\ \A v \in Running' : task[v] # << s, i >>
    BY <1>1, <1>16 DEF OneCopy
  <2>2. << s, i >> \notin { << s, j >> : j \in R }
    BY <1>4, <1>13
  <2>3. Copied' = Unsent \cup Range(taskQueue) \cup { << s, j >> : j \in R }
                    \cup { task[v] : v \in Running' }
    BY <1>3, <1>14, <1>16 DEF Copied
  <2>4. { task[v] : v \in Running } = { task[v] : v \in Running' } \cup {<< s, i >>}
    BY <1>1, <1>16
  <2>5. Copied = Unsent \cup Range(taskQueue) \cup { task[v] : v \in Running' } \cup {<< s, i >>}
    BY <2>4 DEF Copied
  <2>. QED  BY <2>1, <2>2, <2>3, <2>5
<1>18. /\ results'[s] = after /\ finished'[s] = count
       /\ phase'[s] = IF last THEN "finished" ELSE "judging"
       /\ DOMAIN results' = Sub /\ DOMAIN finished' = Sub
       /\ phase' \in [Sub -> { "waiting", "dropped", "invalid", "judging", "finished" }]
       /\ \A t \in Sub : t # s => /\ results'[t] = results[t] /\ finished'[t] = finished[t]
                                  /\ phase'[t] = phase[t]
  BY <1>1, <1>7 DEF Submissions
<1>19. /\ Undecided(s)' = Undecided(s) \ ({i} \cup K)
       /\ count = Cardinality(Task(s) \ Undecided(s)')
       /\ last <=> Undecided(s)' = {}
  <2>1. Undecided(s)' = { j \in Task(s) : after[j] = "PENDING" }
    BY <1>3, <1>18 DEF Undecided, Task, Tasks
  <2>2. Undecided(s)' = Undecided(s) \ ({i} \cup K)
    BY <1>8, <2>1 DEF Undecided
  <2>3. K \in SUBSET (Undecided(s) \ {i})
    BY <1>8 DEF Undecided
  <2>4. /\ Cardinality(Task(s) \ (Undecided(s) \ ({i} \cup K)))
             = Cardinality(Task(s) \ Undecided(s)) + 1 + Cardinality(K)
        /\ Cardinality(Task(s) \ Undecided(s)) < Cardinality(Task(s))
        /\ Undecided(s) \ ({i} \cup K) = {}
             <=> Cardinality(Task(s) \ Undecided(s)) + 1 + Cardinality(K) >= Cardinality(Task(s))
    <3>1. IsFiniteSet(Task(s)) /\ Undecided(s) \in SUBSET Task(s) /\ i \in Undecided(s)
      BY <1>6, <1>10
    <3>2. Counted(Task(s), Undecided(s), i, K)
      BY <2>3, <3>1, Counting
    <3>. QED  BY <3>2 DEF Counted
  <2>. QED  BY <1>5, <2>2, <2>4 DEF count, last
<1>20. Mailboxes'
  <2>1. \A t \in Sub : phase[t] = "waiting" => phase'[t] = "waiting"
    BY <1>6, <1>18
  <2>2. \A a \in 1 .. Servers : \A j \in DOMAIN inbox[a] : inbox[a][j] \in Sub
    <3>. SUFFICES ASSUME NEW a \in 1 .. Servers, NEW j \in DOMAIN inbox[a]
                  PROVE  inbox[a][j] \in Sub
      OBVIOUS
    <3>1. inbox[a] \in Seq(Sub)
      BY DEF Mailboxes
    <3>. QED  BY <3>1
  <2>. QED  BY <1>3, <2>1, <2>2 DEF Mailboxes
<1>21. OneCopy'
  <2>1. ASSUME NEW v \in Running'  PROVE task'[v] \notin Range(taskQueue') \cup Unsent'
    <3>1. v \in Running /\ task'[v] = task[v] /\ task[v] \notin Range(taskQueue) \cup Unsent
      BY <1>3, <1>16 DEF OneCopy
    <3>2. task[v] \in Copied
      BY <3>1 DEF Copied
    <3>. QED  BY <1>13, <1>14, <1>16, <3>1, <3>2
  <2>2. Range(taskQueue') \cap Unsent' = {}
    <3>1. Unsent \subseteq Copied
      BY DEF Copied
    <3>. QED  BY <1>13, <1>14, <1>16, <3>1 DEF OneCopy
  <2>3. \A u, v \in Running' : task'[u] = task'[v] => u = v
    BY <1>3, <1>16 DEF OneCopy
  <2>. QED  BY <1>3, <1>14, <1>16, <2>1, <2>2, <2>3 DEF OneCopy, Task, Tasks
<1>22. Accounted(s)'
  <2>1. InPool(s)' /\ (phase'[s] = "finished" <=> Undecided(s)' = {})
    BY <1>18, <1>19 DEF InPool
  <2>2. ASSUME NEW j \in Task(s)
        PROVE  << s, j >> \in Copied' <=> Due(Tasks(s), after, j)
    <3>1. << s, j >> \in Item
      BY <1>1, Items
    <3>. QED  BY <1>5, <1>8, <1>17, <3>1
  <2>. QED  BY <1>5, <1>8, <1>18, <1>19, <2>1, <2>2 DEF Accounted, Task, Tasks
<1>23. ASSUME NEW t \in Sub, t # s  PROVE Accounted(t)'
  <2>1. Accounted(t) /\ results'[t] = results[t] /\ phase'[t] = phase[t]
        /\ finished'[t] = finished[t]
    BY <1>18, <1>23 DEF Submissions
  <2>2. ASSUME NEW j \in Task(t)
        PROVE  << t, j >> \in Copied' <=> << t, j >> \in Copied
    <3>1. << t, j >> \in Item
      BY Items
    <3>. QED  BY <1>17, <1>23, <3>1
  <2>. QED  BY <2>1, <2>2 DEF Accounted, InPool, Undecided, Task, Tasks
<1>24. Submissions'
  BY <1>18, <1>22, <1>23 DEF Submissions
<1>25. Workers'
  <2>1. ASSUME NEW v \in Worker
        PROVE  /\ pc'[v] \in { "distributing", "judging", "finishing", "unlocking", "ending" } =>
                    task[v] \in Item
               /\ pc'[v] = "distributing" => poll[v] <= Servers
    <3>1. CASE v = w
      BY <1>1, <1>9, <1>15, <3>1 DEF Workers
    <3>2. CASE v # w
      BY <1>15, <3>2 DEF Workers
    <3>. QED  BY <3>1, <3>2
  <2>. QED  BY <1>3, <1>15, <1>16, <2>1 DEF Workers
<1>26. Locks'
  <2>0. PICK m \in Worker \cup {None} : m = IF last THEN w ELSE None
    OBVIOUS
  <2>1. mut' \in [Sub -> Worker \cup {None}] /\ mut'[s] = m
        /\ \A t \in Sub : t # s => mut'[t] = mut[t]
    BY <1>1, <1>7, <2>0 DEF Locks
  <2>2. \A v \in Worker : ~ (pc[v] \in { "finishing", "unlocking" } /\ task[v][1] = s) /\ v # None
    BY <1>1, PoolAssumption DEF Locks
  <2>3. task[w][1] = s
    BY <1>1
  <2>4. \A t \in Sub, v \in Worker :
          mut'[t] = v <=> pc'[v] \in { "finishing", "unlocking" } /\ task[v][1] = t
    <3>. SUFFICES ASSUME NEW t \in Sub, NEW v \in Worker
                  PROVE  mut'[t] = v <=>
                           pc'[v] \in { "finishing", "unlocking" } /\ task[v][1] = t
      OBVIOUS
    <3>1. mut[t] = v <=> pc[v] \in { "finishing", "unlocking" } /\ task[v][1] = t
      BY DEF Locks
    <3>2. CASE t # s
      BY <1>1, <1>9, <1>15, <2>1, <2>3, <3>1, <3>2
    <3>3. CASE t = s /\ v # w
      BY <1>15, <2>0, <2>1, <2>2, <3>3
    <3>4. CASE t = s /\ v = w
      BY <1>9, <1>15, <2>0, <2>1, <2>2, <2>3, <3>4
    <3>. QED  BY <3>2, <3>3, <3>4
  <2>5. \A v \in Worker : serverMutex = v <=> pc'[v] \in { "fetching", "distributing" }
    BY <1>1, <1>9, <1>15 DEF Locks
  <2>. QED  BY <1>3, <2>1, <2>4, <2>5 DEF Locks
<1>27. Life'
  <2>1. s \notin finishedSubmissions \cup freed /\ task[w][1] = s
    BY <1>1, <1>6 DEF Life
  <2>2. ASSUME NEW t \in Sub
        PROVE  /\ t \in finishedSubmissions \cup freed => phase'[t] = "finished"
               /\ phase'[t] = "finished" =>
                    \/ t \in finishedSubmissions \cup freed
                    \/ \E v \in Worker : pc'[v] = "finishing" /\ task[v][1] = t
               /\ unsent[t] # {} => \E v \in Worker : pc'[v] = "distributing" /\ task[v][1] = t
    <3>1. unsent[t] # {} => \E v \in Worker : pc'[v] = "distributing" /\ task[v][1] = t
      BY <1>1, <1>15 DEF Life
    <3>2. CASE t = s
      BY <1>9, <1>15, <1>18, <2>1, <3>1, <3>2
    <3>3. CASE t # s
      BY <1>1, <1>15, <1>18, <3>1, <3>3 DEF Life
    <3>. QED  BY <3>2, <3>3
  <2>3. ASSUME NEW v \in Worker
        PROVE  /\ pc'[v] = "distributing" =>
                    InPool(task[v][1])' /\ task[v][1] \notin finishedSubmissions \cup freed
               /\ pc'[v] = "finishing" => phase'[task[v][1]] = "finished"
    <3>1. CASE v = w
      BY <1>9, <1>15, <1>18, <2>1, <3>1
    <3>2. CASE v # w
      <4>1. pc[v] \in { "distributing", "finishing" } => task[v][1] \in Sub
        BY Items DEF Workers
      <4>2. pc'[v] = pc[v]
        BY <1>15, <3>2
      <4>3. \A t \in Sub : InPool(t) => phase'[t] \in { "judging", "finished" }
        BY <1>18 DEF InPool
      <4>4. \A t \in Sub : phase[t] = "finished" => phase'[t] = "finished"
        BY <1>6, <1>18
      <4>5. task'[v] = task[v]
        BY <1>3
      <4>. QED  BY <4>1, <4>2, <4>3, <4>4, <4>5 DEF Life, InPool
    <3>. QED  BY <3>1, <3>2
  <2>. QED  BY <1>3, <2>2, <2>3 DEF Life, InPool
<1>28. Attended'
  BY <1>3, <1>9, <1>15, <1>1 DEF Attended
<1>. QED  BY <1>20, <1>21, <1>24, <1>25, <1>26, <1>27, <1>28

\* One round of fetching at one judge server.
LEMMA FetchStepOK ==
  ASSUME IInv, NEW w \in Worker, FetchStep(w)
  PROVE  IInv'
<1>1. CASE FetchNothing(w)
  <2>1. /\ poll' \in [Worker -> 1 .. Servers + 1] /\ stop' \in BOOLEAN
        /\ \A v \in Worker : pc[v] = "distributing" => poll'[v] = poll[v]
    BY <1>1, NextPoll DEF FetchNothing, IInv, Workers
  <2>. QED  BY <1>1, <2>1, IdleStep DEF FetchNothing
<1>2. CASE Fetch(w)
  <2>. DEFINE a == poll[w]
              s == Head(inbox[a])
  <2>1. /\ pc[w] = "fetching" /\ poll[w] <= Servers /\ a \in 1 .. Servers /\ inbox[a] # << >>
        /\ inbox' = [inbox EXCEPT ![a] = Tail(@)]
        /\ UNCHANGED <<lifeVars, taskQueue, finished, serverMutex, mut, stop>>
    BY <1>2, PoolAssumption DEF Fetch, IInv, Workers
  <2>2. CASE /\ Verified(Graph[s]) /\ phase' = [phase EXCEPT ![s] = "judging"]
             /\ results' = [results EXCEPT ![s] = [i \in Task(s) |-> "PENDING"]]
             /\ unsent' = [unsent EXCEPT ![s] = { i \in Task(s) : Entry(Tasks(s), i) }]
             /\ task' = [task EXCEPT ![w] = << s, 0 >>] /\ Goto(w, "distributing")
             /\ UNCHANGED poll
    BY <2>1, <2>2, RegisterStep
  <2>3. ASSUME NEW x \in { "invalid", "dropped" }, phase' = [phase EXCEPT ![s] = x],
               NextServer(w), UNCHANGED <<results, unsent, task, pc>>
        PROVE  IInv'
    <3>1. /\ poll' \in [Worker -> 1 .. Servers + 1]
          /\ \A v \in Worker : pc[v] = "distributing" => poll'[v] = poll[v]
      BY <1>2, <2>3, NextPoll DEF Fetch, IInv
    <3>. QED  BY <2>1, <2>3, <3>1, RejectStep
  <2>. QED  BY <1>2, <2>2, <2>3 DEF Fetch
<1>. QED  BY <1>1, <1>2 DEF FetchStep

\* And of distributing.
LEMMA DistributeStep ==
  ASSUME IInv, NEW w \in Worker, Distribute(w)
  PROVE  IInv'
<1>. DEFINE s == task[w][1]
<1>1. /\ pc[w] = "distributing"
      /\ UNCHANGED <<lifeVars, inbox, phase, results, finished, serverMutex, mut, stop>>
  BY DEF Distribute
<1>2. ASSUME NEW i \in unsent[s], unsent' = [unsent EXCEPT ![s] = @ \ {i}],
             taskQueue' = Append(taskQueue, << s, i >>), UNCHANGED <<pc, task, poll>>
      PROVE  IInv'
  BY <1>1, <1>2, PushStep
<1>3. CASE /\ unsent[s] = {} /\ Goto(w, "fetching") /\ task' = [task EXCEPT ![w] = None]
           /\ NextServer(w) /\ UNCHANGED <<unsent, taskQueue>>
  <2>1. /\ poll' \in [Worker -> 1 .. Servers + 1]
        /\ \A v \in Worker : v # w => poll'[v] = poll[v]
    <3>1. poll[w] <= Servers
      BY <1>1 DEF IInv, Workers
    <3>. QED  BY <1>3, <3>1, NextPoll DEF IInv
  <2>. QED  BY <1>1, <1>3, <2>1, DistributedStep
<1>. QED  BY <1>2, <1>3 DEF Distribute


-----------------------------------------------------------------------------
(* The invariant holds.                                                    *)

\* Nothing was handed over yet.
LEMMA InitInv == Init => IInv
<1>. SUFFICES ASSUME Init  PROVE IInv
  OBVIOUS
<1>1. inbox \in Inboxes /\ inbox \in [1 .. Servers -> Seq(Sub)] /\ Servers \in Nat
  BY PoolAssumption DEF Init
<1>2. Mailboxes
  <2>1. \A a, b \in 1 .. Servers : \A j \in DOMAIN inbox[a], k \in DOMAIN inbox[b] :
          inbox[a][j] = inbox[b][k] => a = b /\ j = k
    BY <1>1, InboxAssumption
  <2>2. ASSUME NEW a \in 1 .. Servers, NEW j \in DOMAIN inbox[a]
        PROVE  phase[inbox[a][j]] = "waiting"
    <3>1. inbox[a] \in Seq(Sub)
      BY <1>1
    <3>2. inbox[a][j] \in Sub
      BY <3>1
    <3>. QED  BY <3>2 DEF Init
  <2>. QED  BY <1>1, <2>1, <2>2 DEF Mailboxes
<1>3. Running = {} /\ Unsent = {} /\ Range(taskQueue) = {} /\ IsInjective(taskQueue)
  BY DEF Init, Running, Unsent, Item, Range, IsInjective
<1>4. Copied = {}
  BY <1>3 DEF Copied
<1>5. Workers
  <2>1. 1 \in 1 .. Servers + 1
    BY <1>1
  <2>. QED  BY <2>1 DEF Init, Workers, Label
<1>6. OneCopy
  BY <1>3 DEF Init, OneCopy
<1>7. Submissions
  BY <1>4 DEF Init, Submissions, Accounted, InPool
<1>8. Locks
  BY PoolAssumption DEF Init, Locks
<1>9. Life /\ Attended
  BY DEF Init, Life, Attended
<1>. QED  BY <1>2, <1>5, <1>6, <1>7, <1>8, <1>9 DEF IInv

\* Each step of the pool preserves the invariant.
LEMMA NextInv == IInv /\ [Next]_vars => IInv'
<1>. SUFFICES ASSUME IInv, [Next]_vars  PROVE IInv'
  OBVIOUS
<1>0. /\ stop \in BOOLEAN /\ poll \in [Worker -> 1 .. Servers + 1]
  BY DEF IInv, Workers
<1>1. CASE StopWorkers
  <2>1. stop' \in BOOLEAN /\ poll' = poll
        /\ UNCHANGED <<subVars, lifeVars, taskQueue, serverMutex, mut, pc, task>>
    BY <1>1 DEF StopWorkers
  <2>. QED  BY <1>0, <2>1, IdleStep
<1>2. CASE UNCHANGED vars
  <2>1. stop' = stop /\ poll' = poll
        /\ UNCHANGED <<subVars, lifeVars, taskQueue, serverMutex, mut, pc, task>>
    BY <1>2 DEF vars
  <2>. QED  BY <1>0, <2>1, IdleStep
<1>3. ASSUME NEW w \in Worker, FetchStep(w)  PROVE IInv'
  BY <1>3, FetchStepOK
<1>4. ASSUME NEW w \in Worker, Locking(w)  PROVE IInv'
  BY <1>4, BeginFetchStep, FinishStep, ReapStep DEF Locking
<1>5. ASSUME NEW w \in Worker, Alone(w)  PROVE IInv'
  <2>1. CASE TryPop(w)
    BY <2>1, EmptyStep, PopStep
  <2>2. CASE CheckStop(w)
    BY <2>2, CheckStopStep
  <2>3. CASE Distribute(w)
    BY <2>3, DistributeStep
  <2>4. CASE EndFetch(w)
    BY <2>4, EndFetchStep
  <2>5. CASE Process(w)
    BY <2>5, ProcessStep
  <2>6. CASE Unlock(w)
    BY <2>6, UnlockStep
  <2>7. CASE EndJudgeTask(w)
    BY <2>7, EndStep
  <2>. QED  BY <1>5, <2>1, <2>2, <2>3, <2>4, <2>5, <2>6, <2>7 DEF Alone
<1>. QED  BY <1>1, <1>2, <1>3, <1>4, <1>5 DEF Next

\* The invariant holds whatever the workers do, in any order.
THEOREM Invariance == Spec => []IInv
BY InitInv, NextInv, PTL DEF Spec

-----------------------------------------------------------------------------
(* What follows from it.                                                   *)

\* A submission with a task in the queue or at a worker is being judged.
LEMMA CopiedLive ==
  ASSUME IInv, NEW p \in Item, p \in Copied
  PROVE  phase[p[1]] = "judging" /\ p[1] \notin freed \cup finishedSubmissions
<1>1. PICK s \in Sub, i \in Nat : p = << s, i >> /\ i \in Task(s)
  BY DEF Item
<1>2. InPool(s) /\ Due(Tasks(s), results[s], i) /\ (phase[s] = "finished" <=> Undecided(s) = {})
  BY <1>1 DEF IInv, Submissions, Accounted
<1>3. i \in Undecided(s)
  BY <1>1, <1>2 DEF Undecided, Due
<1>4. phase[s] = "judging"
  BY <1>2, <1>3 DEF InPool
<1>. QED  BY <1>1, <1>4 DEF IInv, Life

\* A submission that is being judged has a task in the queue, at a worker, or to be handed
\* out: the first task that is undecided may be judged.
LEMMA JudgingCopied ==
  ASSUME IInv, NEW s \in Sub, phase[s] = "judging"
  PROVE  Copied # {}
<1>1. /\ Verified(Graph[s]) /\ Consistent(Tasks(s), results[s]) /\ Undecided(s) # {}
      /\ \A i \in Task(s) : << s, i >> \in Copied <=> Due(Tasks(s), results[s], i)
  BY DEF IInv, Submissions, Accounted, InPool
<1>2. Forward(Tasks(s)) /\ Task(s) = DOMAIN Tasks(s) /\ Task(s) \subseteq Nat
  BY <1>1, VerifiedForward, TasksFinite, GraphAssumption DEF Task
<1>3. PICK i \in Undecided(s) : \A j \in Undecided(s) : i <= j
  <2>1. Undecided(s) \in SUBSET Nat
    BY <1>2 DEF Undecided
  <2>. QED  BY <1>1, <2>1, LeastElement
<1>4. i \in Task(s) /\ results[s][i] = "PENDING"
  BY <1>3 DEF Undecided
<1>5. Due(Tasks(s), results[s], i)
  <2>1. CASE Entry(Tasks(s), i)
    BY <1>4, <2>1 DEF Due
  <2>2. CASE ~ Entry(Tasks(s), i)
    <3>. DEFINE j == Tasks(s)[i].depends_on
    <3>1. j \in Task(s) /\ j < i
      BY <1>2, <1>4, <2>2 DEF Forward
    <3>2. i \in Nat /\ j \in Nat
      BY <1>2, <1>4, <3>1
    <3>3. j \notin Undecided(s)
      BY <1>3, <3>1, <3>2
    <3>4. results[s][j] # "PENDING"
      BY <3>1, <3>3 DEF Undecided
    <3>5. Satisfied(Tasks(s)[i].depends_cond, results[s][j])
      BY <1>1, <1>2, <1>4, <2>2, <3>4 DEF Consistent
    <3>. QED  BY <1>4, <3>4, <3>5 DEF Due
  <2>. QED  BY <2>1, <2>2
<1>. QED  BY <1>1, <1>4, <1>5

\* The variables keep their types.
THEOREM TypeCorrect == Spec => []TypeOK
<1>1. IInv => TypeOK
  <2>. SUFFICES ASSUME IInv  PROVE TypeOK
    OBVIOUS
  <2>. USE DEF IInv
  <2>1. \A s \in Sub : /\ results[s] = << >> \/ results[s] \in [Task(s) -> Status]
                       /\ finished[s] \in 0 .. Cardinality(Task(s))
    <3>. SUFFICES ASSUME NEW s \in Sub
                  PROVE  /\ results[s] = << >> \/ results[s] \in [Task(s) -> Status]
                         /\ finished[s] \in 0 .. Cardinality(Task(s))
      OBVIOUS
    <3>1. Accounted(s)
      BY DEF Submissions
    <3>2. IsFiniteSet(Task(s)) /\ Cardinality(Task(s)) \in Nat
      BY TasksFinite
    <3>3. /\ Cardinality(Task(s) \ Undecided(s)) \in Nat
          /\ Cardinality(Task(s) \ Undecided(s)) <= Cardinality(Task(s))
      <4>. DEFINE D == Task(s) \ Undecided(s)
      <4>1. D \in SUBSET Task(s)
        OBVIOUS
      <4>. HIDE DEF D
      <4>2. IsFiniteSet(D) /\ Cardinality(D) <= Cardinality(Task(s))
        BY <3>2, <4>1, FS_Subset
      <4>3. Cardinality(D) \in Nat
        BY <4>2, FS_CardinalityType
      <4>. QED  BY <4>2, <4>3 DEF D
    <3>. QED  BY <3>1, <3>2, <3>3 DEF Accounted
  <2>2. taskQueue \in Seq(Sub \X (0 .. MaxTasks - 1))
    <3>1. taskQueue \in Seq(Item)
      BY DEF OneCopy
    <3>. QED  BY <3>1, Items
  <2>3. task \in [Worker -> (Sub \X (0 .. MaxTasks - 1)) \cup {None}]
    BY Items DEF Workers
  <2>. QED  BY <2>1, <2>2, <2>3 DEF TypeOK, Mailboxes, Workers, OneCopy, Submissions, Locks, Life
<1>. QED  BY <1>1, Invariance, PTL

\* However the workers take turns, no task in the queue, no judging worker and no
\* distributing one points to a submission that was given up or released.
THEOREM Pointed == Spec => []PointersLive
<1>1. IInv => PointersLive
  <2>. SUFFICES ASSUME IInv  PROVE PointersLive
    OBVIOUS
  <2>1. ASSUME NEW k \in DOMAIN taskQueue  PROVE phase[taskQueue[k][1]] = "judging"
    <3>1. taskQueue[k] \in Item
      BY DEF IInv, OneCopy
    <3>2. taskQueue[k] \in Copied
      BY DEF Copied, Range
    <3>. QED  BY <3>1, <3>2, CopiedLive
  <2>2. ASSUME NEW w \in Worker, pc[w] = "judging"
        PROVE  phase[task[w][1]] = "judging" /\ task[w][1] \notin freed \cup finishedSubmissions
    <3>1. task[w] \in Item /\ task[w] \in Copied
      BY <2>2 DEF IInv, Workers, Copied, Running
    <3>. QED  BY <3>1, CopiedLive
  <2>3. ASSUME NEW w \in Worker, pc[w] = "distributing"
        PROVE  /\ phase[task[w][1]] \in { "judging", "finished" }
               /\ task[w][1] \notin freed \cup finishedSubmissions
    BY <2>3 DEF IInv, Life, InPool
  <2>. QED  BY <2>1, <2>2, <2>3 DEF PointersLive
<1>. QED  BY <1>1, Invariance, PTL

\* Whatever the task graphs and the moment of the stop, the workers leave nothing behind.
THEOREM NothingLeft == Spec => []Drained
<1>1. IInv => Drained
  <2>. SUFFICES ASSUME IInv, \A w \in Worker : pc[w] = "stopped"
                PROVE  /\ taskQueue = << >> /\ serverMutex = None /\ finishedSubmissions = {}
                       /\ \A s \in Sub : /\ phase[s] # "judging" /\ mut[s] = None
                                         /\ phase[s] = "finished" => s \in freed
    BY DEF Drained
  <2>1. taskQueue = << >> /\ finishedSubmissions = {}
    BY DEF IInv, Attended
  <2>2. serverMutex = None /\ \A s \in Sub : mut[s] = None
    BY DEF IInv, Locks
  <2>3. Copied = {}
    <3>1. Running = {}
      BY DEF Running
    <3>2. Unsent = {}
      BY DEF IInv, Life, Unsent, Item
    <3>3. Range(taskQueue) = {}
      BY <2>1 DEF Range
    <3>. QED  BY <3>1, <3>2, <3>3 DEF Copied
  <2>4. \A s \in Sub : phase[s] # "judging"
    BY <2>3, JudgingCopied
  <2>5. \A s \in Sub : phase[s] = "finished" => s \in freed
    BY <2>1 DEF IInv, Life
  <2>. QED  BY <2>1, <2>2, <2>4, <2>5
<1>. QED  BY <1>1, Invariance, PTL

-----------------------------------------------------------------------------
(* The refinement: the pool, seen from one of its submissions, is module   *)
(* ProgrammingJudger.                                                      *)

CONSTANT Watched   \* a submission, any one of them

\* What WorkerPool's Judger(s) substitutes for s = Watched.
phaseOf == IF phase[Watched] \in { "waiting", "dropped" } THEN "fetched" ELSE phase[Watched]

queuedOf ==
  IF InPool(Watched)
  THEN [i \in Task(Watched) |->
         Cardinality({ k \in DOMAIN taskQueue : taskQueue[k] = << Watched, i >> })]
  ELSE << >>

runningOf ==
  IF InPool(Watched)
  THEN [i \in Task(Watched) |->
         { w \in Worker : pc[w] = "judging" /\ task[w] = << Watched, i >> }]
  ELSE << >>

finalsOf == IF phase[Watched] = "finished" THEN 1 ELSE 0

J ==
  INSTANCE ProgrammingJudger WITH
    Submissions <- { Graph[t] : t \in Sub }, sub <- Graph[Watched], phase <- phaseOf,
    results <- results[Watched], finished <- finished[Watched], unsent <- unsent[Watched],
    queued <- queuedOf, running <- runningOf, summaries <- finished[Watched],
    finals <- finalsOf

\* The instance has copies of the definitions of TaskGraph.
LEMMA SameGraph ==
  /\ \A s : J!Verified(s) <=> Verified(s)
  /\ \A t, i : J!Entry(t, i) <=> Entry(t, i)
  /\ \A t : J!Outcome(t) = Outcome(t)
  /\ \A t, i, q : J!Skipped(t, i, q) = Skipped(t, i, q)
  /\ \A t, i, q : J!Released(t, i, q) = Released(t, i, q)
  /\ \A S : J!Cardinality(S) = Cardinality(S)
<1>1. \A c, q : J!Satisfied(c, q) <=> Satisfied(c, q)
  BY DEF J!Satisfied, Satisfied, J!Failing, Failing
<1>2. ASSUME NEW s
      PROVE  J!Verified(s) <=> Verified(s)
  BY DEF J!Verified, Verified, J!Entry, Entry, J!IsCompile, IsCompile
<1>3. \A t, i, q, S : J!Refused(t, i, q, S) = Refused(t, i, q, S)
  BY <1>1 DEF J!Refused, Refused
<1>4. \A t, i, q : J!Skipped(t, i, q) = Skipped(t, i, q)
  BY <1>3, Zenon DEF J!Skipped, Skipped
<1>5. \A t, i, q : J!Released(t, i, q) = Released(t, i, q)
  BY <1>1, <1>4 DEF J!Released, Released
<1>6. \A t : J!Outcome(t) = Outcome(t)
  BY DEF J!Outcome, Outcome, J!CompileOutcome, CompileOutcome, J!CheckOutcome, CheckOutcome
<1>7. \A t, i : J!Entry(t, i) <=> Entry(t, i)
  BY DEF J!Entry, Entry
<1>8. \A S : J!Cardinality(S) = Cardinality(S)
  BY DEF J!Cardinality, Cardinality
<1>. QED  BY <1>2, <1>4, <1>5, <1>6, <1>7, <1>8

\* Where nothing occurs twice, an entry occurs once or not at all.
LEMMA Occurrences ==
  ASSUME NEW X, NEW q \in Seq(X), IsInjective(q), NEW x
  PROVE  Cardinality({ k \in DOMAIN q : q[k] = x }) = IF x \in Range(q) THEN 1 ELSE 0
<1>1. CASE x \in Range(q)
  <2>1. PICK j \in DOMAIN q : q[j] = x
    BY <1>1 DEF Range
  <2>2. { k \in DOMAIN q : q[k] = x } = {j}
    BY <2>1 DEF IsInjective
  <2>. QED  BY <1>1, <2>2, FS_Singleton
<1>2. CASE x \notin Range(q)
  <2>1. { k \in DOMAIN q : q[k] = x } = {}
    BY <1>2 DEF Range
  <2>. QED  BY <1>2, <2>1, FS_EmptySet
<1>. QED  BY <1>1, <1>2

\* By a queue q, a task of the submission is in it or not.
InQueue(q) == [i \in Task(Watched) |-> IF << Watched, i >> \in Range(q) THEN 1 ELSE 0]

LEMMA InQueueType ==
  /\ \A q : InQueue(q) \in [Task(Watched) -> Int]
  /\ \A q : \A i \in Task(Watched) :
       InQueue(q)[i] = IF << Watched, i >> \in Range(q) THEN 1 ELSE 0
BY DEF InQueue

\* A function that differs from another one in one place.
LEMMA OneChange ==
  ASSUME NEW T, NEW f \in [T -> Int], NEW g \in [T -> Int], NEW i \in T,
         \A j \in T : j # i => g[j] = f[j]
  PROVE  g = [f EXCEPT ![i] = g[i]]
OBVIOUS

LEMMA Queued ==
  ASSUME IInv
  PROVE  queuedOf = IF InPool(Watched) THEN InQueue(taskQueue) ELSE << >>
<1>1. taskQueue \in Seq(Item) /\ IsInjective(taskQueue)
  BY DEF IInv, OneCopy
<1>2. \A i \in Task(Watched) :
        Cardinality({ k \in DOMAIN taskQueue : taskQueue[k] = << Watched, i >> })
          = IF << Watched, i >> \in Range(taskQueue) THEN 1 ELSE 0
  BY <1>1, Occurrences
<1>. QED  BY <1>2 DEF queuedOf, InQueue

LEMMA QueuedNext ==
  ASSUME IInv'
  PROVE  queuedOf' = IF InPool(Watched)' THEN InQueue(taskQueue') ELSE << >>
<1>1. Item' = Item /\ Task(Watched)' = Task(Watched)
  BY DEF Item, Task, Tasks
<1>2. taskQueue' \in Seq(Item) /\ IsInjective(taskQueue')
  BY <1>1 DEF IInv, OneCopy
<1>3. \A i \in Task(Watched) :
        Cardinality({ k \in DOMAIN taskQueue' : taskQueue'[k] = << Watched, i >> })
          = IF << Watched, i >> \in Range(taskQueue') THEN 1 ELSE 0
  BY <1>2, Occurrences
<1>. QED  BY <1>1, <1>3 DEF queuedOf, InQueue

\* A step that changes nothing of the submission is no step of its judger.
LEMMA Unseen ==
  ASSUME IInv, IInv', phase'[Watched] = phase[Watched], results'[Watched] = results[Watched],
         finished'[Watched] = finished[Watched], unsent'[Watched] = unsent[Watched],
         \A i \in Task(Watched) :
           << Watched, i >> \in Range(taskQueue') <=> << Watched, i >> \in Range(taskQueue),
         \A w \in Worker, i \in Task(Watched) :
           pc'[w] = "judging" /\ task'[w] = << Watched, i >>
             <=> pc[w] = "judging" /\ task[w] = << Watched, i >>
  PROVE  UNCHANGED J!vars
<1>1. InPool(Watched)' <=> InPool(Watched)
  BY DEF InPool
<1>2. Task(Watched)' = Task(Watched)
  BY DEF Task, Tasks
<1>3. InQueue(taskQueue') = InQueue(taskQueue)
  BY DEF InQueue
<1>4. queuedOf' = queuedOf
  BY <1>1, <1>3, Queued, QueuedNext
<1>5. \A i \in Task(Watched) :
        { w \in Worker : pc'[w] = "judging" /\ task'[w] = << Watched, i >> }
          = { w \in Worker : pc[w] = "judging" /\ task[w] = << Watched, i >> }
  OBVIOUS
<1>6. runningOf' = runningOf
  BY <1>1, <1>2, <1>5 DEF runningOf
<1>7. phaseOf' = phaseOf /\ finalsOf' = finalsOf
  BY DEF phaseOf, finalsOf
<1>. QED  BY <1>4, <1>6, <1>7 DEF J!vars

\* Nothing of the submission is pushed, popped or decided, and nobody starts or ends judging.
LEMMA QuietUnseen ==
  ASSUME IInv, IInv', UNCHANGED <<subVars, taskQueue>>,
         \A v \in Worker : pc[v] = "judging" \/ pc'[v] = "judging" =>
                             pc'[v] = pc[v] /\ task'[v] = task[v]
  PROVE  UNCHANGED J!vars
<1>1. UNCHANGED <<phase, results, finished, unsent, taskQueue>>
  BY DEF subVars
<1>. QED  BY <1>1, Unseen

\* A task of the submission that is taken off the queue is taken by Pop.
LEMMA PopSeen ==
  ASSUME IInv, IInv', Watched \in Sub, NEW w \in Worker, TryPop(w), taskQueue # << >>
  PROVE  J!Pop(w) \/ UNCHANGED J!vars
<1>. DEFINE h == Head(taskQueue)
<1>1. /\ pc[w] = "loop" /\ Goto(w, "judging") /\ task' = [task EXCEPT ![w] = h]
      /\ taskQueue' = Tail(taskQueue) /\ UNCHANGED subVars
  BY DEF TryPop
<1>2. UNCHANGED <<phase, results, finished, unsent>>
  BY <1>1 DEF subVars
<1>3. h \in Range(taskQueue) /\ h \in Item /\ Range(taskQueue') = Range(taskQueue) \ {h}
  BY <1>1, Popped DEF IInv, OneCopy
<1>. HIDE DEF h
<1>4. task'[w] = h /\ \A v \in Worker : v # w => task'[v] = task[v]
  BY <1>1 DEF IInv, Workers
<1>5. pc'[w] = "judging" /\ \A v \in Worker : v # w => pc'[v] = pc[v]
  BY <1>1 DEF IInv, Workers, Goto
<1>6. CASE h[1] = Watched
  <2>. DEFINE i == h[2]
  <2>1. h = << Watched, i >> /\ i \in Task(Watched)
    BY <1>3, <1>6, Items
  <2>. HIDE DEF i
  <2>2. InPool(Watched) /\ InPool(Watched)' /\ Task(Watched)' = Task(Watched)
    <3>1. phase[Watched] = "judging"
      BY <1>3, <1>6, CopiedLive DEF Copied
    <3>. QED  BY <1>2, <3>1 DEF InPool, Task, Tasks
  <2>3. /\ queuedOf = InQueue(taskQueue) /\ queuedOf' = InQueue(taskQueue')
        /\ DOMAIN queuedOf = Task(Watched) /\ queuedOf[i] = 1
    BY <1>3, <2>1, <2>2, Queued, QueuedNext DEF InQueue
  <2>4. queuedOf' = [queuedOf EXCEPT ![i] = @ - 1]
    <3>1. \A j \in Task(Watched) : << Watched, j >> = h <=> j = i
      BY <2>1
    <3>2. \A j \in Task(Watched) :
            InQueue(taskQueue')[j] = IF j = i THEN 0 ELSE InQueue(taskQueue)[j]
      BY <1>3, <3>1, InQueueType
    <3>3. InQueue(taskQueue') = [InQueue(taskQueue) EXCEPT ![i] = InQueue(taskQueue')[i]]
      BY <2>1, <3>2, InQueueType, OneChange
    <3>4. InQueue(taskQueue')[i] = 0 /\ InQueue(taskQueue)[i] = 1
      BY <2>1, <2>3, <3>2
    <3>. QED  BY <2>3, <3>3, <3>4
  <2>5. runningOf' = [runningOf EXCEPT ![i] = @ \cup {w}]
    <3>1. ASSUME NEW j \in Task(Watched)
          PROVE  { v \in Worker : pc'[v] = "judging" /\ task'[v] = << Watched, j >> }
                   = { v \in Worker : pc[v] = "judging" /\ task[v] = << Watched, j >> }
                       \cup (IF j = i THEN {w} ELSE {})
      BY <1>1, <1>4, <1>5, <2>1
    <3>2. /\ runningOf = [j \in Task(Watched) |-> runningOf[j]]
          /\ runningOf' = [j \in Task(Watched) |-> runningOf'[j]]
      BY <2>2 DEF runningOf
    <3>3. \A j \in Task(Watched) :
            runningOf'[j] = runningOf[j] \cup (IF j = i THEN {w} ELSE {})
      BY <2>2, <3>1 DEF runningOf
    <3>4. PICK f, g : f = runningOf /\ g = runningOf'
      OBVIOUS
    <3>5. /\ f = [j \in Task(Watched) |-> f[j]] /\ g = [j \in Task(Watched) |-> g[j]]
          /\ \A j \in Task(Watched) : g[j] = f[j] \cup (IF j = i THEN {w} ELSE {})
      BY <3>2, <3>3, <3>4
    <3>6. g = [f EXCEPT ![i] = @ \cup {w}]
      <4>1. g[i] = f[i] \cup {w} /\ \A j \in Task(Watched) : j # i => g[j] = f[j]
        BY <2>1, <3>5
      <4>. QED  BY <2>1, <3>5, <4>1
    <3>. QED  BY <3>4, <3>6
  <2>6. w \notin J!Busy
    <3>1. DOMAIN runningOf = Task(Watched) /\ \A j \in Task(Watched) : w \notin runningOf[j]
      BY <1>1, <2>2 DEF runningOf
    <3>. QED  BY <3>1 DEF J!Busy
  <2>7. phaseOf' = phaseOf /\ finalsOf' = finalsOf
    BY <1>2 DEF phaseOf, finalsOf
  <2>8. i \in DOMAIN queuedOf /\ queuedOf[i] > 0
    BY <2>1, <2>3
  <2>. QED  BY <1>2, <2>4, <2>5, <2>6, <2>7, <2>8 DEF J!Pop
<1>7. CASE h[1] # Watched
  <2>1. \A i \in Task(Watched) : << Watched, i >> # h
    BY <1>7
  <2>2. \A v \in Worker, i \in Task(Watched) :
          pc'[v] = "judging" /\ task'[v] = << Watched, i >>
            <=> pc[v] = "judging" /\ task[v] = << Watched, i >>
    BY <1>1, <1>4, <1>5, <2>1
  <2>. QED  BY <1>2, <1>3, <2>1, <2>2, Unseen
<1>. QED  BY <1>6, <1>7

\* An entry task of the submission that is pushed is pushed by Distribute.
LEMMA PushSeen ==
  ASSUME IInv, IInv', Watched \in Sub, NEW w \in Worker, Distribute(w)
  PROVE  J!Distribute \/ UNCHANGED J!vars
<1>. DEFINE s == task[w][1]
<1>1. pc[w] = "distributing" /\ UNCHANGED <<phase, results, finished>> /\ s \in Sub
  BY Items DEF Distribute, IInv, Workers
<1>2. CASE unsent[s] = {} /\ Goto(w, "fetching") /\ task' = [task EXCEPT ![w] = None]
           /\ UNCHANGED <<unsent, taskQueue>>
  <2>1. /\ pc'[w] = "fetching" /\ \A v \in Worker : v # w => pc'[v] = pc[v] /\ task'[v] = task[v]
    BY <1>2 DEF IInv, Workers, Goto
  <2>. QED  BY <1>1, <1>2, <2>1, Unseen
<1>3. ASSUME NEW i \in unsent[s], \A j \in unsent[s] : i <= j,
             unsent' = [unsent EXCEPT ![s] = @ \ {i}],
             taskQueue' = Append(taskQueue, << s, i >>), UNCHANGED <<pc, task>>
      PROVE  J!Distribute \/ UNCHANGED J!vars
  <2>1. i \in Task(s) /\ << s, i >> \in Item /\ << s, i >> \in Unsent
    BY <1>1, <1>3, Items DEF IInv, OneCopy, Unsent
  <2>2. /\ Range(taskQueue') = Range(taskQueue) \cup {<< s, i >>}
        /\ << s, i >> \notin Range(taskQueue)
    BY <1>3, <2>1, PushedOne DEF IInv, OneCopy
  <2>3. CASE s = Watched
    <3>. HIDE DEF s
    <3>1. InPool(Watched) /\ InPool(Watched)' /\ Task(Watched)' = Task(Watched)
      <4>1. phase[Watched] = "judging"
        BY <2>1, <2>3, CopiedLive DEF Copied
      <4>. QED  BY <1>1, <4>1 DEF InPool, Task, Tasks
    <3>2. /\ queuedOf = InQueue(taskQueue) /\ queuedOf' = InQueue(taskQueue')
          /\ DOMAIN queuedOf = Task(Watched)
      BY <3>1, Queued, QueuedNext DEF InQueue
    <3>3. queuedOf' = [queuedOf EXCEPT ![i] = @ + 1]
      <4>1. \A j \in Task(Watched) : << Watched, j >> = << s, i >> <=> j = i
        BY <2>3
      <4>2. \A j \in Task(Watched) :
              InQueue(taskQueue')[j] = IF j = i THEN 1 ELSE InQueue(taskQueue)[j]
        BY <2>2, <4>1, InQueueType
      <4>3. InQueue(taskQueue)[i] = 0 /\ i \in Task(Watched)
        BY <2>1, <2>2, <2>3, InQueueType
      <4>4. InQueue(taskQueue') = [InQueue(taskQueue) EXCEPT ![i] = InQueue(taskQueue')[i]]
        BY <4>2, <4>3, InQueueType, OneChange
      <4>5. InQueue(taskQueue')[i] = 1
        BY <4>2, <4>3
      <4>. QED  BY <3>2, <4>3, <4>4, <4>5
    <3>4. unsent'[Watched] = unsent[Watched] \ {i}
      BY <1>1, <1>3, <2>3 DEF IInv, OneCopy
    <3>5. runningOf' = runningOf
      BY <1>1, <1>3, <3>1 DEF runningOf
    <3>6. phaseOf' = phaseOf /\ finalsOf' = finalsOf
      BY <1>1 DEF phaseOf, finalsOf
    <3>. QED  BY <1>1, <1>3, <2>3, <3>3, <3>4, <3>5, <3>6 DEF J!Distribute
  <2>4. CASE s # Watched
    <3>1. unsent'[Watched] = unsent[Watched]
      BY <1>3, <2>4 DEF IInv, OneCopy
    <3>2. \A j \in Task(Watched) : << Watched, j >> # << s, i >>
      BY <2>4
    <3>. QED  BY <1>1, <1>3, <2>2, <3>1, <3>2, Unseen
  <2>. QED  BY <2>3, <2>4
<1>. QED  BY <1>2, <1>3 DEF Distribute

\* A submission that a judge server hands over is accepted or refused; a dropped one is not
\* seen any more.
LEMMA FetchSeen ==
  ASSUME IInv, IInv', Watched \in Sub, NEW w \in Worker, Fetch(w)
  PROVE  J!Accept \/ J!Refuse \/ UNCHANGED J!vars
<1>. DEFINE a == poll[w]
            s == Head(inbox[a])
<1>1. /\ pc[w] = "fetching" /\ a \in 1 .. Servers /\ inbox[a] # << >>
      /\ inbox' = [inbox EXCEPT ![a] = Tail(@)] /\ UNCHANGED <<taskQueue, finished>>
  BY PoolAssumption DEF Fetch, IInv, Workers
<1>2. PICK x \in { "judging", "invalid", "dropped" } :
        /\ phase' = [phase EXCEPT ![s] = x]
        /\ x # "judging" => UNCHANGED <<results, unsent, task, pc>>
        /\ x = "invalid" => ~ Verified(Graph[s])
        /\ x = "judging" =>
             /\ Verified(Graph[s])
             /\ results' = [results EXCEPT ![s] = [i \in Task(s) |-> "PENDING"]]
             /\ unsent' = [unsent EXCEPT ![s] = { i \in Task(s) : Entry(Tasks(s), i) }]
             /\ task' = [task EXCEPT ![w] = << s, 0 >>] /\ Goto(w, "distributing")
  BY DEF Fetch
<1>3. /\ s \in Sub /\ phase[s] = "waiting"
      /\ phase'[s] = x /\ \A t \in Sub : t # s => phase'[t] = phase[t]
  BY <1>1, <1>2, Taken DEF IInv, Submissions
<1>4. \A v \in Worker : (pc[v] = "judging" \/ pc'[v] = "judging" =>
                           pc'[v] = pc[v] /\ task'[v] = task[v])
  <2>1. CASE x = "judging"
    <3>1. /\ pc'[w] = "distributing"
          /\ \A v \in Worker : v # w => pc'[v] = pc[v] /\ task'[v] = task[v]
      BY <1>2, <2>1 DEF IInv, Workers, Goto
    <3>. QED  BY <1>1, <3>1
  <2>2. CASE x # "judging"
    BY <1>2, <2>2
  <2>. QED  BY <2>1, <2>2
<1>5. /\ x = "judging" => /\ results'[s] = [i \in Task(s) |-> "PENDING"]
                          /\ unsent'[s] = { i \in Task(s) : Entry(Tasks(s), i) }
      /\ \A t \in Sub : t # s => results'[t] = results[t] /\ unsent'[t] = unsent[t]
  BY <1>2, <1>3 DEF IInv, Submissions, OneCopy
<1>6. /\ results[s] = << >> /\ finished[s] = 0 /\ \A i \in Task(s) : << s, i >> \notin Copied
      /\ unsent[s] = {}
  <2>1. results[s] = << >> /\ finished[s] = 0 /\ \A i \in Task(s) : << s, i >> \notin Copied
    BY <1>3 DEF IInv, Submissions, Accounted, InPool
  <2>2. ASSUME NEW i \in unsent[s]  PROVE FALSE
    <3>1. i \in Task(s) /\ << s, i >> \in Item
      BY <1>3, Items DEF IInv, OneCopy
    <3>2. << s, i >> \in Copied
      BY <3>1 DEF Copied, Unsent
    <3>. QED  BY <2>1, <3>1, <3>2
  <2>. QED  BY <2>1, <2>2
<1>. HIDE DEF s
<1>7. CASE s # Watched
  BY <1>1, <1>3, <1>4, <1>5, <1>7, Unseen
<1>8. CASE s = Watched
  <2>1. /\ ~ InPool(Watched) /\ phaseOf = "fetched" /\ finalsOf = 0
        /\ queuedOf = << >> /\ runningOf = << >> /\ Task(Watched)' = Task(Watched)
    BY <1>3, <1>8 DEF InPool, phaseOf, finalsOf, queuedOf, runningOf, Task, Tasks
  <2>2. CASE x = "dropped"
    <3>1. /\ ~ InPool(Watched)' /\ phaseOf' = "fetched" /\ finalsOf' = 0
          /\ queuedOf' = << >> /\ runningOf' = << >>
      BY <1>3, <1>8, <2>2 DEF InPool, phaseOf, finalsOf, queuedOf, runningOf
    <3>. QED  BY <1>1, <1>2, <2>1, <2>2, <3>1 DEF J!vars
  <2>3. CASE x = "invalid"
    <3>1. /\ ~ InPool(Watched)' /\ phaseOf' = "invalid" /\ finalsOf' = 0
          /\ queuedOf' = << >> /\ runningOf' = << >>
      BY <1>3, <1>8, <2>3 DEF InPool, phaseOf, finalsOf, queuedOf, runningOf
    <3>2. ~ J!Verified(Graph[Watched])
      BY <1>2, <1>8, <2>3, SameGraph
    <3>. QED  BY <1>1, <1>2, <2>1, <2>3, <3>1, <3>2 DEF J!Refuse
  <2>4. CASE x = "judging"
    <3>1. InPool(Watched)' /\ phaseOf' = "judging" /\ finalsOf' = 0
      BY <1>3, <1>8, <2>4 DEF InPool, phaseOf, finalsOf
    <3>2. queuedOf' = [i \in Task(Watched) |-> 0]
      <4>1. \A i \in Task(Watched) : << Watched, i >> \notin Range(taskQueue)
        BY <1>6, <1>8 DEF Copied
      <4>. QED  BY <1>1, <3>1, <4>1, QueuedNext DEF InQueue
    <3>3. runningOf' = [i \in Task(Watched) |-> {}]
      <4>1. ASSUME NEW i \in Task(Watched), NEW v \in Worker,
                   pc'[v] = "judging", task'[v] = << Watched, i >>
            PROVE  FALSE
        <5>1. v \in Running /\ task[v] = << Watched, i >>
          BY <1>4, <4>1 DEF Running
        <5>. QED  BY <1>6, <1>8, <5>1 DEF Copied
      <4>2. \A i \in Task(Watched) :
              { v \in Worker : pc'[v] = "judging" /\ task'[v] = << Watched, i >> } = {}
        BY <4>1
      <4>. QED  BY <2>1, <3>1, <4>2 DEF runningOf
    <3>4. /\ J!Verified(Graph[Watched]) /\ J!Task = Task(Watched) /\ J!tasks = Tasks(Watched)
          /\ \A i : J!Entry(Tasks(Watched), i) <=> Entry(Tasks(Watched), i)
      BY <1>2, <1>8, <2>4, SameGraph DEF J!Task, J!tasks, Task, Tasks
    <3>. QED  BY <1>1, <1>5, <1>8, <2>1, <2>4, <3>1, <3>2, <3>3, <3>4 DEF J!Accept
  <2>. QED  BY <2>2, <2>3, <2>4
<1>. QED  BY <1>7, <1>8

\* A verdict of the submission is processed by Judged.
LEMMA ProcessSeen ==
  ASSUME IInv, IInv', Watched \in Sub, NEW w \in Worker, Process(w)
  PROVE  J!Judged(w) \/ UNCHANGED J!vars
<1>0. PICK s \in Sub, i \in Nat : task[w] = << s, i >> /\ i \in Task(s)
  <2>1. task[w] \in Item
    BY DEF IInv, Workers, Process
  <2>. QED  BY <2>1 DEF Item
<1>1. /\ w \in Running /\ pc[w] = "judging" /\ UNCHANGED <<unsent, task>>
      /\ << s, i >> \in Copied /\ << s, i >> \in Item
  BY <1>0, Items DEF Process, Running, Copied
<1>2. PICK status \in Outcome(Tasks(s)[i]) \cap Verdict :
        LET skipped  == Skipped(Tasks(s), i, status)
            released == Released(Tasks(s), i, status)
            count    == finished[s] + 1 + Cardinality(skipped)
            last     == finished[s] < Cardinality(Task(s)) /\ count >= Cardinality(Task(s))
        IN  /\ results' = [results EXCEPT ![s] =
                 [j \in Task(s) |-> IF j = i THEN status
                                    ELSE IF j \in skipped THEN "DEPENDENCY_NOT_SATISFIED"
                                    ELSE @[j]]]
            /\ finished' = [finished EXCEPT ![s] = count]
            /\ taskQueue' = taskQueue \o
                 [k \in 1 .. Cardinality(released) |-> << s, Ascending(released)[k] >>]
            /\ phase' = [phase EXCEPT ![s] = IF last THEN "finished" ELSE @]
            /\ Goto(w, IF last THEN "finishing" ELSE "ending")
  <2>1. task[w][1] = s /\ task[w][2] = i
    BY <1>0
  <2>. QED  BY <2>1, Zenon DEF Process
<1>. DEFINE K == Skipped(Tasks(s), i, status)
            R == Released(Tasks(s), i, status)
            count == finished[s] + 1 + Cardinality(K)
            last == finished[s] < Cardinality(Task(s)) /\ count >= Cardinality(Task(s))
            after == [j \in Task(s) |-> IF j = i THEN status
                                        ELSE IF j \in K THEN "DEPENDENCY_NOT_SATISFIED"
                                        ELSE results[s][j]]
            pushed == [k \in 1 .. Cardinality(R) |-> << s, Ascending(R)[k] >>]
            l == IF last THEN "finishing" ELSE "ending"
<1>3. /\ results' = [results EXCEPT ![s] = after] /\ finished' = [finished EXCEPT ![s] = count]
      /\ taskQueue' = taskQueue \o pushed
      /\ phase' = [phase EXCEPT ![s] = IF last THEN "finished" ELSE @]
      /\ Goto(w, l)
  <2>1. results' = [results EXCEPT ![s] = after]
    BY <1>2
  <2>. QED  BY <1>2, <2>1
<1>4. phase[s] = "judging" /\ InPool(s) /\ Verified(Graph[s]) /\ finished[s] \in Nat
  <2>1. phase[s] = "judging"
    BY <1>1, CopiedLive
  <2>2. IsFiniteSet(Task(s)) /\ Task(s) \ Undecided(s) \in SUBSET Task(s)
    BY TasksFinite
  <2>3. Cardinality(Task(s) \ Undecided(s)) \in Nat
    BY <2>2, FS_Subset, FS_CardinalityType
  <2>. QED  BY <2>1, <2>3 DEF IInv, Submissions, Accounted, InPool
<1>5. /\ results[s] \in [Task(s) -> Status] /\ Consistent(Tasks(s), results[s])
      /\ Due(Tasks(s), results[s], i)
      /\ \A j \in Task(s) : << s, j >> \in Copied <=> Due(Tasks(s), results[s], j)
  BY <1>0, <1>1, <1>4 DEF IInv, Submissions, Accounted
<1>6. /\ K \subseteq Task(s) /\ R \subseteq Task(s)
      /\ \A j \in R : ~ Due(Tasks(s), results[s], j)
  <2>1. Forward(Tasks(s)) /\ DOMAIN Tasks(s) = Task(s)
    BY <1>4, VerifiedForward DEF Task
  <2>. QED  BY <1>0, <1>5, <2>1, Processed
<1>7. IsFiniteSet(Task(s)) /\ IsFiniteSet(R) /\ R \subseteq Nat
  BY <1>6, TasksFinite, GraphAssumption, FS_Subset
<1>8. /\ Cardinality(R) \in Nat /\ Ascending(R) \in [1 .. Cardinality(R) -> R]
      /\ IsInjective(Ascending(R)) /\ Range(Ascending(R)) = R
  BY <1>7, AscendingOrder
<1>9. /\ results'[s] = after /\ finished'[s] = count
      /\ phase'[s] = IF last THEN "finished" ELSE "judging"
      /\ \A t \in Sub : t # s => /\ results'[t] = results[t] /\ finished'[t] = finished[t]
                                 /\ phase'[t] = phase[t]
  BY <1>3, <1>4 DEF IInv, Submissions
<1>10. pc'[w] # "judging" /\ \A v \in Worker : v # w => pc'[v] = pc[v]
  BY <1>3 DEF IInv, Workers, Goto
<1>. HIDE DEF K, R, count, last, after, l
<1>11. Range(taskQueue') = Range(taskQueue) \cup { << s, j >> : j \in R }
  <2>1. \A j \in R : << s, j >> \in Item
    BY <1>6, Items
  <2>2. DOMAIN pushed = 1 .. Cardinality(R) /\ DOMAIN Ascending(R) = 1 .. Cardinality(R)
        /\ \A k \in 1 .. Cardinality(R) : pushed[k] = << s, Ascending(R)[k] >>
                                          /\ Ascending(R)[k] \in R
    BY <1>8
  <2>3. pushed \in Seq(Item)
    BY <1>8, <2>1, <2>2
  <2>. HIDE DEF pushed
  <2>4. IsInjective(pushed)
    BY <1>8, <2>2 DEF IsInjective
  <2>5. Range(pushed) = { << s, j >> : j \in R }
    <3>1. ASSUME NEW j \in R  PROVE << s, j >> \in Range(pushed)
      <4>1. PICK k \in 1 .. Cardinality(R) : Ascending(R)[k] = j
        BY <1>8, <2>2 DEF Range
      <4>. QED  BY <2>2, <4>1 DEF Range
    <3>2. Range(pushed) \subseteq { << s, j >> : j \in R }
      BY <2>2 DEF Range
    <3>. QED  BY <3>1, <3>2
  <2>6. Range(taskQueue) \cap Range(pushed) = {}
    BY <1>5, <1>6, <2>5 DEF Copied
  <2>7. taskQueue \in Seq(Item) /\ IsInjective(taskQueue)
    BY DEF IInv, OneCopy
  <2>8. Range(taskQueue \o pushed) = Range(taskQueue) \cup Range(pushed)
    BY <2>3, <2>4, <2>6, <2>7, Pushed
  <2>. QED  BY <1>3, <2>5, <2>8
<1>12. CASE s # Watched
  <2>1. \A j \in Task(Watched) : \A k : << Watched, j >> # << s, k >>
    BY <1>12
  <2>2. \A v \in Worker, j \in Task(Watched) :
          pc'[v] = "judging" /\ task'[v] = << Watched, j >>
            <=> pc[v] = "judging" /\ task[v] = << Watched, j >>
    BY <1>0, <1>1, <1>10, <2>1
  <2>. QED  BY <1>1, <1>9, <1>11, <1>12, <2>1, <2>2, Unseen
<1>13. CASE s = Watched
  <2>1. /\ InPool(Watched)' /\ Task(Watched)' = Task(Watched)
        /\ phaseOf = "judging" /\ phaseOf' = (IF last THEN "finished" ELSE "judging")
        /\ finalsOf = 0 /\ finalsOf' = IF last THEN 1 ELSE 0
    BY <1>4, <1>9, <1>13 DEF InPool, phaseOf, finalsOf, Task, Tasks
  <2>2. /\ queuedOf = InQueue(taskQueue) /\ queuedOf' = InQueue(taskQueue')
        /\ DOMAIN runningOf = Task(Watched)
    BY <1>4, <1>13, <2>1, Queued, QueuedNext DEF runningOf
  <2>3. queuedOf' = [j \in Task(Watched) |-> IF j \in R THEN queuedOf[j] + 1 ELSE queuedOf[j]]
    <3>1. \A j \in R : << Watched, j >> \notin Range(taskQueue)
      BY <1>5, <1>6, <1>13 DEF Copied
    <3>2. \A j \in Task(Watched) : << Watched, j >> \in { << s, k >> : k \in R } <=> j \in R
      BY <1>13
    <3>3. \A j \in Task(Watched) :
            InQueue(taskQueue')[j] =
              IF j \in R THEN InQueue(taskQueue)[j] + 1 ELSE InQueue(taskQueue)[j]
      BY <1>11, <3>1, <3>2 DEF InQueue
    <3>4. InQueue(taskQueue') = [j \in Task(Watched) |-> InQueue(taskQueue')[j]]
      BY DEF InQueue
    <3>. QED  BY <2>2, <3>3, <3>4
  <2>4. runningOf' = [runningOf EXCEPT ![i] = @ \ {w}] /\ w \in runningOf[i]
    <3>1. ASSUME NEW j \in Task(Watched)
          PROVE  { v \in Worker : pc'[v] = "judging" /\ task'[v] = << Watched, j >> }
                   = { v \in Worker : pc[v] = "judging" /\ task[v] = << Watched, j >> }
                       \ (IF j = i THEN {w} ELSE {})
      BY <1>0, <1>1, <1>10, <1>13
    <3>2. runningOf' = [runningOf EXCEPT ![i] = @ \ {w}]
      <4>1. InPool(Watched) /\ i \in Task(Watched)
        BY <1>0, <1>4, <1>13 DEF InPool
      <4>2. /\ runningOf = [j \in Task(Watched) |-> runningOf[j]]
            /\ runningOf' = [j \in Task(Watched) |-> runningOf'[j]]
        BY <2>1, <4>1 DEF runningOf
      <4>3. \A j \in Task(Watched) :
              runningOf'[j] = runningOf[j] \ (IF j = i THEN {w} ELSE {})
        BY <2>1, <3>1, <4>1 DEF runningOf
      <4>4. PICK f, g : f = runningOf /\ g = runningOf'
        OBVIOUS
      <4>5. /\ f = [j \in Task(Watched) |-> f[j]] /\ g = [j \in Task(Watched) |-> g[j]]
            /\ \A j \in Task(Watched) : g[j] = f[j] \ (IF j = i THEN {w} ELSE {})
        BY <4>2, <4>3, <4>4
      <4>6. g = [f EXCEPT ![i] = @ \ {w}]
        <5>1. g[i] = f[i] \ {w} /\ \A j \in Task(Watched) : j # i => g[j] = f[j]
          BY <4>1, <4>5
        <5>. QED  BY <4>1, <4>5, <5>1
      <4>. QED  BY <4>4, <4>6
    <3>3. w \in runningOf[i]
      BY <1>0, <1>1, <1>4, <1>13 DEF runningOf
    <3>. QED  BY <3>2, <3>3
  <2>5. /\ J!Task = Task(Watched) /\ J!tasks = Tasks(Watched)
        /\ J!Outcome(Tasks(Watched)[i]) = Outcome(Tasks(Watched)[i])
        /\ J!Skipped(Tasks(Watched), i, status) = K
        /\ J!Released(Tasks(Watched), i, status) = R
        /\ J!Cardinality(K) = Cardinality(K)
        /\ J!Cardinality(Task(Watched)) = Cardinality(Task(Watched))
    BY <1>13, SameGraph DEF J!Task, J!tasks, Task, Tasks, K, R
  <2>6. Cardinality(K) \in Nat
    BY <1>6, <1>7, FS_Subset, FS_CardinalityType
  <2>7. /\ finished'[Watched] = finished[Watched] + (1 + Cardinality(K))
        /\ last <=> /\ finished[Watched] < Cardinality(Task(Watched))
                    /\ finished[Watched] + (1 + Cardinality(K)) >= Cardinality(Task(Watched))
    BY <1>4, <1>9, <1>13, <2>6 DEF count, last
  <2>8. /\ results'[Watched] =
             [j \in Task(Watched) |-> IF j = i THEN status
                                      ELSE IF j \in K THEN "DEPENDENCY_NOT_SATISFIED"
                                      ELSE results[Watched][j]]
        /\ unsent'[Watched] = unsent[Watched]
    BY <1>1, <1>9, <1>13 DEF after
  <2>9. J!Process(w, i, status)
    BY <2>1, <2>3, <2>4, <2>5, <2>7, <2>8 DEF J!Process
  <2>10. i \in DOMAIN runningOf /\ status \in J!Outcome(J!tasks[i]) \cap Verdict
    BY <1>0, <1>2, <1>13, <2>2, <2>5
  <2>. QED  BY <2>9, <2>10 DEF J!Judged
<1>. QED  BY <1>12, <1>13

\* Every step of the pool is a step of the submission's judger or leaves it alone.
LEMMA StepSeen ==
  ASSUME IInv, Watched \in Sub, [Next]_vars
  PROVE  [J!Next]_(J!vars)
<1>0. IInv'
  BY NextInv
<1>1. CASE StopWorkers
  BY <1>0, <1>1, QuietUnseen DEF StopWorkers
<1>2. ASSUME NEW w \in Worker, FetchStep(w)  PROVE [J!Next]_(J!vars)
  <2>1. CASE FetchNothing(w)
    BY <1>0, <2>1, QuietUnseen DEF FetchNothing
  <2>2. CASE Fetch(w)
    BY <1>0, <2>2, FetchSeen DEF J!Next
  <2>. QED  BY <1>2, <2>1, <2>2 DEF FetchStep
<1>3. ASSUME NEW w \in Worker, NEW l \in Label, Goto(w, l), l # "judging", pc[w] # "judging",
             UNCHANGED <<subVars, taskQueue>>, \A v \in Worker : v # w => task'[v] = task[v]
      PROVE  UNCHANGED J!vars
  <2>1. pc'[w] = l /\ \A v \in Worker : v # w => pc'[v] = pc[v]
    BY <1>3, Moves DEF IInv
  <2>. QED  BY <1>0, <1>3, <2>1, QuietUnseen
<1>4. \A l \in { "fetching", "unlocking", "loop", "empty", "stopped", "locking", "ending",
                 "reaping" } : l \in Label /\ l # "judging"
  BY DEF Label
<1>5. ASSUME NEW w \in Worker, Locking(w)  PROVE UNCHANGED J!vars
  <2>1. CASE BeginFetch(w)
    BY <1>3, <1>4, <2>1 DEF BeginFetch
  <2>2. CASE FinishSubmission(w)
    BY <1>3, <1>4, <2>2 DEF FinishSubmission
  <2>3. CASE Reap(w)
    BY <1>3, <1>4, <2>3 DEF Reap
  <2>. QED  BY <1>5, <2>1, <2>2, <2>3 DEF Locking
<1>6. ASSUME NEW w \in Worker, Alone(w)  PROVE [J!Next]_(J!vars)
  <2>1. CASE TryPop(w) /\ taskQueue = << >>
    <3>1. Goto(w, "empty") /\ pc[w] = "loop" /\ UNCHANGED <<subVars, taskQueue, task>>
      BY <2>1 DEF TryPop
    <3>. QED  BY <1>3, <1>4, <3>1
  <2>2. CASE TryPop(w) /\ taskQueue # << >>
    BY <1>0, <2>2, PopSeen DEF J!Next
  <2>3. CASE CheckStop(w)
    <3>1. PICK l \in { "stopped", "locking" } : Goto(w, l)
      BY <2>3 DEF CheckStop
    <3>2. pc[w] = "empty" /\ UNCHANGED <<subVars, taskQueue, task>>
      BY <2>3 DEF CheckStop
    <3>. QED  BY <1>3, <1>4, <3>1, <3>2
  <2>4. CASE Distribute(w)
    BY <1>0, <2>4, PushSeen DEF J!Next
  <2>5. CASE EndFetch(w)
    BY <1>3, <1>4, <2>5 DEF EndFetch
  <2>6. CASE Process(w)
    BY <1>0, <2>6, ProcessSeen DEF J!Next
  <2>7. CASE Unlock(w)
    BY <1>3, <1>4, <2>7 DEF Unlock
  <2>8. CASE EndJudgeTask(w)
    <3>1. \A v \in Worker : v # w => task'[v] = task[v]
      BY <2>8 DEF EndJudgeTask, IInv, Workers
    <3>. QED  BY <1>3, <1>4, <2>8, <3>1 DEF EndJudgeTask
  <2>. QED  BY <1>6, <2>1, <2>2, <2>3, <2>4, <2>5, <2>6, <2>7, <2>8 DEF Alone
<1>7. CASE UNCHANGED vars
  BY <1>0, <1>7, QuietUnseen DEF vars
<1>. QED  BY <1>1, <1>2, <1>5, <1>6, <1>7 DEF Next

\* Whatever the other submissions, the order of the queue and the fetching workers do, any
\* submission of the pool is judged as ProgrammingJudger says: what is proved of that module
\* holds of every submission in the pool.
THEOREM ImplementsJudgerOf ==
  ASSUME Watched \in Sub
  PROVE  Spec => J!Init /\ [][J!Next]_(J!vars)
<1>1. Init => J!Init
  <2>. SUFFICES ASSUME Init  PROVE J!Init
    OBVIOUS
  <2>1. phase[Watched] = "waiting"
    BY DEF Init
  <2>2. /\ results[Watched] = << >> /\ finished[Watched] = 0 /\ unsent[Watched] = {}
        /\ phaseOf = "fetched" /\ queuedOf = << >> /\ runningOf = << >> /\ finalsOf = 0
    BY <2>1 DEF Init, InPool, phaseOf, queuedOf, runningOf, finalsOf
  <2>. QED  BY <2>2 DEF J!Init
<1>2. IInv /\ [Next]_vars => [J!Next]_(J!vars)
  BY StepSeen
<1>. QED  BY <1>1, <1>2, Invariance, PTL DEF Spec
=============================================================================
