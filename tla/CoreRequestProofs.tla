--------------------------- MODULE CoreRequestProofs ---------------------------
(***************************************************************************)
(* Theorems of CoreRequest, with their proofs, for every finite set of     *)
(* workers and all task queues to start from.                              *)
(*                                                                         *)
(* Both invariants come down to counting: the latch of a master stands at  *)
(* the number of answers that are still to come, which are spread over     *)
(* requests not pushed yet, requests in the queue and workers about to     *)
(* add their cores.  The queue is counted by its positions, so the first   *)
(* lemmas say what Append and Tail make of a count.  A count of cores also *)
(* takes that only one worker adds to a list at a time.                    *)
(***************************************************************************)
EXTENDS CoreRequest, FiniteSetTheorems, SequenceTheorems, TLAPS

-----------------------------------------------------------------------------
(* The inductive invariant.                                                *)

\* Where m stands in a queue, and the workers about to add their core to the task of m.
Positions(q, m) == { k \in 1 .. Len(q) : q[k] = m }
Granting(m) == { w \in Worker : pc[w] \in { "granting", "adding" } /\ serving[w] = m }

\* The latch stands at the number of answers that are still to come.
Outstanding ==
  \A m \in Worker :
    latch[m] = unsent[m] + Cardinality(Positions(coreQueue, m)) + Cardinality(Granting(m))

\* The block of a master, and how long its latch is closed.
Scoped ==
  \A m \in Worker :
    /\ m \in inScope <=> pc[m] \in { "requesting", "latched" }
    /\ unsent[m] > 0 <=> pc[m] = "requesting"
    /\ latch[m] > 0 => m \in inScope

\* In a block that no worker of the one before can disturb, who adds a core or has
\* still to unlock the list holds its lock.
Held ==
  \A w \in Worker :
    pc[w] \in { "adding", "unlocking" } /\ serving[w] \in inScope \ reused =>
      writeLock[serving[w]] = w

\* There what a task has collected and what its latch still waits for are its cores.
Collected ==
  \A m \in Worker \ reused :
    pc[m] \in { "requesting", "latched", "judging" } =>
      Len(cpus[m]) > 0 /\ cpus[m][1] = m /\ Len(cpus[m]) + latch[m] = cores[m]

\* Only who has popped a request answers one, and all tasks ask for a core at least.
Asked ==
  /\ \A w \in Worker : pc[w] \in { "granting", "adding", "unlocking" } => serving[w] \in Worker
  /\ taskQueue \in Seq(Nat \ {0})

IInv == TypeOK /\ Outstanding /\ Scoped /\ Held /\ Collected /\ Asked

-----------------------------------------------------------------------------
(* Counting.                                                               *)

\* The positions in a queue can be counted.
LEMMA PositionsFinite ==
  ASSUME NEW S, NEW q \in Seq(S), NEW m
  PROVE  IsFiniteSet(Positions(q, m)) /\ Cardinality(Positions(q, m)) \in Nat
<1>1. IsFiniteSet(1 .. Len(q)) /\ Positions(q, m) \in SUBSET (1 .. Len(q))
  BY FS_Interval DEF Positions
<1>. QED  BY <1>1, FS_Subset, FS_CardinalityType

\* Append adds one position, of what is appended.
LEMMA PositionsAppend ==
  ASSUME NEW S, NEW q \in Seq(S), NEW e \in S, NEW m
  PROVE  Cardinality(Positions(Append(q, e), m)) =
           IF e = m THEN Cardinality(Positions(q, m)) + 1 ELSE Cardinality(Positions(q, m))
<1>1. \A k : k \in Positions(Append(q, e), m) <=>
               k \in Positions(q, m) \/ (e = m /\ k = Len(q) + 1)
  BY AppendProperties DEF Positions
<1>2. CASE e = m
  <2>1. Positions(Append(q, e), m) = Positions(q, m) \cup { Len(q) + 1 }
    BY <1>1, <1>2
  <2>2. Len(q) + 1 \notin Positions(q, m)
    BY DEF Positions
  <2>. QED  BY <1>2, <2>1, <2>2, PositionsFinite, FS_AddElement
<1>3. CASE e # m
  <2>1. Positions(Append(q, e), m) = Positions(q, m)
    BY <1>1, <1>3
  <2>. QED  BY <1>3, <2>1
<1>. QED  BY <1>2, <1>3

\* Tail drops the first position and moves the others down by one.
LEMMA PositionsTail ==
  ASSUME NEW S, NEW q \in Seq(S), q # <<>>, NEW m
  PROVE  Cardinality(Positions(Tail(q), m)) =
           IF Head(q) = m THEN Cardinality(Positions(q, m)) - 1 ELSE Cardinality(Positions(q, m))
<1>. DEFINE P == Positions(q, m)
            T == Positions(Tail(q), m)
            f == [k \in T |-> k + 1]
<1>1. Len(q) \in Nat \ {0} /\ Len(Tail(q)) = Len(q) - 1 /\ Head(q) = q[1]
  BY EmptySeq, HeadTailProperties
<1>2. \A k \in 1 .. Len(q) - 1 : Tail(q)[k] = q[k + 1]
  BY <1>1, HeadTailProperties
<1>3. f \in [T -> P \ {1}]
  BY <1>1, <1>2 DEF Positions
<1>4. \A k \in P \ {1} : k - 1 \in T /\ f[k - 1] = k
  BY <1>1, <1>2 DEF Positions
<1>5. \A j, k \in T : f[j] = f[k] => j = k
  BY DEF Positions
<1>6. IsFiniteSet(P) /\ Cardinality(P) \in Nat /\ IsFiniteSet(T)
  BY <1>1, PositionsFinite, HeadTailProperties
<1>7. 1 \in P <=> Head(q) = m
  BY <1>1 DEF Positions
<1>. HIDE DEF P, T, f
<1>8. ExistsBijection(T, P \ {1})
  <2>1. \A k \in P \ {1} : \E j \in T : f[j] = k
    BY <1>4
  <2>2. f \in Injection(T, P \ {1})
    BY <1>3, <1>5 DEF Injection, IsInjective
  <2>3. f \in Surjection(T, P \ {1})
    BY <1>3, <2>1 DEF Surjection
  <2>. QED  BY <2>2, <2>3 DEF ExistsBijection, Bijection
<1>9. Cardinality(T) = Cardinality(P \ {1})
  BY <1>6, <1>8, FS_Bijection
<1>10. Cardinality(T) = IF Head(q) = m THEN Cardinality(P) - 1 ELSE Cardinality(P)
  BY <1>6, <1>7, <1>9, FS_RemoveElement
<1>. QED  BY <1>10 DEF P, T

\* The positions of every master in the core queue can be counted.
LEMMA Counts ==
  ASSUME TypeOK
  PROVE  /\ IsFiniteSet(Worker)
         /\ \A m \in Worker : /\ Cardinality(Positions(coreQueue, m)) \in Nat
                              /\ IsFiniteSet(Granting(m)) /\ Cardinality(Granting(m)) \in Nat
<1>1. \A m \in Worker : Cardinality(Positions(coreQueue, m)) \in Nat
  BY PositionsFinite DEF TypeOK
<1>2. ASSUME NEW m \in Worker
      PROVE  IsFiniteSet(Granting(m)) /\ Cardinality(Granting(m)) \in Nat
  <2>1. IsFiniteSet(Worker) /\ Granting(m) \in SUBSET Worker
    BY WorkloadAssumption DEF Granting
  <2>. QED  BY <2>1, FS_Subset, FS_CardinalityType
<1>. QED  BY <1>1, <1>2, WorkloadAssumption

\* Nobody is about to grant, and nothing waits in the queue, for a worker without a latch.
LEMMA NothingOutstanding ==
  ASSUME IInv, NEW w \in Worker, w \notin inScope
  PROVE  /\ latch[w] = 0 /\ unsent[w] = 0
         /\ Cardinality(Positions(coreQueue, w)) = 0 /\ Cardinality(Granting(w)) = 0
<1>1. latch[w] = 0
  BY DEF IInv, Scoped, TypeOK
<1>2. latch[w] = unsent[w] + Cardinality(Positions(coreQueue, w)) + Cardinality(Granting(w))
  BY DEF IInv, Outstanding
<1>3. unsent[w] \in Nat
  BY DEF IInv, TypeOK
<1>. QED  BY <1>1, <1>2, <1>3, Counts DEF IInv

-----------------------------------------------------------------------------
(* The steps of the workers.                                               *)

\* A step in which nobody begins or ends granting.
LEMMA GrantingSame ==
  ASSUME NEW w \in Worker, NEW l, pc' = [pc EXCEPT ![w] = l],
         l \notin { "granting", "adding" }, pc[w] \notin { "granting", "adding" }, pc \in [Worker -> Label],
         \A v \in Worker \ {w} : serving'[v] = serving[v]
  PROVE  \A m : Granting(m)' = Granting(m)
<1>. SUFFICES ASSUME NEW m  PROVE Granting(m)' = Granting(m)
  OBVIOUS
<1>1. \A v \in Worker : v \in Granting(m)' <=> v \in Granting(m)
  BY DEF Granting
<1>. QED  BY <1>1 DEF Granting

\* A request is popped: it stands in the queue no more, and its answer is on the way.
LEMMA PopRequestStep ==
  ASSUME IInv, NEW w \in Worker, PopRequest(w)
  PROVE  IInv'
<1>. USE DEF IInv
<1>1. CASE coreQueue = <<>>
  <2>1. pc[w] = "loop" /\ pc' = [pc EXCEPT ![w] = "popping"] /\ pc \in [Worker -> Label]
        /\ UNCHANGED <<coreQueue, serving, taskQueue, request, cpus, locks, stop>>
    BY <1>1 DEF PopRequest, Goto, TypeOK
  <2>2. TypeOK'
    BY <2>1 DEF TypeOK, request, locks, Label
  <2>3. \A m : Granting(m)' = Granting(m)
    BY <2>1, GrantingSame
  <2>4. Outstanding'
    BY <2>1, <2>3 DEF Outstanding, request
  <2>5. Scoped' /\ Held' /\ Collected' /\ Asked'
    BY <2>1 DEF Scoped, Held, Collected, Asked, request, locks
  <2>. QED  BY <2>2, <2>4, <2>5
<1>2. CASE coreQueue # <<>>
  <2>. DEFINE h == Head(coreQueue)
  <2>1. /\ pc[w] = "loop" /\ pc' = [pc EXCEPT ![w] = "granting"]
        /\ serving' = [serving EXCEPT ![w] = h] /\ coreQueue' = Tail(coreQueue)
        /\ UNCHANGED <<taskQueue, request, cpus, locks, stop>>
    BY <1>2 DEF PopRequest, Goto
  <2>2. h \in Worker /\ Tail(coreQueue) \in Seq(Worker)
    BY <1>2, HeadTailProperties DEF TypeOK
  <2>3. pc \in [Worker -> Label] /\ serving \in [Worker -> Worker \cup {None}]
        /\ coreQueue \in Seq(Worker)
    BY DEF TypeOK
  <2>. HIDE DEF h
  <2>4. TypeOK'
    BY <2>1, <2>2 DEF TypeOK, request, locks, Label
  <2>5. ASSUME NEW m \in Worker
        PROVE  latch'[m] = unsent'[m] + Cardinality(Positions(coreQueue', m))
                                      + Cardinality(Granting(m)')
    <3>1. Cardinality(Positions(coreQueue', m)) =
            IF h = m THEN Cardinality(Positions(coreQueue, m)) - 1
            ELSE Cardinality(Positions(coreQueue, m))
      BY <1>2, <2>1, <2>3, PositionsTail DEF h
    <3>2. w \notin Granting(m)
      BY <2>1 DEF Granting
    <3>3. Granting(m)' = IF h = m THEN Granting(m) \cup {w} ELSE Granting(m)
      <4>1. \A v : v \in Granting(m)' <=> v \in Granting(m) \/ (h = m /\ v = w)
        BY <2>1, <2>3 DEF Granting
      <4>. QED  BY <4>1
    <3>4. Cardinality(Granting(m)') =
            IF h = m THEN Cardinality(Granting(m)) + 1 ELSE Cardinality(Granting(m))
      BY <3>2, <3>3, Counts, FS_AddElement
    <3>5. latch[m] = unsent[m] + Cardinality(Positions(coreQueue, m))
                               + Cardinality(Granting(m))
          /\ unsent[m] \in Nat
      BY DEF Outstanding, TypeOK
    <3>. QED  BY <2>1, <3>1, <3>4, <3>5, Counts DEF request
  <2>6. Outstanding'
    BY <2>5 DEF Outstanding
  <2>7. Scoped' /\ Held' /\ Collected'
    BY <2>1, <2>3 DEF Scoped, Held, Collected, request, locks
  <2>8. Asked'
    BY <2>1, <2>2, <2>3 DEF Asked
  <2>. QED  BY <2>4, <2>6, <2>7, <2>8
<1>. QED  BY <1>1, <1>2

\* The process ends: nothing is outstanding any more.
LEMMA CrashStep ==
  ASSUME IInv, Crash
  PROVE  IInv'
<1>. USE DEF IInv
<1>1. /\ pc' = [v \in Worker |-> "crashed"] /\ coreQueue' = <<>>
      /\ latch' = [v \in Worker |-> 0] /\ unsent' = [v \in Worker |-> 0] /\ inScope' = {}
      /\ UNCHANGED <<taskQueue, cores, cpus, locks, serving, stop>>
  BY DEF Crash
<1>2. <<>> \in Seq(Worker)
  OBVIOUS
<1>3. TypeOK'
  BY <1>1, <1>2 DEF TypeOK, locks, Label
<1>4. \A m \in Worker : Positions(coreQueue, m)' = {} /\ Granting(m)' = {}
  BY <1>1 DEF Positions, Granting
<1>5. Outstanding'
  <2>1. \A m \in Worker : latch'[m] = 0 /\ unsent'[m] = 0
    BY <1>1
  <2>2. \A m \in Worker : /\ Cardinality(Positions(coreQueue', m)) = 0
                         /\ Cardinality(Granting(m)') = 0
    BY <1>4, FS_EmptySet DEF Positions
  <2>. QED  BY <2>1, <2>2 DEF Outstanding
<1>6. Scoped' /\ Held' /\ Collected' /\ Asked'
  BY <1>1 DEF Scoped, Held, Collected, Asked
<1>. QED  BY <1>3, <1>5, <1>6

\* A list is locked: its worker is the only one there, and its answer still on the way.
LEMMA LockListStep ==
  ASSUME IInv, NEW w \in Worker, LockList(w)
  PROVE  IInv'
<1>. USE DEF IInv
<1>1. /\ pc[w] = "granting" /\ pc' = [pc EXCEPT ![w] = "adding"]
      /\ writeLock[serving[w]] = None
      /\ writeLock' = [writeLock EXCEPT ![serving[w]] = w]
      /\ UNCHANGED <<taskQueue, coreQueue, request, cpus, reused, serving, stop>>
  BY DEF LockList, Goto
<1>2. /\ pc \in [Worker -> Label] /\ writeLock \in [Worker -> Worker \cup {None}]
      /\ serving[w] \in Worker /\ None \notin Worker
  BY <1>1, WorkloadAssumption DEF TypeOK, Asked
<1>3. TypeOK'
  BY <1>1, <1>2 DEF TypeOK, request, Label
<1>4. \A m : Granting(m)' = Granting(m)
  <2>. SUFFICES ASSUME NEW m  PROVE Granting(m)' = Granting(m)
    OBVIOUS
  <2>1. \A v \in Worker : v \in Granting(m)' <=> v \in Granting(m)
    BY <1>1, <1>2 DEF Granting
  <2>. QED  BY <2>1 DEF Granting
<1>5. Outstanding'
  BY <1>1, <1>4 DEF Outstanding, request
<1>6. Held'
  <2>. SUFFICES ASSUME NEW v \in Worker, pc'[v] \in { "adding", "unlocking" },
                       serving[v] \in inScope \ reused
                PROVE  writeLock'[serving[v]] = v
    BY <1>1 DEF Held, request
  <2>1. CASE v = w
    BY <1>1, <1>2, <2>1
  <2>2. CASE v # w
    <3>1. writeLock[serving[v]] = v
      BY <1>1, <1>2, <2>2 DEF Held
    <3>. QED  BY <1>1, <1>2, <3>1
  <2>. QED  BY <2>1, <2>2
<1>7. Scoped' /\ Collected' /\ Asked'
  BY <1>1, <1>2 DEF Scoped, Collected, Asked, request
<1>. QED  BY <1>3, <1>5, <1>6, <1>7

\* A list is unlocked, by the worker that holds it where the count of cores matters.
LEMMA UnlockStep ==
  ASSUME IInv, NEW w \in Worker, Unlock(w)
  PROVE  IInv'
<1>. USE DEF IInv
<1>1. CASE Crash
  BY <1>1, CrashStep
<1>2. CASE ~ Crash
  <2>1. /\ pc[w] = "unlocking" /\ pc' = [pc EXCEPT ![w] = "granted"]
        /\ writeLock' = [writeLock EXCEPT ![serving[w]] = None]
        /\ UNCHANGED <<taskQueue, coreQueue, request, cpus, reused, serving, stop>>
    BY <1>2 DEF Unlock, Goto
  <2>2. pc \in [Worker -> Label] /\ writeLock \in [Worker -> Worker \cup {None}]
    BY DEF TypeOK
  <2>3. TypeOK'
    BY <2>1, <2>2 DEF TypeOK, request, Label
  <2>4. \A m : Granting(m)' = Granting(m)
    BY <2>1, <2>2, GrantingSame
  <2>5. Outstanding'
    BY <2>1, <2>4 DEF Outstanding, request
  <2>6. Held'
    <3>. SUFFICES ASSUME NEW v \in Worker, pc'[v] \in { "adding", "unlocking" },
                         serving[v] \in inScope \ reused
                  PROVE  writeLock'[serving[v]] = v
      BY <2>1 DEF Held, request
    <3>1. v # w /\ writeLock[serving[v]] = v
      BY <2>1, <2>2 DEF Held
    <3>2. serving[v] = serving[w] => writeLock[serving[w]] = w
      BY <2>1 DEF Held
    <3>. QED  BY <2>1, <2>2, <3>1, <3>2
  <2>7. Scoped' /\ Collected' /\ Asked'
    BY <2>1, <2>2 DEF Scoped, Collected, Asked, request
  <2>. QED  BY <2>3, <2>5, <2>6, <2>7
<1>. QED  BY <1>1, <1>2

\* A core is granted: the latch goes down with the answers on the way.
LEMMA GrantStep ==
  ASSUME IInv, NEW w \in Worker, Grant(w)
  PROVE  IInv'
<1>. USE DEF IInv
<1>1. CASE Crash
  BY <1>1, CrashStep
<1>. DEFINE h     == serving[w]
            apart == \A v \in Worker \ {w} : ~ (pc[v] = "adding" /\ serving[v] = h)
<1>2. CASE ~ Crash
  <2>1. /\ pc[w] = "adding" /\ pc' = [pc EXCEPT ![w] = "unlocking"]
        /\ \/ cpus' = [cpus EXCEPT ![h] = Append(cpus[h], w)]
           \/ ~ apart /\ UNCHANGED cpus
        /\ latch' = [latch EXCEPT ![h] = latch[h] - 1]
        /\ UNCHANGED <<taskQueue, coreQueue, cores, unsent, inScope, locks, serving, stop>>
    BY <1>2 DEF Grant, Goto
  <2>2. h \in Worker /\ pc \in [Worker -> Label] /\ latch \in [Worker -> Nat]
        /\ cpus \in [Worker -> Seq(Worker)] /\ unsent \in [Worker -> Nat]
    BY <2>1 DEF Asked, TypeOK
  <2>3. w \in Granting(h) /\ \A m \in Worker : m # h => w \notin Granting(m)
    BY <2>1 DEF Granting
  <2>4. h \in inScope \ reused => apart
    <3>. SUFFICES ASSUME h \in inScope \ reused, NEW v \in Worker \ {w},
                         pc[v] = "adding", serving[v] = h
                  PROVE  FALSE
      OBVIOUS
    <3>1. writeLock[h] = v /\ writeLock[h] = w
      BY <2>1 DEF Held
    <3>. QED  BY <3>1
  <2>. HIDE DEF h, apart
  <2>5. latch[h] > 0
    <3>1. Cardinality(Granting(h)) > 0
      BY <2>2, <2>3, Counts, FS_EmptySet
    <3>. QED  BY <2>2, <3>1, Counts DEF Outstanding
  <2>6. Append(cpus[h], w) \in Seq(Worker) /\ Len(Append(cpus[h], w)) = Len(cpus[h]) + 1
        /\ (Len(cpus[h]) > 0 => Append(cpus[h], w)[1] = cpus[h][1]) /\ Len(cpus[h]) \in Nat
    BY <2>2, AppendProperties
  <2>7. TypeOK'
    <3>1. cpus' \in [Worker -> Seq(Worker)]
      BY <2>1, <2>2, <2>6
    <3>2. latch' \in [Worker -> Nat]
      BY <2>1, <2>2, <2>5
    <3>. QED  BY <2>1, <2>2, <3>1, <3>2 DEF TypeOK, locks, Label
  <2>8. ASSUME NEW m \in Worker
        PROVE  latch'[m] = unsent'[m] + Cardinality(Positions(coreQueue', m))
                                      + Cardinality(Granting(m)')
    <3>1. Granting(m)' = Granting(m) \ {w}
      <4>1. \A v : v \in Granting(m)' <=> v \in Granting(m) /\ v # w
        BY <2>1, <2>2 DEF Granting
      <4>. QED  BY <4>1
    <3>2. Cardinality(Granting(m)') =
            IF m = h THEN Cardinality(Granting(m)) - 1 ELSE Cardinality(Granting(m))
      BY <2>3, <3>1, Counts, FS_RemoveElement
    <3>3. latch[m] = unsent[m] + Cardinality(Positions(coreQueue, m)) + Cardinality(Granting(m))
          /\ unsent[m] \in Nat
      BY DEF Outstanding, TypeOK
    <3>4. latch'[m] = IF m = h THEN latch[m] - 1 ELSE latch[m]
      BY <2>1, <2>2
    <3>. QED  BY <2>1, <3>2, <3>3, <3>4, Counts
  <2>9. Outstanding'
    BY <2>8 DEF Outstanding
  <2>10. Scoped' /\ Held' /\ Asked'
    BY <2>1, <2>2, <2>5 DEF Scoped, Held, Asked, locks
  <2>11. Collected'
    <3>. SUFFICES ASSUME NEW m \in Worker \ reused,
                         pc'[m] \in { "requesting", "latched", "judging" }
                  PROVE  /\ Len(cpus'[m]) > 0 /\ cpus'[m][1] = m
                         /\ Len(cpus'[m]) + latch'[m] = cores[m]
      BY <2>1 DEF Collected, locks
    <3>1. pc[m] = pc'[m]
      BY <2>1, <2>2
    <3>2. Len(cpus[m]) > 0 /\ cpus[m][1] = m /\ Len(cpus[m]) + latch[m] = cores[m]
      BY <3>1 DEF Collected
    <3>3. cores[m] \in Nat /\ latch[m] \in Nat
      BY DEF TypeOK
    <3>4. CASE m = h
      <4>1. apart
        BY <2>2, <2>4, <2>5, <3>4 DEF Scoped
      <4>2. cpus'[m] = Append(cpus[h], w) /\ latch'[m] = latch[m] - 1
        BY <2>1, <2>2, <3>4, <4>1
      <4>. QED  BY <2>6, <3>2, <3>3, <3>4, <4>2
    <3>5. CASE m # h
      <4>1. cpus'[m] = cpus[m] /\ latch'[m] = latch[m]
        BY <2>1, <2>2, <3>5
      <4>. QED  BY <3>2, <4>1
    <3>. QED  BY <3>4, <3>5
  <2>. QED  BY <2>7, <2>9, <2>10, <2>11
<1>. QED  BY <1>1, <1>2

\* A master takes a task of several cores when nothing is outstanding for it.
LEMMA PopTaskStep ==
  ASSUME IInv, NEW w \in Worker, PopTask(w)
  PROVE  IInv'
<1>. USE DEF IInv
<1>1. CASE taskQueue = <<>>
  <2>1. PICK l \in { "stopped", "loop" } : pc' = [pc EXCEPT ![w] = l]
    BY <1>1 DEF PopTask, Goto
  <2>2. /\ pc[w] = "popping" /\ pc \in [Worker -> Label]
        /\ UNCHANGED <<taskQueue, request, cpus, locks, coreQueue, serving, stop>>
    BY <1>1 DEF PopTask, Goto, TypeOK
  <2>3. TypeOK'
    BY <2>1, <2>2 DEF TypeOK, request, locks, Label
  <2>4. \A m : Granting(m)' = Granting(m)
    BY <2>1, <2>2, GrantingSame
  <2>5. Outstanding'
    BY <2>2, <2>4 DEF Outstanding, request
  <2>6. Scoped' /\ Held' /\ Collected' /\ Asked'
    BY <2>1, <2>2 DEF Scoped, Held, Collected, Asked, request, locks
  <2>. QED  BY <2>3, <2>5, <2>6
<1>2. CASE taskQueue # <<>>
  <2>. DEFINE need == Head(taskQueue)
              l == IF need > 1 THEN "requesting" ELSE "judging"
  <2>1. /\ pc[w] = "popping" /\ pc' = [pc EXCEPT ![w] = l]
        /\ cores' = [cores EXCEPT ![w] = need]
        /\ latch' = [latch EXCEPT ![w] = need - 1]
        /\ unsent' = [unsent EXCEPT ![w] = need - 1]
        /\ inScope' = IF need > 1 THEN inScope \cup {w} ELSE inScope
        /\ writeLock' = [writeLock EXCEPT ![w] = None]
        /\ reused' = IF \E v \in Worker : Late(v, w) THEN reused \cup {w} ELSE reused \ {w}
        /\ cpus' = [cpus EXCEPT ![w] = <<w>>]
        /\ taskQueue' = Tail(taskQueue)
        /\ UNCHANGED <<coreQueue, serving, stop>>
    BY <1>2 DEF PopTask, Goto
  <2>2. need \in Nat \ {0} /\ Tail(taskQueue) \in Seq(Nat \ {0})
    BY <1>2, HeadTailProperties DEF Asked
  <2>3. Tail(taskQueue) \in Seq(Nat)
    BY <2>2, SeqMonotonic
  <2>4. /\ pc \in [Worker -> Label] /\ latch \in [Worker -> Nat] /\ unsent \in [Worker -> Nat]
        /\ cores \in [Worker -> Nat] /\ cpus \in [Worker -> Seq(Worker)]
        /\ writeLock \in [Worker -> Worker \cup {None}] /\ reused \subseteq Worker
    BY DEF TypeOK
  <2>5. w \notin inScope
    BY <2>1 DEF Scoped
  <2>6. l \in { "requesting", "judging" } /\ (l = "requesting" <=> need > 1)
    OBVIOUS
  <2>. HIDE DEF need, l
  <2>7. <<w>> \in Seq(Worker) /\ Len(<<w>>) = 1 /\ <<w>>[1] = w
    OBVIOUS
  <2>8. TypeOK'
    <3>1. /\ pc' \in [Worker -> Label] /\ cores' \in [Worker -> Nat]
          /\ latch' \in [Worker -> Nat] /\ unsent' \in [Worker -> Nat]
      BY <2>1, <2>2, <2>4, <2>6 DEF Label
    <3>2. cpus' \in [Worker -> Seq(Worker)] /\ writeLock' \in [Worker -> Worker \cup {None}]
      BY <2>1, <2>4, <2>7
    <3>3. inScope' \subseteq Worker /\ reused' \subseteq Worker
      BY <2>1, <2>4 DEF TypeOK
    <3>4. taskQueue' \in Seq(Nat)
      BY <2>1, <2>3
    <3>. QED  BY <2>1, <3>1, <3>2, <3>3, <3>4 DEF TypeOK
  <2>9. \A m : Granting(m)' = Granting(m)
    BY <2>1, <2>4, <2>6, GrantingSame
  <2>10. Outstanding'
    <3>. SUFFICES ASSUME NEW m \in Worker
                  PROVE  latch'[m] = unsent'[m] + Cardinality(Positions(coreQueue, m))
                                                + Cardinality(Granting(m))
      BY <2>1, <2>9 DEF Outstanding
    <3>1. CASE m = w
      BY <2>1, <2>2, <2>4, <2>5, <3>1, NothingOutstanding
    <3>2. CASE m # w
      BY <2>1, <2>4, <3>2 DEF Outstanding
    <3>. QED  BY <3>1, <3>2
  <2>11. Scoped'
    BY <2>1, <2>2, <2>4, <2>6 DEF Scoped
  <2>12. Collected'
    <3>. SUFFICES ASSUME NEW m \in Worker \ reused', pc'[m] \in { "requesting", "latched", "judging" }
                  PROVE  /\ Len(cpus'[m]) > 0 /\ cpus'[m][1] = m
                         /\ Len(cpus'[m]) + latch'[m] = cores'[m]
      BY DEF Collected
    <3>1. CASE m = w
      BY <2>1, <2>2, <2>4, <2>7, <3>1
    <3>2. CASE m # w
      BY <2>1, <2>4, <3>2 DEF Collected
    <3>. QED  BY <3>1, <3>2
  <2>13. Asked'
    BY <2>1, <2>2, <2>4, <2>6 DEF Asked
  <2>14. Held'
    <3>. SUFFICES ASSUME NEW v \in Worker, pc'[v] \in { "adding", "unlocking" },
                         serving[v] \in inScope' \ reused'
                  PROVE  writeLock'[serving[v]] = v
      BY <2>1 DEF Held
    <3>1. v # w /\ pc[v] \in { "adding", "unlocking" }
      BY <2>1, <2>4, <2>6
    <3>2. serving[v] # w
      <4>. SUFFICES ASSUME serving[v] = w  PROVE FALSE
        OBVIOUS
      <4>1. v \notin Granting(w)
        BY <2>5, NothingOutstanding, Counts, FS_EmptySet
      <4>2. Late(v, w)
        BY <3>1, <4>1 DEF Granting, Late
      <4>. QED  BY <2>1, <4>2
    <3>3. serving[v] \in inScope \ reused
      BY <2>1, <3>2
    <3>4. writeLock[serving[v]] = v
      BY <3>1, <3>3 DEF Held
    <3>. QED  BY <2>1, <2>4, <3>2, <3>4
  <2>. QED  BY <2>8, <2>10, <2>11, <2>12, <2>13, <2>14
<1>. QED  BY <1>1, <1>2

\* A request is pushed: it is in the queue instead of still to be pushed.
LEMMA PushRequestStep ==
  ASSUME IInv, NEW w \in Worker, PushRequest(w)
  PROVE  IInv'
<1>. USE DEF IInv
<1>1. PICK l : /\ pc' = [pc EXCEPT ![w] = l]
               /\ l = IF unsent[w] = 1 THEN "latched" ELSE "requesting"
  BY DEF PushRequest, Goto
<1>2. /\ pc[w] = "requesting" /\ unsent' = [unsent EXCEPT ![w] = unsent[w] - 1]
      /\ coreQueue' = Append(coreQueue, w)
      /\ UNCHANGED <<taskQueue, cores, latch, inScope, cpus, locks, serving, stop>>
  BY DEF PushRequest, Goto
<1>3. /\ pc \in [Worker -> Label] /\ latch \in [Worker -> Nat] /\ unsent \in [Worker -> Nat]
      /\ coreQueue \in Seq(Worker)
  BY DEF TypeOK
<1>4. unsent[w] > 0 /\ l \in { "latched", "requesting" }
  BY <1>1, <1>2 DEF Scoped
<1>5. Append(coreQueue, w) \in Seq(Worker)
  BY <1>3, AppendProperties
<1>6. TypeOK'
  <2>1. pc' \in [Worker -> Label] /\ unsent' \in [Worker -> Nat] /\ coreQueue' \in Seq(Worker)
    BY <1>1, <1>2, <1>3, <1>4, <1>5 DEF Label
  <2>. QED  BY <1>2, <2>1 DEF TypeOK, locks
<1>7. \A m : Granting(m)' = Granting(m)
  BY <1>1, <1>2, <1>3, <1>4, GrantingSame
<1>8. Outstanding'
  <2>. SUFFICES ASSUME NEW m \in Worker
                PROVE  latch[m] = unsent'[m] + Cardinality(Positions(Append(coreQueue, w), m))
                                             + Cardinality(Granting(m))
    BY <1>2, <1>7 DEF Outstanding
  <2>1. Cardinality(Positions(Append(coreQueue, w), m)) =
          IF w = m THEN Cardinality(Positions(coreQueue, m)) + 1
          ELSE Cardinality(Positions(coreQueue, m))
    BY <1>3, PositionsAppend
  <2>2. latch[m] = unsent[m] + Cardinality(Positions(coreQueue, m)) + Cardinality(Granting(m))
        /\ unsent[m] \in Nat
    BY <1>3 DEF Outstanding
  <2>3. unsent'[m] = IF w = m THEN unsent[m] - 1 ELSE unsent[m]
    BY <1>2, <1>3
  <2>. QED  BY <2>1, <2>2, <2>3, Counts
<1>9. Scoped'
  BY <1>1, <1>2, <1>3, <1>4 DEF Scoped
<1>10. Held' /\ Collected' /\ Asked'
  BY <1>1, <1>2, <1>3, <1>4 DEF Held, Collected, Asked, locks
<1>. QED  BY <1>6, <1>8, <1>9, <1>10

\* The latch opens when every answer has come, and the master leaves the block.
LEMMA PassLatchStep ==
  ASSUME IInv, NEW w \in Worker, PassLatch(w)
  PROVE  IInv'
<1>. USE DEF IInv
<1>1. PICK l \in { "judging", "destroying" } : pc' = [pc EXCEPT ![w] = l]
  BY DEF PassLatch, Goto
<1>2. /\ pc[w] = "latched" /\ latch[w] = 0 /\ inScope' = inScope \ {w}
      /\ UNCHANGED <<taskQueue, coreQueue, cores, latch, unsent, cpus, locks, serving, stop>>
  BY DEF PassLatch, Goto
<1>3. pc \in [Worker -> Label] /\ latch \in [Worker -> Nat] /\ unsent \in [Worker -> Nat]
  BY DEF TypeOK
<1>4. TypeOK'
  BY <1>1, <1>2, <1>3 DEF TypeOK, locks, Label
<1>5. \A m : Granting(m)' = Granting(m)
  BY <1>1, <1>2, <1>3, GrantingSame
<1>6. Outstanding'
  BY <1>2, <1>5 DEF Outstanding
<1>7. Scoped'
  BY <1>1, <1>2, <1>3 DEF Scoped
<1>8. Held' /\ Collected' /\ Asked'
  BY <1>1, <1>2, <1>3 DEF Held, Collected, Asked, locks
<1>. QED  BY <1>4, <1>6, <1>7, <1>8

\* A task is judged, and its list of cores is emptied.
LEMMA JudgeStep ==
  ASSUME IInv, NEW w \in Worker, Judge(w)
  PROVE  IInv'
<1>. USE DEF IInv
<1>1. /\ pc[w] = "judging" /\ pc' = [pc EXCEPT ![w] = "loop"]
      /\ cores' = [cores EXCEPT ![w] = 0] /\ cpus' = [cpus EXCEPT ![w] = <<>>]
      /\ UNCHANGED <<taskQueue, coreQueue, latch, unsent, inScope, locks, serving, stop>>
  BY DEF Judge, Goto
<1>2. /\ pc \in [Worker -> Label] /\ cores \in [Worker -> Nat]
      /\ cpus \in [Worker -> Seq(Worker)] /\ <<>> \in Seq(Worker)
  BY DEF TypeOK
<1>3. TypeOK'
  BY <1>1, <1>2 DEF TypeOK, locks, Label
<1>4. \A m : Granting(m)' = Granting(m)
  <2>1. \A v \in Worker \ {w} : serving'[v] = serving[v]
    BY <1>1
  <2>2. "loop" \notin { "granting", "adding" } /\ pc[w] \notin { "granting", "adding" }
    BY <1>1
  <2>. QED  BY <1>1, <1>2, <2>1, <2>2, GrantingSame
<1>5. Outstanding'
  BY <1>1, <1>4 DEF Outstanding
<1>6. Scoped' /\ Held' /\ Asked'
  BY <1>1, <1>2 DEF Scoped, Held, Asked, locks
<1>7. Collected'
  <2>. SUFFICES ASSUME NEW m \in Worker \ reused,
                       pc'[m] \in { "requesting", "latched", "judging" }
                PROVE  /\ Len(cpus'[m]) > 0 /\ cpus'[m][1] = m
                       /\ Len(cpus'[m]) + latch'[m] = cores'[m]
    BY <1>1 DEF Collected, locks
  <2>1. m # w
    BY <1>1, <1>2
  <2>2. cpus'[m] = cpus[m] /\ cores'[m] = cores[m] /\ pc'[m] = pc[m]
    BY <1>1, <1>2, <2>1
  <2>. QED  BY <1>1, <2>2 DEF Collected
<1>. QED  BY <1>3, <1>5, <1>6, <1>7

\* Waiting on the condition variable, or coming back from it, changes no count.
LEMMA WaitStep ==
  ASSUME IInv, NEW w \in Worker, Wait(w) \/ WakeSpuriously(w)
  PROVE  IInv'
<1>. USE DEF IInv
<1>1. CASE Crash
  BY <1>1, CrashStep
<1>2. CASE ~ Crash
  <2>1. PICK l \in { "waiting", "popping" } : pc' = [pc EXCEPT ![w] = l]
    BY <1>2 DEF Wait, WakeSpuriously, Goto
  <2>2. /\ pc[w] \in { "granted", "waiting" }
        /\ serving' = serving \/ serving' = [serving EXCEPT ![w] = None]
        /\ UNCHANGED <<taskQueue, coreQueue, request, cpus, locks, stop>>
    BY <1>2 DEF Wait, WakeSpuriously, Goto
  <2>3. pc \in [Worker -> Label] /\ serving \in [Worker -> Worker \cup {None}]
    BY DEF TypeOK
  <2>4. TypeOK'
    BY <2>1, <2>2, <2>3 DEF TypeOK, Label, request, locks
  <2>5. \A v \in Worker \ {w} : serving'[v] = serving[v]
    BY <2>2, <2>3
  <2>6. \A m : Granting(m)' = Granting(m)
    BY <2>1, <2>2, <2>3, <2>5, GrantingSame
  <2>7. Outstanding'
    BY <2>2, <2>6 DEF Outstanding, request
  <2>8. Scoped' /\ Collected'
    BY <2>1, <2>2, <2>3 DEF Scoped, Collected, request, locks
  <2>9. Held' /\ Asked'
    BY <2>1, <2>2, <2>3, <2>5 DEF Held, Asked, request, locks
  <2>. QED  BY <2>4, <2>7, <2>8, <2>9
<1>. QED  BY <1>1, <1>2

-----------------------------------------------------------------------------
(* The theorems.                                                           *)

\* At the start nothing is asked for.
LEMMA InitOK == Init => IInv
<1>. SUFFICES ASSUME Init  PROVE IInv
  OBVIOUS
<1>1. taskQueue \in Seq(Nat \ {0}) /\ taskQueue \in Seq(Nat)
  <2>1. taskQueue \in Seq(Nat \ {0})
    BY WorkloadAssumption DEF Init
  <2>. QED  BY <2>1, SeqMonotonic
<1>2. TypeOK
  <2>1. \A S : <<>> \in Seq(S)
    OBVIOUS
  <2>2. cpus \in [Worker -> Seq(Worker)] /\ coreQueue \in Seq(Worker)
    BY <2>1 DEF Init
  <2>3. cores \in [Worker -> Nat] /\ latch \in [Worker -> Nat] /\ unsent \in [Worker -> Nat]
    BY DEF Init
  <2>4. /\ serving \in [Worker -> Worker \cup {None}] /\ pc \in [Worker -> Label]
        /\ writeLock \in [Worker -> Worker \cup {None}] /\ reused \subseteq Worker
    BY DEF Init, Label
  <2>. QED  BY <1>1, <2>2, <2>3, <2>4 DEF Init, TypeOK
<1>3. \A m \in Worker : Positions(coreQueue, m) = {} /\ Granting(m) = {}
  BY DEF Init, Positions, Granting
<1>4. Outstanding
  <2>1. \A m \in Worker : latch[m] = 0 /\ unsent[m] = 0
    BY DEF Init
  <2>. QED  BY <1>3, <2>1, FS_EmptySet DEF Outstanding
<1>5. Scoped /\ Held /\ Collected
  BY DEF Init, Scoped, Held, Collected
<1>6. Asked
  BY <1>1 DEF Init, Asked
<1>. QED  BY <1>2, <1>4, <1>5, <1>6 DEF IInv

\* The inductive invariant holds for any number of masters and any number of cores they
\* ask for.
THEOREM Invariance == Spec => []IInv
<1>1. IInv /\ [Next]_vars => IInv'
  <2>. SUFFICES ASSUME IInv, [Next]_vars  PROVE IInv'
    OBVIOUS
  <2>1. CASE StopWorkers
    <3>1. TypeOK'
      BY <2>1 DEF IInv, TypeOK, StopWorkers, request, locks
    <3>2. \A m : Granting(m)' = Granting(m)
      BY <2>1 DEF StopWorkers, Granting
    <3>. QED  BY <2>1, <3>1, <3>2 DEF IInv, StopWorkers, request, locks, Outstanding, Scoped,
                Held, Collected, Asked
  <2>2. ASSUME NEW w \in Worker, Step(w) \/ WakeSpuriously(w)  PROVE IInv'
    BY <2>2, PopRequestStep, LockListStep, GrantStep, UnlockStep, WaitStep, PopTaskStep,
       PushRequestStep, PassLatchStep, JudgeStep DEF Step
  <2>3. CASE UNCHANGED vars
    <3>1. TypeOK'
      BY <2>3 DEF IInv, TypeOK, vars, request, locks
    <3>2. \A m : Granting(m)' = Granting(m)
      BY <2>3 DEF vars, Granting
    <3>. QED  BY <2>3, <3>1, <3>2 DEF IInv, vars, request, locks, Outstanding, Scoped, Held,
                Collected, Asked
  <2>. QED  BY <2>1, <2>2, <2>3 DEF Next
<1>. QED  BY <1>1, InitOK, PTL DEF Spec

\* The types of the variables, a latch that is counted down to 0 and never further among
\* them.
THEOREM TypeCorrect == Spec => []TypeOK
<1>1. IInv => TypeOK
  BY DEF IInv
<1>. QED  BY <1>1, Invariance, PTL

\* The stack of a master outlives every request that points to it, up to the moment an
\* answer counts the latch down (and no further: see Unlock and Wait).
THEOREM RequestsAlive == Spec => []RequestAlive
<1>1. IInv => RequestAlive
  <2>. SUFFICES ASSUME IInv, NEW m \in Worker,
                       \/ \E k \in DOMAIN coreQueue : coreQueue[k] = m
                       \/ \E w \in Worker : pc[w] \in { "granting", "adding" } /\ serving[w] = m
                PROVE  m \in inScope /\ latch[m] > 0
    BY DEF RequestAlive
  <2>. USE DEF IInv
  <2>1. coreQueue \in Seq(Worker) /\ unsent[m] \in Nat /\ latch[m] \in Nat
    BY DEF TypeOK
  <2>2. Positions(coreQueue, m) # {} \/ Granting(m) # {}
    BY <2>1 DEF Positions, Granting
  <2>3. /\ Cardinality(Positions(coreQueue, m)) = 0 => Positions(coreQueue, m) = {}
        /\ Cardinality(Granting(m)) = 0 => Granting(m) = {}
    BY <2>1, PositionsFinite, Counts, FS_EmptySet
  <2>4. latch[m] > 0
    BY <2>1, <2>2, <2>3, Counts DEF Outstanding
  <2>. QED  BY <2>4 DEF Scoped
<1>. QED  BY <1>1, Invariance, PTL

\* A task is judged with all the cores it asked for, unless its block was reused early.
THEOREM AllCoresCounted == Spec => []CountedCores
<1>1. IInv => CountedCores
  <2>. SUFFICES ASSUME IInv, NEW w \in Worker, pc[w] = "judging", w \notin reused
                PROVE  Len(cpus[w]) = cores[w] /\ cpus[w][1] = w
    BY DEF CountedCores
  <2>1. w \notin inScope
    BY DEF IInv, Scoped
  <2>2. latch[w] = 0
    BY <2>1, NothingOutstanding
  <2>3. cpus[w] \in Seq(Worker) /\ cores[w] \in Nat
    BY DEF IInv, TypeOK
  <2>. QED  BY <2>2, <2>3 DEF IInv, Collected
<1>. QED  BY <1>1, Invariance, PTL
=============================================================================
