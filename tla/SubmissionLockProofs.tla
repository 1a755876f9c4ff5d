------------------------- MODULE SubmissionLockProofs -------------------------
(***************************************************************************)
(* Theorems of SubmissionLock, with their proofs, for any workers, any     *)
(* submissions and whatever the judge server hands over.                   *)
(*                                                                         *)
(* The lock file of a directory is removed by a submission that is over    *)
(* (Over) and by nobody else.  As long as there is no such submission, the *)
(* path names the inode that whoever uses the directory has locked (Kept). *)
(***************************************************************************)
EXTENDS SubmissionLock, TLAPS

-----------------------------------------------------------------------------
(* The inductive invariant.                                                *)

Labels ==
  { "loop", "locking", "fetching", "opening", "flocking", "judging", "removing", "removed",
    "finishing", "reaping" }

\* The worker has a submission; the submission has had its turn in the directory.
Busy == { "opening", "flocking", "judging", "removing", "removed", "finishing" }
Leaving == { "removing", "removed", "finishing" }
Over(s) == state[s] \in { "finished", "freed" } \/ At(s, Leaving)

Workers ==
  /\ \A w \in Worker : IF pc[w] \in Busy THEN current[w] \in Sub ELSE current[w] = None
  /\ \A w \in Worker : serverMutex = w <=> pc[w] \in { "fetching", "opening", "flocking" }

\* A submission is in one place, and its state says where.
Places ==
  /\ IsInjective(inbox) /\ \A s \in Range(inbox) : state[s] = "waiting"
  /\ IsInjective(taskQueue) /\ \A s \in Range(taskQueue) : state[s] = "judging"
  /\ \A w \in Worker :
       /\ pc[w] \in { "opening", "flocking" } => state[current[w]] = "fetched"
       /\ pc[w] \in { "judging" } \cup Leaving =>
            state[current[w]] = "judging" /\ current[w] \notin Range(taskQueue)
  /\ \A v, w \in Worker : pc[v] \in Busy /\ current[v] = current[w] => v = w

\* While no other submission with its directory is over, a submission finds the directory
\* it has created, opens the file that .lock names, and holds the lock of that file.
Undisturbed(s) == \A t \in Sub : t # s /\ Dir[t] = Dir[s] => ~ Over(t)
Kept ==
  \A s \in Sub : Undisturbed(s) =>
    /\ At(s, { "opening" }) => Dir[s] \in exists
    /\ At(s, { "flocking" }) => fd[s] = lockFile[Dir[s]] /\ fd[s] # 0
    /\ InUse(s) => s \in holders /\ fd[s] = lockFile[Dir[s]] /\ fd[s] # 0

IInv == TypeOK /\ inodes \in Nat /\ Workers /\ Places /\ Kept

-----------------------------------------------------------------------------
(* Sequences without repetitions.                                          *)

\* Taking the first element off takes it out of the range.
LEMMA Popped ==
  ASSUME NEW X, NEW q \in Seq(X), q # << >>, IsInjective(q)
  PROVE  /\ Head(q) \in Range(q) /\ Head(q) \in X /\ Tail(q) \in Seq(X)
         /\ IsInjective(Tail(q)) /\ Range(Tail(q)) = Range(q) \ {Head(q)}
<1>1. /\ Len(q) \in Nat \ {0} /\ DOMAIN q = 1 .. Len(q) /\ Head(q) = q[1] /\ Head(q) \in X
      /\ Tail(q) \in Seq(X) /\ DOMAIN Tail(q) = 1 .. Len(q) - 1
      /\ \A k \in 1 .. Len(q) - 1 : Tail(q)[k] = q[k + 1]
  OBVIOUS
<1>2. \A j, k \in DOMAIN q : q[j] = q[k] => j = k
  BY DEF IsInjective
<1>3. IsInjective(Tail(q))
  BY <1>1, <1>2 DEF IsInjective
<1>4. Range(Tail(q)) \subseteq Range(q) \ {Head(q)}
  BY <1>1, <1>2 DEF Range
<1>5. ASSUME NEW x \in Range(q), x # Head(q)
      PROVE  x \in Range(Tail(q))
  <2>1. PICK k \in DOMAIN q : x = q[k]
    BY DEF Range
  <2>2. k - 1 \in 1 .. Len(q) - 1 /\ Tail(q)[k - 1] = x
    BY <1>1, <1>5, <2>1
  <2>. QED  BY <1>1, <2>2 DEF Range
<1>6. Head(q) \in Range(q)
  <2>1. 1 \in DOMAIN q
    BY <1>1
  <2>. QED  BY <1>1, <2>1 DEF Range
<1>. QED  BY <1>1, <1>3, <1>4, <1>5, <1>6

\* Adding an element that is not there puts it into the range.
LEMMA Pushed ==
  ASSUME NEW X, NEW q \in Seq(X), IsInjective(q), NEW x \in X, x \notin Range(q)
  PROVE  /\ Append(q, x) \in Seq(X) /\ IsInjective(Append(q, x))
         /\ Range(Append(q, x)) = Range(q) \cup {x}
<1>. DEFINE r == Append(q, x)
            n == Len(q) + 1
<1>1. /\ r \in Seq(X) /\ n \in Nat \ {0} /\ DOMAIN r = 1 .. n /\ r[n] = x
      /\ DOMAIN q = 1 .. n - 1 /\ \A k \in 1 .. n - 1 : r[k] = q[k]
  OBVIOUS
<1>. HIDE DEF r, n
<1>2. \A k \in DOMAIN q : r[k] = q[k] /\ q[k] \in Range(q) /\ q[k] # x
  BY <1>1 DEF Range
<1>3. IsInjective(r)
  <2>. SUFFICES ASSUME NEW j \in DOMAIN r, NEW k \in DOMAIN r, r[j] = r[k]  PROVE j = k
    BY DEF IsInjective
  <2>1. \A i \in DOMAIN r : i \in DOMAIN q \/ i = n
    BY <1>1
  <2>. QED  BY <1>1, <1>2, <2>1 DEF IsInjective
<1>4. Range(r) \subseteq Range(q) \cup {x}
  <2>1. \A i \in DOMAIN r : i \in DOMAIN q \/ i = n
    BY <1>1
  <2>. QED  BY <1>1, <1>2, <2>1 DEF Range
<1>5. x \in Range(r)
  <2>1. n \in DOMAIN r
    BY <1>1
  <2>. QED  BY <1>1, <2>1 DEF Range
<1>6. ASSUME NEW y \in Range(q)  PROVE y \in Range(r)
  <2>1. PICK k \in DOMAIN q : y = q[k]
    BY DEF Range
  <2>2. k \in DOMAIN r
    BY <1>1, <2>1
  <2>. QED  BY <1>2, <2>1, <2>2 DEF Range
<1>. QED  BY <1>1, <1>3, <1>4, <1>5, <1>6 DEF r

-----------------------------------------------------------------------------
(* What the steps have in common.                                          *)

Active(s) == At(s, { "opening", "flocking" }) \/ InUse(s)

\* No submission starts to use its directory.
NoNewUse == \A s \in Sub : InUse(s)' => InUse(s)

\* A worker goes on.
LEMMA Moved ==
  ASSUME TypeOK, NEW w \in Worker, NEW from, NEW to \in Labels, Goto(w, from, to)
  PROVE  /\ pc' \in [Worker -> Labels] /\ pc[w] = from /\ pc'[w] = to
         /\ \A v \in Worker : v # w => pc'[v] = pc[v]
BY DEF TypeOK, Goto, Labels

\* What a step must leave alone for the sake of those who still have or want their lock.
LEMMA Steady ==
  ASSUME Kept, \A s \in Sub : Over(s) => Over(s)',
         \A s \in Sub : Undisturbed(s)' /\ Active(s)' =>
           /\ At(s, { "opening" })' => At(s, { "opening" }) \/ Dir[s] \in exists'
           /\ At(s, { "flocking" })' => At(s, { "flocking" })
           /\ InUse(s)' => InUse(s)
           /\ Dir[s] \in exists => Dir[s] \in exists'
           /\ fd'[s] = fd[s] /\ lockFile'[Dir[s]] = lockFile[Dir[s]]
           /\ s \in holders => s \in holders'
  PROVE  Kept'
<1>. SUFFICES ASSUME NEW s \in Sub, Undisturbed(s)'
              PROVE  /\ At(s, { "opening" })' => Dir[s] \in exists'
                     /\ At(s, { "flocking" })' => fd'[s] = lockFile'[Dir[s]] /\ fd'[s] # 0
                     /\ InUse(s)' => s \in holders' /\ fd'[s] = lockFile'[Dir[s]] /\ fd'[s] # 0
  BY DEF Kept
<1>1. Undisturbed(s)
  BY DEF Undisturbed
<1>2. At(s, { "opening" })' \/ At(s, { "flocking" })' \/ InUse(s)' => Active(s)'
  BY DEF Active, At
<1>. QED  BY <1>1, <1>2 DEF Kept

\* A worker without a submission goes on: server_mutex may change hands.
LEMMA Outside ==
  ASSUME IInv, NEW w \in Worker, NEW from, NEW to \in Labels \ Busy, from \notin Busy,
         Goto(w, from, to), serverMutex' \in Worker \cup {None},
         \A v \in Worker : serverMutex' = v <=> pc'[v] \in { "fetching", "opening", "flocking" },
         UNCHANGED <<inbox, state, taskQueue, current, files, fd, holders>>
  PROVE  IInv' /\ NoNewUse
<1>. USE DEF IInv
<1>1. /\ pc' \in [Worker -> Labels] /\ pc[w] = from /\ pc'[w] = to
      /\ \A v \in Worker : v # w => pc'[v] = pc[v]
  BY Moved DEF Labels, Busy
<1>2. UNCHANGED <<exists, lockFile, inodes>>
  BY DEF files
<1>3. ASSUME NEW s, NEW L, L \subseteq Busy
      PROVE  At(s, L)' <=> At(s, L)
  BY <1>1, <1>3 DEF At
<1>4. \A s \in Sub : (InUse(s)' <=> InUse(s)) /\ (Over(s)' <=> Over(s))
  <2>1. { "judging" } \subseteq Busy /\ Leaving \subseteq Busy
    BY DEF Busy, Leaving
  <2>. QED  BY <1>3, <2>1 DEF InUse, Over
<1>5. \A s \in Sub : /\ At(s, { "opening" })' <=> At(s, { "opening" })
                     /\ At(s, { "flocking" })' <=> At(s, { "flocking" })
  BY <1>3 DEF Busy
<1>6. Kept'
  BY <1>2, <1>4, <1>5, Steady
<1>7. TypeOK' /\ (inodes \in Nat)'
  BY <1>1, <1>2 DEF TypeOK, Labels
<1>8. Workers'
  BY <1>1 DEF Workers
<1>9. Places'
  BY <1>1 DEF Places, Busy, Leaving
<1>. QED  BY <1>4, <1>6, <1>7, <1>8, <1>9 DEF NoNewUse

-----------------------------------------------------------------------------
(* The steps of the worker loop and of fetching.                           *)

\* The queue is empty, and the worker turns to fetching.
LEMMA EmptyStep ==
  ASSUME IInv, NEW w \in Worker, TryPop(w), taskQueue = << >>
  PROVE  IInv' /\ NoNewUse
<1>1. /\ Goto(w, "loop", "locking")
      /\ UNCHANGED <<inbox, state, taskQueue, current, files, fd, holders>>
      /\ serverMutex' = serverMutex
  BY DEF TryPop
<1>2. "locking" \in Labels \ Busy /\ "loop" \notin Busy
  BY DEF Labels, Busy
<1>3. pc[w] = "loop" /\ pc'[w] = "locking" /\ \A v \in Worker : v # w => pc'[v] = pc[v]
  BY <1>1, <1>2, Moved DEF IInv
<1>4. /\ serverMutex' \in Worker \cup {None}
      /\ \A v \in Worker : serverMutex' = v <=> pc'[v] \in { "fetching", "opening", "flocking" }
  BY <1>1, <1>3 DEF IInv, TypeOK, Workers
<1>. QED  BY <1>1, <1>2, <1>4, Outside

\* The worker gets server_mutex.
LEMMA TakeStep ==
  ASSUME IInv, NEW w \in Worker, TakeServerMutex(w)
  PROVE  IInv' /\ NoNewUse
<1>1. /\ Goto(w, "locking", "fetching") /\ serverMutex = None /\ serverMutex' = w
      /\ UNCHANGED <<inbox, state, taskQueue, current, files, fd, holders>>
  BY DEF TakeServerMutex
<1>2. "fetching" \in Labels \ Busy /\ "locking" \notin Busy
  BY DEF Labels, Busy
<1>3. pc'[w] = "fetching" /\ \A v \in Worker : v # w => pc'[v] = pc[v]
  BY <1>1, <1>2, Moved DEF IInv
<1>4. \A v \in Worker : serverMutex' = v <=> pc'[v] \in { "fetching", "opening", "flocking" }
  <2>1. \A v \in Worker : v # None /\ pc[v] \notin { "fetching", "opening", "flocking" }
    BY <1>1, LockAssumption DEF IInv, Workers
  <2>. QED  BY <1>1, <1>3, <2>1
<1>. QED  BY <1>1, <1>2, <1>4, Outside

\* There is nothing to fetch.
LEMMA NothingStep ==
  ASSUME IInv, NEW w \in Worker, FetchNothing(w)
  PROVE  IInv' /\ NoNewUse
<1>1. /\ Goto(w, "fetching", "loop") /\ serverMutex' = None
      /\ UNCHANGED <<inbox, state, taskQueue, current, files, fd, holders>>
  BY DEF FetchNothing
<1>2. "loop" \in Labels \ Busy /\ "fetching" \notin Busy
  BY DEF Labels, Busy
<1>3. pc[w] = "fetching" /\ pc'[w] = "loop" /\ \A v \in Worker : v # w => pc'[v] = pc[v]
  BY <1>1, <1>2, Moved DEF IInv
<1>4. \A v \in Worker : serverMutex' = v <=> pc'[v] \in { "fetching", "opening", "flocking" }
  <2>1. serverMutex = w /\ \A v \in Worker : v # None
    BY <1>3, LockAssumption DEF IInv, Workers
  <2>2. \A v \in Worker : v # w => pc[v] \notin { "fetching", "opening", "flocking" }
    BY <2>1 DEF IInv, Workers
  <2>. QED  BY <1>1, <1>3, <2>1, <2>2
<1>. QED  BY <1>1, <1>2, <1>4, Outside

\* A worker takes the next task.
LEMMA PopStep ==
  ASSUME IInv, NEW w \in Worker, TryPop(w), taskQueue # << >>
  PROVE  IInv' /\ NoNewUse
<1>. USE DEF IInv
<1>. DEFINE h == Head(taskQueue)
<1>1. /\ Goto(w, "loop", "judging") /\ current' = [current EXCEPT ![w] = h]
      /\ taskQueue' = Tail(taskQueue)
      /\ UNCHANGED <<inbox, state, serverMutex, files, fd, holders>>
  BY DEF TryPop
<1>2. /\ pc' \in [Worker -> Labels] /\ pc[w] = "loop" /\ pc'[w] = "judging"
      /\ \A v \in Worker : v # w => pc'[v] = pc[v]
  <2>1. "judging" \in Labels
    BY DEF Labels
  <2>. QED  BY <1>1, <2>1, Moved
<1>3. UNCHANGED <<exists, lockFile, inodes>>
  BY <1>1 DEF files
<1>4. /\ h \in Range(taskQueue) /\ h \in Sub /\ taskQueue' \in Seq(Sub)
      /\ IsInjective(taskQueue') /\ Range(taskQueue') = Range(taskQueue) \ {h}
  BY <1>1, Popped DEF TypeOK, Places
<1>. HIDE DEF h
<1>5. /\ current' \in [Worker -> Sub \cup {None}] /\ current'[w] = h /\ current[w] = None
      /\ \A v \in Worker : v # w => current'[v] = current[v]
  BY <1>1, <1>2, <1>4 DEF TypeOK, Workers, Busy
<1>6. h # None /\ state[h] = "judging" /\ \A v \in Worker : current[v] # h
  <2>1. h # None /\ state[h] = "judging"
    BY <1>4, LockAssumption DEF Places
  <2>2. ASSUME NEW v \in Worker, current[v] = h  PROVE FALSE
    <3>1. pc[v] \in Busy
      BY <2>1, <2>2 DEF Workers
    <3>2. CASE pc[v] \in { "opening", "flocking" }
      BY <2>1, <2>2, <3>2 DEF Places
    <3>3. CASE pc[v] \in { "judging" } \cup Leaving
      BY <1>4, <2>2, <3>3 DEF Places
    <3>. QED  BY <3>1, <3>2, <3>3 DEF Busy, Leaving
  <2>. QED  BY <2>1, <2>2
<1>7. ASSUME NEW s \in Sub, NEW L, "judging" \notin L
      PROVE  At(s, L)' <=> At(s, L)
  BY <1>2, <1>5, <1>6, <1>7, LockAssumption DEF At
<1>8. NoNewUse
  <2>. SUFFICES ASSUME NEW s \in Sub, At(s, { "judging" })'
                PROVE  InUse(s)
    BY <1>4 DEF NoNewUse, InUse
  <2>. QED  BY <1>2, <1>4, <1>5 DEF At, InUse
<1>9. Kept'
  <2>1. \A s \in Sub : Over(s) => Over(s)'
    BY <1>1, <1>7 DEF Over, Leaving
  <2>2. \A s \in Sub : /\ At(s, { "opening" })' => At(s, { "opening" })
                       /\ At(s, { "flocking" })' => At(s, { "flocking" })
    BY <1>7
  <2>. QED  BY <1>1, <1>3, <1>8, <2>1, <2>2, Steady DEF NoNewUse
<1>10. TypeOK' /\ (inodes \in Nat)'
  BY <1>1, <1>2, <1>3, <1>4, <1>5 DEF TypeOK, Labels
<1>11. Workers'
  BY <1>1, <1>2, <1>4, <1>5 DEF Workers, Busy
<1>12. Places'
  <2>1. \A v \in Worker : pc'[v] \in { "opening", "flocking" } => state'[current'[v]] = "fetched"
    BY <1>1, <1>2, <1>5 DEF Places
  <2>2. \A v \in Worker : pc'[v] \in { "judging" } \cup Leaving =>
          state'[current'[v]] = "judging" /\ current'[v] \notin Range(taskQueue')
    BY <1>1, <1>2, <1>4, <1>5, <1>6 DEF Places
  <2>3. \A u, v \in Worker : pc'[u] \in Busy /\ current'[u] = current'[v] => u = v
    BY <1>2, <1>5, <1>6 DEF Places
  <2>. QED  BY <1>1, <1>4, <2>1, <2>2, <2>3 DEF Places
<1>. QED  BY <1>8, <1>9, <1>10, <1>11, <1>12

\* A submission arrives.
LEMMA FetchOK ==
  ASSUME IInv, NEW w \in Worker, Fetch(w)
  PROVE  IInv' /\ NoNewUse
<1>. USE DEF IInv
<1>. DEFINE h == Head(inbox)
<1>1. /\ Goto(w, "fetching", "opening") /\ inbox # << >> /\ inbox' = Tail(inbox)
      /\ current' = [current EXCEPT ![w] = h] /\ state' = [state EXCEPT ![h] = "fetched"]
      /\ exists' = exists \cup { Dir[h] }
      /\ UNCHANGED <<taskQueue, serverMutex, lockFile, inodes, fd, holders>>
  BY DEF Fetch
<1>2. /\ pc' \in [Worker -> Labels] /\ pc[w] = "fetching" /\ pc'[w] = "opening"
      /\ \A v \in Worker : v # w => pc'[v] = pc[v]
  <2>1. "opening" \in Labels
    BY DEF Labels
  <2>. QED  BY <1>1, <2>1, Moved
<1>3. /\ h \in Range(inbox) /\ h \in Sub /\ inbox' \in Seq(Sub)
      /\ IsInjective(inbox') /\ Range(inbox') = Range(inbox) \ {h}
  BY <1>1, Popped DEF TypeOK, Places
<1>. HIDE DEF h
<1>4. /\ current' \in [Worker -> Sub \cup {None}] /\ current'[w] = h /\ current[w] = None
      /\ \A v \in Worker : v # w => current'[v] = current[v]
  BY <1>1, <1>2, <1>3 DEF TypeOK, Workers, Busy
<1>5. h # None /\ state[h] = "waiting" /\ h \notin Range(taskQueue) /\ \A v \in Worker : current[v] # h
  <2>1. h # None /\ state[h] = "waiting" /\ h \notin Range(taskQueue)
    BY <1>3, LockAssumption DEF Places
  <2>2. ASSUME NEW v \in Worker, current[v] = h  PROVE FALSE
    <3>1. pc[v] \in Busy
      BY <2>1, <2>2 DEF Workers
    <3>2. state[h] \in { "fetched", "judging" }
      BY <2>2, <3>1 DEF Places, Busy, Leaving
    <3>. QED  BY <2>1, <3>2
  <2>. QED  BY <2>1, <2>2
<1>6. /\ state' \in [Sub -> { "absent", "waiting", "fetched", "judging", "finished", "freed" }]
      /\ state'[h] = "fetched" /\ \A s \in Sub : s # h => state'[s] = state[s]
  BY <1>1, <1>3 DEF TypeOK
<1>7. ASSUME NEW s \in Sub, NEW L, "opening" \notin L
      PROVE  At(s, L)' <=> At(s, L)
  BY <1>2, <1>4, <1>5, <1>7, LockAssumption DEF At
<1>8. NoNewUse
  BY <1>1, <1>7 DEF NoNewUse, InUse
<1>9. Kept'
  <2>1. \A s \in Sub : Over(s) => Over(s)'
    <3>. SUFFICES ASSUME NEW s \in Sub, Over(s)  PROVE Over(s)'
      OBVIOUS
    <3>1. At(s, Leaving) => At(s, Leaving)'
      BY <1>7 DEF Leaving
    <3>2. state[s] \in { "finished", "freed" } => s # h
      BY <1>5
    <3>. QED  BY <1>6, <3>1, <3>2 DEF Over
  <2>2. \A s \in Sub : /\ At(s, { "opening" })' => At(s, { "opening" }) \/ Dir[s] \in exists'
                       /\ At(s, { "flocking" })' => At(s, { "flocking" })
    <3>. SUFFICES ASSUME NEW s \in Sub, At(s, { "opening" })', ~ At(s, { "opening" })
                  PROVE  Dir[s] \in exists'
      BY <1>7
    <3>1. s = h
      BY <1>2, <1>4 DEF At
    <3>. QED  BY <1>1, <3>1
  <2>. QED  BY <1>1, <1>8, <2>1, <2>2, Steady DEF NoNewUse
<1>10. TypeOK' /\ (inodes \in Nat)'
  <2>1. exists' \subseteq Dirs
    BY <1>1, <1>3, LockAssumption DEF TypeOK, Dirs, Range
  <2>. QED  BY <1>1, <1>2, <1>3, <1>4, <1>6, <2>1 DEF TypeOK, Labels
<1>11. Workers'
  BY <1>1, <1>2, <1>3, <1>4 DEF Workers, Busy
<1>12. Places'
  <2>1. \A v \in Worker : v # w /\ pc'[v] \in Busy => current'[v] \in Sub /\ current'[v] # h
    BY <1>2, <1>4, <1>5 DEF Workers
  <2>2. \A v \in Worker : pc'[v] \in { "opening", "flocking" } => state'[current'[v]] = "fetched"
    BY <1>2, <1>4, <1>6, <2>1 DEF Places, Busy
  <2>3. \A v \in Worker : pc'[v] \in { "judging" } \cup Leaving =>
          state'[current'[v]] = "judging" /\ current'[v] \notin Range(taskQueue')
    <3>. SUFFICES ASSUME NEW v \in Worker, pc'[v] \in { "judging" } \cup Leaving
                  PROVE  state'[current'[v]] = "judging" /\ current'[v] \notin Range(taskQueue')
      OBVIOUS
    <3>1. v # w /\ pc'[v] = pc[v] /\ current'[v] = current[v]
      BY <1>2, <1>4 DEF Leaving
    <3>2. current'[v] \in Sub /\ current'[v] # h
      BY <2>1, <3>1 DEF Busy, Leaving
    <3>. QED  BY <1>1, <1>6, <3>1, <3>2 DEF Places
  <2>4. \A u, v \in Worker : pc'[u] \in Busy /\ current'[u] = current'[v] => u = v
    BY <1>2, <1>4, <1>5 DEF Places
  <2>5. \A s \in Range(inbox') : state'[s] = "waiting"
    <3>1. \A s \in Range(inbox) : s \in Sub
      BY DEF TypeOK, Range
    <3>. QED  BY <1>3, <1>6, <3>1 DEF Places
  <2>6. \A s \in Range(taskQueue') : state'[s] = "judging"
    BY <1>1, <1>5, <1>6 DEF Places
  <2>. QED  BY <1>1, <1>3, <2>2, <2>3, <2>4, <2>5, <2>6 DEF Places
<1>. QED  BY <1>8, <1>9, <1>10, <1>11, <1>12

\* .lock is opened, and made if there is none in the directory.
LEMMA OpenStep ==
  ASSUME IInv, NEW w \in Worker, OpenLock(w)
  PROVE  IInv' /\ NoNewUse
<1>. USE DEF IInv
<1>0. PICK s \in Sub : s = current[w]
  BY DEF OpenLock, Goto, Workers, Busy
<1>. DEFINE d == Dir[s]
            new == d \in exists /\ lockFile[d] = 0
            ino == IF new THEN inodes + 1 ELSE lockFile[d]
<1>1. /\ Goto(w, "opening", "flocking") /\ lockFile' = [lockFile EXCEPT ![d] = ino]
      /\ inodes' = (IF new THEN inodes + 1 ELSE inodes) /\ fd' = [fd EXCEPT ![s] = ino]
      /\ UNCHANGED <<inbox, state, taskQueue, serverMutex, current, exists, holders>>
  BY <1>0 DEF OpenLock, Work
<1>2. /\ pc' \in [Worker -> Labels] /\ pc[w] = "opening" /\ pc'[w] = "flocking"
      /\ \A v \in Worker : v # w => pc'[v] = pc[v]
  <2>1. "flocking" \in Labels
    BY DEF Labels
  <2>. QED  BY <1>1, <2>1, Moved
<1>3. s \in Sub /\ d \in Dirs /\ state[s] = "fetched" /\ s \notin Range(taskQueue)
      /\ \A v \in Worker : v # w => current[v] # s
  <2>1. state[s] = "fetched"
    BY <1>0, <1>2 DEF Workers, Places, Busy
  <2>2. d \in Dirs
    BY LockAssumption DEF Dirs, Range
  <2>3. \A v \in Worker : v # w => current[v] # s
    BY <1>0, <1>2 DEF Places, Busy
  <2>. QED  BY <2>1, <2>2, <2>3 DEF Places
<1>4. lockFile[d] \in 0 .. inodes /\ inodes' \in Nat /\ inodes <= inodes' /\ ino \in 0 .. inodes'
  BY <1>1, <1>3 DEF TypeOK
<1>. HIDE DEF ino
<1>5. /\ lockFile' \in [Dirs -> 0 .. inodes'] /\ fd' \in [Sub -> 0 .. inodes']
      /\ lockFile'[d] = ino /\ fd'[s] = ino
      /\ (\A e \in Dirs : e # d => lockFile'[e] = lockFile[e])
      /\ \A t \in Sub : t # s => fd'[t] = fd[t]
  <2>1. 0 .. inodes \subseteq 0 .. inodes'
    BY <1>4
  <2>. QED  BY <1>1, <1>3, <1>4, <2>1 DEF TypeOK
<1>. HIDE DEF d, new
<1>6. ASSUME NEW t, NEW L, t # s \/ L \cap { "opening", "flocking" } = {}
      PROVE  At(t, L)' <=> At(t, L)
  BY <1>0, <1>1, <1>2, <1>6 DEF At
<1>7. \A t \in Sub : (Over(t)' <=> Over(t)) /\ (InUse(t)' <=> InUse(t))
  BY <1>1, <1>6 DEF Over, InUse, Leaving
<1>8. NoNewUse
  BY <1>7 DEF NoNewUse
<1>9. Kept'
  <2>. SUFFICES ASSUME NEW t \in Sub, Undisturbed(t)'
                PROVE  /\ At(t, { "opening" })' => Dir[t] \in exists'
                       /\ At(t, { "flocking" })' => fd'[t] = lockFile'[Dir[t]] /\ fd'[t] # 0
                       /\ InUse(t)' => t \in holders' /\ fd'[t] = lockFile'[Dir[t]] /\ fd'[t] # 0
    BY DEF Kept
  <2>1. Undisturbed(t)
    BY <1>7 DEF Undisturbed
  <2>2. CASE t = s
    <3>1. At(s, { "opening" }) /\ ~ At(s, { "opening" })' /\ ~ InUse(s)'
      <4>1. At(s, { "opening" })
        BY <1>0, <1>2 DEF At
      <4>2. \A v \in Worker : current'[v] = s => v = w
        BY <1>0, <1>1, <1>3
      <4>. QED  BY <1>1, <1>2, <1>3, <4>1, <4>2 DEF At, InUse
    <3>2. d \in exists
      BY <2>1, <2>2, <3>1 DEF Kept, d
    <3>3. ino # 0
      BY <1>3, <1>4, <3>2 DEF ino, new, TypeOK
    <3>. QED  BY <1>5, <2>2, <3>1, <3>3 DEF d
  <2>3. CASE t # s
    <3>1. /\ At(t, { "opening" })' <=> At(t, { "opening" })
          /\ At(t, { "flocking" })' <=> At(t, { "flocking" })
      BY <1>6, <2>3
    <3>2. ~ At(t, { "flocking" })
      <4>1. \A v \in Worker : pc[v] = "flocking" => v = w
        BY <1>2 DEF Workers
      <4>. QED  BY <1>2, <4>1 DEF At
    <3>3. InUse(t) => lockFile'[Dir[t]] = lockFile[Dir[t]]
      <4>1. CASE Dir[t] = d
        BY <1>5, <2>1, <4>1 DEF Kept, ino, new
      <4>2. CASE Dir[t] # d
        BY <1>5, <4>2, LockAssumption DEF Dirs, Range
      <4>. QED  BY <4>1, <4>2
    <3>. QED  BY <1>1, <1>5, <1>7, <2>1, <2>3, <3>1, <3>2, <3>3 DEF Kept
  <2>. QED  BY <2>2, <2>3
<1>10. TypeOK' /\ (inodes \in Nat)'
  BY <1>1, <1>2, <1>4, <1>5 DEF TypeOK, Labels
<1>11. Workers'
  BY <1>1, <1>2 DEF Workers, Busy
<1>12. Places'
  BY <1>1, <1>2 DEF Places, Busy, Leaving
<1>. QED  BY <1>8, <1>9, <1>10, <1>11, <1>12

\* The lock is there, and the submission is distributed.
LEMMA FlockStep ==
  ASSUME IInv, NEW w \in Worker, Flock(w)
  PROVE  /\ IInv' /\ pc[w] = "flocking" /\ current[w] \in Sub
         /\ \A t \in holders : fd[t] # fd[current[w]]
         /\ \A t \in Sub : InUse(t)' => InUse(t) \/ t = current[w]
<1>. USE DEF IInv
<1>0. PICK s \in Sub : s = current[w]
  BY DEF Flock, Goto, Workers, Busy
<1>1. /\ Goto(w, "flocking", "loop") /\ \A t \in holders : fd[t] # fd[s]
      /\ holders' = (IF fd[s] = 0 THEN holders ELSE holders \cup {s})
      /\ state' = [state EXCEPT ![s] = "judging"] /\ taskQueue' = Append(taskQueue, s)
      /\ serverMutex' = None /\ current' = [current EXCEPT ![w] = None]
      /\ UNCHANGED <<inbox, exists, lockFile, inodes, fd>>
  BY <1>0 DEF Flock, files
<1>2. /\ pc' \in [Worker -> Labels] /\ pc[w] = "flocking" /\ pc'[w] = "loop"
      /\ \A v \in Worker : v # w => pc'[v] = pc[v]
  <2>1. "loop" \in Labels
    BY DEF Labels
  <2>. QED  BY <1>1, <2>1, Moved
<1>3. s # None /\ state[s] = "fetched" /\ s \notin Range(taskQueue)
      /\ \A v \in Worker : v # w => current[v] # s
  <2>1. state[s] = "fetched"
    BY <1>0, <1>2 DEF Workers, Places, Busy
  <2>2. \A v \in Worker : v # w => current[v] # s
    BY <1>0, <1>2 DEF Places, Busy
  <2>. QED  BY <2>1, <2>2, LockAssumption DEF Places
<1>4. /\ current' \in [Worker -> Sub \cup {None}] /\ current'[w] = None
      /\ \A v \in Worker : v # w => current'[v] = current[v]
  BY <1>1 DEF TypeOK
<1>5. /\ taskQueue' \in Seq(Sub) /\ IsInjective(taskQueue')
      /\ Range(taskQueue') = Range(taskQueue) \cup {s}
  BY <1>1, <1>3, Pushed DEF TypeOK, Places
<1>6. /\ state' \in [Sub -> { "absent", "waiting", "fetched", "judging", "finished", "freed" }]
      /\ state'[s] = "judging" /\ \A t \in Sub : t # s => state'[t] = state[t]
  BY <1>1, <1>3 DEF TypeOK
<1>7. ASSUME NEW t \in Sub, NEW L, t # s \/ "flocking" \notin L
      PROVE  At(t, L)' <=> At(t, L)
  BY <1>2, <1>3, <1>4, <1>7, LockAssumption, <1>0 DEF At
<1>8. \A t \in Sub : InUse(t)' <=> InUse(t) \/ t = s
  BY <1>5, <1>7 DEF InUse
<1>9. Kept'
  <2>. SUFFICES ASSUME NEW t \in Sub, Undisturbed(t)'
                PROVE  /\ At(t, { "opening" })' => Dir[t] \in exists'
                       /\ At(t, { "flocking" })' => fd'[t] = lockFile'[Dir[t]] /\ fd'[t] # 0
                       /\ InUse(t)' => t \in holders' /\ fd'[t] = lockFile'[Dir[t]] /\ fd'[t] # 0
    BY DEF Kept
  <2>1. Undisturbed(t)
    <3>1. \A u \in Sub : Over(u) => Over(u)'
      BY <1>3, <1>6, <1>7 DEF Over, Leaving
    <3>. QED  BY <3>1 DEF Undisturbed
  <2>2. CASE t = s
    <3>1. At(s, { "flocking" })
      BY <1>0, <1>2 DEF At
    <3>2. fd[s] = lockFile[Dir[s]] /\ fd[s] # 0
      BY <2>1, <2>2, <3>1 DEF Kept
    <3>3. ~ At(s, { "opening" })' /\ ~ At(s, { "flocking" })'
      BY <1>2, <1>3, <1>4 DEF At
    <3>. QED  BY <1>1, <2>2, <3>2, <3>3
  <2>3. CASE t # s
    <3>1. /\ At(t, { "opening" })' <=> At(t, { "opening" })
          /\ At(t, { "flocking" })' <=> At(t, { "flocking" })
      BY <1>7, <2>3
    <3>. QED  BY <1>1, <1>8, <2>1, <2>3, <3>1 DEF Kept
  <2>. QED  BY <2>2, <2>3
<1>10. TypeOK' /\ (inodes \in Nat)'
  <2>1. holders' \subseteq Sub
    BY <1>1, <1>3 DEF TypeOK
  <2>. QED  BY <1>1, <1>2, <1>4, <1>5, <1>6, <2>1 DEF TypeOK, Labels
<1>11. Workers'
  <2>1. serverMutex = w /\ \A v \in Worker : v # None
    BY <1>2, LockAssumption DEF Workers
  <2>2. \A v \in Worker : v # w => pc[v] \notin { "fetching", "opening", "flocking" }
    BY <2>1 DEF Workers
  <2>. QED  BY <1>1, <1>2, <1>4, <2>1, <2>2 DEF Workers, Busy
<1>12. Places'
  <2>1. ASSUME NEW v \in Worker, pc'[v] \in Busy
        PROVE  /\ v # w /\ pc'[v] = pc[v] /\ current'[v] = current[v]
               /\ current[v] \in Sub /\ current[v] # s
    BY <1>2, <1>3, <1>4, <2>1 DEF Workers, Busy
  <2>2. \A v \in Worker : pc'[v] \in { "opening", "flocking" } => state'[current'[v]] = "fetched"
    BY <1>6, <2>1 DEF Places, Busy
  <2>3. \A v \in Worker : pc'[v] \in { "judging" } \cup Leaving =>
          state'[current'[v]] = "judging" /\ current'[v] \notin Range(taskQueue')
    BY <1>5, <1>6, <2>1 DEF Places, Busy, Leaving
  <2>4. \A u, v \in Worker : pc'[u] \in Busy /\ current'[u] = current'[v] => u = v
    BY <1>3, <1>4, <2>1, LockAssumption DEF Places
  <2>5. \A t \in Range(inbox') : state'[t] = "waiting"
    <3>1. \A t \in Range(inbox) : t \in Sub
      BY DEF TypeOK, Range
    <3>. QED  BY <1>1, <1>3, <1>6, <3>1 DEF Places
  <2>6. \A t \in Range(taskQueue') : state'[t] = "judging"
    <3>1. \A t \in Range(taskQueue) : t \in Sub
      BY DEF TypeOK, Range
    <3>. QED  BY <1>3, <1>5, <1>6, <3>1 DEF Places
  <2>. QED  BY <1>1, <1>5, <2>2, <2>3, <2>4, <2>5, <2>6 DEF Places
<1>. QED  BY <1>0, <1>1, <1>2, <1>8, <1>9, <1>10, <1>11, <1>12

-----------------------------------------------------------------------------
(* The steps of a submission that is over, or about to be.                 *)

\* Its turn in the directory ends, and the files of that directory change.
LEMMA Leave ==
  ASSUME IInv, NEW w \in Worker, NEW from \in { "judging", "removing", "removed" },
         NEW to \in Leaving, Goto(w, from, to),
         exists' \subseteq Dirs, lockFile' \in [Dirs -> 0 .. inodes],
         \A d \in Dirs : d # Dir[current[w]] =>
           lockFile'[d] = lockFile[d] /\ (d \in exists => d \in exists'),
         UNCHANGED <<inbox, state, taskQueue, serverMutex, current, inodes, fd, holders>>
  PROVE  IInv' /\ NoNewUse
<1>. USE DEF IInv
<1>1. /\ pc' \in [Worker -> Labels] /\ pc[w] = from /\ pc'[w] = to
      /\ \A v \in Worker : v # w => pc'[v] = pc[v]
  <2>1. to \in Labels
    BY DEF Labels, Leaving
  <2>. QED  BY <2>1, Moved
<1>2. PICK s \in Sub : s = current[w]
  BY <1>1 DEF Workers, Busy
<1>3. s \notin Range(taskQueue) /\ \A v \in Worker : v # w => current[v] # s
  BY <1>1, <1>2 DEF Places, Busy, Leaving
<1>4. ASSUME NEW t \in Sub, NEW L, t # s
      PROVE  At(t, L)' <=> At(t, L)
  BY <1>1, <1>2, <1>4 DEF At
<1>5. At(s, Leaving)' /\ ~ Active(s)'
  <2>1. At(s, Leaving)'
    BY <1>1, <1>2 DEF At
  <2>2. \A v \in Worker : current'[v] = s => v = w
    BY <1>3
  <2>. QED  BY <1>1, <1>3, <2>1, <2>2 DEF At, Active, InUse, Leaving
<1>6. NoNewUse
  BY <1>4, <1>5 DEF NoNewUse, InUse, Active
<1>7. Kept'
  <2>1. \A t \in Sub : Over(t) => Over(t)'
    BY <1>4, <1>5 DEF Over
  <2>2. ASSUME NEW t \in Sub, Undisturbed(t)', Active(t)'
        PROVE  /\ At(t, { "opening" })' => At(t, { "opening" })
               /\ At(t, { "flocking" })' => At(t, { "flocking" })
               /\ Dir[t] \in exists => Dir[t] \in exists'
               /\ lockFile'[Dir[t]] = lockFile[Dir[t]]
    <3>1. t # s
      BY <1>5, <2>2
    <3>2. Dir[t] # Dir[s]
      BY <1>5, <2>2, <3>1 DEF Undisturbed, Over
    <3>3. Dir[t] \in Dirs
      BY LockAssumption DEF Dirs, Range
    <3>. QED  BY <1>2, <1>4, <3>1, <3>2, <3>3
  <2>. QED  BY <1>6, <2>1, <2>2, Steady DEF NoNewUse
<1>8. TypeOK' /\ (inodes \in Nat)'
  BY <1>1 DEF TypeOK, Labels
<1>9. Workers'
  BY <1>1 DEF Workers, Busy, Leaving
<1>10. Places'
  BY <1>1 DEF Places, Busy, Leaving
<1>. QED  BY <1>6, <1>7, <1>8, <1>9, <1>10

\* The task is judged.
LEMMA JudgeStep ==
  ASSUME IInv, NEW w \in Worker, Judge(w)
  PROVE  IInv' /\ NoNewUse
<1>1. PICK to \in Leaving : Goto(w, "judging", to)
  BY DEF Judge, Leaving
<1>2. /\ exists' = exists \cup { Dir[current[w]] } /\ pc[w] = "judging"
      /\ UNCHANGED <<inbox, state, taskQueue, serverMutex, current, lockFile, inodes, fd, holders>>
  BY DEF Judge, Work, Goto
<1>3. Dir[current[w]] \in Dirs
  BY <1>2, LockAssumption DEF IInv, Workers, Busy, Dirs, Range
<1>4. exists' \subseteq Dirs /\ lockFile' \in [Dirs -> 0 .. inodes]
  BY <1>2, <1>3 DEF IInv, TypeOK
<1>. QED  BY <1>1, <1>2, <1>4, Leave

\* The entries of the directory are removed.
LEMMA EntriesStep ==
  ASSUME IInv, NEW w \in Worker, RemoveEntries(w)
  PROVE  IInv' /\ NoNewUse
<1>1. /\ Goto(w, "removing", "removed")
      /\ lockFile' = [lockFile EXCEPT ![Dir[current[w]]] = 0]
      /\ UNCHANGED <<inbox, state, taskQueue, serverMutex, current, exists, inodes, fd, holders>>
  BY DEF RemoveEntries, Work
<1>2. exists' \subseteq Dirs /\ lockFile' \in [Dirs -> 0 .. inodes]
      /\ \A d \in Dirs : d # Dir[current[w]] => lockFile'[d] = lockFile[d]
  <2>1. 0 \in 0 .. inodes
    BY DEF IInv
  <2>. QED  BY <1>1, <2>1 DEF IInv, TypeOK
<1>3. "removed" \in Leaving
  BY DEF Leaving
<1>. QED  BY <1>1, <1>2, <1>3, Leave

\* And the directory, or what was made in it meanwhile.
LEMMA DirectoryStep ==
  ASSUME IInv, NEW w \in Worker, RemoveDirectory(w)
  PROVE  IInv' /\ NoNewUse
<1>. DEFINE e == Dir[current[w]]
<1>1. /\ Goto(w, "removed", "finishing")
      /\ \/ exists' = exists \ { e } /\ UNCHANGED lockFile
         \/ lockFile' \in { lockFile, [lockFile EXCEPT ![e] = 0] } /\ UNCHANGED exists
      /\ UNCHANGED <<inbox, state, taskQueue, serverMutex, current, inodes, fd, holders>>
  BY DEF RemoveDirectory, Work
<1>2. exists \subseteq Dirs /\ lockFile \in [Dirs -> 0 .. inodes] /\ inodes \in Nat
  BY DEF IInv, TypeOK
<1>. HIDE DEF e
<1>3. /\ exists' \subseteq Dirs /\ lockFile' \in [Dirs -> 0 .. inodes]
      /\ \A d \in Dirs : d # e =>
           lockFile'[d] = lockFile[d] /\ (d \in exists => d \in exists')
  <2>1. CASE exists' = exists \ { e } /\ UNCHANGED lockFile
    BY <1>2, <2>1
  <2>2. CASE lockFile' = lockFile /\ UNCHANGED exists
    BY <1>2, <2>2
  <2>3. CASE lockFile' = [lockFile EXCEPT ![e] = 0] /\ UNCHANGED exists
    <3>1. 0 \in 0 .. inodes
      BY <1>2
    <3>. QED  BY <1>2, <2>3, <3>1
  <2>. QED  BY <1>1, <2>1, <2>2, <2>3
<1>4. "finishing" \in Leaving
  BY DEF Leaving
<1>. QED  BY <1>1, <1>3, <1>4, Leave DEF e

\* The submission is given up.
LEMMA FinishStep ==
  ASSUME IInv, NEW w \in Worker, Finish(w)
  PROVE  IInv' /\ NoNewUse
<1>. USE DEF IInv
<1>1. PICK s \in Sub : s = current[w]
  BY DEF Finish, Goto, Workers, Busy
<1>2. /\ Goto(w, "finishing", "reaping") /\ state' = [state EXCEPT ![s] = "finished"]
      /\ current' = [current EXCEPT ![w] = None]
      /\ UNCHANGED <<inbox, taskQueue, serverMutex, exists, lockFile, inodes, fd, holders>>
  BY <1>1 DEF Finish, files
<1>3. /\ pc' \in [Worker -> Labels] /\ pc[w] = "finishing" /\ pc'[w] = "reaping"
      /\ \A v \in Worker : v # w => pc'[v] = pc[v]
  <2>1. "reaping" \in Labels
    BY DEF Labels
  <2>. QED  BY <1>2, <2>1, Moved
<1>4. /\ s # None /\ state[s] = "judging" /\ s \notin Range(taskQueue)
      /\ \A v \in Worker : v # w => current[v] # s
  <2>1. state[s] = "judging" /\ s \notin Range(taskQueue)
    BY <1>1, <1>3 DEF Places, Leaving
  <2>2. \A v \in Worker : v # w => current[v] # s
    BY <1>1, <1>3 DEF Places, Busy
  <2>. QED  BY <2>1, <2>2, LockAssumption
<1>5. /\ current' \in [Worker -> Sub \cup {None}] /\ current'[w] = None
      /\ \A v \in Worker : v # w => current'[v] = current[v]
  BY <1>2 DEF TypeOK
<1>6. /\ state' \in [Sub -> { "absent", "waiting", "fetched", "judging", "finished", "freed" }]
      /\ state'[s] = "finished" /\ \A t \in Sub : t # s => state'[t] = state[t]
  BY <1>2 DEF TypeOK
<1>7. ASSUME NEW t \in Sub, NEW L
      PROVE  /\ At(t, L)' => At(t, L)
             /\ t # s => (At(t, L)' <=> At(t, L))
  BY <1>1, <1>3, <1>4, <1>5, LockAssumption DEF At
<1>8. NoNewUse
  BY <1>2, <1>7 DEF NoNewUse, InUse
<1>9. Kept'
  <2>1. \A t \in Sub : Over(t) => Over(t)'
    BY <1>6, <1>7 DEF Over
  <2>. QED  BY <1>2, <1>7, <1>8, <2>1, Steady DEF NoNewUse
<1>10. TypeOK' /\ (inodes \in Nat)'
  BY <1>2, <1>3, <1>5, <1>6 DEF TypeOK, Labels
<1>11. Workers'
  BY <1>2, <1>3, <1>5 DEF Workers, Busy
<1>12. Places'
  <2>1. ASSUME NEW v \in Worker, pc'[v] \in Busy
        PROVE  /\ v # w /\ pc'[v] = pc[v] /\ current'[v] = current[v]
               /\ current[v] \in Sub /\ current[v] # s
    BY <1>3, <1>4, <1>5, <2>1 DEF Workers, Busy
  <2>2. \A v \in Worker : pc'[v] \in { "opening", "flocking" } => state'[current'[v]] = "fetched"
    BY <1>6, <2>1 DEF Places, Busy
  <2>3. \A v \in Worker : pc'[v] \in { "judging" } \cup Leaving =>
          state'[current'[v]] = "judging" /\ current'[v] \notin Range(taskQueue')
    BY <1>2, <1>6, <2>1 DEF Places, Busy, Leaving
  <2>4. \A u, v \in Worker : pc'[u] \in Busy /\ current'[u] = current'[v] => u = v
    BY <1>5, <2>1, LockAssumption DEF Places
  <2>5. \A t \in Range(inbox) \cup Range(taskQueue) : t \in Sub
    BY DEF TypeOK, Range
  <2>. QED  BY <1>2, <1>4, <1>6, <2>2, <2>3, <2>4, <2>5 DEF Places
<1>. QED  BY <1>8, <1>9, <1>10, <1>11, <1>12

\* What was given up is released, and its locks with it.
LEMMA ReapStep ==
  ASSUME IInv, NEW w \in Worker, Reap(w)
  PROVE  IInv' /\ NoNewUse
<1>. USE DEF IInv
<1>1. /\ Goto(w, "reaping", "loop")
      /\ state' = [s \in Sub |-> IF state[s] = "finished" THEN "freed" ELSE state[s]]
      /\ holders' = holders \ { s \in Sub : state[s] = "finished" }
      /\ UNCHANGED <<inbox, taskQueue, serverMutex, current, exists, lockFile, inodes, fd>>
  <2>1. state' = [s \in Sub |-> IF s \in { t \in Sub : state[t] = "finished" } THEN "freed" ELSE state[s]]
    BY DEF Reap
  <2>2. state' = [s \in Sub |-> IF state[s] = "finished" THEN "freed" ELSE state[s]]
    BY <2>1
  <2>. QED  BY <2>2 DEF Reap, files
<1>2. /\ pc' \in [Worker -> Labels] /\ pc[w] = "reaping" /\ pc'[w] = "loop"
      /\ \A v \in Worker : v # w => pc'[v] = pc[v]
  <2>1. "loop" \in Labels
    BY DEF Labels
  <2>. QED  BY <1>1, <2>1, Moved
<1>3. /\ state' \in [Sub -> { "absent", "waiting", "fetched", "judging", "finished", "freed" }]
      /\ \A s \in Sub : state[s] # "finished" => state'[s] = state[s]
      /\ \A s \in Sub : state[s] = "finished" => state'[s] = "freed"
  BY <1>1 DEF TypeOK
<1>4. ASSUME NEW s, NEW L, L \subseteq Busy
      PROVE  At(s, L)' <=> At(s, L)
  BY <1>1, <1>2, <1>4 DEF At, Busy
<1>5. \A s \in Sub : /\ InUse(s)' <=> InUse(s)
                     /\ At(s, { "opening" })' <=> At(s, { "opening" })
                     /\ At(s, { "flocking" })' <=> At(s, { "flocking" })
                     /\ At(s, Leaving)' <=> At(s, Leaving)
  <2>1. /\ { "judging" } \subseteq Busy /\ { "opening" } \subseteq Busy
        /\ { "flocking" } \subseteq Busy /\ Leaving \subseteq Busy
    BY DEF Busy, Leaving
  <2>. QED  BY <1>1, <1>4, <2>1 DEF InUse
<1>6. NoNewUse
  BY <1>5 DEF NoNewUse
<1>7. Kept'
  <2>. SUFFICES ASSUME NEW s \in Sub, Undisturbed(s)'
                PROVE  /\ At(s, { "opening" })' => Dir[s] \in exists'
                       /\ At(s, { "flocking" })' => fd'[s] = lockFile'[Dir[s]] /\ fd'[s] # 0
                       /\ InUse(s)' => s \in holders' /\ fd'[s] = lockFile'[Dir[s]] /\ fd'[s] # 0
    BY DEF Kept
  <2>1. Undisturbed(s)
    BY <1>3, <1>5 DEF Undisturbed, Over
  <2>2. InUse(s) => state[s] = "judging"
    BY DEF InUse, At, Places
  <2>. QED  BY <1>1, <1>5, <2>1, <2>2 DEF Kept
<1>8. TypeOK' /\ (inodes \in Nat)'
  BY <1>1, <1>2, <1>3 DEF TypeOK, Labels
<1>9. Workers'
  BY <1>1, <1>2 DEF Workers, Busy
<1>10. Places'
  <2>1. \A s \in Range(inbox) \cup Range(taskQueue) : s \in Sub
    BY DEF TypeOK, Range
  <2>2. \A v \in Worker : pc'[v] \in Busy => pc'[v] = pc[v] /\ current[v] \in Sub
    BY <1>2 DEF Workers, Busy
  <2>3. \A v \in Worker : pc'[v] \in { "opening", "flocking" } => state'[current'[v]] = "fetched"
    BY <1>1, <1>3, <2>2 DEF Places, Busy
  <2>4. \A v \in Worker : pc'[v] \in { "judging" } \cup Leaving =>
          state'[current'[v]] = "judging" /\ current'[v] \notin Range(taskQueue')
    BY <1>1, <1>3, <2>2 DEF Places, Busy, Leaving
  <2>5. \A u, v \in Worker : pc'[u] \in Busy /\ current'[u] = current'[v] => u = v
    BY <1>1, <2>2 DEF Places
  <2>. QED  BY <1>1, <1>3, <2>1, <2>3, <2>4, <2>5 DEF Places
<1>. QED  BY <1>6, <1>7, <1>8, <1>9, <1>10


-----------------------------------------------------------------------------
(* The theorems.                                                           *)

\* Nothing has arrived yet.
LEMMA InitInv == Init => IInv
<1>. SUFFICES ASSUME Init  PROVE IInv
  OBVIOUS
<1>. USE DEF Init
<1>1. inbox \in Seq(Sub) /\ IsInjective(inbox)
  BY LockAssumption, InboxAssumption
<1>2. taskQueue \in Seq(Sub) /\ Range(taskQueue) = {} /\ IsInjective(taskQueue)
  BY DEF Range, IsInjective
<1>3. \A w \in Worker : pc[w] = "loop" /\ current[w] = None
  OBVIOUS
<1>4. 0 \in 0 .. inodes
  OBVIOUS
<1>5. TypeOK /\ inodes \in Nat
  BY <1>1, <1>2, <1>4 DEF TypeOK
<1>6. Workers
  BY <1>3, LockAssumption DEF Workers, Busy
<1>7. Places
  <2>1. \A s \in Range(inbox) : s \in Sub
    BY <1>1 DEF Range
  <2>. QED  BY <1>1, <1>2, <1>3, <2>1 DEF Places, Busy, Leaving
<1>8. Kept
  BY <1>2, <1>3 DEF Kept, InUse, At
<1>. QED  BY <1>5, <1>6, <1>7, <1>8 DEF IInv

\* The submission that gets its lock is the only one that starts to use its directory.
\* Every other step preserves the invariant and starts no use.
LEMMA NextInv ==
  ASSUME IInv, [Next]_vars
  PROVE  /\ IInv'
         /\ NoNewUse \/ \E w \in Worker : Flock(w)
<1>1. CASE UNCHANGED vars
  <2>1. UNCHANGED <<inbox, state, taskQueue, serverMutex, pc, current, exists, lockFile, inodes, fd, holders>>
    BY <1>1 DEF vars, files
  <2>2. TypeOK' /\ (inodes \in Nat)' /\ Workers' /\ Places'
    BY <2>1 DEF IInv, TypeOK, Workers, Places
  <2>3. \A s, L : At(s, L)' <=> At(s, L)
    BY <2>1 DEF At
  <2>4. \A s \in Sub : (InUse(s)' <=> InUse(s)) /\ (Over(s)' <=> Over(s))
    BY <2>1, <2>3 DEF InUse, Over
  <2>5. Kept'
    BY <2>1, <2>3, <2>4, Steady DEF IInv
  <2>. QED  BY <2>2, <2>4, <2>5 DEF IInv, NoNewUse
<1>2. ASSUME NEW w \in Worker, Locking(w)
      PROVE  IInv' /\ (NoNewUse \/ Flock(w))
  <2>1. CASE TakeServerMutex(w)
    BY <2>1, TakeStep
  <2>2. CASE Flock(w)
    BY <2>2, FlockStep
  <2>3. CASE Finish(w)
    BY <2>3, FinishStep
  <2>4. CASE Reap(w)
    BY <2>4, ReapStep
  <2>. QED  BY <1>2, <2>1, <2>2, <2>3, <2>4 DEF Locking
<1>3. ASSUME NEW w \in Worker, Alone(w)
      PROVE  IInv' /\ NoNewUse
  <2>1. CASE TryPop(w)
    BY <2>1, EmptyStep, PopStep
  <2>2. CASE FetchNothing(w)
    BY <2>2, NothingStep
  <2>3. CASE Fetch(w)
    BY <2>3, FetchOK
  <2>4. CASE OpenLock(w)
    BY <2>4, OpenStep
  <2>5. CASE Judge(w)
    BY <2>5, JudgeStep
  <2>6. CASE RemoveEntries(w)
    BY <2>6, EntriesStep
  <2>7. CASE RemoveDirectory(w)
    BY <2>7, DirectoryStep
  <2>. QED  BY <1>3, <2>1, <2>2, <2>3, <2>4, <2>5, <2>6, <2>7 DEF Alone
<1>. QED  BY <1>1, <1>2, <1>3 DEF Next

\* The invariant holds in every state, whoever runs and whatever arrives.
THEOREM Invariance == Spec => []IInv
<1>1. Init => IInv
  BY InitInv
<1>2. IInv /\ [Next]_vars => IInv'
  BY NextInv
<1>. QED  BY <1>1, <1>2, PTL DEF Spec

\* The variables keep their types.
THEOREM TypeCorrect == Spec => []TypeOK
<1>1. IInv => TypeOK
  BY DEF IInv
<1>. QED  BY <1>1, Invariance, PTL

\* A submission that is being judged, or one that is about to be, is not over.
LEMMA InTurn ==
  ASSUME IInv, NEW s \in Sub, InUse(s) \/ At(s, { "flocking" })
  PROVE  ~ Over(s)
<1>1. state[s] \in { "fetched", "judging" }
  BY DEF IInv, Places, InUse, At
<1>2. ~ At(s, Leaving)
  <2>. SUFFICES ASSUME At(s, Leaving)  PROVE FALSE
    OBVIOUS
  <2>1. PICK w \in Worker : current[w] = s /\ pc[w] \in Leaving
    BY DEF At
  <2>2. s \notin Range(taskQueue)
    BY <2>1 DEF IInv, Places
  <2>3. PICK v \in Worker : current[v] = s /\ pc[v] \in { "judging", "flocking" }
    BY <2>2 DEF InUse, At
  <2>4. v = w
    BY <2>1, <2>3 DEF IInv, Places, Busy, Leaving
  <2>. QED  BY <2>1, <2>3, <2>4 DEF Leaving
<1>. QED  BY <1>1, <1>2 DEF Over

\* If a submission is judged while its only twin waits for the lock, then both have opened
\* the same file, and flock does not return.
LEMMA TwinWaits ==
  ASSUME IInv, OneRejudge, NEW s \in Sub, NEW t \in Sub, s # t, Dir[s] = Dir[t],
         At(s, { "flocking" }), InUse(t)
  PROVE  t \in holders /\ fd[t] = fd[s]
<1>1. ~ Over(s) /\ ~ Over(t)
  BY InTurn
<1>2. Undisturbed(s) /\ Undisturbed(t)
  BY <1>1 DEF Undisturbed, OneRejudge
<1>. QED  BY <1>2 DEF IInv, Kept

\* A submission and its rejudge are never judged at the same time, although the one that is
\* over removes the lock file with the directory.
THEOREM RejudgeApart == Spec => []JudgedApart
<1>1. Init => JudgedApart
  <2>. SUFFICES ASSUME Init  PROVE \A s \in Sub : ~ InUse(s)
    BY DEF JudgedApart
  <2>1. Range(taskQueue) = {}
    BY DEF Init, Range
  <2>. QED  BY <2>1 DEF Init, InUse, At
<1>2. IInv /\ JudgedApart /\ [Next]_vars => JudgedApart'
  <2>. SUFFICES ASSUME IInv, JudgedApart, [Next]_vars, OneRejudge,
                       NEW s \in Sub, NEW t \in Sub, s # t, Dir[s] = Dir[t],
                       InUse(s)', InUse(t)'
                PROVE  FALSE
    BY DEF JudgedApart, OneRejudge
  <2>1. CASE NoNewUse
    BY <2>1 DEF NoNewUse, JudgedApart
  <2>2. ASSUME NEW w \in Worker, Flock(w)
        PROVE  FALSE
    <3>1. PICK u \in Sub : u = current[w] /\ At(u, { "flocking" })
      BY <2>2, FlockStep DEF At
    <3>2. /\ \A v \in holders : fd[v] # fd[u]
          /\ \A v \in Sub : InUse(v)' => InUse(v) \/ v = u
      BY <2>2, <3>1, FlockStep
    <3>3. \A v \in Sub : v # u /\ Dir[v] = Dir[u] => ~ InUse(v)
      BY <3>1, <3>2, TwinWaits
    <3>. QED  BY <3>2, <3>3 DEF JudgedApart
  <2>. QED  BY <2>1, <2>2, NextInv
<1>. QED  BY <1>1, <1>2, Invariance, PTL DEF Spec

-----------------------------------------------------------------------------
(* The same lock around the scripts (module ExecutableCache).  The lock    *)
(* files of their directories are never removed, but the scripts are run   *)
(* when their locks are released again.  What protects a script then is    *)
(* its mark: a marked script is whole, and nobody at work on a script has  *)
(* found its mark.                                                         *)

CONSTANTS Script, Builds, Tasks, MaxCrashes, MaxFails, Orphan
VARIABLES dir, deployed, holder, stage, todo, using, crashes, fails

Scripts == INSTANCE ExecutableCache WITH pc <- stage

\* What ExecutableCache assumes of its constants.
ScriptsGiven ==
  /\ Builds \subseteq Script
  /\ Tasks \subseteq Seq(Script) \ { << >> }
  /\ MaxCrashes \in Nat /\ MaxFails \in Nat
  /\ None # Orphan /\ {None, Orphan} \cap Worker = {}

\* The worker has the lock of the first script it has still to fetch.
Inside == { "cleaning", "copying", "building", "marking" }

\* A lock is held by the worker inside, or by nobody, or by a build without a daemon.
Held ==
  /\ \A w \in Worker : stage[w] \in Inside => holder[Scripts!First(w)] = w
  /\ \A s \in Script : holder[s] \in Worker =>
       stage[holder[s]] \in Inside /\ Scripts!First(holder[s]) = s

\* A mark is a promise: the script is whole, no build is under way, and the worker that
\* goes to change it does not, as it has not found the mark.
MarkedWhole ==
  /\ \A s \in deployed : dir[s] = "whole" /\ holder[s] # Orphan
  /\ \A w \in Worker :
       /\ stage[w] \in { "cleaning", "copying", "building" } => Scripts!First(w) \notin deployed
       /\ stage[w] = "marking" => dir[Scripts!First(w)] = "whole"
       /\ using[w] \subseteq deployed

ScriptsInv == Scripts!TypeOK /\ Held /\ MarkedWhole

\* The next script of a worker that has some.
LEMMA NextScript ==
  ASSUME Scripts!TypeOK, NEW w \in Worker, stage[w] \notin { "idle", "running" }
  PROVE  /\ Scripts!First(w) \in Script /\ todo[w] \in Seq(Script) /\ todo[w] # << >>
         /\ Len(todo[w]) \in Nat \ {0} /\ Tail(todo[w]) \in Seq(Script)
         /\ Tail(todo[w]) = << >> <=> Len(todo[w]) = 1
<1>1. todo[w] \in Seq(Script) /\ todo[w] # << >>
  BY DEF Scripts!TypeOK
<1>2. Len(todo[w]) \in Nat \ {0} /\ Head(todo[w]) \in Script /\ Tail(todo[w]) \in Seq(Script)
  BY <1>1
<1>3. PICK q \in Seq(Script) : q = Tail(todo[w]) /\ Len(q) = Len(todo[w]) - 1
  <2>1. Len(Tail(todo[w])) = Len(todo[w]) - 1
    BY <1>1
  <2>. QED  BY <1>2, <2>1, Zenon
<1>4. q = << >> <=> Len(q) = 0
  OBVIOUS
<1>5. Tail(todo[w]) = << >> <=> Len(todo[w]) = 1
  BY <1>2, <1>3, <1>4
<1>. QED  BY <1>1, <1>2, <1>5 DEF Scripts!First

\* Two workers inside are at different scripts.
LEMMA InsideApart ==
  ASSUME Held, NEW v \in Worker, NEW w \in Worker, stage[v] \in Inside, stage[w] \in Inside,
         Scripts!First(v) = Scripts!First(w)
  PROVE  v = w
BY DEF Held

LEMMA ScriptsInit == ScriptsGiven /\ Scripts!Init => ScriptsInv
<1>. SUFFICES ASSUME ScriptsGiven, Scripts!Init  PROVE ScriptsInv
  OBVIOUS
<1>. USE DEF Scripts!Init
<1>1. Scripts!TypeOK
  <2>1. << >> \in Seq(Script)
    OBVIOUS
  <2>. QED  BY <2>1 DEF ScriptsGiven, Scripts!TypeOK
<1>2. Held /\ MarkedWhole
  BY DEF Held, MarkedWhole, Inside, ScriptsGiven
<1>. QED  BY <1>1, <1>2 DEF ScriptsInv

\* A worker goes on: the others stay where they are.
LEMMA GoesOn ==
  ASSUME Scripts!TypeOK, NEW w \in Worker, NEW from,
         NEW to \in { "idle", "locking", "cleaning", "copying", "building", "marking", "running" },
         Scripts!Goto(w, from, to)
  PROVE  /\ stage[w] = from /\ stage'[w] = to
         /\ stage' \in [Worker -> { "idle", "locking", "cleaning", "copying", "building",
                                    "marking", "running" }]
         /\ \A v \in Worker : v # w => stage'[v] = stage[v]
BY DEF Scripts!TypeOK, Scripts!Goto

LEMMA BeginTaskInv ==
  ASSUME ScriptsGiven, ScriptsInv, NEW w \in Worker, Scripts!BeginTask(w)
  PROVE  ScriptsInv'
<1>1. PICK scripts \in Tasks : todo' = [todo EXCEPT ![w] = scripts]
  BY DEF Scripts!BeginTask
<1>2. scripts \in Seq(Script) /\ scripts # << >>
  BY DEF ScriptsGiven
<1>3. /\ stage[w] = "idle" /\ stage'[w] = "locking"
      /\ stage' \in [Worker -> { "idle", "locking", "cleaning", "copying", "building",
                                 "marking", "running" }]
      /\ \A v \in Worker : v # w => stage'[v] = stage[v]
  BY GoesOn DEF Scripts!BeginTask, ScriptsInv
<1>4. /\ UNCHANGED <<dir, deployed, holder, using, crashes, fails>>
      /\ todo' \in [Worker -> Seq(Script)] /\ todo'[w] = scripts
      /\ \A v \in Worker : v # w => todo'[v] = todo[v]
  BY <1>1, <1>2 DEF Scripts!BeginTask, Scripts!bounds, ScriptsInv, Scripts!TypeOK
<1>5. Scripts!TypeOK'
  <2>1. \A v \in Worker : todo'[v] = << >> <=> stage'[v] \in { "idle", "running" }
    BY <1>2, <1>3, <1>4 DEF ScriptsInv, Scripts!TypeOK
  <2>2. crashes' \in 0 .. MaxCrashes /\ fails' \in 0 .. MaxFails
    BY <1>4 DEF ScriptsInv, Scripts!TypeOK
  <2>3. using' \in [Worker -> SUBSET Script]
    BY <1>4 DEF ScriptsInv, Scripts!TypeOK
  <2>4. deployed' \subseteq Script /\ dir' \in [Script -> { "absent", "partial", "sources", "whole" }]
    BY <1>4 DEF ScriptsInv, Scripts!TypeOK
  <2>5. holder' \in [Script -> Worker \cup {None, Orphan}]
    BY <1>4 DEF ScriptsInv, Scripts!TypeOK
  <2>. QED  BY <1>3, <1>4, <2>1, <2>2, <2>3, <2>4, <2>5 DEF Scripts!TypeOK
<1>6. /\ stage[w] \notin Inside /\ stage'[w] \notin Inside
      /\ \A v \in Worker : v # w => Scripts!First(v)' = Scripts!First(v)
  BY <1>3, <1>4 DEF Inside, Scripts!First
<1>7. Held'
  <2>1. \A s \in Script : holder[s] \in Worker => holder[s] # w
    BY <1>6 DEF ScriptsInv, Held
  <2>. QED  BY <1>3, <1>4, <1>6, <2>1 DEF ScriptsInv, Held
<1>8. MarkedWhole'
  BY <1>3, <1>4, <1>6 DEF ScriptsInv, MarkedWhole
<1>. QED  BY <1>5, <1>7, <1>8 DEF ScriptsInv

LEMMA LockInv ==
  ASSUME ScriptsGiven, ScriptsInv, NEW w \in Worker, Scripts!Lock(w)
  PROVE  ScriptsInv'
<1>0. PICK s \in Script : s = Scripts!First(w)
  BY NextScript DEF Scripts!Lock, Scripts!Goto, ScriptsInv
<1>1. PICK to \in { "marking", "cleaning" } :
        /\ to = IF s \in deployed THEN "marking" ELSE "cleaning"
        /\ Scripts!Goto(w, "locking", to)
  BY <1>0 DEF Scripts!Lock
<1>2. /\ stage[w] = "locking" /\ stage'[w] = to
      /\ stage' \in [Worker -> { "idle", "locking", "cleaning", "copying", "building",
                                 "marking", "running" }]
      /\ \A v \in Worker : v # w => stage'[v] = stage[v]
  BY <1>1, GoesOn DEF ScriptsInv
<1>3. /\ UNCHANGED <<dir, deployed, todo, using, crashes, fails>>
      /\ holder' \in [Script -> Worker \cup {None, Orphan}] /\ holder'[s] = w
      /\ holder[s] = None
      /\ \A t \in Script : t # s => holder'[t] = holder[t]
  BY <1>0 DEF Scripts!Lock, Scripts!bounds, ScriptsInv, Scripts!TypeOK
<1>4. Scripts!TypeOK'
  BY <1>2, <1>3 DEF ScriptsInv, Scripts!TypeOK
<1>5. \A v \in Worker : Scripts!First(v)' = Scripts!First(v)
  BY <1>3 DEF Scripts!First
<1>6. w # None /\ w # Orphan /\ None \notin Worker /\ Orphan \notin Worker
  BY DEF ScriptsGiven
<1>7. Held'
  <2>1. ASSUME NEW v \in Worker, v # w, stage'[v] \in Inside
        PROVE  holder'[Scripts!First(v)] = v
    <3>1. stage[v] \in Inside /\ holder[Scripts!First(v)] = v
      BY <1>2, <2>1 DEF ScriptsInv, Held
    <3>2. Scripts!First(v) \in Script
      BY <3>1, NextScript DEF ScriptsInv, Inside
    <3>. QED  BY <1>3, <1>6, <3>1, <3>2
  <2>2. ASSUME NEW t \in Script, holder'[t] \in Worker
        PROVE  stage'[holder'[t]] \in Inside /\ Scripts!First(holder'[t]) = t
    <3>1. CASE t = s
      BY <1>0, <1>2, <1>3, <3>1 DEF Inside
    <3>2. CASE t # s
      <4>1. holder'[t] # w
        BY <1>2, <1>3, <2>2, <3>2 DEF ScriptsInv, Held, Inside
      <4>. QED  BY <1>2, <1>3, <2>2, <3>2, <4>1 DEF ScriptsInv, Held
    <3>. QED  BY <3>1, <3>2
  <2>. QED  BY <1>0, <1>3, <1>5, <2>1, <2>2 DEF Held
<1>8. MarkedWhole'
  <2>1. \A t \in deployed : t \in Script
    BY DEF ScriptsInv, Scripts!TypeOK
  <2>2. \A t \in deployed : dir[t] = "whole" /\ holder'[t] # Orphan
    BY <1>3, <1>6, <2>1 DEF ScriptsInv, MarkedWhole
  <2>3. ASSUME NEW v \in Worker
        PROVE  /\ stage'[v] \in { "cleaning", "copying", "building" } =>
                    Scripts!First(v) \notin deployed
               /\ stage'[v] = "marking" => dir[Scripts!First(v)] = "whole"
               /\ using[v] \subseteq deployed
    BY <1>0, <1>1, <1>2 DEF ScriptsInv, MarkedWhole
  <2>. QED  BY <1>3, <1>5, <2>2, <2>3 DEF MarkedWhole
<1>. QED  BY <1>4, <1>7, <1>8 DEF ScriptsInv

\* A worker inside writes to its script.
LEMMA WriteInv ==
  ASSUME ScriptsGiven, ScriptsInv, NEW w \in Worker,
         Scripts!Clean(w) \/ Scripts!Copy(w) \/ Scripts!Build(w)
  PROVE  ScriptsInv'
<1>0. /\ stage[w] \in { "cleaning", "copying", "building" }
      /\ UNCHANGED <<holder, todo, using, crashes, fails>>
  BY DEF Scripts!Clean, Scripts!Copy, Scripts!Build, Scripts!Goto, Scripts!bounds
<1>1. PICK s \in Script : s = Scripts!First(w)
  BY <1>0, NextScript DEF ScriptsInv
<1>2. PICK from \in { "cleaning", "copying", "building" },
           to \in { "copying", "building", "marking" },
           reached \in { "partial", "sources", "whole" } :
        /\ Scripts!Goto(w, from, to) /\ dir' = [dir EXCEPT ![s] = reached]
        /\ to = "marking" => reached = "whole"
  <2>1. CASE Scripts!Clean(w)
    BY <1>1, <2>1 DEF Scripts!Clean, Scripts!Put
  <2>2. CASE Scripts!Copy(w)
    BY <1>1, <2>2 DEF Scripts!Copy, Scripts!Put
  <2>3. CASE Scripts!Build(w)
    BY <1>1, <2>3 DEF Scripts!Build, Scripts!Put
  <2>. QED  BY <2>1, <2>2, <2>3
<1>3. /\ stage'[w] = to
      /\ stage' \in [Worker -> { "idle", "locking", "cleaning", "copying", "building",
                                 "marking", "running" }]
      /\ \A v \in Worker : v # w => stage'[v] = stage[v]
  BY <1>2, GoesOn DEF ScriptsInv
<1>4. s \notin deployed /\ deployed' = deployed
  <2>1. s \notin deployed
    BY <1>0, <1>1 DEF ScriptsInv, MarkedWhole
  <2>. QED  BY <1>1, <2>1 DEF Scripts!Clean, Scripts!Copy, Scripts!Build
<1>5. /\ dir' \in [Script -> { "absent", "partial", "sources", "whole" }] /\ dir'[s] = reached
      /\ \A t \in Script : t # s => dir'[t] = dir[t]
  BY <1>2 DEF ScriptsInv, Scripts!TypeOK
<1>6. Scripts!TypeOK'
  <2>1. \A v \in Worker : todo[v] = << >> <=> stage'[v] \in { "idle", "running" }
    BY <1>0, <1>3 DEF ScriptsInv, Scripts!TypeOK
  <2>. QED  BY <1>0, <1>3, <1>4, <1>5, <2>1 DEF ScriptsInv, Scripts!TypeOK
<1>7. \A v \in Worker : Scripts!First(v)' = Scripts!First(v)
  BY <1>0 DEF Scripts!First
<1>8. \A v \in Worker : stage'[v] \in Inside <=> stage[v] \in Inside
  BY <1>0, <1>3 DEF Inside
<1>9. Held'
  BY <1>0, <1>7, <1>8 DEF ScriptsInv, Held
<1>10. MarkedWhole'
  <2>1. \A t \in deployed : t \in Script /\ t # s
    BY <1>4 DEF ScriptsInv, Scripts!TypeOK
  <2>2. ASSUME NEW v \in Worker, v # w, stage[v] = "marking"
        PROVE  Scripts!First(v) \in Script /\ Scripts!First(v) # s
    <3>1. stage[w] \in Inside /\ stage[v] \in Inside
      BY <1>0, <2>2 DEF Inside
    <3>. QED  BY <1>1, <2>2, <3>1, InsideApart, NextScript DEF ScriptsInv
  <2>3. ASSUME NEW v \in Worker
        PROVE  /\ stage'[v] \in { "cleaning", "copying", "building" } =>
                    Scripts!First(v) \notin deployed
               /\ stage'[v] = "marking" => dir'[Scripts!First(v)] = "whole"
    <3>1. CASE v = w
      BY <1>1, <1>2, <1>3, <1>4, <1>5, <3>1
    <3>2. CASE v # w
      BY <1>3, <1>5, <2>2, <3>2 DEF ScriptsInv, MarkedWhole
    <3>. QED  BY <3>1, <3>2
  <2>. QED  BY <1>0, <1>4, <1>5, <1>7, <2>1, <2>3 DEF ScriptsInv, MarkedWhole
<1>. QED  BY <1>6, <1>9, <1>10 DEF ScriptsInv

\* A worker releases the lock of its script: nobody holds it then.
LEMMA Released ==
  ASSUME ScriptsGiven, ScriptsInv, NEW w \in Worker, stage[w] \in Inside,
         NEW s, s = Scripts!First(w), Scripts!Release(s), NEW to, to \notin Inside,
         stage'[w] = to, \A v \in Worker : v # w => stage'[v] = stage[v] /\ todo'[v] = todo[v]
  PROVE  /\ holder' \in [Script -> Worker \cup {None, Orphan}]
         /\ \A t \in Script : holder'[t] = Orphan <=> holder[t] = Orphan
         /\ Held'
<1>1. s \in Script
  BY NextScript DEF ScriptsInv, Inside
<1>2. /\ holder' \in [Script -> Worker \cup {None, Orphan}] /\ holder'[s] = None
      /\ \A t \in Script : t # s => holder'[t] = holder[t]
  BY <1>1 DEF Scripts!Release, ScriptsInv, Scripts!TypeOK
<1>3. holder[s] = w /\ w # None /\ w # Orphan /\ None \notin Worker /\ Orphan \notin Worker
      /\ None # Orphan
  BY DEF ScriptsInv, Held, ScriptsGiven
<1>4. \A v \in Worker : v # w => Scripts!First(v)' = Scripts!First(v)
  BY DEF Scripts!First
<1>5. ASSUME NEW v \in Worker, stage'[v] \in Inside
      PROVE  holder'[Scripts!First(v)'] = v
  <2>1. v # w /\ stage[v] \in Inside /\ holder[Scripts!First(v)] = v
    BY <1>5 DEF ScriptsInv, Held
  <2>2. Scripts!First(v) \in Script /\ Scripts!First(v) # s
    BY <1>3, <2>1, NextScript DEF ScriptsInv, Inside
  <2>. QED  BY <1>2, <1>4, <2>1, <2>2
<1>6. ASSUME NEW t \in Script, NEW v \in Worker, holder'[t] = v
      PROVE  stage'[v] \in Inside /\ Scripts!First(v)' = t
  <2>1. t # s /\ holder[t] = v
    BY <1>2, <1>3, <1>6
  <2>2. stage[v] \in Inside /\ Scripts!First(v) = t
    BY <1>6, <2>1 DEF ScriptsInv, Held
  <2>3. v # w
    BY <2>1, <2>2
  <2>. QED  BY <1>4, <2>2, <2>3
<1>7. Held'
  <2>1. \A v \in Worker : stage'[v] \in Inside => holder'[Scripts!First(v)'] = v
    BY <1>5
  <2>2. \A t \in Script : \A v \in Worker : holder'[t] = v =>
          stage'[v] \in Inside /\ Scripts!First(v)' = t
    BY <1>6
  <2>. QED  BY <2>1, <2>2 DEF Held, Scripts!First
<1>. QED  BY <1>1, <1>2, <1>3, <1>7

LEMMA ThrowInv ==
  ASSUME ScriptsGiven, ScriptsInv, NEW w \in Worker, Scripts!Throw(w)
  PROVE  ScriptsInv'
<1>0. stage[w] \in { "copying", "building" } /\ stage[w] \in Inside
  BY DEF Scripts!Throw, Scripts!Goto, Inside
<1>1. Scripts!Goto(w, stage[w], "idle")
  BY DEF Scripts!Throw, Scripts!Goto
<1>2. /\ stage'[w] = "idle"
      /\ stage' \in [Worker -> { "idle", "locking", "cleaning", "copying", "building",
                                 "marking", "running" }]
      /\ \A v \in Worker : v # w => stage'[v] = stage[v]
  BY <1>1, GoesOn DEF ScriptsInv
<1>3. /\ UNCHANGED <<dir, deployed, crashes>> /\ fails < MaxFails /\ fails' = fails + 1
      /\ todo' = [todo EXCEPT ![w] = << >>] /\ using' = [using EXCEPT ![w] = {}]
      /\ Scripts!Release(Scripts!First(w))
  BY DEF Scripts!Throw
<1>4. /\ todo' \in [Worker -> Seq(Script)] /\ todo'[w] = << >>
      /\ using' \in [Worker -> SUBSET Script] /\ using'[w] = {}
      /\ \A v \in Worker : v # w => todo'[v] = todo[v] /\ using'[v] = using[v]
  BY <1>3 DEF ScriptsInv, Scripts!TypeOK
<1>5. /\ holder' \in [Script -> Worker \cup {None, Orphan}]
      /\ \A t \in Script : holder'[t] = Orphan <=> holder[t] = Orphan
      /\ Held'
  <2>1. "idle" \notin Inside
    BY DEF Inside
  <2>. QED  BY <1>0, <1>2, <1>3, <1>4, <2>1, Released
<1>6. Scripts!TypeOK'
  <2>1. \A v \in Worker : todo'[v] = << >> <=> stage'[v] \in { "idle", "running" }
    BY <1>2, <1>4 DEF ScriptsInv, Scripts!TypeOK
  <2>2. crashes' \in 0 .. MaxCrashes /\ fails' \in 0 .. MaxFails
    BY <1>3 DEF ScriptsInv, Scripts!TypeOK, ScriptsGiven
  <2>3. deployed' \subseteq Script /\ dir' \in [Script -> { "absent", "partial", "sources", "whole" }]
    BY <1>3 DEF ScriptsInv, Scripts!TypeOK
  <2>. QED  BY <1>2, <1>4, <1>5, <2>1, <2>2, <2>3 DEF Scripts!TypeOK
<1>7. MarkedWhole'
  <2>1. \A t \in deployed : t \in Script
    BY DEF ScriptsInv, Scripts!TypeOK
  <2>2. \A t \in deployed : dir[t] = "whole" /\ holder'[t] # Orphan
    BY <1>5, <2>1 DEF ScriptsInv, MarkedWhole
  <2>3. \A v \in Worker : v # w => Scripts!First(v)' = Scripts!First(v)
    BY <1>4 DEF Scripts!First
  <2>. QED  BY <1>2, <1>3, <1>4, <2>2, <2>3 DEF ScriptsInv, MarkedWhole
<1>. QED  BY <1>5, <1>6, <1>7 DEF ScriptsInv

\* The mark is made for a script that is whole, and that nobody else is at.
LEMMA MarkInv ==
  ASSUME ScriptsGiven, ScriptsInv, NEW w \in Worker, Scripts!Mark(w)
  PROVE  ScriptsInv'
<1>0. stage[w] = "marking" /\ stage[w] \in Inside /\ stage[w] \notin { "idle", "running" }
  BY DEF Scripts!Mark, Scripts!Goto, Inside
<1>1. PICK s \in Script : s = Scripts!First(w)
  BY <1>0, NextScript DEF ScriptsInv
<1>2. PICK to \in { "running", "locking" } :
        /\ to = IF Len(todo[w]) = 1 THEN "running" ELSE "locking"
        /\ Scripts!Goto(w, "marking", to)
  BY DEF Scripts!Mark
<1>3. /\ stage'[w] = to
      /\ stage' \in [Worker -> { "idle", "locking", "cleaning", "copying", "building",
                                 "marking", "running" }]
      /\ \A v \in Worker : v # w => stage'[v] = stage[v]
  BY <1>2, GoesOn DEF ScriptsInv
<1>4. /\ UNCHANGED <<dir, crashes, fails>> /\ deployed' = deployed \cup {s}
      /\ todo' = [todo EXCEPT ![w] = Tail(@)] /\ using' = [using EXCEPT ![w] = @ \cup {s}]
      /\ Scripts!Release(s)
  BY <1>1 DEF Scripts!Mark, Scripts!bounds
<1>5. PICK rest \in Seq(Script) : rest = Tail(todo[w]) /\ (rest = << >> <=> to = "running")
  BY <1>0, <1>2, NextScript DEF ScriptsInv
<1>6. /\ todo' \in [Worker -> Seq(Script)] /\ todo'[w] = rest
      /\ \A v \in Worker : v # w => todo'[v] = todo[v]
  <2>1. todo' = [todo EXCEPT ![w] = rest]
    BY <1>4, <1>5
  <2>. QED  BY <2>1 DEF ScriptsInv, Scripts!TypeOK
<1>7. /\ using' \in [Worker -> SUBSET Script] /\ using'[w] = using[w] \cup {s}
      /\ \A v \in Worker : v # w => using'[v] = using[v]
  BY <1>4 DEF ScriptsInv, Scripts!TypeOK
<1>8. /\ holder' \in [Script -> Worker \cup {None, Orphan}]
      /\ \A t \in Script : holder'[t] = Orphan <=> holder[t] = Orphan
      /\ Held'
  <2>1. to \notin Inside
    BY DEF Inside
  <2>. QED  BY <1>0, <1>1, <1>3, <1>4, <1>6, <2>1, Released
<1>9. Scripts!TypeOK'
  <2>1. \A v \in Worker : todo'[v] = << >> <=> stage'[v] \in { "idle", "running" }
    <3>1. todo'[w] = << >> <=> stage'[w] \in { "idle", "running" }
      BY <1>3, <1>5, <1>6
    <3>. QED  BY <1>3, <1>6, <3>1 DEF ScriptsInv, Scripts!TypeOK
  <2>2. crashes' \in 0 .. MaxCrashes /\ fails' \in 0 .. MaxFails
    BY <1>4 DEF ScriptsInv, Scripts!TypeOK
  <2>3. deployed' \subseteq Script /\ dir' \in [Script -> { "absent", "partial", "sources", "whole" }]
    BY <1>4 DEF ScriptsInv, Scripts!TypeOK
  <2>. QED  BY <1>3, <1>6, <1>7, <1>8, <2>1, <2>2, <2>3 DEF Scripts!TypeOK
<1>10. MarkedWhole'
  <2>1. holder[s] = w /\ w # Orphan /\ dir[s] = "whole"
    BY <1>0, <1>1 DEF ScriptsInv, Held, MarkedWhole, ScriptsGiven
  <2>2. \A t \in deployed' : dir[t] = "whole" /\ holder'[t] # Orphan
    <3>1. \A t \in deployed' : t \in Script /\ dir[t] = "whole" /\ holder[t] # Orphan
      BY <1>4, <2>1 DEF ScriptsInv, Scripts!TypeOK, MarkedWhole
    <3>. QED  BY <1>8, <3>1
  <2>3. \A v \in Worker : v # w => Scripts!First(v)' = Scripts!First(v)
    BY <1>6 DEF Scripts!First
  <2>4. ASSUME NEW v \in Worker
        PROVE  /\ stage'[v] \in { "cleaning", "copying", "building" } =>
                    Scripts!First(v)' \notin deployed'
               /\ stage'[v] = "marking" => dir[Scripts!First(v)'] = "whole"
    <3>1. CASE v = w
      BY <1>3, <3>1
    <3>2. CASE v # w
      <4>1. stage'[v] \in { "cleaning", "copying", "building" } => Scripts!First(v) # s
        <5>1. stage'[v] \in { "cleaning", "copying", "building" } => stage[v] \in Inside
          BY <1>3, <3>2 DEF Inside
        <5>. QED  BY <1>0, <1>1, <3>2, <5>1, InsideApart DEF ScriptsInv
      <4>. QED  BY <1>3, <1>4, <2>3, <3>2, <4>1 DEF ScriptsInv, MarkedWhole
    <3>. QED  BY <3>1, <3>2
  <2>5. \A v \in Worker : using'[v] \subseteq deployed'
    BY <1>4, <1>7 DEF ScriptsInv, MarkedWhole
  <2>. QED  BY <1>4, <2>2, <2>4, <2>5 DEF MarkedWhole, Scripts!First
<1>. QED  BY <1>8, <1>9, <1>10 DEF ScriptsInv

LEMMA EndTaskInv ==
  ASSUME ScriptsGiven, ScriptsInv, NEW w \in Worker, Scripts!EndTask(w)
  PROVE  ScriptsInv'
<1>1. /\ stage[w] = "running" /\ stage'[w] = "idle"
      /\ stage' \in [Worker -> { "idle", "locking", "cleaning", "copying", "building",
                                 "marking", "running" }]
      /\ \A v \in Worker : v # w => stage'[v] = stage[v]
  BY GoesOn DEF Scripts!EndTask, ScriptsInv
<1>2. /\ UNCHANGED <<dir, deployed, holder, todo, crashes, fails>>
      /\ using' \in [Worker -> SUBSET Script] /\ \A v \in Worker : using'[v] \subseteq using[v]
  BY DEF Scripts!EndTask, Scripts!bounds, ScriptsInv, Scripts!TypeOK
<1>3. Scripts!TypeOK'
  <2>1. \A v \in Worker : todo[v] = << >> <=> stage'[v] \in { "idle", "running" }
    BY <1>1 DEF ScriptsInv, Scripts!TypeOK
  <2>. QED  BY <1>1, <1>2, <2>1 DEF ScriptsInv, Scripts!TypeOK
<1>4. \A v \in Worker : Scripts!First(v)' = Scripts!First(v)
  BY <1>2 DEF Scripts!First
<1>5. \A v \in Worker : /\ stage'[v] \in Inside <=> stage[v] \in Inside
                        /\ stage'[v] \in Inside => stage'[v] = stage[v]
  BY <1>1 DEF Inside
<1>6. Held'
  BY <1>2, <1>4, <1>5 DEF ScriptsInv, Held
<1>7. MarkedWhole'
  <2>1. \A v \in Worker : using'[v] \subseteq deployed
    BY <1>2 DEF ScriptsInv, MarkedWhole
  <2>. QED  BY <1>2, <1>4, <1>5, <2>1 DEF ScriptsInv, MarkedWhole, Inside
<1>. QED  BY <1>3, <1>6, <1>7 DEF ScriptsInv

\* A build that outlives the daemon is the build of a script without a mark.
LEMMA CrashInv ==
  ASSUME ScriptsGiven, ScriptsInv, Scripts!Crash
  PROVE  ScriptsInv'
<1>1. /\ UNCHANGED <<dir, deployed, fails>> /\ crashes < MaxCrashes /\ crashes' = crashes + 1
      /\ stage' = [w \in Worker |-> "idle"] /\ todo' = [w \in Worker |-> << >>]
      /\ using' = [w \in Worker |-> {}]
  BY DEF Scripts!Crash
<1>2. PICK building : /\ building = { Scripts!First(w) : w \in { v \in Worker : stage[v] = "building" } }
                      /\ holder' = [s \in Script |->
                           IF holder[s] = Orphan \/ s \in building THEN Orphan ELSE None]
  BY DEF Scripts!Crash
<1>3. holder' \in [Script -> {None, Orphan}] /\ \A s \in Script : holder'[s] \notin Worker
  BY <1>2 DEF ScriptsGiven
<1>4. Scripts!TypeOK'
  <2>1. << >> \in Seq(Script)
    OBVIOUS
  <2>2. crashes' \in 0 .. MaxCrashes /\ fails' \in 0 .. MaxFails
    BY <1>1 DEF ScriptsInv, Scripts!TypeOK, ScriptsGiven
  <2>3. deployed' \subseteq Script /\ dir' \in [Script -> { "absent", "partial", "sources", "whole" }]
    BY <1>1 DEF ScriptsInv, Scripts!TypeOK
  <2>4. holder' \in [Script -> Worker \cup {None, Orphan}]
    BY <1>3
  <2>. QED  BY <1>1, <2>1, <2>2, <2>3, <2>4 DEF Scripts!TypeOK
<1>5. Held'
  BY <1>1, <1>3 DEF Held, Inside
<1>6. MarkedWhole'
  <2>1. \A s \in deployed : s \in Script /\ s \notin building /\ holder[s] # Orphan
    BY <1>2 DEF ScriptsInv, MarkedWhole, Scripts!TypeOK
  <2>2. \A s \in deployed : dir[s] = "whole" /\ holder'[s] # Orphan
    BY <1>2, <2>1 DEF ScriptsInv, MarkedWhole, ScriptsGiven
  <2>. QED  BY <1>1, <2>2 DEF MarkedWhole
<1>. QED  BY <1>4, <1>5, <1>6 DEF ScriptsInv

LEMMA OrphanEndsInv ==
  ASSUME ScriptsGiven, ScriptsInv, Scripts!OrphanEnds
  PROVE  ScriptsInv'
<1>1. PICK s \in Script, reached \in { "sources", "whole" } :
        /\ holder[s] = Orphan
        /\ holder' = [holder EXCEPT ![s] = None] /\ dir' = [dir EXCEPT ![s] = reached]
  BY DEF Scripts!OrphanEnds, Scripts!Release, Scripts!Put
<1>2. UNCHANGED <<deployed, stage, todo, using, crashes, fails>>
  BY DEF Scripts!OrphanEnds, Scripts!work, Scripts!bounds
<1>3. /\ holder' \in [Script -> Worker \cup {None, Orphan}] /\ holder'[s] = None
      /\ dir' \in [Script -> { "absent", "partial", "sources", "whole" }]
      /\ \A t \in Script : t # s => holder'[t] = holder[t] /\ dir'[t] = dir[t]
  BY <1>1 DEF ScriptsInv, Scripts!TypeOK
<1>4. Scripts!TypeOK'
  BY <1>2, <1>3 DEF ScriptsInv, Scripts!TypeOK
<1>5. \A v \in Worker : Scripts!First(v)' = Scripts!First(v)
  BY <1>2 DEF Scripts!First
<1>6. s \notin deployed
  BY <1>1 DEF ScriptsInv, MarkedWhole
<1>7. \A v \in Worker : stage[v] \in Inside =>
        Scripts!First(v) \in Script /\ Scripts!First(v) # s
  <2>1. ASSUME NEW v \in Worker, stage[v] \in Inside
        PROVE  Scripts!First(v) \in Script /\ Scripts!First(v) # s
    <3>1. holder[Scripts!First(v)] = v /\ v # Orphan
      BY <2>1 DEF ScriptsInv, Held, ScriptsGiven
    <3>2. Scripts!First(v) \in Script
      BY <2>1, NextScript DEF ScriptsInv, Inside
    <3>. QED  BY <1>1, <3>1, <3>2
  <2>. QED  BY <2>1
<1>8. Held'
  <2>1. \A v \in Worker : stage[v] \in Inside => holder'[Scripts!First(v)] = v
    BY <1>3, <1>7 DEF ScriptsInv, Held
  <2>2. \A t \in Script : holder'[t] \in Worker => t # s
    BY <1>3 DEF ScriptsGiven
  <2>3. \A t \in Script : holder'[t] \in Worker =>
          stage[holder'[t]] \in Inside /\ Scripts!First(holder'[t]) = t
    BY <1>3, <2>2 DEF ScriptsInv, Held
  <2>. QED  BY <1>2, <1>5, <2>1, <2>3 DEF Held
<1>9. MarkedWhole'
  <2>1. \A t \in deployed : t \in Script /\ t # s
    BY <1>6 DEF ScriptsInv, Scripts!TypeOK
  <2>2. \A t \in deployed : dir'[t] = "whole" /\ holder'[t] # Orphan
    BY <1>3, <2>1 DEF ScriptsInv, MarkedWhole
  <2>3. \A v \in Worker : stage[v] = "marking" => dir'[Scripts!First(v)] = "whole"
    BY <1>3, <1>7 DEF ScriptsInv, MarkedWhole, Inside
  <2>. QED  BY <1>2, <1>5, <2>2, <2>3 DEF ScriptsInv, MarkedWhole
<1>. QED  BY <1>4, <1>8, <1>9 DEF ScriptsInv

LEMMA ScriptsNext ==
  ASSUME ScriptsGiven, ScriptsInv, [Scripts!Next]_(Scripts!vars)
  PROVE  ScriptsInv'
<1>1. CASE UNCHANGED Scripts!vars
  <2>1. UNCHANGED <<dir, deployed, holder, stage, todo, using, crashes, fails>>
    BY <1>1 DEF Scripts!vars, Scripts!work, Scripts!bounds
  <2>. QED  BY <2>1 DEF ScriptsInv, Scripts!TypeOK, Held, MarkedWhole, Scripts!First
<1>2. ASSUME NEW w \in Worker,
             Scripts!BeginTask(w) \/ Scripts!Lock(w) \/ Scripts!Step(w) \/ Scripts!Throw(w)
      PROVE  ScriptsInv'
  BY <1>2, BeginTaskInv, LockInv, WriteInv, ThrowInv, MarkInv, EndTaskInv DEF Scripts!Step
<1>. QED  BY <1>1, <1>2, CrashInv, OrphanEndsInv DEF Scripts!Next

\* ExecutableCache's types, and what they rest on: the lock of a script is held by the one
\* worker that is at it, and the scripts with a mark are whole.
THEOREM ScriptsInvariance ==
  ScriptsGiven => (Scripts!Spec => [](Scripts!TypeOK /\ Held /\ MarkedWhole))
<1>. SUFFICES ASSUME ScriptsGiven  PROVE Scripts!Spec => []ScriptsInv
  BY DEF ScriptsInv
<1>1. Scripts!Init => ScriptsInv
  BY ScriptsInit
<1>2. ScriptsInv /\ [Scripts!Next]_(Scripts!vars) => ScriptsInv'
  BY ScriptsNext
<1>. QED  BY <1>1, <1>2, PTL DEF Scripts!Spec

\* The scripts that a worker runs, or will run when it has fetched the others, are whole,
\* and nobody is cleaning, copying or building them: their locks are released before they
\* are run (program.cpp:28-62), and several are fetched one after the other
\* (programming.cpp:51-66), whatever failed, crashed or was left running before.
THEOREM ScriptsRunWhole ==
  ASSUME ScriptsGiven
  PROVE  Scripts!Spec => []Scripts!RunsWhole
<1>1. ScriptsInv => Scripts!RunsWhole
  BY DEF ScriptsInv, MarkedWhole, Scripts!RunsWhole, Scripts!Writes
<1>2. Scripts!Spec => []ScriptsInv
  BY ScriptsInvariance DEF ScriptsInv
<1>. QED  BY <1>1, <1>2, PTL
=============================================================================
