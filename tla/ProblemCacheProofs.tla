-------------------------- MODULE ProblemCacheProofs --------------------------
(***************************************************************************)
(* Proofs about ProblemCache, for every set of submissions, their versions *)
(* and every number of random cases, crashes and failures: its types, that *)
(* writers are apart, and that tests run with good data.                   *)
(***************************************************************************)
EXTENDS ProblemCache, FiniteSetTheorems, TLAPS

-----------------------------------------------------------------------------
(* The inductive invariant.                                                *)

Label ==
  { "queued", "clean", "disturb", "compile", "compiling", "test", "download",
    "generate", "await", "run", "done" }

Data == { Standard } \cup Case

Types ==
  /\ time \in -1 .. Now
  /\ cache \in [Path -> Entry]
  /\ holder \in [Path -> Submissions \cup {None}]
  /\ randomLock \in Submissions \cup {None}
  /\ mutex \in Submissions \cup {None}
  /\ todo \subseteq Path \cup {TimeFile}
  /\ pc \in [Submissions -> Label]
  /\ at \in [Submissions -> Path]
  /\ crashes \in Nat /\ fails \in Nat
  /\ suspect \subseteq Path
  /\ \A p \in Path : cache[p].there \/ cache[p] = Absent
  /\ \A p \in Path : cache[p].from \subseteq { Version[s] : s \in Submissions }

\* The path each submission deals with.
Places ==
  \A s \in Submissions :
    /\ pc[s] = "compiling" => at[s] = Program
    /\ pc[s] = "download" => at[s] = Standard
    /\ pc[s] \in { "generate", "await" } => at[s] \in Case
    /\ pc[s] = "run" => at[s] \in Data

\* Who holds which lock.  The lock of a writer may only be gone at a suspect path.
Locks ==
  /\ \A p \in Path : holder[p] # None => pc[holder[p]] \in Writing /\ at[holder[p]] = p
  /\ \A s \in Submissions : pc[s] \in Writing /\ at[s] \notin suspect => holder[at[s]] = s
  /\ randomLock # None => pc[randomLock] = "await"

\* A cleaning that disturbs nobody has the cache for itself; any other one has made
\* everything suspect.
Cleaning ==
  /\ \A s \in Submissions : pc[s] \in { "clean", "disturb" } <=> mutex = s
  /\ todo # {} => mutex # None
  /\ \A s, t \in Submissions : pc[s] = "clean" /\ t # s => pc[t] \in { "queued", "done" }
  /\ \A s \in Submissions : pc[s] = "clean" => \A p \in Path \ todo : cache[p] = Absent
  /\ \A s \in Submissions : pc[s] = "disturb" => suspect = Path
  /\ Program \in suspect => suspect = Path

\* Unless everything is suspect, all that is judged is of the version .time says, and
\* nothing at a path that is not suspect is older; before the first submission there is
\* nothing.
Recent ==
  suspect # Path =>
    /\ \A s \in Submissions : pc[s] \notin { "queued", "done", "clean" } => Version[s] = time
    /\ \A p \in Path \ suspect : \A v \in cache[p].from : v >= time
    /\ mutex = None /\ time = -1 => \A p \in Path : cache[p].from = {}

\* What is written is not complete; what is there, unlocked and without the mark of an
\* error is complete.
Complete ==
  /\ cache[Standard].error = FALSE
  /\ \A s \in Submissions :
       pc[s] \in Writing /\ at[s] \notin suspect =>
         cache[at[s]].there /\ ~ cache[at[s]].whole /\ ~ cache[at[s]].error
  /\ \A p \in Data \ suspect :
       cache[p].there /\ holder[p] = None /\ ~ cache[p].error => cache[p].whole
  /\ \A s \in Submissions :
       pc[s] = "await" /\ at[s] \notin suspect => cache[at[s]].there
  /\ \A s \in Submissions :
       pc[s] = "run" /\ at[s] \notin suspect =>
         cache[at[s]].there /\ cache[at[s]].whole /\ ~ cache[at[s]].error

\* The random cases are numbered without gaps.
Numbered == \E n \in 0 .. MaxRandom : Cases = 0 .. (n - 1)

IInv == Types /\ Places /\ Locks /\ Cleaning /\ Recent /\ Complete /\ Numbered

-----------------------------------------------------------------------------
(* Facts about paths and about the numbers of the random cases.            *)

LEMMA Paths ==
  /\ Program \in Path /\ Standard \in Path /\ Case \subseteq Path
  /\ Data \subseteq Path /\ Program \notin Data /\ Standard \in Data /\ Standard \notin Case
  /\ \A p \in Path : p = Program \/ p \in Data
  /\ TimeFile \notin Path
BY CacheAssumption DEF Path, Data, Case, Program, Standard, TimeFile

\* A version is a time of the past, and None is no submission.
LEMMA Versions ==
  /\ None \notin Submissions /\ Now \in Int
  /\ \A t \in Submissions : Version[t] \in Int /\ 0 <= Version[t] /\ Version[t] <= Now
BY CacheAssumption

\* The next case is the one after those that are there.
LEMMA CaseCount ==
  ASSUME Numbered
  PROVE  NextCase \in 0 .. MaxRandom /\ Cases = 0 .. (NextCase - 1)
<1>1. PICK n \in 0 .. MaxRandom : Cases = 0 .. (n - 1)
  BY DEF Numbered
<1>2. n \in Nat
  BY CacheAssumption
<1>3. Cardinality(0 .. (n - 1)) = n
  BY <1>2, FS_Interval, SMT
<1> QED
  BY <1>1, <1>3 DEF NextCase

\* Numbered is about nothing but which cases are there.
LEMMA SameCases ==
  ASSUME Numbered, \A k \in Case : cache'[k].there = cache[k].there
  PROVE  Numbered'
BY DEF Numbered, Cases

-----------------------------------------------------------------------------
(* The actions one by one.                                                 *)

LEMMA InitInv == Init => IInv
<1> SUFFICES ASSUME Init PROVE IInv
  OBVIOUS
<1>1. Types
  BY CacheAssumption DEF Init, Types, Entry, Absent, Label, Path, Case, Program
<1>2. Places /\ Locks /\ Cleaning /\ Recent
  BY CacheAssumption DEF Init, Places, Locks, Cleaning, Recent, Absent, Path, Writing
<1>3. Complete
  BY Paths DEF Init, Complete, Absent, Writing
<1>4. Numbered
  <2>1. Cases = {}
    BY Paths DEF Init, Cases, Absent
  <2> QED
    BY <2>1, CacheAssumption DEF Numbered
<1> QED
  BY <1>1, <1>2, <1>3, <1>4 DEF IInv

LEMMA VerifyRecentInv ==
  ASSUME IInv, NEW s \in Submissions, VerifyRecent(s) PROVE IInv'
<1> USE DEF VerifyRecent, Goto, IInv
<1>a. /\ pc \in [Submissions -> Label] /\ pc' = [pc EXCEPT ![s] = "compile"]
      /\ \A t \in Submissions : pc'[t] = IF t = s THEN "compile" ELSE pc[t]
      /\ mutex = None /\ mutex' = None
  BY DEF Types
<1>1. Types'
  <2>1. time' \in -1 .. Now
    BY Versions
  <2>2. pc' \in [Submissions -> Label]
    BY <1>a DEF Label
  <2>3. suspect' \subseteq Path
    BY DEF Types
  <2> QED
    BY <2>1, <2>2, <2>3 DEF Types
<1>2. Places' /\ Locks'
  BY <1>a DEF Types, Places, Locks, Writing
<1>3. Cleaning'
  BY Versions, <1>a DEF Types, Cleaning
<1>4. Recent'
  <2>1. \A t \in Submissions : pc[t] \notin { "clean", "disturb" }
    BY Versions, <1>a DEF Cleaning
  <2>2. SUFFICES ASSUME suspect' # Path PROVE Recent'
    BY DEF Recent
  <2>3. suspect # Path /\ \A t \in InFlight : ~ (Version[t] > Version[s])
    BY <2>2
  <2>4. \A t \in Submissions : pc[t] \notin { "queued", "done" } => Version[t] = time
    BY <2>1, <2>3 DEF Recent
  <2>5. \A t \in Submissions : pc[t] \notin { "queued", "done" } => Version[t] = Version[s]
    BY Versions, <2>3, <2>4 DEF InFlight, TimeOf
  <2>6. \A p \in Path \ suspect : \A v \in cache[p].from : v >= Version[s]
    <3>1. CASE time = -1
      BY <1>a, <2>3, <3>1 DEF Recent
    <3>2. CASE time # -1
      <4>1. \A p \in Path \ suspect : \A v \in cache[p].from : v \in Int /\ v >= time
        BY Versions, <2>3 DEF Recent, Types
      <4> QED
        BY Versions, <3>2, <4>1 DEF Types, TimeOf
    <3> QED
      BY <3>1, <3>2
  <2> QED
    BY Versions, <1>a, <2>5, <2>6 DEF Recent
<1>5. Complete'
  BY <1>a, Paths DEF Types, Complete, Writing
<1>6. Numbered'
  BY SameCases
<1> QED
  BY <1>1, <1>2, <1>3, <1>4, <1>5, <1>6

LEMMA VerifyOutdatedInv ==
  ASSUME IInv, NEW s \in Submissions, VerifyOutdated(s) PROVE IInv'
<1> USE DEF IInv
<1>a. /\ pc \in [Submissions -> Label] /\ pc[s] = "queued" /\ mutex = None /\ mutex' = s
      /\ \A t \in Submissions : t # s => pc'[t] = pc[t]
      /\ InFlight = {} => pc'[s] = "clean"
      /\ InFlight # {} => pc'[s] = "disturb"
  <2>1. CASE InFlight = {}
    <3>1. pc' = [pc EXCEPT ![s] = "clean"]
      BY <2>1 DEF VerifyOutdated, Goto
    <3> QED
      BY <2>1, <3>1 DEF VerifyOutdated, Types
  <2>2. CASE InFlight # {}
    <3>1. pc' = [pc EXCEPT ![s] = "disturb"]
      BY <2>2 DEF VerifyOutdated, Goto
    <3> QED
      BY <2>2, <3>1 DEF VerifyOutdated, Types
  <2> QED
    BY <2>1, <2>2
<1>b. \A t \in Submissions : pc[t] \notin { "clean", "disturb" }
  BY Versions, <1>a DEF Cleaning
<1>1. Types'
  <2>1. time' \in -1 .. Now
    BY Versions DEF VerifyOutdated, Types, TimeOf
  <2>2. pc' \in [Submissions -> Label]
    BY <1>a DEF VerifyOutdated, Goto, Label
  <2>3. suspect' \subseteq Path /\ todo' \subseteq Path \cup {TimeFile}
    BY DEF VerifyOutdated, Types
  <2> QED
    BY <1>a, <2>1, <2>2, <2>3 DEF VerifyOutdated, Types
<1>2. Places' /\ Locks'
  BY Versions, <1>a DEF VerifyOutdated, Types, Places, Locks, Writing
<1>3. Cleaning'
  <2>1. /\ \A t \in Submissions : pc'[t] \in { "clean", "disturb" } <=> mutex' = t
        /\ todo' # {} => mutex' # None
    BY Versions, <1>a, <1>b
  <2>2. \A t, u \in Submissions : pc'[t] = "clean" /\ u # t => pc'[u] \in { "queued", "done" }
    BY <1>a, <1>b DEF InFlight
  <2>3. \A t \in Submissions : pc'[t] = "clean" => \A p \in Path \ todo' : cache'[p] = Absent
    BY <1>a, <1>b DEF VerifyOutdated
  <2>4. \A t \in Submissions : pc'[t] = "disturb" => suspect' = Path
    BY <1>a, <1>b DEF VerifyOutdated
  <2>5. Program \in suspect' => suspect' = Path
    BY DEF VerifyOutdated, Cleaning
  <2> QED
    BY <2>1, <2>2, <2>3, <2>4, <2>5 DEF Cleaning
<1>4. Recent'
  <2>1. SUFFICES ASSUME suspect' # Path PROVE Recent'
    BY DEF Recent
  <2>2. InFlight = {} /\ suspect' = suspect /\ suspect # Path
    BY <2>1 DEF VerifyOutdated
  <2>3. \A t \in Submissions : pc'[t] \in { "queued", "done", "clean" }
    BY <1>a, <2>2 DEF InFlight
  <2>4. \A p \in Path \ suspect : \A v \in cache[p].from : v >= time'
    BY <1>a, <2>2 DEF VerifyOutdated, Recent, TimeOf
  <2> QED
    BY Versions, <1>a, <2>2, <2>3, <2>4 DEF VerifyOutdated, Recent
<1>5. Complete'
  BY <1>a, Paths DEF VerifyOutdated, Types, Complete, Writing
<1>6. Numbered'
  BY SameCases DEF VerifyOutdated
<1> QED
  BY <1>1, <1>2, <1>3, <1>4, <1>5, <1>6

LEMMA CleanInv ==
  ASSUME IInv, NEW s \in Submissions, Clean(s) PROVE IInv'
<1> USE DEF IInv
<1>1. CASE /\ TimeFile \in todo
           /\ time' = -1
           /\ todo' = todo \ { TimeFile }
           /\ UNCHANGED <<cache, holder, randomLock, mutex, pc, at, crashes, fails, suspect>>
  <2>1. Types'
    BY <1>1, CacheAssumption DEF Types
  <2>2. Places' /\ Locks' /\ Cleaning' /\ Complete'
    BY <1>1, Paths DEF Places, Locks, Cleaning, Complete
  <2>3. Recent'
    BY <1>1, CacheAssumption DEF Clean, Types, Cleaning, Recent
  <2>4. Numbered'
    BY <1>1, SameCases
  <2> QED
    BY <2>1, <2>2, <2>3, <2>4
<1>2. ASSUME NEW gone \in { {Program}, {Standard}, Case },
             cache' = [ p \in Path |-> IF p \in gone THEN Absent ELSE cache[p] ],
             holder' = [ p \in Path |-> IF p \in gone THEN None ELSE holder[p] ],
             randomLock' = IF gone = Case THEN None ELSE randomLock,
             todo' = todo \ gone,
             UNCHANGED <<time, mutex, pc, at, crashes, fails, suspect>>
      PROVE  IInv'
  <2> gone \subseteq Path
    BY Paths
  <2>1. Types'
    BY <1>2 DEF Types, Absent, Entry
  <2>2. Places'
    BY <1>2 DEF Places
  <2>3. Locks'
    BY <1>2 DEF Clean, Types, Locks, Cleaning, Writing
  <2>4. Cleaning'
    BY <1>2 DEF Types, Cleaning
  <2>5. Recent'
    BY <1>2 DEF Types, Recent, Absent
  <2>6. Complete'
    BY <1>2, Paths DEF Clean, Types, Complete, Cleaning, Absent, Writing
  <2>7. Numbered'
    <3>1. CASE gone = Case
      <4>1. Cases' = {} /\ {} = 0 .. (0 - 1)
        BY <1>2, <3>1, Paths DEF Cases, Absent
      <4> QED
        BY <4>1, CacheAssumption DEF Numbered
    <3>2. CASE gone # Case
      <4>1. \A k \in Case : k \notin gone /\ k \in Path
        BY <1>2, <3>2, Paths DEF Data
      <4> QED
        BY <1>2, <4>1, SameCases
    <3> QED
      BY <3>1, <3>2
  <2> QED
    BY <2>1, <2>2, <2>3, <2>4, <2>5, <2>6, <2>7
<1> QED
  BY <1>1, <1>2 DEF Clean

LEMMA CleanedInv ==
  ASSUME IInv, NEW s \in Submissions, Cleaned(s) PROVE IInv'
<1> USE DEF IInv
<1>a. /\ pc \in [Submissions -> Label] /\ pc' = [pc EXCEPT ![s] = "compile"]
      /\ \A t \in Submissions : pc'[t] = IF t = s THEN "compile" ELSE pc[t]
      /\ time' = Version[s] /\ mutex' = None /\ todo = {} /\ todo' = {}
      /\ UNCHANGED <<cache, holder, randomLock, at, crashes, fails>>
  BY DEF Cleaned, Goto, Types
<1>b. pc[s] \in { "clean", "disturb" } /\ mutex = s
  BY DEF Cleaned, Cleaning
<1>c. \A t \in Submissions : t # s => pc[t] \notin { "clean", "disturb" }
  BY <1>b DEF Cleaning
<1>1. CASE pc[s] = "clean"
  <2>1. suspect' = {}
    BY <1>1 DEF Cleaned
  <2>2. \A t \in Submissions : t # s => pc[t] \in { "queued", "done" }
    BY <1>1 DEF Cleaning
  <2>3. \A p \in Path : cache[p] = Absent
    BY <1>1, <1>a DEF Cleaning
  <2>4. Types'
    BY Versions, <1>a, <2>1 DEF Types, Label
  <2>5. Places' /\ Locks' /\ Cleaning'
    BY Versions, <1>a, <1>b, <1>c, <2>1, <2>2 DEF Types, Places, Locks, Cleaning, Writing
  <2>6. Recent'
    BY Versions, <1>a, <2>2, <2>3 DEF Recent, Absent
  <2>7. Complete'
    BY Paths, <1>a, <2>2, <2>3 DEF Complete, Absent, Writing
  <2>8. Numbered'
    BY <1>a, SameCases
  <2> QED
    BY <2>4, <2>5, <2>6, <2>7, <2>8
<1>2. CASE pc[s] = "disturb"
  <2>1. suspect = Path /\ suspect' = Path
    BY <1>2 DEF Cleaned, Cleaning
  <2>2. Types'
    BY Versions, <1>a, <2>1 DEF Types, Label
  <2>3. Places' /\ Locks'
    BY <1>a, <1>b, <2>1 DEF Types, Places, Locks, Writing
  <2>4. Cleaning' /\ Recent'
    BY Versions, <1>a, <1>c, <2>1 DEF Cleaning, Recent
  <2>5. Complete'
    BY Paths, <1>a, <2>1 DEF Types, Complete, Writing
  <2>6. Numbered'
    BY <1>a, SameCases
  <2> QED
    BY <2>2, <2>3, <2>4, <2>5, <2>6
<1> QED
  BY <1>b, <1>1, <1>2

\* While a submission is judged, no cleaning has the cache for itself, and its version
\* is that of .time unless everything is suspect.
LEMMA Judged ==
  ASSUME IInv, NEW s \in Submissions, pc[s] \notin { "queued", "done", "clean", "disturb" }
  PROVE  /\ \A t \in Submissions : pc[t] # "clean"
         /\ suspect # Path => Version[s] = time
BY DEF IInv, Cleaning, Recent

\* A submission that goes on and writes nothing older than .time keeps what is said
\* about cleanings and versions.
LEMMA Onward ==
  ASSUME IInv, NEW s \in Submissions, pc[s] \notin { "queued", "done", "clean", "disturb" },
         NEW l \in Label \ { "queued", "clean", "disturb" }, Goto(s, l),
         UNCHANGED <<time, mutex, todo>>,
         suspect' = suspect \/ suspect' = suspect \cup { Standard },
         suspect # Path => \A p \in Path \ suspect : \A v \in cache'[p].from :
                             v \in cache[p].from \/ v >= time
  PROVE  Cleaning' /\ Recent'
<1> USE DEF IInv
<1>1. \A t \in Submissions : pc'[t] = IF t = s THEN l ELSE pc[t]
  BY DEF Goto, Types
<1>2. suspect \subseteq suspect' /\ (suspect = Path => suspect' = Path)
  BY Paths
<1>3. \A t \in Submissions : pc'[t] # "clean"
  BY <1>1, Judged
<1>4. Cleaning'
  <2>1. \A t \in Submissions : pc'[t] \in { "clean", "disturb" } <=> mutex' = t
    BY <1>1 DEF Cleaning
  <2>2. \A t \in Submissions : pc'[t] = "disturb" => suspect' = Path
    BY <1>1, <1>2 DEF Cleaning
  <2>3. Program \in suspect' => suspect' = Path
    BY <1>2, Paths DEF Cleaning
  <2> QED
    BY <1>3, <2>1, <2>2, <2>3 DEF Cleaning
<1>5. Recent'
  <2>1. SUFFICES ASSUME suspect # Path PROVE Recent'
    BY <1>2 DEF Recent
  <2>2. Version[s] = time /\ time # -1
    BY <2>1, Judged, Versions
  <2>3. \A t \in Submissions : pc'[t] \notin { "queued", "done", "clean" } => Version[t] = time'
    BY <1>1, <2>1, <2>2 DEF Recent
  <2>4. \A p \in Path \ suspect' : \A v \in cache'[p].from : v >= time'
    BY <1>2, <2>1 DEF Recent
  <2> QED
    BY <2>2, <2>3, <2>4 DEF Recent
<1> QED
  BY <1>4, <1>5

LEMMA SkipCompileInv ==
  ASSUME IInv, NEW s \in Submissions, SkipCompile(s) PROVE IInv'
<1> USE DEF IInv
<1>a. /\ pc[s] = "compile" /\ Goto(s, "test") /\ "test" \in Label
      /\ \A t \in Submissions : pc'[t] = IF t = s THEN "test" ELSE pc[t]
      /\ UNCHANGED <<time, cache, holder, randomLock, mutex, todo, at, crashes, fails, suspect>>
  BY DEF SkipCompile, Goto, Types, Label
<1>1. Types'
  BY <1>a DEF Types, Goto
<1>2. Places' /\ Locks'
  BY <1>a DEF Types, Places, Locks, Writing
<1>3. Cleaning' /\ Recent'
  BY <1>a, Onward
<1>4. Complete'
  BY <1>a DEF Complete, Writing
<1>5. Numbered'
  BY <1>a, SameCases
<1> QED
  BY <1>1, <1>2, <1>3, <1>4, <1>5

LEMMA BeginCompileInv ==
  ASSUME IInv, NEW s \in Submissions, BeginCompile(s) PROVE IInv'
<1> USE DEF IInv
<1>a. /\ pc[s] = "compile" /\ Goto(s, "compiling") /\ "compiling" \in Label
      /\ \A t \in Submissions : pc'[t] = IF t = s THEN "compiling" ELSE pc[t]
      /\ \A t \in Submissions : at'[t] = IF t = s THEN Program ELSE at[t]
      /\ UNCHANGED <<time, randomLock, mutex, todo, crashes, fails, suspect>>
  BY DEF BeginCompile, Goto, GotoAt, Types, Label
<1>b. /\ holder[Program] = None
      /\ \A p \in Path : holder'[p] = IF p = Program THEN s ELSE holder[p]
      /\ \A p \in Path : cache'[p] = IF p = Program THEN Begun({ Version[s] }) ELSE cache[p]
  BY Paths DEF BeginCompile, Lock, Types
<1>1. Types'
  <2>1. Begun({ Version[s] }) \in Entry
    BY CacheAssumption DEF Begun, Entry
  <2>2. /\ cache' \in [Path -> Entry] /\ holder' \in [Path -> Submissions \cup {None}]
        /\ pc' \in [Submissions -> Label] /\ at' \in [Submissions -> Path]
    BY <1>a, <2>1, Paths DEF BeginCompile, Lock, Goto, GotoAt, Types
  <2>3. \A p \in Path : /\ cache'[p].there \/ cache'[p] = Absent
                        /\ cache'[p].from \subseteq { Version[t] : t \in Submissions }
    BY <1>b DEF Types, Begun
  <2> QED
    BY <1>a, <2>2, <2>3 DEF Types
<1>2. Places' /\ Locks'
  BY <1>a, <1>b, Versions, Paths DEF Types, Places, Locks, Writing
<1>3. Cleaning' /\ Recent'
  <2>1. suspect # Path => \A p \in Path \ suspect : \A v \in cache'[p].from :
                            v \in cache[p].from \/ v >= time
    BY <1>a, <1>b, Versions, Judged DEF Begun
  <2> QED
    BY <1>a, <2>1, Onward
<1>4. Complete'
  BY <1>a, <1>b, Versions, Paths DEF Types, Places, Locks, Complete, Begun, Writing
<1>5. Numbered'
  BY <1>b, Paths, SameCases DEF Data
<1> QED
  BY <1>1, <1>2, <1>3, <1>4, <1>5

\* What is completed at a path: nothing new is there, and its versions are added.
LEMMA Completing ==
  ASSUME Types, NEW s \in Submissions, NEW p \in Path,
         NEW versions \in SUBSET { Version[t] : t \in Submissions },
         Completed(s, p, versions)
  PROVE  /\ cache' \in [Path -> Entry]
         /\ \A q \in Path : q # p => cache'[q] = cache[q]
         /\ ~ cache[p].there => cache'[p] = cache[p]
         /\ cache[p].there => cache'[p].whole
         /\ cache'[p].there = cache[p].there /\ cache'[p].error = cache[p].error
         /\ cache'[p].from \subseteq cache[p].from \cup versions
         /\ \A q \in Path : cache'[q].there \/ cache'[q] = Absent
         /\ \A q \in Path : cache'[q].from \subseteq { Version[t] : t \in Submissions }
<1>1. versions \subseteq Nat
  BY CacheAssumption
<1>2. CASE ~ cache[p].there
  <2>1. cache' = cache
    BY <1>2 DEF Completed, Types
  <2> QED
    BY <1>2, <2>1 DEF Types
<1>3. CASE cache[p].there
  <2> DEFINE new == [cache[p] EXCEPT !.whole = TRUE, !.from = cache[p].from \cup versions]
  <2>1. cache' = [cache EXCEPT ![p] = new]
    BY <1>3 DEF Completed
  <2>2. cache[p] \in Entry
    BY DEF Types
  <2>3. /\ new \in Entry /\ new.there /\ new.whole /\ new.error = cache[p].error
        /\ new.from = cache[p].from \cup versions
    BY <1>1, <1>3, <2>2 DEF Entry
  <2>4. cache'[p] = new /\ \A q \in Path : q # p => cache'[q] = cache[q]
    BY <2>1 DEF Types
  <2> HIDE DEF new
  <2>5. cache' \in [Path -> Entry]
    BY <2>1, <2>3 DEF Types
  <2>6. \A q \in Path : /\ cache'[q].there \/ cache'[q] = Absent
                        /\ cache'[q].from \subseteq { Version[t] : t \in Submissions }
    BY <2>3, <2>4 DEF Types
  <2> QED
    BY <1>3, <2>3, <2>4, <2>5, <2>6
<1> QED
  BY <1>2, <1>3

\* Giving back a lock.
LEMMA Unlocking ==
  ASSUME Types, NEW s \in Submissions, NEW p \in Path, Unlock(s, p)
  PROVE  /\ holder' \in [Path -> Submissions \cup {None}]
         /\ \A q \in Path : holder'[q] = IF q = p /\ holder[q] = s THEN None ELSE holder[q]
BY DEF Unlock, Types

LEMMA EndCompileInv ==
  ASSUME IInv, NEW s \in Submissions, EndCompile(s) PROVE IInv'
<1> USE DEF IInv
<1>a. /\ pc[s] = "compiling" /\ at[s] = Program
      /\ UNCHANGED <<time, randomLock, mutex, todo, at, crashes, suspect>>
      /\ \A q \in Path : holder'[q] = IF q = Program /\ holder[q] = s THEN None ELSE holder[q]
      /\ holder' \in [Path -> Submissions \cup {None}]
  BY Paths, Unlocking DEF EndCompile, Places
<1>1. CASE Completed(s, Program, { Version[s] }) /\ Goto(s, "test") /\ UNCHANGED fails
  <2>a. /\ pc' \in [Submissions -> Label] /\ "test" \in Label
        /\ \A t \in Submissions : pc'[t] = IF t = s THEN "test" ELSE pc[t]
    BY <1>1 DEF Goto, Types, Label
  <2>b. /\ cache' \in [Path -> Entry]
        /\ \A q \in Path : q # Program => cache'[q] = cache[q]
        /\ cache'[Program].from \subseteq cache[Program].from \cup { Version[s] }
        /\ \A q \in Path : /\ cache'[q].there \/ cache'[q] = Absent
                           /\ cache'[q].from \subseteq { Version[t] : t \in Submissions }
    BY <1>1, Paths, Completing
  <2>1. Types'
    BY <1>1, <1>a, <2>a, <2>b DEF Types
  <2>2. Places' /\ Locks'
    BY <1>a, <2>a, Versions DEF Types, Places, Locks, Writing
  <2>3. Cleaning' /\ Recent'
    <3>1. suspect # Path => \A p \in Path \ suspect : \A v \in cache'[p].from :
                              v \in cache[p].from \/ v >= time
      BY <1>a, <2>b, Versions, Judged
    <3> QED
      BY <1>1, <1>a, <2>a, <3>1, Onward
  <2>4. Complete'
    <3>1. \A t \in Submissions :
            t # s /\ pc[t] \in Writing /\ at[t] \notin suspect => at[t] # Program
      BY <1>a DEF Locks, Writing
    <3>2. \A q \in Data : cache'[q] = cache[q] /\ (holder'[q] = None <=> holder[q] = None)
      BY <1>a, <2>b, Paths
    <3>3. \A t \in Submissions : pc[t] \in { "await", "run" } => at[t] \in Data
      BY Paths DEF Places, Data
    <3>4. \A t \in Submissions : pc'[t] \in { "await", "run" } \cup Writing =>
                                  t # s /\ pc'[t] = pc[t]
      BY <2>a DEF Writing
    <3> QED
      BY <1>a, <2>b, <3>1, <3>2, <3>3, <3>4, Paths DEF Types, Complete, Writing
  <2>5. Numbered'
    BY <2>b, Paths, SameCases DEF Data
  <2> QED
    BY <2>1, <2>2, <2>3, <2>4, <2>5
<1>2. CASE Failing /\ Goto(s, "done") /\ UNCHANGED cache
  <2>a. /\ pc' \in [Submissions -> Label] /\ "done" \in Label
        /\ \A t \in Submissions : pc'[t] = IF t = s THEN "done" ELSE pc[t]
    BY <1>2 DEF Goto, Types, Label
  <2>1. Types'
    BY <1>2, <1>a, <2>a DEF Types, Failing
  <2>2. Places' /\ Locks'
    BY <1>a, <2>a, Versions DEF Types, Places, Locks, Writing
  <2>3. Cleaning' /\ Recent'
    BY <1>2, <1>a, <2>a, Onward
  <2>4. Complete'
    BY <1>2, <1>a, <2>a, Paths DEF Types, Places, Complete, Writing
  <2>5. Numbered'
    BY <1>2, SameCases
  <2> QED
    BY <2>1, <2>2, <2>3, <2>4, <2>5
<1> QED
  BY <1>1, <1>2 DEF EndCompile

LEMMA UseStandardInv ==
  ASSUME IInv, NEW s \in Submissions, UseStandard(s) PROVE IInv'
<1> USE DEF IInv
<1>a. /\ pc[s] = "test" /\ Goto(s, "run") /\ "run" \in Label
      /\ holder[Standard] = None /\ cache[Standard].there
      /\ \A t \in Submissions : pc'[t] = IF t = s THEN "run" ELSE pc[t]
      /\ \A t \in Submissions : at'[t] = IF t = s THEN Standard ELSE at[t]
      /\ pc' \in [Submissions -> Label] /\ at' \in [Submissions -> Path]
      /\ UNCHANGED <<time, cache, holder, randomLock, mutex, todo, crashes, fails, suspect>>
  BY Paths DEF UseStandard, Goto, GotoAt, Types, Label
<1>1. Types'
  BY <1>a DEF Types
<1>2. Places' /\ Locks'
  BY <1>a, Paths DEF Types, Places, Locks, Writing
<1>3. Cleaning' /\ Recent'
  BY <1>a, Onward
<1>4. Complete'
  BY <1>a, Paths DEF Complete, Writing
<1>5. Numbered'
  BY <1>a, SameCases
<1> QED
  BY <1>1, <1>2, <1>3, <1>4, <1>5

LEMMA BeginDownloadInv ==
  ASSUME IInv, NEW s \in Submissions, BeginDownload(s) PROVE IInv'
<1> USE DEF IInv
<1>a. /\ pc[s] = "test" /\ Goto(s, "download") /\ "download" \in Label
      /\ \A t \in Submissions : pc'[t] = IF t = s THEN "download" ELSE pc[t]
      /\ \A t \in Submissions : at'[t] = IF t = s THEN Standard ELSE at[t]
      /\ UNCHANGED <<time, randomLock, mutex, todo, crashes, fails, suspect>>
  BY DEF BeginDownload, Goto, GotoAt, Types, Label
<1>b. /\ holder[Standard] = None /\ ~ cache[Standard].there
      /\ \A p \in Path : holder'[p] = IF p = Standard THEN s ELSE holder[p]
      /\ \A p \in Path : cache'[p] = IF p = Standard THEN Begun({ Version[s] }) ELSE cache[p]
  BY Paths DEF BeginDownload, Lock, Types
<1>1. Types'
  <2>1. Begun({ Version[s] }) \in Entry
    BY CacheAssumption DEF Begun, Entry
  <2>2. /\ cache' \in [Path -> Entry] /\ holder' \in [Path -> Submissions \cup {None}]
        /\ pc' \in [Submissions -> Label] /\ at' \in [Submissions -> Path]
    BY <1>a, <2>1, Paths DEF BeginDownload, Lock, Goto, GotoAt, Types
  <2>3. \A p \in Path : /\ cache'[p].there \/ cache'[p] = Absent
                        /\ cache'[p].from \subseteq { Version[t] : t \in Submissions }
    BY <1>b DEF Types, Begun
  <2> QED
    BY <1>a, <2>2, <2>3 DEF Types
<1>2. Places' /\ Locks'
  BY <1>a, <1>b, Versions, Paths DEF Types, Places, Locks, Writing
<1>3. Cleaning' /\ Recent'
  <2>1. suspect # Path => \A p \in Path \ suspect : \A v \in cache'[p].from :
                            v \in cache[p].from \/ v >= time
    BY <1>a, <1>b, Versions, Judged DEF Begun
  <2> QED
    BY <1>a, <2>1, Onward
<1>4. Complete'
  <2>1. \A t \in Submissions :
          pc[t] \in Writing \cup { "await", "run" } /\ at[t] \notin suspect => at[t] # Standard
    BY <1>b, Versions, Paths DEF Locks, Complete
  <2>2. /\ cache'[Standard].error = FALSE
        /\ cache'[Standard].there /\ ~ cache'[Standard].whole /\ holder'[Standard] = s
    BY <1>b, Paths DEF Begun
  <2>3. \A t \in Submissions :
          pc'[t] \in Writing \cup { "await", "run" } /\ at'[t] \notin suspect =>
            \/ t = s /\ at'[t] = Standard /\ pc'[t] = "download"
            \/ /\ pc'[t] = pc[t] /\ at'[t] = at[t] /\ at[t] \in Path
               /\ cache'[at[t]] = cache[at[t]]
    BY <1>a, <1>b, <2>1 DEF Types
  <2>4. \A p \in Data \ suspect :
          cache'[p].there /\ holder'[p] = None /\ ~ cache'[p].error => cache'[p].whole
    BY <1>b, <2>2, Versions, Paths DEF Complete
  <2> QED
    BY <1>a, <2>2, <2>3, <2>4 DEF Complete, Writing
<1>5. Numbered'
  BY <1>b, Paths, SameCases DEF Data
<1> QED
  BY <1>1, <1>2, <1>3, <1>4, <1>5

\* Two that work at, wait for or use the same path: one of them neither writes it nor
\* has the other write it, unless the path is suspect.
LEMMA OneWriter ==
  ASSUME IInv, NEW s \in Submissions, NEW t \in Submissions, s # t,
         pc[s] \in Writing, pc[t] \in Writing \cup { "run" }, at[t] = at[s]
  PROVE  at[s] \in suspect
BY DEF IInv, Locks, Complete, Writing

LEMMA EndDownloadInv ==
  ASSUME IInv, NEW s \in Submissions, EndDownload(s) PROVE IInv'
<1> USE DEF IInv
<1>a. /\ pc[s] = "download" /\ at[s] = Standard
      /\ UNCHANGED <<time, randomLock, mutex, todo, at, crashes>>
      /\ \A q \in Path : holder'[q] = IF q = Standard /\ holder[q] = s THEN None ELSE holder[q]
      /\ holder' \in [Path -> Submissions \cup {None}]
  BY Paths, Unlocking DEF EndDownload, Places
<1>b. \A t \in Submissions :
        t # s /\ pc[t] \in Writing \cup { "run" } /\ at[t] \notin suspect => at[t] # Standard
  BY <1>a, OneWriter DEF Writing
<1>1. ASSUME Goto(s, "run"), UNCHANGED <<fails, suspect>>,
             cache' \in [Path -> Entry],
             \A q \in Path : q # Standard => cache'[q] = cache[q],
             cache[Standard].there => cache'[Standard].whole,
             cache'[Standard].there, cache'[Standard].error = FALSE,
             cache'[Standard].from \subseteq cache[Standard].from \cup { Version[s] }
      PROVE  IInv'
  <2>a. /\ pc' \in [Submissions -> Label] /\ "run" \in Label
        /\ \A t \in Submissions : pc'[t] = IF t = s THEN "run" ELSE pc[t]
    BY <1>1 DEF Goto, Types, Label
  <2>1. Types'
    <3>1. \A q \in Path : /\ cache'[q].there \/ cache'[q] = Absent
                          /\ cache'[q].from \subseteq { Version[t] : t \in Submissions }
      BY <1>1 DEF Types
    <3> QED
      BY <1>1, <1>a, <2>a, <3>1 DEF Types
  <2>2. Places' /\ Locks'
    BY <1>1, <1>a, <2>a, Versions, Paths DEF Types, Places, Locks, Writing
  <2>3. Cleaning' /\ Recent'
    <3>1. suspect # Path => \A p \in Path \ suspect : \A v \in cache'[p].from :
                              v \in cache[p].from \/ v >= time
      BY <1>1, <1>a, Versions, Judged
    <3> QED
      BY <1>1, <1>a, <2>a, <3>1, Onward
  <2>4. Complete'
    <3>1. Standard \notin suspect => cache'[Standard].whole
      BY <1>1, <1>a DEF Complete, Writing
    <3>2. \A t \in Submissions :
            pc'[t] \in Writing \cup { "await", "run" } /\ at'[t] \notin suspect =>
              \/ t = s /\ at'[t] = Standard /\ pc'[t] = "run"
              \/ /\ pc'[t] = pc[t] /\ at'[t] = at[t] /\ at[t] \in Path
                 /\ cache'[at[t]] = cache[at[t]]
      BY <1>1, <1>a, <1>b, <2>a, Paths DEF Types, Places
    <3>3. \A p \in Data \ suspect :
            cache'[p].there /\ holder'[p] = None /\ ~ cache'[p].error => cache'[p].whole
      BY <1>1, <1>a, <3>1, Paths DEF Complete
    <3> QED
      BY <1>1, <3>1, <3>2, <3>3 DEF Complete, Writing
  <2>5. Numbered'
    BY <1>1, Paths, SameCases
  <2> QED
    BY <2>1, <2>2, <2>3, <2>4, <2>5
<1>2. CASE /\ IF cache[Standard].there
              THEN Completed(s, Standard, { Version[s] })
              ELSE cache' = [cache EXCEPT ![Standard] = Begun({ Version[s] })]
           /\ Goto(s, "run") /\ UNCHANGED <<fails, suspect>>
  <2>1. CASE cache[Standard].there
    <3>1. cache[Standard].error = FALSE /\ cache[Standard] \in Entry
      BY Paths DEF Complete, Types
    <3>2. /\ Completed(s, Standard, { Version[s] })
          /\ { Version[s] } \in SUBSET { Version[t] : t \in Submissions }
          /\ Types /\ Standard \in Path
      BY <1>2, <2>1, Paths
    <3>3. /\ cache' \in [Path -> Entry] /\ cache'[Standard].whole
          /\ \A q \in Path : q # Standard => cache'[q] = cache[q]
          /\ cache'[Standard].there = cache[Standard].there
          /\ cache'[Standard].error = cache[Standard].error
          /\ cache'[Standard].from \subseteq cache[Standard].from \cup { Version[s] }
      <4> HIDE DEF IInv
      <4> QED
        BY <2>1, <3>2, Completing
    <3>4. cache'[Standard].there /\ cache'[Standard].error = FALSE
      BY <2>1, <3>1, <3>3
    <3>5. Goto(s, "run") /\ UNCHANGED <<fails, suspect>>
      BY <1>2
    <3> QED
      BY <1>1, <3>3, <3>4, <3>5, Zenon
  <2>2. CASE ~ cache[Standard].there
    <3>1. Begun({ Version[s] }) \in Entry
      BY CacheAssumption DEF Begun, Entry
    <3>2. cache' = [cache EXCEPT ![Standard] = Begun({ Version[s] })]
      BY <1>2, <2>2
    <3>3. /\ cache' \in [Path -> Entry] /\ cache'[Standard] = Begun({ Version[s] })
          /\ \A q \in Path : q # Standard => cache'[q] = cache[q]
      BY <3>1, <3>2, Paths DEF Types
    <3> QED
      BY <1>1, <1>2, <2>2, <3>3 DEF Begun
  <2> QED
    BY <2>1, <2>2
<1>3. CASE /\ Failing /\ suspect' = suspect \cup { Standard }
           /\ Goto(s, "done") /\ UNCHANGED cache
  <2>a. /\ pc' \in [Submissions -> Label] /\ "done" \in Label
        /\ \A t \in Submissions : pc'[t] = IF t = s THEN "done" ELSE pc[t]
    BY <1>3 DEF Goto, Types, Label
  <2>1. Types'
    BY <1>3, <1>a, <2>a, Paths DEF Types, Failing
  <2>2. Places' /\ Locks'
    BY <1>3, <1>a, <2>a, Versions DEF Types, Places, Locks, Writing
  <2>3. Cleaning' /\ Recent'
    BY <1>3, <1>a, <2>a, Onward
  <2>4. Complete'
    BY <1>3, <1>a, <2>a, Paths DEF Types, Places, Complete, Writing
  <2>5. Numbered'
    BY <1>3, SameCases
  <2> QED
    BY <2>1, <2>2, <2>3, <2>4, <2>5
<1> QED
  BY <1>2, <1>3 DEF EndDownload

LEMMA BeginGenerateInv ==
  ASSUME IInv, NEW s \in Submissions, BeginGenerate(s) PROVE IInv'
<1> USE DEF IInv
<1> DEFINE k == NextCase
<1>k. k \in Case /\ k \in Path /\ k \in Data /\ k # Standard /\ k # Program /\ k \notin Cases
  BY CaseCount, CacheAssumption, Paths DEF BeginGenerate, Case, Program, Standard, Data
<1>a. /\ pc[s] = "test" /\ Goto(s, "generate") /\ "generate" \in Label
      /\ \A t \in Submissions : pc'[t] = IF t = s THEN "generate" ELSE pc[t]
      /\ at' = [at EXCEPT ![s] = k]
      /\ \A t \in Submissions : at'[t] = IF t = s THEN k ELSE at[t]
      /\ UNCHANGED <<time, randomLock, mutex, todo, crashes, fails, suspect>>
  BY DEF BeginGenerate, Goto, GotoAt, Types, Label
<1>b. /\ holder[k] = None /\ ~ cache[k].there
      /\ holder' = [holder EXCEPT ![k] = s] /\ cache' = [cache EXCEPT ![k] = Begun({})]
      /\ \A p \in Path : holder'[p] = IF p = k THEN s ELSE holder[p]
      /\ \A p \in Path : cache'[p] = IF p = k THEN Begun({}) ELSE cache[p]
  BY <1>k DEF BeginGenerate, Lock, Types, Cases
<1> HIDE DEF k
<1>1. Types'
  <2>1. Begun({}) \in Entry
    BY DEF Begun, Entry
  <2>2. /\ cache' \in [Path -> Entry] /\ holder' \in [Path -> Submissions \cup {None}]
        /\ pc' \in [Submissions -> Label] /\ at' \in [Submissions -> Path]
    BY <1>a, <1>b, <1>k, <2>1 DEF Goto, Types
  <2>3. \A p \in Path : /\ cache'[p].there \/ cache'[p] = Absent
                        /\ cache'[p].from \subseteq { Version[t] : t \in Submissions }
    BY <1>b DEF Types, Begun
  <2> QED
    BY <1>a, <2>2, <2>3 DEF Types
<1>2. Places' /\ Locks'
  BY <1>a, <1>b, <1>k, Versions DEF Types, Places, Locks, Writing
<1>3. Cleaning' /\ Recent'
  <2>1. suspect # Path => \A p \in Path \ suspect : \A v \in cache'[p].from :
                            v \in cache[p].from \/ v >= time
    BY <1>b DEF Begun
  <2> QED
    BY <1>a, <2>1, Onward
<1>4. Complete'
  <2>1. \A t \in Submissions :
          pc[t] \in Writing \cup { "await", "run" } /\ at[t] \notin suspect => at[t] # k
    BY <1>b, Versions DEF Locks, Complete
  <2>2. /\ cache'[k].error = FALSE
        /\ cache'[k].there /\ ~ cache'[k].whole /\ holder'[k] = s
        /\ cache'[Standard] = cache[Standard]
    BY <1>b, <1>k, Paths DEF Begun
  <2>3. \A t \in Submissions :
          pc'[t] \in Writing \cup { "await", "run" } /\ at'[t] \notin suspect =>
            \/ t = s /\ at'[t] = k /\ pc'[t] = "generate"
            \/ /\ pc'[t] = pc[t] /\ at'[t] = at[t] /\ at[t] \in Path
               /\ cache'[at[t]] = cache[at[t]]
    BY <1>a, <1>b, <2>1 DEF Types
  <2>4. \A p \in Data \ suspect :
          cache'[p].there /\ holder'[p] = None /\ ~ cache'[p].error => cache'[p].whole
    BY <1>b, <2>2, Versions, Paths DEF Complete
  <2> QED
    BY <1>a, <2>2, <2>3, <2>4 DEF Complete, Writing
<1>5. Numbered'
  <2>1. Cases' = Cases \cup { k }
    BY <1>b, <1>k, Paths DEF Cases, Begun
  <2>2. Cases = 0 .. (k - 1) /\ k \in 0 .. (MaxRandom - 1)
    BY <1>k, CaseCount DEF k, Case
  <2>3. k + 1 \in 0 .. MaxRandom /\ Cases' = 0 .. ((k + 1) - 1)
    BY <2>1, <2>2, CacheAssumption
  <2> QED
    BY <2>3 DEF Numbered
<1> QED
  BY <1>1, <1>2, <1>3, <1>4, <1>5

\* The mark of a failure changes nothing else.
LEMMA Marking ==
  ASSUME Types, NEW p \in Path, Marked(p)
  PROVE  /\ cache' \in [Path -> Entry]
         /\ \A q \in Path : q # p => cache'[q] = cache[q]
         /\ cache'[p].there => cache'[p].error
         /\ \A q \in Path : /\ cache'[q].there = cache[q].there
                            /\ cache'[q].from = cache[q].from
                            /\ cache'[q].there \/ cache'[q] = Absent
<1>1. cache[p] \in Entry
  BY DEF Types
<1>2. CASE cache[p].there
  <2> DEFINE new == [cache[p] EXCEPT !.error = TRUE]
  <2>1. cache' = [cache EXCEPT ![p] = new]
    BY <1>2 DEF Marked
  <2>2. new \in Entry /\ new.there /\ new.error /\ new.from = cache[p].from
    BY <1>1, <1>2 DEF Entry
  <2> HIDE DEF new
  <2> QED
    BY <1>2, <2>1, <2>2 DEF Types
<1>3. CASE ~ cache[p].there
  <2>1. cache' = cache
    BY <1>3 DEF Marked, Types
  <2> QED
    BY <1>3, <2>1 DEF Types
<1> QED
  BY <1>2, <1>3

LEMMA EndGenerateInv ==
  ASSUME IInv, NEW s \in Submissions, EndGenerate(s) PROVE IInv'
<1> USE DEF IInv
<1> DEFINE k == at[s]
<1>k. k \in Case /\ k \in Path /\ k \in Data /\ k # Standard /\ k # Program
  BY Paths DEF EndGenerate, Places, Data
<1>a. /\ pc[s] = "generate"
      /\ UNCHANGED <<time, randomLock, mutex, todo, at, crashes, suspect>>
      /\ \A q \in Path : holder'[q] = IF q = k /\ holder[q] = s THEN None ELSE holder[q]
      /\ holder' \in [Path -> Submissions \cup {None}]
  BY <1>k, Unlocking DEF EndGenerate
<1>b. \A t \in Submissions :
        t # s /\ pc[t] \in Writing \cup { "run" } /\ at[t] \notin suspect => at[t] # k
  BY <1>a, OneWriter DEF Writing
<1>1. CASE /\ cache[Program].whole /\ Completed(s, k, cache[Program].from)
           /\ Goto(s, "run") /\ UNCHANGED fails
  <2>a. /\ pc' \in [Submissions -> Label] /\ "run" \in Label
        /\ \A t \in Submissions : pc'[t] = IF t = s THEN "run" ELSE pc[t]
    BY <1>1 DEF Goto, Types, Label
  <2>b. /\ cache' \in [Path -> Entry]
        /\ \A q \in Path : q # k => cache'[q] = cache[q]
        /\ cache[k].there => cache'[k].whole
        /\ cache'[k].there = cache[k].there /\ cache'[k].error = cache[k].error
        /\ cache'[k].from \subseteq cache[k].from \cup cache[Program].from
        /\ \A q \in Path : /\ cache'[q].there \/ cache'[q] = Absent
                           /\ cache'[q].from \subseteq { Version[t] : t \in Submissions }
    <3>1. cache[Program].from \in SUBSET { Version[t] : t \in Submissions }
      BY Paths DEF Types
    <3>2. Types /\ Completed(s, k, cache[Program].from)
      BY <1>1
    <3> HIDE DEF IInv, k
    <3> QED
      BY <1>k, <3>1, <3>2, Completing
  <2> HIDE DEF k
  <2>1. Types'
    BY <1>1, <1>a, <2>a, <2>b DEF Types
  <2>2. Places' /\ Locks'
    BY <1>a, <1>k, <2>a, Versions DEF k, Types, Places, Locks, Writing
  <2>3. Cleaning' /\ Recent'
    <3>1. suspect # Path => \A v \in cache[Program].from : v >= time
      BY Paths DEF Cleaning, Recent
    <3>2. suspect # Path => \A p \in Path \ suspect : \A v \in cache'[p].from :
                              v \in cache[p].from \/ v >= time
      BY <2>b, <3>1
    <3> QED
      BY <1>1, <1>a, <2>a, <3>2, Onward
  <2>4. Complete'
    <3>1. k \notin suspect => cache'[k].there /\ cache'[k].whole /\ ~ cache'[k].error
      BY <1>a, <2>b DEF k, Complete, Writing
    <3>2. \A t \in Submissions :
            pc'[t] \in Writing \cup { "run" } /\ at'[t] \notin suspect =>
              \/ t = s /\ at'[t] = k /\ pc'[t] = "run"
              \/ /\ pc'[t] = pc[t] /\ at'[t] = at[t] /\ at[t] \in Path
                 /\ cache'[at[t]] = cache[at[t]]
      BY <1>a, <1>b, <2>a, <2>b DEF k, Types
    <3>3. \A p \in Data \ suspect :
            cache'[p].there /\ holder'[p] = None /\ ~ cache'[p].error => cache'[p].whole
      BY <1>a, <2>b, <3>1, Paths DEF Complete
    <3>4. \A t \in Submissions :
            pc'[t] = "await" /\ at'[t] \notin suspect => cache'[at'[t]].there
      BY <1>a, <2>a, <2>b DEF Types, Complete
    <3>5. cache'[Standard].error = FALSE
      BY <1>k, <2>b, Paths DEF Complete
    <3> QED
      BY <1>a, <3>1, <3>2, <3>3, <3>4, <3>5 DEF Complete, Writing
  <2>5. Numbered'
    BY <2>b, Paths, SameCases
  <2> QED
    BY <2>1, <2>2, <2>3, <2>4, <2>5
<1>2. CASE /\ IF cache[Program].whole THEN Failing ELSE UNCHANGED fails
           /\ Marked(k) /\ Goto(s, "done")
  <2>a. /\ pc' \in [Submissions -> Label] /\ "done" \in Label /\ fails' \in Nat
        /\ \A t \in Submissions : pc'[t] = IF t = s THEN "done" ELSE pc[t]
    BY <1>2 DEF Goto, Types, Label, Failing
  <2>b. /\ cache' \in [Path -> Entry]
        /\ \A q \in Path : q # k => cache'[q] = cache[q]
        /\ cache'[k].there => cache'[k].error
        /\ \A q \in Path : /\ cache'[q].there = cache[q].there
                           /\ cache'[q].from = cache[q].from
                           /\ cache'[q].there \/ cache'[q] = Absent
    BY <1>2, <1>k, Marking
  <2> HIDE DEF k
  <2>1. Types'
    BY <1>a, <2>a, <2>b DEF Types
  <2>2. Places' /\ Locks'
    BY <1>a, <1>k, <2>a, Versions DEF k, Types, Places, Locks, Writing
  <2>3. Cleaning' /\ Recent'
    <3>1. \A p \in Path : \A v \in cache'[p].from : v \in cache[p].from
      BY <2>b
    <3> QED
      BY <1>2, <1>a, <2>a, <3>1, Onward
  <2>4. Complete'
    <3>1. \A t \in Submissions :
            pc'[t] \in Writing \cup { "run" } /\ at'[t] \notin suspect =>
              /\ pc'[t] = pc[t] /\ at'[t] = at[t] /\ at[t] \in Path
              /\ cache'[at[t]] = cache[at[t]]
      BY <1>a, <1>b, <2>a, <2>b DEF Types, Writing
    <3>2. \A p \in Data \ suspect :
            cache'[p].there /\ holder'[p] = None /\ ~ cache'[p].error => cache'[p].whole
      BY <1>a, <2>b, Paths DEF Complete
    <3>3. \A t \in Submissions :
            pc'[t] = "await" /\ at'[t] \notin suspect => cache'[at'[t]].there
      BY <1>a, <2>a, <2>b DEF Types, Complete
    <3>4. cache'[Standard].error = FALSE
      BY <1>k, <2>b, Paths DEF Complete
    <3> QED
      BY <1>a, <3>1, <3>2, <3>3, <3>4 DEF Complete, Writing
  <2>5. Numbered'
    BY <2>b, Paths, SameCases
  <2> QED
    BY <2>1, <2>2, <2>3, <2>4, <2>5
<1> QED
  BY <1>1, <1>2 DEF EndGenerate

LEMMA ChooseCaseInv ==
  ASSUME IInv, NEW s \in Submissions, ChooseCase(s) PROVE IInv'
<1> USE DEF IInv
<1>1. PICK k \in Case : GotoAt(s, "await", k)
  BY DEF ChooseCase
<1>k. k \in Path /\ cache[k].there
  BY CaseCount, CacheAssumption, Paths DEF ChooseCase, Case, Cases
<1>a. /\ pc[s] = "test" /\ Goto(s, "await") /\ "await" \in Label
      /\ \A t \in Submissions : pc'[t] = IF t = s THEN "await" ELSE pc[t]
      /\ \A t \in Submissions : at'[t] = IF t = s THEN k ELSE at[t]
      /\ pc' \in [Submissions -> Label] /\ at' \in [Submissions -> Path]
      /\ randomLock = None /\ randomLock' = s
      /\ UNCHANGED <<time, cache, holder, mutex, todo, crashes, fails, suspect>>
  BY <1>1, <1>k DEF ChooseCase, Goto, GotoAt, Types, Label
<1>2. Types'
  BY <1>a DEF Types
<1>3. Places' /\ Locks'
  BY <1>1, <1>a, Paths DEF Types, Places, Locks, Writing
<1>4. Cleaning' /\ Recent'
  BY <1>a, Onward
<1>5. Complete'
  BY <1>k, <1>a, Paths DEF Complete, Writing
<1>6. Numbered'
  BY <1>a, SameCases
<1> QED
  BY <1>2, <1>3, <1>4, <1>5, <1>6

LEMMA UseCaseInv ==
  ASSUME IInv, NEW s \in Submissions, UseCase(s) PROVE IInv'
<1> USE DEF IInv
<1> DEFINE l == IF cache[at[s]].error THEN "done" ELSE "run"
<1>a. /\ pc[s] = "await" /\ Goto(s, l) /\ l \in Label \ { "queued", "clean", "disturb" }
      /\ \A t \in Submissions : pc'[t] = IF t = s THEN l ELSE pc[t]
      /\ pc' \in [Submissions -> Label]
      /\ randomLock' = IF randomLock = s THEN None ELSE randomLock
      /\ holder[at[s]] = None
      /\ UNCHANGED <<time, cache, holder, mutex, todo, at, crashes, fails, suspect>>
  BY DEF UseCase, Goto, Types, Label
<1>b. at[s] \in Case /\ at[s] \in Data
  BY <1>a DEF Places, Data
<1>c. l \in { "done", "run" } /\ (l = "run" => ~ cache[at[s]].error)
  OBVIOUS
<1> HIDE DEF l
<1>1. Types'
  BY <1>a DEF Types
<1>2. Places' /\ Locks'
  BY <1>a, <1>b, <1>c DEF Types, Places, Locks, Writing
<1>3. Cleaning' /\ Recent'
  BY <1>a, Onward
<1>4. Complete'
  <2>1. l = "run" /\ at[s] \notin suspect =>
          cache[at[s]].there /\ cache[at[s]].whole /\ ~ cache[at[s]].error
    BY <1>a, <1>b, <1>c DEF Complete
  <2>2. \A t \in Submissions :
          pc'[t] \in Writing \cup { "await", "run" } =>
            (t = s /\ pc'[t] = "run" /\ l = "run") \/ pc'[t] = pc[t]
    BY <1>a, <1>c DEF Writing
  <2> QED
    BY <1>a, <2>1, <2>2 DEF Complete, Writing
<1>5. Numbered'
  BY <1>a, SameCases
<1> QED
  BY <1>1, <1>2, <1>3, <1>4, <1>5

LEMMA RunInv ==
  ASSUME IInv, NEW s \in Submissions, Run(s) PROVE IInv'
<1> USE DEF IInv
<1>a. /\ pc[s] = "run" /\ Goto(s, "done") /\ "done" \in Label
      /\ \A t \in Submissions : pc'[t] = IF t = s THEN "done" ELSE pc[t]
      /\ UNCHANGED <<time, cache, holder, randomLock, mutex, todo, at, crashes, fails, suspect>>
  BY DEF Run, Goto, Types, Label
<1>1. Types'
  BY <1>a DEF Types, Goto
<1>2. Places' /\ Locks'
  BY <1>a DEF Types, Places, Locks, Writing
<1>3. Cleaning' /\ Recent'
  BY <1>a, Onward
<1>4. Complete'
  BY <1>a DEF Complete, Writing
<1>5. Numbered'
  BY <1>a, SameCases
<1> QED
  BY <1>1, <1>2, <1>3, <1>4, <1>5

LEMMA CrashInv == IInv /\ Crash => IInv'
<1> SUFFICES ASSUME IInv, Crash PROVE IInv'
  OBVIOUS
<1> USE DEF IInv
<1>a. /\ \A s \in Submissions : pc'[s] = IF s \in InFlight THEN "queued" ELSE pc[s]
      /\ pc' \in [Submissions -> Label]
      /\ \A p \in Path : holder'[p] = None
      /\ holder' \in [Path -> Submissions \cup {None}]
      /\ randomLock' = None /\ mutex' = None /\ todo' = {}
      /\ crashes' \in Nat /\ UNCHANGED <<time, cache, at, fails>>
  BY DEF Crash, Types, Label
<1>b. \A s \in Submissions : pc'[s] \in { "queued", "done" }
  BY <1>a DEF InFlight
<1>c. /\ suspect \subseteq suspect' /\ suspect' \subseteq Path
      /\ suspect = Path => suspect' = Path
      /\ mutex # None => suspect' = Path
      /\ \A s \in Submissions : pc[s] \in { "download", "generate" } => at[s] \in suspect'
  BY DEF Crash, Types
<1>1. Types'
  BY <1>a, <1>c DEF Types
<1>2. Places' /\ Locks'
  BY <1>a, <1>b DEF Places, Locks, Writing
<1>3. Cleaning'
  <2>1. Program \in suspect' => suspect' = Path
    BY <1>c, Paths DEF Crash, Cleaning, Places, Data
  <2> QED
    BY <1>a, <1>b, <2>1, Versions DEF Cleaning
<1>4. Recent'
  <2>1. suspect' # Path => suspect # Path /\ mutex = None
    BY <1>c
  <2> QED
    BY <1>a, <1>b, <1>c, <2>1 DEF Recent
<1>5. Complete'
  <2>1. \A p \in Data \ suspect' : holder[p] = None
    <3> SUFFICES ASSUME NEW p \in Data \ suspect', holder[p] # None PROVE FALSE
      OBVIOUS
    <3>1. holder[p] \in Submissions /\ pc[holder[p]] \in Writing /\ at[holder[p]] = p
      BY Paths DEF Types, Locks
    <3> QED
      BY <1>c, <3>1, Paths DEF Places, Writing
  <2>2. \A p \in Data \ suspect' : cache'[p].there /\ ~ cache'[p].error => cache'[p].whole
    BY <1>a, <1>c, <2>1 DEF Complete
  <2> QED
    BY <1>a, <1>b, <2>2 DEF Complete, Writing
<1>6. Numbered'
  BY <1>a, SameCases
<1> QED
  BY <1>1, <1>2, <1>3, <1>4, <1>5, <1>6

LEMMA StutterInv == IInv /\ UNCHANGED vars => IInv'
<1> SUFFICES ASSUME IInv, UNCHANGED vars PROVE IInv'
  OBVIOUS
<1> USE DEF vars
<1>1. Types' /\ Places' /\ Locks'
  BY DEF IInv, Types, Places, Locks
<1>2. Cleaning' /\ Recent'
  BY DEF IInv, Cleaning, Recent
<1>3. Complete' /\ Numbered'
  BY DEF IInv, Complete, Numbered, Cases
<1> QED
  BY <1>1, <1>2, <1>3 DEF IInv

LEMMA NextInv == IInv /\ [Next]_vars => IInv'
<1> SUFFICES ASSUME IInv, [Next]_vars PROVE IInv'
  OBVIOUS
<1>1. ASSUME NEW s \in Submissions, Step(s) PROVE IInv'
  <2>1. CASE VerifyRecent(s) \/ VerifyOutdated(s) \/ Clean(s) \/ Cleaned(s)
    BY <2>1, VerifyRecentInv, VerifyOutdatedInv, CleanInv, CleanedInv
  <2>2. CASE SkipCompile(s) \/ BeginCompile(s) \/ EndCompile(s)
    BY <2>2, SkipCompileInv, BeginCompileInv, EndCompileInv
  <2>3. CASE UseStandard(s) \/ BeginDownload(s) \/ EndDownload(s)
    BY <2>3, UseStandardInv, BeginDownloadInv, EndDownloadInv
  <2>4. CASE BeginGenerate(s) \/ EndGenerate(s)
    BY <2>4, BeginGenerateInv, EndGenerateInv
  <2>5. CASE ChooseCase(s) \/ UseCase(s) \/ Run(s)
    BY <2>5, ChooseCaseInv, UseCaseInv, RunInv
  <2> QED
    BY <1>1, <2>1, <2>2, <2>3, <2>4, <2>5 DEF Step
<1> QED
  BY <1>1, CrashInv, StutterInv DEF Next

-----------------------------------------------------------------------------
(* The theorems.                                                           *)

\* IInv holds in every reachable state (verify_timeliness, source_code::fetch and
\* judge_impl, with their failures and crashes).
THEOREM Invariance == Spec => []IInv
<1>1. Init => IInv
  BY InitInv
<1>2. IInv /\ [Next]_vars => IInv'
  BY NextInv
<1> QED
  BY <1>1, <1>2, PTL DEF Spec

\* The types of the cache, and what its locks are held for: a lock that a path has is
\* held by who writes there, the lock of all random cases by one that waits for a case.
THEOREM TypeCorrect == Spec => []TypeOK
<1>1. IInv => TypeOK
  <2> SUFFICES ASSUME IInv PROVE TypeOK
    OBVIOUS
  <2>1. mutex = None <=> \A s \in Submissions : pc[s] \notin { "clean", "disturb" }
    BY Versions DEF IInv, Types, Cleaning
  <2> QED
    BY <2>1 DEF IInv, Types, Locks, Cleaning, TypeOK, Writing
<1> QED
  BY <1>1, Invariance, PTL

\* No two submissions write the same program, standard data or random case at the same
\* time, except where a cleaning under their hands has removed the lock.
THEOREM Apart == Spec => []WritersApart
<1>1. IInv => WritersApart
  BY OneWriter DEF WritersApart, Writing
<1> QED
  BY <1>1, Invariance, PTL

\* A test runs with data that are complete, free of errors and as recent as its
\* submission, except for what is suspect.
THEOREM DataFresh == Spec => []Fresh
<1>1. IInv => Fresh
  <2> SUFFICES ASSUME IInv, NEW s \in Submissions, pc[s] = "run", at[s] \notin suspect
               PROVE  Good(s)
    BY DEF Fresh
  <2>1. at[s] \in Path /\ suspect # Path
    BY DEF IInv, Types
  <2>2. Version[s] = time /\ \A v \in cache[at[s]].from : v >= Version[s]
    BY <2>1 DEF IInv, Recent
  <2> QED
    BY <2>2 DEF IInv, Complete, Good
<1> QED
  BY <1>1, Invariance, PTL
=============================================================================
