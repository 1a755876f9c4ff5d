----------------------------- MODULE ProblemCache -----------------------------
(***************************************************************************)
(* The cache of one problem: the compiled standard program, the standard   *)
(* test data, the cases of random test data, and the time of the version   *)
(* they belong to; and the submissions of one process that fill, use and   *)
(* clean it.                                                               *)
(*                                                                         *)
(* Files are written by path and locked by inode: when a directory is      *)
(* cleaned, the lock of who works in it no longer keeps anybody out.  The  *)
(* lock on the problem's directory that should prevent this (problem_lock) *)
(* is no lock: open() for writing fails on a directory, and nothing looks  *)
(* at its result.                                                          *)
(***************************************************************************)
EXTENDS Integers, FiniteSets

CONSTANTS
  Submissions,
  Version,         \* Version[s]: the updated_at of a submission's problem, a Nat
  Now,             \* the time of day, later than any version
  MaxRandom,       \* MAX_RANDOM_DATA_NUM
  MaxCrashes,      \* bound: crashes
  MaxFails,        \* bound: failures of compilers, downloads and generators
  None

ASSUME CacheAssumption ==
  /\ None \notin Submissions
  /\ Now \in Nat
  /\ Version \in [Submissions -> 0 .. Now]
  /\ MaxRandom \in Nat \ {0} /\ MaxCrashes \in Nat /\ MaxFails \in Nat

\* What is cached: the program, the standard data, and the random cases 0, 1, ...
Case == 0 .. MaxRandom - 1
Program == -1
Standard == -2
Path == { Program, Standard } \cup Case
\* .time, as an entry of the directory that is cleaned
TimeFile == -3

VARIABLES
  time,            \* the modification time of .time; -1 if there is no such file
  cache,           \* what is at each path
  holder,          \* who holds the lock of each path
  randomLock,      \* who holds the lock of the directory of all random cases
  mutex,           \* server_mutex
  todo,            \* the entries still to clean
  pc, at,          \* what a submission does, at which path
  crashes, fails,
  suspect          \* history: paths whose content was disturbed, see Fresh

vars == <<time, cache, holder, randomLock, mutex, todo, pc, at, crashes, fails, suspect>>

\* from: the versions that what is at a path was made of; whole: it is complete
\* (for the program: it has its .compiled mark); error: the mark of a failed case.
Entry == [ there : BOOLEAN, whole : BOOLEAN, error : BOOLEAN, from : SUBSET Nat ]
Absent == [ there |-> FALSE, whole |-> FALSE, error |-> FALSE, from |-> {} ]
Begun(versions) == [ there |-> TRUE, whole |-> FALSE, error |-> FALSE, from |-> versions ]

Init ==
  /\ time = -1
  /\ cache = [ p \in Path |-> Absent ]
  /\ holder = [ p \in Path |-> None ]
  /\ randomLock = None /\ mutex = None /\ todo = {}
  /\ pc = [ s \in Submissions |-> "queued" ]
  /\ at = [ s \in Submissions |-> Program ]
  /\ crashes = 0 /\ fails = 0
  /\ suspect = {}

Goto(s, label) == pc' = [pc EXCEPT ![s] = label]
GotoAt(s, label, p) == Goto(s, label) /\ at' = [at EXCEPT ![s] = p]

InFlight == { s \in Submissions : pc[s] \notin { "queued", "done" } }

-----------------------------------------------------------------------------
(* verify_timeliness, under server_mutex.                                  *)

\* .time is created when it is missing, and then has the time of day.
TimeOf == IF time = -1 THEN Now ELSE time

\* The cache is recent enough: it gets the version of this submission, which may be
\* an older one, even while submissions of the newer version are judged.
VerifyRecent(s) ==
  /\ pc[s] = "queued" /\ mutex = None
  /\ Version[s] <= TimeOf
  /\ time' = Version[s]
  /\ suspect' = IF \E t \in InFlight : Version[t] > Version[s] THEN Path ELSE suspect
  /\ Goto(s, "compile")
  /\ UNCHANGED <<cache, holder, randomLock, mutex, todo, at, crashes, fails>>

\* The submission is of a newer version: the cache is cleaned, whoever uses it.
VerifyOutdated(s) ==
  /\ pc[s] = "queued" /\ mutex = None
  /\ Version[s] > TimeOf
  /\ time' = TimeOf
  /\ mutex' = s
  /\ todo' = Path \cup { TimeFile }
  /\ suspect' = IF InFlight = {} THEN suspect ELSE Path
  /\ Goto(s, IF InFlight = {} THEN "clean" ELSE "disturb")
  /\ UNCHANGED <<cache, holder, randomLock, at, crashes, fails>>

\* The entries of the directory are removed in any order, the locks in them too.
Clean(s) ==
  /\ pc[s] \in { "clean", "disturb" }
  /\ \/ /\ TimeFile \in todo
        /\ time' = -1
        /\ todo' = todo \ { TimeFile }
        /\ UNCHANGED <<cache, holder, randomLock>>
     \/ \E gone \in { {Program}, {Standard}, Case } :
          /\ gone \cap todo # {}
          /\ cache' = [ p \in Path |-> IF p \in gone THEN Absent ELSE cache[p] ]
          /\ holder' = [ p \in Path |-> IF p \in gone THEN None ELSE holder[p] ]
          /\ randomLock' = IF gone = Case THEN None ELSE randomLock
          /\ todo' = todo \ gone
          /\ UNCHANGED time
  /\ UNCHANGED <<mutex, pc, at, crashes, fails, suspect>>

Cleaned(s) ==
  /\ pc[s] \in { "clean", "disturb" }
  /\ todo = {}
  /\ time' = Version[s]
  /\ mutex' = None
  /\ suspect' = IF pc[s] = "clean" THEN {} ELSE suspect
  /\ Goto(s, "compile")
  /\ UNCHANGED <<cache, holder, randomLock, todo, at, crashes, fails>>

-----------------------------------------------------------------------------
(* What writers do to a path they have locked.                             *)

\* Mutation: the lock is a shared one.
LockShared(s, p) == holder' = [holder EXCEPT ![p] = s]

Lock(s, p) ==
  /\ holder[p] = None
  /\ holder' = [holder EXCEPT ![p] = s]

\* Mutation: the lock is not released.
UnlockNothing(s, p) == UNCHANGED holder

Unlock(s, p) == holder' = [holder EXCEPT ![p] = IF @ = s THEN None ELSE @]

\* The work of s at p is complete.  If p was cleaned meanwhile, what is written ends
\* up in what others have begun there since, or in nothing.
Completed(s, p, versions) ==
  LET old == cache[p] IN
  cache' = [cache EXCEPT ![p] =
              IF old.there
              THEN [old EXCEPT !.whole = TRUE, !.from = old.from \cup versions]
              ELSE old]

\* The mark of a failure at p, written likewise.
Marked(p) ==
  LET old == cache[p] IN
  cache' = [cache EXCEPT ![p] = IF old.there THEN [old EXCEPT !.error = TRUE] ELSE old]

Failing == fails < MaxFails /\ fails' = fails + 1

-----------------------------------------------------------------------------
(* source_code::fetch of the standard program, during the compile task.    *)

\* It is marked as compiled, for whatever version.
SkipCompile(s) ==
  /\ pc[s] = "compile" /\ holder[Program] = None
  /\ cache[Program].whole
  /\ Goto(s, "test")
  /\ UNCHANGED <<time, cache, holder, randomLock, mutex, todo, at, crashes, fails, suspect>>

BeginCompile(s) ==
  /\ pc[s] = "compile"
  /\ ~ cache[Program].whole
  /\ Lock(s, Program)
  /\ cache' = [cache EXCEPT ![Program] = Begun({ Version[s] })]
  /\ GotoAt(s, "compiling", Program)
  /\ UNCHANGED <<time, randomLock, mutex, todo, crashes, fails, suspect>>

EndCompile(s) ==
  /\ pc[s] = "compiling"
  /\ Unlock(s, Program)
  /\ \/ /\ Completed(s, Program, { Version[s] })
        /\ Goto(s, "test")
        /\ UNCHANGED fails
     \/ /\ Failing
        /\ Goto(s, "done")
        /\ UNCHANGED cache
  /\ UNCHANGED <<time, randomLock, mutex, todo, at, crashes, suspect>>

-----------------------------------------------------------------------------
(* Standard test data, in judge_impl.  A submission has a standard or a    *)
(* random test.                                                            *)

\* A directory that exists is taken as it is.
UseStandard(s) ==
  /\ pc[s] = "test"
  /\ holder[Standard] = None
  /\ cache[Standard].there
  /\ GotoAt(s, "run", Standard)
  /\ UNCHANGED <<time, cache, holder, randomLock, mutex, todo, crashes, fails, suspect>>

BeginDownload(s) ==
  /\ pc[s] = "test"
  /\ ~ cache[Standard].there
  /\ Lock(s, Standard)
  /\ cache' = [cache EXCEPT ![Standard] = Begun({ Version[s] })]
  /\ GotoAt(s, "download", Standard)
  /\ UNCHANGED <<time, randomLock, mutex, todo, crashes, fails, suspect>>

\* An asset that cannot be fetched ends the task with an exception and leaves the
\* directory behind.  remote_asset creates the directory again if it was removed.
EndDownload(s) ==
  /\ pc[s] = "download"
  /\ Unlock(s, Standard)
  /\ \/ /\ IF cache[Standard].there THEN Completed(s, Standard, { Version[s] })
           ELSE cache' = [cache EXCEPT ![Standard] = Begun({ Version[s] })]
        /\ Goto(s, "run")
        /\ UNCHANGED <<fails, suspect>>
     \/ /\ Failing
        /\ suspect' = suspect \cup { Standard }
        /\ Goto(s, "done")
        /\ UNCHANGED cache
  /\ UNCHANGED <<time, randomLock, mutex, todo, at, crashes>>

-----------------------------------------------------------------------------
(* Random test data, in judge_impl.                                        *)

Cases == { k \in Case : cache[k].there }
NextCase == Cardinality(Cases)

\* The cases are counted under the lock of them all; the new one is created and
\* locked before that lock is released.
BeginGenerate(s) ==
  /\ pc[s] = "test"
  /\ randomLock = None
  /\ NextCase < MaxRandom
  /\ Lock(s, NextCase)
  /\ cache' = [cache EXCEPT ![NextCase] = Begun({})]
  /\ GotoAt(s, "generate", NextCase)
  /\ UNCHANGED <<time, randomLock, mutex, todo, crashes, fails, suspect>>

\* Mutation: the lock of them all is needed once more at the end.
EndGenerateLocked(s) ==
  /\ pc[s] = "generate"
  /\ randomLock = None
  /\ Unlock(s, at[s])
  /\ Completed(s, at[s], cache[Program].from)
  /\ Goto(s, "run")
  /\ UNCHANGED <<time, randomLock, mutex, todo, at, crashes, fails, suspect>>

\* The generator runs the standard program that is in the cache.  A failure is marked
\* in the case, which is never generated again.
EndGenerate(s) ==
  /\ pc[s] = "generate"
  /\ Unlock(s, at[s])
  /\ \/ /\ cache[Program].whole
        /\ Completed(s, at[s], cache[Program].from)
        /\ Goto(s, "run")
        /\ UNCHANGED fails
     \/ /\ IF cache[Program].whole THEN Failing ELSE UNCHANGED fails
        /\ Marked(at[s])
        /\ Goto(s, "done")
  /\ UNCHANGED <<time, randomLock, mutex, todo, at, crashes, suspect>>

\* Enough cases: one of them is chosen.  The lock of them all is kept until the lock
\* of the case is obtained, that is, until the case has been generated.
ChooseCase(s) ==
  /\ pc[s] = "test"
  /\ randomLock = None
  /\ NextCase >= MaxRandom
  /\ randomLock' = s
  /\ \E k \in Case : GotoAt(s, "await", k)
  /\ UNCHANGED <<time, cache, holder, mutex, todo, crashes, fails, suspect>>

\* Mutation: the case is used without its lock.
UseCaseUnlocked(s) ==
  /\ pc[s] = "await"
  /\ randomLock' = IF randomLock = s THEN None ELSE randomLock
  /\ Goto(s, IF cache[at[s]].error THEN "done" ELSE "run")
  /\ UNCHANGED <<time, cache, holder, mutex, todo, at, crashes, fails, suspect>>

UseCase(s) ==
  /\ pc[s] = "await"
  /\ holder[at[s]] = None
  /\ randomLock' = IF randomLock = s THEN None ELSE randomLock
  /\ Goto(s, IF cache[at[s]].error THEN "done" ELSE "run")
  /\ UNCHANGED <<time, cache, holder, mutex, todo, at, crashes, fails, suspect>>

-----------------------------------------------------------------------------

\* The test runs with the data found.
Run(s) ==
  /\ pc[s] = "run"
  /\ Goto(s, "done")
  /\ UNCHANGED <<time, cache, holder, randomLock, mutex, todo, at, crashes, fails, suspect>>

\* The process ends and is started again: locks are gone, the files stay, and the
\* submissions in flight are delivered once more.  (A compiler or generator that outlives
\* the process would keep the lock whose descriptor it has inherited, as in module
\* ExecutableCache; here it ends with the process.)
Crash ==
  /\ crashes < MaxCrashes
  /\ crashes' = crashes + 1
  /\ suspect' = IF mutex # None THEN Path
                ELSE suspect \cup { at[s] : s \in { t \in Submissions :
                                                      pc[t] \in { "download", "generate" } } }
  /\ pc' = [ s \in Submissions |-> IF s \in InFlight THEN "queued" ELSE pc[s] ]
  /\ holder' = [ p \in Path |-> None ]
  /\ randomLock' = None /\ mutex' = None /\ todo' = {}
  /\ UNCHANGED <<time, cache, at, fails>>

Step(s) ==
  \/ VerifyRecent(s) \/ VerifyOutdated(s) \/ Clean(s) \/ Cleaned(s)
  \/ SkipCompile(s) \/ BeginCompile(s) \/ EndCompile(s)
  \/ UseStandard(s) \/ BeginDownload(s) \/ EndDownload(s)
  \/ BeginGenerate(s) \/ EndGenerate(s) \/ ChooseCase(s) \/ UseCase(s)
  \/ Run(s)

Next == (\E s \in Submissions : Step(s)) \/ Crash

\* Every submission is worked on by a worker; a lock that stays free is given to a
\* thread that waits for it.  Compilers, downloads, generators and tests are assumed to
\* end: their limits, if any, are of CPU time, which one that sleeps does not use up.
Spec == Init /\ [][Next]_vars /\ \A s \in Submissions : WF_vars(Step(s))

-----------------------------------------------------------------------------
(* Properties.                                                             *)

\* Type invariant, with what the locks are held for.
TypeOK ==
  /\ time \in -1 .. Now
  /\ \A p \in Path : cache[p].there \/ cache[p] = Absent
  /\ \A p \in Path : cache[p].from \subseteq { Version[s] : s \in Submissions }
  /\ \A p \in Path : holder[p] # None =>
        pc[holder[p]] \in { "compiling", "download", "generate" } /\ at[holder[p]] = p
  /\ randomLock # None => pc[randomLock] = "await"
  /\ mutex = None <=> \A s \in Submissions : pc[s] \notin { "clean", "disturb" }
  /\ todo # {} => mutex # None
  /\ suspect \subseteq Path

Good(s) ==
  /\ cache[at[s]].there /\ cache[at[s]].whole /\ ~ cache[at[s]].error
  /\ \A v \in cache[at[s]].from : v >= Version[s]

\* A test runs with data that are complete, were generated without error and are at
\* least as recent as its submission, except for what is suspect: the standard data
\* after a download that failed or was interrupted, a case whose generation was
\* interrupted, and everything after a cleaning that was interrupted, after a cleaning
\* while submissions were judged, and after an older submission joined newer ones -
\* until the next cleaning that nobody is disturbed by.
Fresh == \A s \in Submissions : pc[s] = "run" => at[s] \in suspect \/ Good(s)

Writing == { "compiling", "download", "generate" }

\* Two submissions work on the same program, data or case at the same time only
\* after a cleaning under their hands.
WritersApart ==
  \A s, t \in Submissions :
    s # t /\ pc[s] \in Writing /\ pc[t] \in Writing /\ at[s] = at[t] => at[s] \in suspect

\* The locks never keep all submissions from going on: with finitely many crashes,
\* every submission comes to its end.
Finishes == \A s \in Submissions : <>[] (pc[s] = "done")
=============================================================================
