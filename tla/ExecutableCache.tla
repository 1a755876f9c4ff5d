---------------------------- MODULE ExecutableCache ----------------------------
(***************************************************************************)
(* The scripts of the daemon (executables: check, run, compare, compile)   *)
(* and the directories they are deployed to.  A worker that judges a task  *)
(* fetches its scripts one after the other, each under the lock of its     *)
(* directory, and then runs all of them without any lock: the mark         *)
(* .deployed alone keeps others from cleaning a script that is being run.  *)
(*                                                                         *)
(* The managers build every executable without a checksum, so that md5sum  *)
(* is left out.  The directory of an executable is never removed, nor is   *)
(* its lock file, so that a lock is known by its script.                   *)
(***************************************************************************)
EXTENDS Naturals, Sequences

CONSTANTS
  Worker,
  Script,
  Builds,          \* the scripts that come with a build program
  Tasks,           \* what a task may need: the scripts, in the order of their fetching
  MaxCrashes,      \* bound: crashes of the daemon
  MaxFails,        \* bound: copies, builds and scripts that fail
  None,            \* nobody holds the lock
  Orphan           \* a build that has outlived its daemon holds it

ASSUME ScriptAssumption ==
  /\ Builds \subseteq Script
  /\ Tasks \subseteq Seq(Script) \ { <<>> }
  /\ MaxCrashes \in Nat /\ MaxFails \in Nat
  /\ None # Orphan /\ {None, Orphan} \cap Worker = {}

VARIABLES
  dir,             \* dir/compile: "absent", "partial", "sources" (copied, not built), "whole"
  deployed,        \* the scripts that have their mark
  holder,          \* who holds the lock of a script's directory
  pc,              \* where each worker is
  todo,            \* the scripts it has still to fetch for its task
  using,           \* the scripts it has fetched for its task
  crashes, fails

work == <<pc, todo, using>>
bounds == <<crashes, fails>>
vars == <<dir, deployed, holder, work, bounds>>

Init ==
  /\ dir = [s \in Script |-> "absent"]
  /\ deployed = {}
  /\ holder = [s \in Script |-> None]
  /\ pc = [w \in Worker |-> "idle"]
  /\ todo = [w \in Worker |-> <<>>]
  /\ using = [w \in Worker |-> {}]
  /\ crashes = 0 /\ fails = 0

Goto(w, from, to) == pc[w] = from /\ pc' = [pc EXCEPT ![w] = to]
First(w) == Head(todo[w])
Put(s, state) == dir' = [dir EXCEPT ![s] = state]
Release(s) == holder' = [holder EXCEPT ![s] = None]

-----------------------------------------------------------------------------
(* executable::fetch.                                                      *)

BeginTask(w) ==
  /\ Goto(w, "idle", "locking")
  /\ \E scripts \in Tasks : todo' = [todo EXCEPT ![w] = scripts]
  /\ UNCHANGED <<dir, deployed, holder, using, bounds>>

\* Mutation: the lock is a shared one.
LockShared(w) ==
  /\ pc[w] = "locking" /\ holder[First(w)] # Orphan
  /\ Goto(w, "locking", IF First(w) \in deployed THEN "marking" ELSE "cleaning")
  /\ holder' = [holder EXCEPT ![First(w)] = w]
  /\ UNCHANGED <<dir, deployed, todo, using, bounds>>

\* lock_directory; then the mark is looked for.
Lock(w) ==
  /\ pc[w] = "locking" /\ holder[First(w)] = None
  /\ Goto(w, "locking", IF First(w) \in deployed THEN "marking" ELSE "cleaning")
  /\ holder' = [holder EXCEPT ![First(w)] = w]
  /\ UNCHANGED <<dir, deployed, todo, using, bounds>>

\* Everything but the lock is removed, and copying begins.
Clean(w) ==
  /\ Goto(w, "cleaning", "copying")
  /\ Put(First(w), "partial")
  /\ deployed' = deployed \ {First(w)}
  /\ UNCHANGED <<holder, todo, using, bounds>>

\* asset->fetch returns; build is looked for.
Copy(w) ==
  /\ LET builds == First(w) \in Builds
     IN  /\ Goto(w, "copying", IF builds THEN "building" ELSE "marking")
         /\ Put(First(w), IF builds THEN "sources" ELSE "whole")
  /\ UNCHANGED <<deployed, holder, todo, using, bounds>>

\* compile_executable.sh has left run behind and exits with 0.
Build(w) ==
  /\ Goto(w, "building", "marking")
  /\ Put(First(w), "whole")
  /\ UNCHANGED <<deployed, holder, todo, using, bounds>>

\* Mutation: an exception leaves the directory locked.
ThrowLocked(w) ==
  /\ fails < MaxFails /\ fails' = fails + 1
  /\ \/ Goto(w, "copying", "idle")
     \/ Goto(w, "building", "idle")
  /\ todo' = [todo EXCEPT ![w] = <<>>]
  /\ using' = [using EXCEPT ![w] = {}]
  /\ UNCHANGED <<dir, deployed, holder, crashes>>

\* Mutation: after an exception the worker does not forget what it was to fetch.
ThrowUnreset(w) ==
  /\ fails < MaxFails /\ fails' = fails + 1
  /\ \/ Goto(w, "copying", "idle")
     \/ Goto(w, "building", "idle")
  /\ Release(First(w))
  /\ using' = [using EXCEPT ![w] = {}]
  /\ UNCHANGED <<dir, deployed, todo, crashes>>

\* Copying, building or the look for run fails: the exception releases the lock and
\* the task ends with SYSTEM_ERROR.
Throw(w) ==
  /\ fails < MaxFails /\ fails' = fails + 1
  /\ \/ Goto(w, "copying", "idle")
     \/ Goto(w, "building", "idle")
  /\ Release(First(w))
  /\ todo' = [todo EXCEPT ![w] = <<>>]
  /\ using' = [using EXCEPT ![w] = {}]
  /\ UNCHANGED <<dir, deployed, crashes>>

\* The mark is made, again if it is there, and the lock released.
Mark(w) ==
  /\ Goto(w, "marking", IF Len(todo[w]) = 1 THEN "running" ELSE "locking")
  /\ deployed' = deployed \cup {First(w)}
  /\ Release(First(w))
  /\ todo' = [todo EXCEPT ![w] = Tail(@)]
  /\ using' = [using EXCEPT ![w] = @ \cup {First(w)}]
  /\ UNCHANGED <<dir, bounds>>

-----------------------------------------------------------------------------
(* Running the scripts, and the end of the daemon.                         *)

\* The check script, which calls the others, has ended.
EndTask(w) ==
  /\ Goto(w, "running", "idle")
  /\ using' = [using EXCEPT ![w] = {}]
  /\ UNCHANGED <<dir, deployed, holder, todo, bounds>>

\* The daemon ends and is started again.  A build goes on and keeps the lock, whose
\* descriptor it has inherited.
Crash ==
  /\ crashes < MaxCrashes /\ crashes' = crashes + 1
  /\ LET building == { First(w) : w \in { v \in Worker : pc[v] = "building" } }
     IN  holder' = [s \in Script |->
                      IF holder[s] = Orphan \/ s \in building THEN Orphan ELSE None]
  /\ pc' = [w \in Worker |-> "idle"]
  /\ todo' = [w \in Worker |-> <<>>]
  /\ using' = [w \in Worker |-> {}]
  /\ UNCHANGED <<dir, deployed, fails>>

\* Such a build ends, well or badly; nobody makes the mark.
OrphanEnds ==
  /\ \E s \in Script :
       /\ holder[s] = Orphan
       /\ Release(s)
       /\ \E state \in { "sources", "whole" } : Put(s, state)
  /\ UNCHANGED <<deployed, work, bounds>>

-----------------------------------------------------------------------------

Step(w) ==
  \/ Clean(w) \/ Copy(w) \/ Build(w) \/ Mark(w) \/ EndTask(w)

Next ==
  \/ \E w \in Worker : BeginTask(w) \/ Lock(w) \/ Step(w) \/ Throw(w)
  \/ Crash \/ OrphanEnds

\* Threads run, copies, builds and scripts end, and a lock that is free again and again
\* is got in the end.  That they end is assumed: builds are the operator's own, but their
\* limit is CPU time, and the scripts wait for a contestant's program that may sleep.
Fairness ==
  /\ \A w \in Worker : WF_vars(Step(w)) /\ SF_vars(Lock(w))
  /\ WF_vars(OrphanEnds)

Spec == Init /\ [][Next]_vars /\ Fairness

-----------------------------------------------------------------------------
(* Properties.                                                             *)

\* The types of the variables; a worker has scripts to fetch until it runs them.
TypeOK ==
  /\ dir \in [Script -> { "absent", "partial", "sources", "whole" }]
  /\ deployed \subseteq Script
  /\ holder \in [Script -> Worker \cup {None, Orphan}]
  /\ pc \in [Worker -> { "idle", "locking", "cleaning", "copying", "building", "marking",
                         "running" }]
  /\ todo \in [Worker -> Seq(Script)]
  /\ \A w \in Worker : todo[w] = <<>> <=> pc[w] \in { "idle", "running" }
  /\ using \in [Worker -> SUBSET Script]
  /\ crashes \in 0 .. MaxCrashes /\ fails \in 0 .. MaxFails

Writes(w, s) ==
  pc[w] \in { "cleaning", "copying", "building" } /\ First(w) = s

\* The scripts that a worker runs, or will run when it has fetched the others, are whole,
\* and nobody is cleaning, copying or building them (program.cpp:28-62 releases the lock
\* before the script is run, programming.cpp:51-66 fetches several): whatever failed,
\* crashed or was left running before.
RunsWhole ==
  \A w \in Worker : \A s \in using[w] :
    /\ dir[s] = "whole"
    /\ holder[s] # Orphan
    /\ \A v \in Worker : ~ Writes(v, s)

\* A worker that starts a task gets all its scripts, unless one of them fails or the
\* daemon ends: the locks it waits for are released in the end, those of a build that
\* has outlived its daemon too (program.cpp:29).
Fetched ==
  \A w \in Worker : pc[w] = "locking" ~> pc[w] \in { "running", "idle" }
=============================================================================
