---------------------------- MODULE SubmissionLock ----------------------------
(***************************************************************************)
(* The lock on a submission's working directory (programming.cpp:428-430,  *)
(* io_utils.cpp:69-110) among the locks of the worker loop.                *)
(*                                                                         *)
(* lock_directory creates the directory, opens .lock in it and waits for   *)
(* flock; verify calls it while the fetching worker holds server_mutex.    *)
(* The lock belongs to the inode that was opened.  The final summary       *)
(* removes the whole directory, .lock included, and the lock itself goes   *)
(* when the finished submission is destroyed.                              *)
(*                                                                         *)
(* Each submission here has one task; a rejudge is a second submission     *)
(* with the same directory.  One judge server; stopping is left out.       *)
(***************************************************************************)
EXTENDS Integers, Sequences, FiniteSets, Functions

CONSTANTS
  Worker, Sub,
  Dir,             \* Dir[s]: the working directory of s, that is its sub_id
  Inboxes,         \* what the judge server may hand over, in order
  Debug,           \* judge::DEBUG keeps the working directories
  None

ASSUME LockAssumption ==
  /\ None \notin Worker \cup Sub
  /\ DOMAIN Dir = Sub
  /\ Inboxes \subseteq Seq(Sub)
  /\ Debug \in BOOLEAN

\* What fetch_submission hands over is a new object each time, a rejudge as well.
ASSUME InboxAssumption == \A q \in Inboxes : IsInjective(q)

VARIABLES
  inbox,           \* what the judge server still has to hand over
  state,           \* "absent", "waiting", "fetched", "judging", "finished" or "freed"
  taskQueue,
  serverMutex,
  pc, current,     \* per worker: where it is, and the submission it deals with
  exists,          \* the working directories that exist
  lockFile,        \* lockFile[d]: the inode that d/.lock names, 0 if there is none
  inodes,          \* how many inodes were created
  fd,              \* fd[s]: the inode that s has opened, 0 if open failed
  holders          \* the submissions that hold the flock of their inode

files == <<exists, lockFile, inodes>>
vars == <<inbox, state, taskQueue, serverMutex, pc, current, files, fd, holders>>

Dirs == Range(Dir)

Init ==
  /\ inbox \in Inboxes
  /\ state = [s \in Sub |-> IF s \in Range(inbox) THEN "waiting" ELSE "absent"]
  /\ taskQueue = <<>>
  /\ serverMutex = None
  /\ pc = [w \in Worker |-> "loop"]
  /\ current = [w \in Worker |-> None]
  /\ exists = {}
  /\ lockFile = [d \in Dirs |-> 0]
  /\ inodes = 0
  /\ fd = [s \in Sub |-> 0]
  /\ holders = {}

Goto(w, from, to) == pc[w] = from /\ pc' = [pc EXCEPT ![w] = to]
Work(w) == Dir[current[w]]

-----------------------------------------------------------------------------
(* The worker loop and fetching, under server_mutex.                       *)

TryPop(w) ==
  /\ IF taskQueue = <<>>
     THEN Goto(w, "loop", "locking") /\ UNCHANGED <<taskQueue, current>>
     ELSE /\ Goto(w, "loop", "judging")
          /\ current' = [current EXCEPT ![w] = Head(taskQueue)]
          /\ taskQueue' = Tail(taskQueue)
  /\ UNCHANGED <<inbox, state, serverMutex, files, fd, holders>>

TakeServerMutex(w) ==
  /\ serverMutex = None
  /\ serverMutex' = w
  /\ Goto(w, "locking", "fetching")
  /\ UNCHANGED <<inbox, state, taskQueue, current, files, fd, holders>>

\* Mutation: a round without a submission returns with server_mutex held.
FetchNothingLocked(w) ==
  /\ inbox = <<>>
  /\ Goto(w, "fetching", "loop")
  /\ UNCHANGED <<inbox, state, taskQueue, serverMutex, current, files, fd, holders>>

FetchNothing(w) ==
  /\ inbox = <<>>
  /\ Goto(w, "fetching", "loop")
  /\ serverMutex' = None
  /\ UNCHANGED <<inbox, state, taskQueue, current, files, fd, holders>>

\* A submission arrives and lock_directory creates its directory.
Fetch(w) ==
  /\ inbox # <<>>
  /\ Goto(w, "fetching", "opening")
  /\ inbox' = Tail(inbox)
  /\ current' = [current EXCEPT ![w] = Head(inbox)]
  /\ state' = [state EXCEPT ![Head(inbox)] = "fetched"]
  /\ exists' = exists \cup { Dir[Head(inbox)] }
  /\ UNCHANGED <<taskQueue, serverMutex, lockFile, inodes, fd, holders>>

\* Mutation: a new lock file gets an inode number that was never allocated.
OpenLockUnallocated(w) ==
  /\ Goto(w, "opening", "flocking")
  /\ lockFile' = [lockFile EXCEPT ![Work(w)] = inodes + 1]
  /\ fd' = [fd EXCEPT ![current[w]] = inodes + 1]
  /\ UNCHANGED <<inbox, state, taskQueue, serverMutex, current, exists, inodes, holders>>

\* open(O_CREAT).  It fails when the directory has been removed meanwhile; the
\* descriptor is not checked.
OpenLock(w) ==
  /\ Goto(w, "opening", "flocking")
  /\ LET d   == Work(w)
         new == d \in exists /\ lockFile[d] = 0
         ino == IF new THEN inodes + 1 ELSE lockFile[d]
     IN  /\ lockFile' = [lockFile EXCEPT ![d] = ino]
         /\ inodes' = IF new THEN inodes + 1 ELSE inodes
         /\ fd' = [fd EXCEPT ![current[w]] = ino]
  /\ UNCHANGED <<inbox, state, taskQueue, serverMutex, current, exists, holders>>

\* Mutation: flock does not wait (LOCK_NB) and its result is not looked at.
FlockNonBlocking(w) ==
  /\ Goto(w, "flocking", "loop")
  /\ holders' = holders \cup {current[w]}
  /\ state' = [state EXCEPT ![current[w]] = "judging"]
  /\ taskQueue' = Append(taskQueue, current[w])
  /\ serverMutex' = None
  /\ current' = [current EXCEPT ![w] = None]
  /\ UNCHANGED <<inbox, files, fd>>

\* flock waits for the holder of the same inode, and fails at once on a bad
\* descriptor.  Then the submission is distributed and the round of fetching ends.
Flock(w) ==
  LET s == current[w]
  IN  /\ Goto(w, "flocking", "loop")
      /\ \A t \in holders : fd[t] # fd[s]
      /\ holders' = IF fd[s] = 0 THEN holders ELSE holders \cup {s}
      /\ state' = [state EXCEPT ![s] = "judging"]
      /\ taskQueue' = Append(taskQueue, s)
      /\ serverMutex' = None
      /\ current' = [current EXCEPT ![w] = None]
      /\ UNCHANGED <<inbox, files, fd>>

-----------------------------------------------------------------------------
(* Judging, the final summary and the end of the submission.               *)

\* The run directory is created in the working directory, and the task is judged.
Judge(w) ==
  /\ Goto(w, "judging", IF Debug THEN "finishing" ELSE "removing")
  /\ exists' = exists \cup { Work(w) }
  /\ UNCHANGED <<inbox, state, taskQueue, serverMutex, current, lockFile, inodes, fd, holders>>

\* remove_all deletes the entries of the directory, new ones perhaps as well ...
RemoveEntries(w) ==
  /\ Goto(w, "removing", "removed")
  /\ lockFile' = [lockFile EXCEPT ![Work(w)] = 0]
  /\ UNCHANGED <<inbox, state, taskQueue, serverMutex, current, exists, inodes, fd, holders>>

\* ... and then the directory, unless something was created in it.
RemoveDirectory(w) ==
  /\ Goto(w, "removed", "finishing")
  /\ \/ /\ lockFile[Work(w)] = 0
        /\ exists' = exists \ { Work(w) }
        /\ UNCHANGED lockFile
     \/ /\ lockFile[Work(w)] # 0
        /\ lockFile' \in { lockFile, [lockFile EXCEPT ![Work(w)] = 0] }
        /\ UNCHANGED exists
  /\ UNCHANGED <<inbox, state, taskQueue, serverMutex, current, inodes, fd, holders>>

\* finish_submission.
Finish(w) ==
  /\ serverMutex = None
  /\ Goto(w, "finishing", "reaping")
  /\ state' = [state EXCEPT ![current[w]] = "finished"]
  /\ current' = [current EXCEPT ![w] = None]
  /\ UNCHANGED <<inbox, taskQueue, serverMutex, files, fd, holders>>

\* finished_submissions.clear(): with a submission its lock goes.
Reap(w) ==
  /\ serverMutex = None
  /\ Goto(w, "reaping", "loop")
  /\ LET over == { s \in Sub : state[s] = "finished" }
     IN  /\ state' = [s \in Sub |-> IF s \in over THEN "freed" ELSE state[s]]
         /\ holders' = holders \ over
  /\ UNCHANGED <<inbox, taskQueue, serverMutex, current, files, fd>>

-----------------------------------------------------------------------------

Locking(w) == TakeServerMutex(w) \/ Flock(w) \/ Finish(w) \/ Reap(w)
Alone(w) ==
  \/ TryPop(w) \/ FetchNothing(w) \/ Fetch(w) \/ OpenLock(w)
  \/ Judge(w) \/ RemoveEntries(w) \/ RemoveDirectory(w)

Next == \E w \in Worker : Locking(w) \/ Alone(w)

\* As in WorkerPool: threads run, and a lock that is free again and again is got in
\* the end, but judging need not end.
Fairness ==
  \A w \in Worker : SF_vars(Locking(w)) /\ WF_vars(Alone(w) /\ pc[w] # "judging")

Spec == Init /\ [][Next]_vars /\ Fairness

-----------------------------------------------------------------------------
(* Properties.                                                             *)

\* The types of the variables.
TypeOK ==
  /\ inbox \in Seq(Sub) /\ taskQueue \in Seq(Sub)
  /\ state \in [Sub -> { "absent", "waiting", "fetched", "judging", "finished", "freed" }]
  /\ serverMutex \in Worker \cup {None}
  /\ pc \in [Worker -> { "loop", "locking", "fetching", "opening", "flocking", "judging",
                         "removing", "removed", "finishing", "reaping" }]
  /\ current \in [Worker -> Sub \cup {None}]
  /\ exists \subseteq Dirs
  /\ lockFile \in [Dirs -> 0 .. inodes] /\ fd \in [Sub -> 0 .. inodes]
  /\ holders \subseteq Sub

At(s, labels) == \E w \in Worker : current[w] = s /\ pc[w] \in labels
InUse(s) == s \in Range(taskQueue) \/ At(s, { "judging" })

\* A submission is rejudged once at most.
OneRejudge ==
  \A s, t, u \in Sub : Dir[s] = Dir[t] /\ Dir[t] = Dir[u] => s = t \/ t = u \/ s = u

\* A submission and its rejudge are never judged at the same time
\* (programming.hpp:315-320), although the lock file disappears under the holder.
\* It takes OneRejudge: the removal of the directory that one submission has begun
\* may take away the lock file that the next one holds from a third.  Nor does it
\* count the removal itself, which a rejudge may well have to suffer.
JudgedApart ==
  OneRejudge =>
    \A s, t \in Sub : s # t /\ Dir[s] = Dir[t] => ~ (InUse(s) /\ InUse(t))

NoRejudge ==
  \A s, t \in Sub : s # t /\ Dir[s] = Dir[t] => "absent" \in { state[s], state[t] }

\* Without rejudges, a submission that is being judged gets to its end and gives
\* its lock back, although fetching waits for locks inside server_mutex, unless its
\* own program never ends or programs that never end hold all the workers.
Completes ==
  \/ <>[](\A w \in Worker : pc[w] = "judging")
  \/ \A s \in Sub :
       \/ NoRejudge /\ state[s] = "judging" ~> state[s] = "freed"
       \/ \E w \in Worker : <>[](pc[w] = "judging" /\ current[w] = s)

\* "Blocking is safe" (programming.cpp:338-344): a worker that waits for a lock
\* while it fetches does not affect the submissions that are being judged.  If all
\* programs end they get to their end.
BlockingIsSafe ==
  (\A w \in Worker : []<>(pc[w] # "judging")) =>
    \A s \in Sub : state[s] = "judging" ~> state[s] = "freed"
=============================================================================
