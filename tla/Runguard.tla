------------------------------- MODULE Runguard -------------------------------
(***************************************************************************)
(* One supervised run of a program: runguard without --ptrace, as every    *)
(* script of exec/ calls it.  runguard forks, puts the child in a control  *)
(* group and a session of its own, waits for it, and writes what it saw to *)
(* the meta file, line by line.                                            *)
(*                                                                         *)
(* The steps of runguard, of its signal handler terminate, of the program  *)
(* (with the other processes it starts) and of the kernel interleave.      *)
(* Time is counted in ticks, on the clock of the limit that was given: the *)
(* wall clock, or the CPU time of the control group.                       *)
(***************************************************************************)
EXTENDS Naturals

CONSTANTS
  Hard,            \* the hard limit, in ticks
  MaxTerms         \* bound: SIGTERMs sent to runguard from outside

ASSUME LimitAssumption == Hard \in Nat \ {0} /\ MaxTerms \in Nat

VARIABLES
  limit,           \* the limit that was given: "wall" or "cpu"
  soft,            \* the soft limit, at most Hard
  pc,              \* where runguard is
  handler,         \* where terminate is: "none", "asked" (SIGTERM sent) or "forced"
  catches,         \* the signals of runguard that terminate handles
  pending,         \* the signals sent to runguard and not delivered yet
  timer,           \* ITIMER_REAL is armed
  received,        \* received_signal, "none" for -1
  exitcode,        \* exitcode, as the meta file will have it
  hardhit,         \* TIMELIMIT_HARD is in walllimit or cpulimit
  child,           \* the main process of the program
  status,          \* how it ended: an exit code or the name of a signal
  suicide,         \* (history) one of the program's own processes sent it SIGKILL
  strays,          \* its other processes: "none", "group" or "session" (their own)
  oom,             \* oom_kill of the control group is not 0
  time,            \* ticks on the clock of the limit, up to Hard + 1
  own,             \* ticks of CPU time of the main process, up to Hard + 1
  endtime,         \* the time that is compared with the soft limit
  terms,           \* SIGTERMs sent
  meta             \* the meta file

watch == <<pc, handler, catches, pending, timer, received, exitcode, hardhit, endtime, terms>>
program == <<child, status, suicide, strays, oom, time, own>>
rvars == <<limit, soft, watch, program, meta>>

\* SIGTERM stands for the signals that nothing tells apart, too.
Signals == { "SEGV", "FPE", "KILL", "XCPU", "TERM" }
ExitCodes == { "zero", "nonzero" }
Absent == "absent"
NoMeta == [ internal |-> FALSE, memory |-> Absent, exit |-> Absent,
            signal |-> Absent, time |-> Absent ]

\* Mutation: the exit code is read from the status of a signalled process, too.
ExitcodeRaw(s) == s

\* 128 and the number of the signal.
ExitcodeOf(s) == IF s \in ExitCodes THEN s ELSE "nonzero"

RInit ==
  /\ limit \in { "wall", "cpu" }
  /\ soft \in 1 .. Hard
  /\ pc = "start" /\ handler = "none" /\ catches = {} /\ pending = {} /\ timer = FALSE
  /\ received = "none" /\ exitcode = "zero" /\ hardhit = FALSE /\ endtime = 0 /\ terms = 0
  /\ child = "none" /\ status = Absent /\ suicide = FALSE /\ strays = "none" /\ oom = FALSE
  /\ time = 0 /\ own = 0
  /\ meta = NoMeta

Stopped == pc \in { "done", "failed", "killed" }
Alive == child \in { "setup", "runs" } \/ strays # "none"

\* The main process ends.
End(s) == child' = "zombie" /\ status' = s

-----------------------------------------------------------------------------
(* The program.                                                            *)

\* set_restrictions up to setsid and exec; or one of its calls throws, and the
\* terminate handler, inherited by the child, reports into the same file.
Setup ==
  /\ child = "setup"
  /\ \/ child' = "runs" /\ UNCHANGED <<status, meta>>
     \/ End("nonzero") /\ meta' = [meta EXCEPT !.internal = TRUE]
  /\ UNCHANGED <<limit, soft, watch, strays, suicide, oom, time, own>>

\* The main process exits, or a signal ends it that it raised or that another of the
\* program's processes sent: any signal, SIGKILL and SIGXCPU included.
Program ==
  /\ child = "runs"
  /\ \/ \E s \in ExitCodes \cup Signals :
          End(s) /\ suicide' = (s = "KILL") /\ UNCHANGED strays
     \/ /\ strays = "none" /\ strays' \in { "group", "session" }
        /\ UNCHANGED <<child, status, suicide>>
  /\ UNCHANGED <<limit, soft, watch, oom, time, own, meta>>

StrayEnds ==
  /\ strays # "none" /\ strays' = "none"
  /\ UNCHANGED <<limit, soft, watch, child, status, suicide, oom, time, own, meta>>

\* The control group is at its memory limit: the kernel kills one of its processes.
OomKill ==
  /\ oom' = TRUE
  /\ \/ child = "runs" /\ End("KILL") /\ UNCHANGED strays
     \/ strays # "none" /\ strays' = "none" /\ UNCHANGED <<child, status>>
  /\ UNCHANGED <<limit, soft, watch, suicide, time, own, meta>>

\* RLIMIT_CPU of the main process: SIGXCPU at the limit, which it may handle, and
\* SIGKILL one second later.
CpuLimit ==
  /\ limit = "cpu" /\ child = "runs"
  /\ \/ own >= Hard /\ End("XCPU")
     \/ own > Hard /\ End("KILL")
  /\ UNCHANGED <<limit, soft, watch, strays, suicide, oom, time, own, meta>>

\* The clock of the limit goes on: the wall clock by itself from the moment runguard
\* reads it, CPU time when the program uses it.
Tick ==
  /\ time <= Hard
  /\ time' = time + 1
  /\ \/ limit = "wall" /\ pc \notin { "start", "forked", "catching" } /\ UNCHANGED own
     \/ limit = "cpu" /\ child = "runs" /\ own <= Hard /\ own' = own + 1
     \/ limit = "cpu" /\ strays # "none" /\ UNCHANGED own
  /\ IF timer /\ time' = Hard
     THEN timer' = FALSE /\ pending' = pending \cup {"ALRM"}
     ELSE UNCHANGED <<timer, pending>>
  /\ UNCHANGED <<limit, soft, pc, handler, catches, received, exitcode, hardhit, endtime, terms,
                 child, status, strays, suicide, oom, meta>>

-----------------------------------------------------------------------------
(* Signals of runguard.                                                    *)

SendTerm ==
  /\ ~ Stopped /\ terms < MaxTerms
  /\ terms' = terms + 1
  /\ pending' = pending \cup {"TERM"}
  /\ UNCHANGED <<limit, soft, pc, handler, catches, timer, received, exitcode, hardhit, endtime,
                 program, meta>>

\* kill(-child_pid, SIGTERM): nothing has that group before setsid; a process may
\* handle the signal.
AskGroup ==
  /\ \/ child = "runs" /\ End("TERM")
     \/ UNCHANGED <<child, status>>
  /\ strays' \in IF strays = "group" THEN { "group", "none" } ELSE { strays }

\* kill(-child_pid, SIGKILL).
KillGroup ==
  /\ IF child = "runs" THEN End("KILL") ELSE UNCHANGED <<child, status>>
  /\ strays' = IF strays = "group" THEN "none" ELSE strays

\* A signal is delivered.  terminate takes one, once: it restores both default actions.
\* The default action ends runguard and nothing else.
TakeSignal(s) ==
  /\ ~ Stopped /\ s \in pending /\ handler = "none"
  /\ pending' = pending \ {s}
  /\ IF s \in catches
     THEN /\ catches' = {}
          /\ hardhit' = (hardhit \/ s = "ALRM")
          /\ received' = s
          /\ handler' = "asked"
          /\ AskGroup
          /\ UNCHANGED pc
     ELSE /\ pc' = "killed"
          /\ UNCHANGED <<catches, hardhit, received, handler, child, status, strays>>
  /\ UNCHANGED <<limit, soft, timer, exitcode, endtime, terms, suicide, oom, time, own, meta>>

\* Mutation: terminate forgets to kill hard.
ForceGroupSoftly ==
  /\ handler = "asked" /\ handler' = "none"
  /\ UNCHANGED <<limit, soft, pc, catches, pending, timer, received, exitcode, hardhit, endtime,
                 terms, program, meta>>

\* After 0.1 s.
ForceGroup ==
  /\ handler = "asked" /\ handler' = "forced"
  /\ KillGroup
  /\ UNCHANGED <<limit, soft, pc, catches, pending, timer, received, exitcode, hardhit, endtime,
                 terms, suicide, oom, time, own, meta>>

\* After another 0.1 s terminate returns; wait4 is restarted.
HandlerReturns ==
  /\ handler = "forced" /\ handler' = "none"
  /\ UNCHANGED <<limit, soft, pc, catches, pending, timer, received, exitcode, hardhit, endtime,
                 terms, program, meta>>

-----------------------------------------------------------------------------
(* runguard.                                                               *)

\* runguard itself goes on only while terminate does not run.
At(l) == pc = l /\ handler = "none"

\* An exception reaches runguard_terminate_handler, which reports it and kills the
\* group of the child, if there is one.
Throw ==
  /\ At("start") \/ At("reaped") \/ At("explained") \/ At("read")
  /\ pc' = "failed"
  /\ meta' = [meta EXCEPT !.internal = TRUE]
  /\ KillGroup
  /\ UNCHANGED <<limit, soft, handler, catches, pending, timer, received, exitcode, hardhit,
                 endtime, terms, suicide, oom, time, own>>

Fork ==
  /\ At("start") /\ pc' = "forked"
  /\ child' = "setup"
  /\ UNCHANGED <<limit, soft, handler, catches, pending, timer, received, exitcode, hardhit,
                 endtime, terms, status, strays, suicide, oom, time, own, meta>>

CatchTerm ==
  /\ At("forked") /\ pc' = "catching"
  /\ catches' = catches \cup {"TERM"}
  /\ UNCHANGED <<limit, soft, handler, pending, timer, received, exitcode, hardhit, endtime,
                 terms, program, meta>>

\* SIGALRM and the timer, with a limit on wall time only.
CatchAlarm ==
  /\ At("catching") /\ pc' = "wait"
  /\ IF limit = "wall" THEN catches' = catches \cup {"ALRM"} /\ timer' = TRUE
     ELSE UNCHANGED <<catches, timer>>
  /\ UNCHANGED <<limit, soft, handler, pending, received, exitcode, hardhit, endtime, terms,
                 program, meta>>

\* wait4 and gettimeofday.
Wait ==
  /\ At("wait") /\ child = "zombie"
  /\ pc' = "reaped" /\ child' = "reaped"
  /\ endtime' = time
  /\ UNCHANGED <<limit, soft, handler, catches, pending, timer, received, exitcode, hardhit,
                 terms, status, strays, suicide, oom, time, own, meta>>

\* WIFEXITED, WIFSIGNALED and SIGXCPU.
Explain ==
  /\ At("reaped") /\ pc' = "explained"
  /\ exitcode' = ExitcodeOf(status)
  /\ received' = IF status \in Signals THEN status ELSE received
  /\ hardhit' = (hardhit \/ status = "XCPU")
  /\ UNCHANGED <<limit, soft, handler, catches, pending, timer, endtime, terms, program, meta>>

\* summarize_cgroup: cpuacct.usage and oom_kill.
Read ==
  /\ At("explained") /\ pc' = "read"
  /\ endtime' = IF limit = "cpu" THEN time ELSE endtime
  /\ meta' = [meta EXCEPT !.memory = IF oom THEN "oom" ELSE ""]
  /\ UNCHANGED <<limit, soft, handler, catches, pending, timer, received, exitcode, hardhit,
                 terms, program>>

\* Mutation: the group of the child is killed instead of the control group.
SweepGroup ==
  /\ At("read") /\ pc' = "swept"
  /\ KillGroup
  /\ UNCHANGED <<limit, soft, handler, catches, pending, timer, received, exitcode, hardhit,
                 endtime, terms, suicide, oom, time, own, meta>>

\* cgroup_kill, until the control group is empty, and cgroup_delete.
Sweep ==
  /\ At("read") /\ pc' = "swept"
  /\ strays' = "none"
  /\ UNCHANGED <<limit, soft, handler, catches, pending, timer, received, exitcode, hardhit,
                 endtime, terms, child, status, suicide, oom, time, own, meta>>

WriteExitcode ==
  /\ At("swept") /\ pc' = "coded"
  /\ meta' = [meta EXCEPT !.exit = exitcode]
  /\ UNCHANGED <<limit, soft, handler, catches, pending, timer, received, exitcode, hardhit,
                 endtime, terms, program>>

WriteSignal ==
  /\ At("coded") /\ pc' = "signed"
  /\ meta' = [meta EXCEPT !.signal = IF received = "none" THEN Absent ELSE received]
  /\ UNCHANGED <<limit, soft, handler, catches, pending, timer, received, exitcode, hardhit,
                 endtime, terms, program>>

\* Mutation: the soft limit is met by a run that ends on it.
TimeResultEarly == IF hardhit THEN "hard" ELSE IF endtime >= soft THEN "soft" ELSE ""

\* output_timelimit_str, with the soft limit compared last.
TimeResult == IF hardhit THEN "hard" ELSE IF endtime > soft THEN "soft" ELSE ""

WriteTime ==
  /\ At("signed") /\ pc' = "done"
  /\ meta' = [meta EXCEPT !.time = TimeResult]
  /\ UNCHANGED <<limit, soft, handler, catches, pending, timer, received, exitcode, hardhit,
                 endtime, terms, program>>

Runguard ==
  \/ Fork \/ CatchTerm \/ CatchAlarm \/ Wait \/ Explain \/ Read \/ Sweep
  \/ WriteExitcode \/ WriteSignal \/ WriteTime
  \/ (\E s \in pending : TakeSignal(s)) \/ ForceGroup \/ HandlerReturns

Step ==
  \/ Runguard \/ Throw \/ SendTerm
  \/ Setup \/ Program \/ StrayEnds \/ OomKill \/ CpuLimit \/ Tick

=============================================================================
