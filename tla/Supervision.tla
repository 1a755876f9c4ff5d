----------------------------- MODULE Supervision -----------------------------
(***************************************************************************)
(* A supervised run under the script that wants it, up to the status of    *)
(* the test: Runguard, then CheckScript.                                   *)
(***************************************************************************)
EXTENDS CheckScript

VARIABLES
  purpose,         \* the script
  verdict          \* the status of the test, "none" at first

vars == <<rvars, purpose, verdict>>

Purposes == { "standard", "trusted", "static", "compile" }

\* The limits of a purpose: OPTTIME is --cpu-time unless the task has several cores.
LimitOf(p) ==
  CASE p = "standard" -> { "wall" }
    [] p \in { "trusted", "static" } -> { "wall", "cpu" }
    [] p = "compile" -> { "cpu" }

Init ==
  /\ RInit
  /\ purpose \in Purposes
  /\ limit \in LimitOf(purpose)
  /\ verdict = "none"

StatusOf(c) ==
  CASE purpose = "standard" -> JudgeStatus(StandardCode(Alive, meta, c))
    [] purpose = "trusted" -> JudgeStatus(TrustedCode(Alive, meta, c))
    [] purpose = "static" -> JudgeStatus(StaticCode(meta, c))
    [] purpose = "compile" -> CompileStatus(CompileCode(Alive, meta, c))

\* runcheck goes on when runguard has ended, however it has.
Judge ==
  /\ Stopped /\ verdict = "none"
  /\ \E c \in Comparisons : verdict' = StatusOf(c)
  /\ UNCHANGED <<rvars, purpose>>

Next ==
  \/ Judge
  \/ Step /\ UNCHANGED <<purpose, verdict>>

\* runguard is scheduled, so is the child until it runs the program, and time passes.
\* Nothing is assumed of the program.
Fairness ==
  /\ WF_vars(Judge)
  /\ WF_vars(Runguard /\ UNCHANGED <<purpose, verdict>>)
  /\ WF_vars(Setup /\ UNCHANGED <<purpose, verdict>>)
  /\ WF_vars(Tick /\ UNCHANGED <<purpose, verdict>>)

Spec == Init /\ [][Next]_vars /\ Fairness

-----------------------------------------------------------------------------
(* Properties.                                                             *)

\* Type invariant: every variable has its type, a run that ended has a status, the
\* handler runs only after it has been taken off, and the meta file fills from the top.
TypeOK ==
  /\ limit \in { "wall", "cpu" } /\ soft \in 1 .. Hard
  /\ pc \in { "start", "forked", "catching", "wait", "reaped", "explained", "read", "swept",
              "coded", "signed", "done", "failed", "killed" }
  /\ handler \in { "none", "asked", "forced" } /\ (handler # "none" => catches = {})
  /\ catches \subseteq { "TERM", "ALRM" } /\ pending \subseteq { "TERM", "ALRM" }
  /\ received \in Signals \cup { "none", "ALRM" }
  /\ child \in { "none", "setup", "runs", "zombie", "reaped" }
  /\ status \in ExitCodes \cup Signals \cup { Absent }
  /\ child \in { "zombie", "reaped" } <=> status # Absent
  /\ suicide \in BOOLEAN /\ (suicide => status = "KILL")
  /\ exitcode \in ExitCodes /\ strays \in { "none", "group", "session" }
  /\ oom \in BOOLEAN /\ timer \in BOOLEAN /\ hardhit \in BOOLEAN
  /\ time \in 0 .. Hard + 1 /\ own \in 0 .. Hard + 1 /\ endtime \in 0 .. Hard + 1
  /\ terms \in 0 .. MaxTerms
  /\ (meta.time # Absent => meta.exit # Absent) /\ (meta.exit # Absent => meta.memory # Absent)
  /\ purpose \in Purposes

\* A verdict is true of the run.  Accepted: the program ended by itself with 0 (the
\* static check does not look) and within the soft limit, unless runguard was killed
\* while it wrote the meta file.  Time limit: it was over the soft limit, or the hard
\* limit passed while runguard was still busy with a program that had ended in time, or
\* it raised SIGXCPU.  Memory limit: the kernel killed for memory, or one of the
\* program's own processes sent it SIGKILL, which the scripts take for the same thing;
\* a SIGKILL for its time is never taken for it.  Runtime errors: the program ended
\* badly.  In the last two, a SIGTERM sent to runguard can be taken for its fault.
Justified ==
  /\ verdict = "ACCEPTED" =>
       \/ pc = "killed"
       \/ endtime <= soft /\ ~ hardhit /\ (purpose # "static" => status = "zero")
  /\ verdict = "TIME_LIMIT_EXCEEDED" =>
       endtime > soft \/ (limit = "wall" /\ time >= Hard) \/ status = "XCPU"
  /\ verdict = "MEMORY_LIMIT_EXCEEDED" => oom \/ suicide \/ terms > 0
  /\ verdict \in { "RUNTIME_ERROR", "SEGMENTATION_FAULT", "FLOATING_POINT_ERROR" } =>
       status # "zero" \/ terms > 0

\* No process of the program is left when runguard has summarized the run, and none when
\* the test gets a status other than the error of the scripts themselves, however
\* runguard ended.  (The static check mounts nothing, so nothing stops it.)
Contained ==
  /\ pc = "done" => ~ Alive
  /\ purpose # "static" /\ verdict \notin { "none", "SYSTEM_ERROR", "COMPILATION_ERROR" } =>
       ~ Alive

\* Under a wall time limit a run whose program has started while the timer was armed
\* gets a verdict, whatever the program does.  Not so when SIGALRM comes before setsid
\* (kill finds no group, and nothing limits the program afterwards), nor under a limit
\* on CPU time alone, which a program that sleeps does not use up.
Ends == (limit = "wall" /\ timer /\ child = "runs") ~> verdict # "none"

=============================================================================
