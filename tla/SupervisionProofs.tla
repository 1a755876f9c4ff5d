--------------------------- MODULE SupervisionProofs ---------------------------
(***************************************************************************)
(* Theorems of Supervision, with their proofs, for every hard limit and    *)
(* any number of SIGTERMs from outside.                                    *)
(*                                                                         *)
(* A verdict is a claim about a run that is over, made from a file that    *)
(* was written about it in five steps.  The inductive invariant follows    *)
(* each entry of the file back to what it was made of (Filled), says what  *)
(* may still change when the entry is there (Reaping), how the clocks and  *)
(* the hard limit agree (Clock), and who is to blame for a signal          *)
(* (Causes).  The scripts' rules are read by the lemmas on FirstOf.        *)
(***************************************************************************)
EXTENDS Supervision, SequenceTheorems, WellFoundedInduction, TLAPS

-----------------------------------------------------------------------------
(* The inductive invariant.                                                *)

\* What each entry of the meta file may be.
Meta ==
  [ internal : BOOLEAN, memory : { Absent, "", "oom" }, exit : ExitCodes \cup { Absent },
    signal : Signals \cup { "ALRM", Absent }, time : { Absent, "", "soft", "hard" } ]

\* The program has been waited for; what runguard knows of it is in exitcode; and so on.
AfterWait == { "reaped", "explained", "read", "swept", "coded", "signed", "done" }
AfterExplain == AfterWait \ { "reaped" }
AfterRead == AfterExplain \ { "explained" }
AfterSweep == AfterRead \ { "read" }
AfterExit == AfterSweep \ { "swept" }

\* The three parts of TypeOK.
Control ==
  /\ limit \in { "wall", "cpu" } /\ soft \in 1 .. Hard /\ purpose \in Purposes
  /\ pc \in { "start", "forked", "catching", "wait", "reaped", "explained", "read", "swept",
              "coded", "signed", "done", "failed", "killed" }
  /\ handler \in { "none", "asked", "forced" } /\ (handler # "none" => catches = {})
  /\ catches \subseteq { "TERM", "ALRM" } /\ pending \subseteq { "TERM", "ALRM" }
  /\ timer \in BOOLEAN /\ hardhit \in BOOLEAN
  /\ endtime \in 0 .. Hard + 1 /\ terms \in 0 .. MaxTerms
Supervised ==
  /\ child \in { "none", "setup", "runs", "zombie", "reaped" }
  /\ status \in ExitCodes \cup Signals \cup { Absent }
  /\ child \in { "zombie", "reaped" } <=> status # Absent
  /\ strays \in { "none", "group", "session" }
  /\ oom \in BOOLEAN
  /\ suicide \in BOOLEAN /\ (suicide => status = "KILL")
  /\ time \in 0 .. Hard + 1 /\ own \in 0 .. Hard + 1
Noted ==
  /\ received \in Signals \cup { "none", "ALRM" }
  /\ exitcode \in ExitCodes
  /\ meta.time # Absent => meta.exit # Absent
  /\ meta.exit # Absent => meta.memory # Absent

\* The entries of the meta file: what they were made of, and by when they are there.
Filled ==
  /\ meta \in Meta
  /\ pc \in AfterExplain => exitcode = ExitcodeOf(status)
  /\ pc \in AfterRead => meta.memory # Absent
  /\ meta.memory = "oom" => oom
  /\ meta.exit # Absent => meta.exit = exitcode /\ pc \in AfterExit \cup { "killed" }
  /\ pc \in AfterExit => meta.exit # Absent
  /\ meta.time # Absent => pc = "done"
  /\ pc = "done" => meta.time = TimeResult
  /\ pc = "failed" => meta.internal

\* A program that has been waited for does not change any more, and its other processes
\* are gone when the control group has been emptied.
Reaping ==
  /\ pc = "start" => child = "none"
  /\ pc \in AfterWait => child = "reaped"
  /\ pc \in AfterSweep => strays = "none"

\* The alarm comes once, at the hard limit; the time read at the end covers what the main
\* process has used.
Clock ==
  /\ own <= time
  /\ pc \in { "start", "forked", "catching" } => ~ timer
  /\ timer => limit = "wall"
  /\ "ALRM" \in pending =>
       limit = "wall" /\ time >= Hard /\ ~ timer /\ pc \notin { "start", "forked", "catching" }
  /\ hardhit => (limit = "wall" /\ time >= Hard) \/ status = "XCPU"
  /\ limit = "cpu" /\ pc \in AfterRead => own <= endtime

\* Who is to blame for a signal: the hard limit, a SIGTERM from outside, or the program.
Blamed == terms > 0 \/ hardhit \/ status \in Signals
Causes ==
  /\ "TERM" \in pending => terms > 0
  /\ handler # "none" => hardhit \/ terms > 0
  /\ timer \/ "ALRM" \in pending => "ALRM" \in catches \/ terms > 0
  /\ pc = "killed" => terms > 0
  /\ received # "none" => Blamed
  /\ meta.signal # Absent => Blamed
  /\ received = "KILL" => status = "KILL"
  /\ meta.signal = "KILL" => status = "KILL"
  /\ status = "KILL" => oom \/ suicide \/ terms > 0 \/ hardhit \/ (limit = "cpu" /\ own > Hard)

\* A verdict is given when runguard has ended; none that Justified speaks of after an
\* exception, and none about time after a signal.
Claims ==
  { "ACCEPTED", "TIME_LIMIT_EXCEEDED", "MEMORY_LIMIT_EXCEEDED", "RUNTIME_ERROR",
    "SEGMENTATION_FAULT", "FLOATING_POINT_ERROR" }
Ended ==
  /\ verdict # "none" => Stopped
  /\ verdict \in Claims => pc \in { "done", "killed" }
  /\ verdict = "TIME_LIMIT_EXCEEDED" => pc = "done"

IInv ==
  /\ Control /\ Supervised /\ Noted /\ Filled /\ Reaping /\ Clock /\ Causes
  /\ Ended /\ Justified /\ Contained

USE LimitAssumption

-----------------------------------------------------------------------------
(* The steps of runguard, the program and the kernel.                      *)

\* The three parts of TypeOK.
LEMMA ControlStep ==
  ASSUME IInv, Step, UNCHANGED <<purpose, verdict>>
  PROVE  Control'
<1>. USE DEF IInv, Control
<1>1. CASE Fork
  BY <1>1 DEF Fork, At
<1>2. CASE CatchTerm
  BY <1>2 DEF CatchTerm, At, program
<1>3. CASE CatchAlarm
  BY <1>3 DEF CatchAlarm, At, program
<1>4. CASE Wait
  BY <1>4 DEF Wait, At, Supervised
<1>5. CASE Explain
  BY <1>5 DEF Explain, At, program
<1>6. CASE Read
  BY <1>6 DEF Read, At, program, Supervised
<1>7. CASE Sweep
  BY <1>7 DEF Sweep, At
<1>8. CASE WriteExitcode
  BY <1>8 DEF WriteExitcode, At, program
<1>9. CASE WriteSignal
  BY <1>9 DEF WriteSignal, At, program
<1>10. CASE WriteTime
  BY <1>10 DEF WriteTime, At, program, TimeResult
<1>11. ASSUME NEW s \in pending, TakeSignal(s)  PROVE Control'
  BY <1>11 DEF TakeSignal, AskGroup, End
<1>12. CASE ForceGroup
  BY <1>12 DEF ForceGroup, KillGroup, End
<1>13. CASE HandlerReturns
  BY <1>13 DEF HandlerReturns, program
<1>14. CASE Throw
  BY <1>14 DEF Throw, At, KillGroup, End
<1>15. CASE SendTerm
  BY <1>15 DEF SendTerm, program, Stopped
<1>16. CASE Setup
  BY <1>16 DEF Setup, End, watch
<1>17. CASE Program
  BY <1>17 DEF Program, End, watch
<1>18. CASE StrayEnds
  BY <1>18 DEF StrayEnds, watch
<1>19. CASE OomKill
  BY <1>19 DEF OomKill, End, watch
<1>20. CASE CpuLimit
  BY <1>20 DEF CpuLimit, End, watch
<1>21. CASE Tick
  BY <1>21 DEF Tick
<1>. QED  BY <1>1, <1>2, <1>3, <1>4, <1>5, <1>6, <1>7, <1>8, <1>9, <1>10, <1>11, <1>12,
             <1>13, <1>14, <1>15, <1>16, <1>17, <1>18, <1>19, <1>20, <1>21 DEF Step,
             Runguard

LEMMA SupervisedStep ==
  ASSUME IInv, Step, UNCHANGED <<purpose, verdict>>
  PROVE  Supervised'
<1>. USE DEF IInv, Supervised, ExitCodes, Signals, Absent
<1>1. CASE Fork
  BY <1>1 DEF Fork, At, Reaping
<1>2. CASE CatchTerm
  BY <1>2 DEF CatchTerm, At, program
<1>3. CASE CatchAlarm
  BY <1>3 DEF CatchAlarm, At, program
<1>4. CASE Wait
  BY <1>4 DEF Wait, At, Reaping
<1>5. CASE Explain
  BY <1>5 DEF Explain, At, program
<1>6. CASE Read
  BY <1>6 DEF Read, At, program
<1>7. CASE Sweep
  BY <1>7 DEF Sweep, At
<1>8. CASE WriteExitcode
  BY <1>8 DEF WriteExitcode, At, program
<1>9. CASE WriteSignal
  BY <1>9 DEF WriteSignal, At, program
<1>10. CASE WriteTime
  BY <1>10 DEF WriteTime, At, program, TimeResult
<1>11. ASSUME NEW s \in pending, TakeSignal(s)  PROVE Supervised'
  BY <1>11 DEF TakeSignal, AskGroup, End
<1>12. CASE ForceGroup
  BY <1>12 DEF ForceGroup, KillGroup, End
<1>13. CASE HandlerReturns
  BY <1>13 DEF HandlerReturns, program
<1>14. CASE Throw
  BY <1>14 DEF Throw, At, KillGroup, End
<1>15. CASE SendTerm
  BY <1>15 DEF SendTerm, program
<1>16. CASE Setup
  BY <1>16 DEF Setup, End, watch
<1>17. CASE Program
  <2>1. CASE \E s \in ExitCodes \cup Signals :
                End(s) /\ suicide' = (s = "KILL") /\ UNCHANGED strays
    <3>1. PICK s \in ExitCodes \cup Signals :
            End(s) /\ suicide' = (s = "KILL") /\ UNCHANGED strays
      BY <2>1
    <3>2. suicide' \in BOOLEAN
      BY <3>1, Zenon
    <3>3. child' = "zombie" /\ status' = s /\ s # Absent
      BY <3>1 DEF End
    <3>4. suicide' => status' = "KILL"
      BY <3>1, <3>3
    <3>. QED  BY <1>17, <3>1, <3>2, <3>3, <3>4 DEF Program
  <2>2. CASE UNCHANGED <<child, status, suicide>>
    BY <1>17, <2>2 DEF Program
  <2>. QED  BY <1>17, <2>1, <2>2 DEF Program
<1>18. CASE StrayEnds
  BY <1>18 DEF StrayEnds, watch
<1>19. CASE OomKill
  BY <1>19 DEF OomKill, End, watch
<1>20. CASE CpuLimit
  BY <1>20 DEF CpuLimit, End, watch
<1>21. CASE Tick
  BY <1>21 DEF Tick
<1>. QED  BY <1>1, <1>2, <1>3, <1>4, <1>5, <1>6, <1>7, <1>8, <1>9, <1>10, <1>11, <1>12,
             <1>13, <1>14, <1>15, <1>16, <1>17, <1>18, <1>19, <1>20, <1>21 DEF Step,
             Runguard

LEMMA NotedStep ==
  ASSUME IInv, Step, UNCHANGED <<purpose, verdict>>
  PROVE  Noted'
<1>. USE DEF IInv, Noted
<1>1. CASE Fork
  BY <1>1 DEF Fork, At
<1>2. CASE CatchTerm
  BY <1>2 DEF CatchTerm, At, program
<1>3. CASE CatchAlarm
  BY <1>3 DEF CatchAlarm, At, program
<1>4. CASE Wait
  BY <1>4 DEF Wait, At
<1>5. CASE Explain
  BY <1>5 DEF Explain, At, program, Signals, ExitCodes, Absent, ExitcodeOf, Supervised
<1>6. CASE Read
  BY <1>6 DEF Read, At, program, Meta, Absent, Filled
<1>7. CASE Sweep
  BY <1>7 DEF Sweep, At
<1>8. CASE WriteExitcode
  BY <1>8 DEF WriteExitcode, At, program, Meta, Absent, Filled, ExitCodes, AfterExit,
     AfterSweep, AfterRead, AfterExplain, AfterWait
<1>9. CASE WriteSignal
  BY <1>9 DEF WriteSignal, At, program, Meta, Absent, Filled
<1>10. CASE WriteTime
  BY <1>10 DEF WriteTime, At, program, TimeResult, Meta, Absent, Filled, AfterExit,
     AfterSweep, AfterRead, AfterExplain, AfterWait
<1>11. ASSUME NEW s \in pending, TakeSignal(s)  PROVE Noted'
  BY <1>11 DEF TakeSignal, AskGroup, End, Control, Signals
<1>12. CASE ForceGroup
  BY <1>12 DEF ForceGroup, KillGroup, End
<1>13. CASE HandlerReturns
  BY <1>13 DEF HandlerReturns, program
<1>14. CASE Throw
  BY <1>14 DEF Throw, At, KillGroup, End, Meta, Absent, Filled
<1>15. CASE SendTerm
  BY <1>15 DEF SendTerm, program
<1>16. CASE Setup
  BY <1>16 DEF Setup, End, watch, Meta, Absent, Filled
<1>17. CASE Program
  BY <1>17 DEF Program, End, watch
<1>18. CASE StrayEnds
  BY <1>18 DEF StrayEnds, watch
<1>19. CASE OomKill
  BY <1>19 DEF OomKill, End, watch
<1>20. CASE CpuLimit
  BY <1>20 DEF CpuLimit, End, watch
<1>21. CASE Tick
  BY <1>21 DEF Tick
<1>. QED  BY <1>1, <1>2, <1>3, <1>4, <1>5, <1>6, <1>7, <1>8, <1>9, <1>10, <1>11, <1>12,
             <1>13, <1>14, <1>15, <1>16, <1>17, <1>18, <1>19, <1>20, <1>21 DEF Step,
             Runguard

\* An entry of the meta file is written from what the step before made, and the other
\* entries stay.
LEMMA FilledStep ==
  ASSUME IInv, Step, UNCHANGED <<purpose, verdict>>
  PROVE  Filled'
<1>. USE DEF IInv, Filled
<1>1. CASE Fork
  BY <1>1 DEF Fork, At, AfterExit, AfterSweep, AfterRead, AfterExplain, AfterWait
<1>2. CASE CatchTerm
  BY <1>2 DEF CatchTerm, At, program, AfterExit, AfterSweep, AfterRead, AfterExplain,
     AfterWait
<1>3. CASE CatchAlarm
  BY <1>3 DEF CatchAlarm, At, program, AfterExit, AfterSweep, AfterRead, AfterExplain,
     AfterWait
<1>4. CASE Wait
  BY <1>4 DEF Wait, At, AfterExit, AfterSweep, AfterRead, AfterExplain, AfterWait
<1>5. CASE Explain
  BY <1>5 DEF Explain, At, program, AfterExit, AfterSweep, AfterRead, AfterExplain,
     AfterWait, TimeResult
<1>6. CASE Read
  BY <1>6 DEF Read, At, program, Meta, Absent, AfterExit, AfterSweep, AfterRead,
     AfterExplain, AfterWait
<1>7. CASE Sweep
  BY <1>7 DEF Sweep, At, AfterExit, AfterSweep, AfterRead, AfterExplain, AfterWait
<1>8. CASE WriteExitcode
  <2>1. /\ meta' \in Meta /\ meta'.internal = meta.internal /\ meta'.memory = meta.memory
        /\ meta'.exit = exitcode /\ meta'.time = meta.time
    BY <1>8 DEF WriteExitcode, Filled, Meta, Noted
  <2>. QED  BY <1>8, <2>1 DEF WriteExitcode, At, program, Filled, Noted, Absent,
     ExitCodes, AfterExit, AfterSweep, AfterRead, AfterExplain, AfterWait
<1>9. CASE WriteSignal
  BY <1>9 DEF WriteSignal, At, program, Meta, Control, Supervised, Noted, Absent,
     AfterExit, AfterSweep, AfterRead, AfterExplain, AfterWait
<1>10. CASE WriteTime
  BY <1>10 DEF WriteTime, At, program, TimeResult, Meta, Absent, AfterExit, AfterSweep,
     AfterRead, AfterExplain, AfterWait
<1>11. ASSUME NEW s \in pending, TakeSignal(s)  PROVE Filled'
  BY <1>11 DEF TakeSignal, AskGroup, End, Stopped, Control, Supervised, Noted,
     TimeResult, Reaping, AfterExit, AfterSweep, AfterRead, AfterExplain, AfterWait
<1>12. CASE ForceGroup
  BY <1>12 DEF ForceGroup, KillGroup, End, TimeResult, Reaping, Control, Supervised,
     Noted, AfterExit, AfterSweep, AfterRead, AfterExplain, AfterWait
<1>13. CASE HandlerReturns
  BY <1>13 DEF HandlerReturns, program, TimeResult
<1>14. CASE Throw
  BY <1>14 DEF Throw, At, KillGroup, End, Meta, Absent, ExitCodes, AfterExit, AfterSweep,
     AfterRead, AfterExplain, AfterWait
<1>15. CASE SendTerm
  BY <1>15 DEF SendTerm, program, TimeResult
<1>16. CASE Setup
  <2>1. /\ child = "setup"
        /\ UNCHANGED <<limit, soft, watch, oom, time, own>>
        /\ (status' = status \/ status = Absent)
        /\ (meta' = meta \/ meta' = [meta EXCEPT !.internal = TRUE])
    BY <1>16 DEF Setup, End, Supervised, Absent
  <2>2. pc' \notin AfterExplain /\ TimeResult' = TimeResult
    BY <2>1 DEF watch, TimeResult, Reaping, AfterExplain, AfterWait
  <2>3. /\ meta' \in Meta /\ meta'.memory = meta.memory /\ meta'.exit = meta.exit
        /\ meta'.time = meta.time /\ (meta.internal => meta'.internal)
    BY <2>1 DEF Meta
  <2>. QED  BY <2>1, <2>2, <2>3 DEF watch, AfterExit, AfterSweep, AfterRead, AfterExplain,
       AfterWait
<1>17. CASE Program
  <2>1. /\ child = "runs" /\ (child' = child => status' = status)
        /\ UNCHANGED <<limit, soft, watch, oom, time, own, meta>>
    <3>1. child = "runs" => "zombie" # child
      OBVIOUS
    <3>. QED  BY <1>17, <3>1 DEF Program, End
  <2>2. pc \notin AfterWait
    BY <2>1 DEF Reaping
  <2>3. pc' \notin AfterExplain /\ TimeResult' = TimeResult
    BY <2>1, <2>2 DEF watch, TimeResult, AfterExplain
  <2>. QED  BY <2>1, <2>2, <2>3 DEF watch, AfterExit, AfterSweep, AfterRead, AfterExplain, AfterWait
<1>18. CASE StrayEnds
  BY <1>18 DEF StrayEnds, watch, TimeResult
<1>19. CASE OomKill
  BY <1>19 DEF OomKill, End, watch, TimeResult, Reaping, AfterExit, AfterSweep,
     AfterRead, AfterExplain, AfterWait
<1>20. CASE CpuLimit
  BY <1>20 DEF CpuLimit, End, watch, TimeResult, Reaping, AfterExit, AfterSweep,
     AfterRead, AfterExplain, AfterWait
<1>21. CASE Tick
  BY <1>21 DEF Tick, TimeResult
<1>. QED  BY <1>1, <1>2, <1>3, <1>4, <1>5, <1>6, <1>7, <1>8, <1>9, <1>10, <1>11, <1>12,
             <1>13, <1>14, <1>15, <1>16, <1>17, <1>18, <1>19, <1>20, <1>21 DEF Step,
             Runguard

\* Only wait4 reaps, and only the control group ends what a program started.
LEMMA ReapingStep ==
  ASSUME IInv, Step, UNCHANGED <<purpose, verdict>>
  PROVE  Reaping'
<1>. USE DEF IInv, Reaping, AfterExit, AfterSweep, AfterRead, AfterExplain, AfterWait
<1>1. CASE Fork
  BY <1>1 DEF Fork, At
<1>2. CASE CatchTerm
  BY <1>2 DEF CatchTerm, At, program
<1>3. CASE CatchAlarm
  BY <1>3 DEF CatchAlarm, At, program
<1>4. CASE Wait
  BY <1>4 DEF Wait, At
<1>5. CASE Explain
  BY <1>5 DEF Explain, At, program
<1>6. CASE Read
  BY <1>6 DEF Read, At, program
<1>7. CASE Sweep
  BY <1>7 DEF Sweep, At
<1>8. CASE WriteExitcode
  BY <1>8 DEF WriteExitcode, At, program
<1>9. CASE WriteSignal
  BY <1>9 DEF WriteSignal, At, program
<1>10. CASE WriteTime
  BY <1>10 DEF WriteTime, At, program, TimeResult
<1>11. ASSUME NEW s \in pending, TakeSignal(s)  PROVE Reaping'
  BY <1>11 DEF TakeSignal, AskGroup, End, Stopped
<1>12. CASE ForceGroup
  BY <1>12 DEF ForceGroup, KillGroup, End
<1>13. CASE HandlerReturns
  BY <1>13 DEF HandlerReturns, program
<1>14. CASE Throw
  BY <1>14 DEF Throw, At, KillGroup, End
<1>15. CASE SendTerm
  BY <1>15 DEF SendTerm, program
<1>16. CASE Setup
  BY <1>16 DEF Setup, End, watch
<1>17. CASE Program
  BY <1>17 DEF Program, End, watch
<1>18. CASE StrayEnds
  BY <1>18 DEF StrayEnds, watch
<1>19. CASE OomKill
  BY <1>19 DEF OomKill, End, watch
<1>20. CASE CpuLimit
  BY <1>20 DEF CpuLimit, End, watch
<1>21. CASE Tick
  BY <1>21 DEF Tick
<1>. QED  BY <1>1, <1>2, <1>3, <1>4, <1>5, <1>6, <1>7, <1>8, <1>9, <1>10, <1>11, <1>12,
             <1>13, <1>14, <1>15, <1>16, <1>17, <1>18, <1>19, <1>20, <1>21 DEF Step,
             Runguard

\* The clocks go on together, and the alarm is armed once.
LEMMA ClockStep ==
  ASSUME IInv, Step, UNCHANGED <<purpose, verdict>>
  PROVE  Clock'
<1>. USE DEF IInv, Clock, Control, Supervised, Noted, AfterExit, AfterSweep, AfterRead,
   AfterExplain, AfterWait
<1>1. CASE Fork
  BY <1>1 DEF Fork, At
<1>2. CASE CatchTerm
  BY <1>2 DEF CatchTerm, At, program
<1>3. CASE CatchAlarm
  BY <1>3 DEF CatchAlarm, At, program
<1>4. CASE Wait
  BY <1>4 DEF Wait, At
<1>5. CASE Explain
  BY <1>5 DEF Explain, At, program, Reaping, Absent
<1>6. CASE Read
  BY <1>6 DEF Read, At, program
<1>7. CASE Sweep
  BY <1>7 DEF Sweep, At
<1>8. CASE WriteExitcode
  BY <1>8 DEF WriteExitcode, At, program
<1>9. CASE WriteSignal
  BY <1>9 DEF WriteSignal, At, program
<1>10. CASE WriteTime
  BY <1>10 DEF WriteTime, At, program, TimeResult
<1>11. ASSUME NEW s \in pending, TakeSignal(s)  PROVE Clock'
  BY <1>11 DEF TakeSignal, AskGroup, End, Reaping, Absent
<1>12. CASE ForceGroup
  BY <1>12 DEF ForceGroup, KillGroup, End, Reaping, Absent
<1>13. CASE HandlerReturns
  BY <1>13 DEF HandlerReturns, program
<1>14. CASE Throw
  BY <1>14 DEF Throw, At, KillGroup, End, Reaping, Absent
<1>15. CASE SendTerm
  BY <1>15 DEF SendTerm, program
<1>16. CASE Setup
  BY <1>16 DEF Setup, End, watch, Reaping, Absent
<1>17. CASE Program
  BY <1>17 DEF Program, End, watch, Reaping, Absent
<1>18. CASE StrayEnds
  BY <1>18 DEF StrayEnds, watch
<1>19. CASE OomKill
  BY <1>19 DEF OomKill, End, watch, Reaping, Absent
<1>20. CASE CpuLimit
  BY <1>20 DEF CpuLimit, End, watch, Reaping, Absent
<1>21. CASE Tick
  BY <1>21 DEF Tick, Reaping, Absent
<1>. QED  BY <1>1, <1>2, <1>3, <1>4, <1>5, <1>6, <1>7, <1>8, <1>9, <1>10, <1>11, <1>12,
             <1>13, <1>14, <1>15, <1>16, <1>17, <1>18, <1>19, <1>20, <1>21 DEF Step,
             Runguard

\* Every signal that is noted, and every SIGKILL, has one of the three to blame.
LEMMA CausesStep ==
  ASSUME IInv, Step, UNCHANGED <<purpose, verdict>>
  PROVE  Causes'
<1>. USE DEF IInv, Causes, Blamed, Control, Supervised, Noted
<1>1. CASE Fork
  BY <1>1 DEF Fork, At
<1>2. CASE CatchTerm
  BY <1>2 DEF CatchTerm, At, program
<1>3. CASE CatchAlarm
  BY <1>3 DEF CatchAlarm, At, program, Clock
<1>4. CASE Wait
  BY <1>4 DEF Wait, At
<1>5. CASE Explain
  BY <1>5 DEF Explain, At, program, Signals, ExitCodes, Absent, Reaping, AfterExit,
     AfterSweep, AfterRead, AfterExplain, AfterWait
<1>6. CASE Read
  BY <1>6 DEF Read, At, program, Filled, Meta
<1>7. CASE Sweep
  BY <1>7 DEF Sweep, At
<1>8. CASE WriteExitcode
  BY <1>8 DEF WriteExitcode, At, program, Filled, Meta
<1>9. CASE WriteSignal
  BY <1>9 DEF WriteSignal, At, program, Filled, Meta, Absent
<1>10. CASE WriteTime
  BY <1>10 DEF WriteTime, At, program, TimeResult, Filled, Meta
<1>11. ASSUME NEW s \in pending, TakeSignal(s)  PROVE Causes'
  <2>1. CASE s \in catches
    <3>1. child = "runs" => status = Absent
      BY DEF Supervised
    <3>. QED  BY <1>11, <2>1, <3>1 DEF TakeSignal, AskGroup, End, Causes, Blamed,
       Control, Clock, Signals, Absent
  <2>2. CASE s \notin catches
    BY <1>11, <2>2 DEF TakeSignal, Causes, Blamed, Control, Clock
  <2>. QED  BY <2>1, <2>2
<1>12. CASE ForceGroup
  BY <1>12 DEF ForceGroup, KillGroup, End, Signals, ExitCodes, Absent, Reaping,
     AfterExit, AfterSweep, AfterRead, AfterExplain, AfterWait
<1>13. CASE HandlerReturns
  BY <1>13 DEF HandlerReturns, program
<1>14. CASE Throw
  BY <1>14 DEF Throw, At, KillGroup, End, Signals, ExitCodes, Absent, Reaping, AfterExit,
     AfterSweep, AfterRead, AfterExplain, AfterWait
<1>15. CASE SendTerm
  BY <1>15 DEF SendTerm, program, Clock
<1>16. CASE Setup
  <2>1. meta'.signal = meta.signal
    BY <1>16 DEF Setup, Filled, Meta
  <2>2. status' \in { status, "nonzero" } /\ (status' # status => status = Absent)
    BY <1>16 DEF Setup, End, Supervised
  <2>. QED  BY <1>16, <2>1, <2>2 DEF Setup, watch, Causes, Blamed, Signals, Absent
<1>17. CASE Program
  BY <1>17 DEF Program, End, watch, Signals, ExitCodes, Absent, Reaping, AfterExit,
     AfterSweep, AfterRead, AfterExplain, AfterWait
<1>18. CASE StrayEnds
  BY <1>18 DEF StrayEnds, watch
<1>19. CASE OomKill
  BY <1>19 DEF OomKill, End, watch, Signals, ExitCodes, Absent, Reaping, AfterExit,
     AfterSweep, AfterRead, AfterExplain, AfterWait
<1>20. CASE CpuLimit
  BY <1>20 DEF CpuLimit, End, watch, Signals, ExitCodes, Absent, Reaping, AfterExit,
     AfterSweep, AfterRead, AfterExplain, AfterWait
<1>21. CASE Tick
  BY <1>21 DEF Tick, Clock
<1>. QED  BY <1>1, <1>2, <1>3, <1>4, <1>5, <1>6, <1>7, <1>8, <1>9, <1>10, <1>11, <1>12,
             <1>13, <1>14, <1>15, <1>16, <1>17, <1>18, <1>19, <1>20, <1>21 DEF Step,
             Runguard

\* Once there is a verdict, no step of what is left of the run makes it untrue.
LEMMA EndedStep ==
  ASSUME IInv, Step, UNCHANGED <<purpose, verdict>>
  PROVE  Ended' /\ Justified' /\ Contained'
<1>. USE DEF IInv, Ended, Justified, Contained, Claims, Stopped, Alive, Control,
   Supervised, Noted
<1>1. CASE Fork
  BY <1>1 DEF Fork, At, Reaping, Absent, Signals, ExitCodes, Causes, AfterExit,
     AfterSweep, AfterRead, AfterExplain, AfterWait
<1>2. CASE CatchTerm
  BY <1>2 DEF CatchTerm, At, program, Reaping, Absent, Signals, ExitCodes, Causes,
     AfterExit, AfterSweep, AfterRead, AfterExplain, AfterWait
<1>3. CASE CatchAlarm
  BY <1>3 DEF CatchAlarm, At, program, Reaping, Absent, Signals, ExitCodes, Causes,
     AfterExit, AfterSweep, AfterRead, AfterExplain, AfterWait
<1>4. CASE Wait
  BY <1>4 DEF Wait, At, Reaping, Absent, Signals, ExitCodes, Causes, AfterExit,
     AfterSweep, AfterRead, AfterExplain, AfterWait
<1>5. CASE Explain
  BY <1>5 DEF Explain, At, program, Reaping, Absent, Signals, ExitCodes, Causes,
     AfterExit, AfterSweep, AfterRead, AfterExplain, AfterWait
<1>6. CASE Read
  BY <1>6 DEF Read, At, program, Reaping, Absent, Signals, ExitCodes, Causes, AfterExit,
     AfterSweep, AfterRead, AfterExplain, AfterWait
<1>7. CASE Sweep
  BY <1>7 DEF Sweep, At, Reaping, Absent, Signals, ExitCodes, Causes, AfterExit,
     AfterSweep, AfterRead, AfterExplain, AfterWait
<1>8. CASE WriteExitcode
  BY <1>8 DEF WriteExitcode, At, program, Reaping, Absent, Signals, ExitCodes, Causes,
     AfterExit, AfterSweep, AfterRead, AfterExplain, AfterWait
<1>9. CASE WriteSignal
  BY <1>9 DEF WriteSignal, At, program, Reaping, Absent, Signals, ExitCodes, Causes,
     AfterExit, AfterSweep, AfterRead, AfterExplain, AfterWait
<1>10. CASE WriteTime
  BY <1>10 DEF WriteTime, At, program, TimeResult, Reaping, Absent, Signals, ExitCodes,
     Causes, AfterExit, AfterSweep, AfterRead, AfterExplain, AfterWait
<1>11. ASSUME NEW s \in pending, TakeSignal(s)  PROVE Ended' /\ Justified' /\ Contained'
  BY <1>11 DEF TakeSignal, AskGroup, End, Reaping, Absent, Signals, ExitCodes, Causes,
     AfterExit, AfterSweep, AfterRead, AfterExplain, AfterWait
<1>12. CASE ForceGroup
  BY <1>12 DEF ForceGroup, KillGroup, End, Reaping, Absent, Signals, ExitCodes, Causes,
     AfterExit, AfterSweep, AfterRead, AfterExplain, AfterWait
<1>13. CASE HandlerReturns
  BY <1>13 DEF HandlerReturns, program, Reaping, Absent, Signals, ExitCodes, Causes,
     AfterExit, AfterSweep, AfterRead, AfterExplain, AfterWait
<1>14. CASE Throw
  BY <1>14 DEF Throw, At, KillGroup, End, Reaping, Absent, Signals, ExitCodes, Causes,
     AfterExit, AfterSweep, AfterRead, AfterExplain, AfterWait
<1>15. CASE SendTerm
  BY <1>15 DEF SendTerm, program, Reaping, Absent, Signals, ExitCodes, Causes, AfterExit,
     AfterSweep, AfterRead, AfterExplain, AfterWait
<1>16. CASE Setup
  BY <1>16 DEF Setup, End, watch, Reaping, Absent, Signals, ExitCodes, Causes, AfterExit,
     AfterSweep, AfterRead, AfterExplain, AfterWait
<1>17. CASE Program
  BY <1>17 DEF Program, End, watch, Reaping, Absent, Signals, ExitCodes, Causes,
     AfterExit, AfterSweep, AfterRead, AfterExplain, AfterWait
<1>18. CASE StrayEnds
  BY <1>18 DEF StrayEnds, watch, Reaping, Absent, Signals, ExitCodes, Causes, AfterExit,
     AfterSweep, AfterRead, AfterExplain, AfterWait
<1>19. CASE OomKill
  BY <1>19 DEF OomKill, End, watch, Reaping, Absent, Signals, ExitCodes, Causes,
     AfterExit, AfterSweep, AfterRead, AfterExplain, AfterWait
<1>20. CASE CpuLimit
  BY <1>20 DEF CpuLimit, End, watch, Reaping, Absent, Signals, ExitCodes, Causes,
     AfterExit, AfterSweep, AfterRead, AfterExplain, AfterWait
<1>21. CASE Tick
  BY <1>21 DEF Tick, Reaping, Absent, Signals, ExitCodes, Causes, AfterExit, AfterSweep,
     AfterRead, AfterExplain, AfterWait
<1>. QED  BY <1>1, <1>2, <1>3, <1>4, <1>5, <1>6, <1>7, <1>8, <1>9, <1>10, <1>11, <1>12,
             <1>13, <1>14, <1>15, <1>16, <1>17, <1>18, <1>19, <1>20, <1>21 DEF Step,
             Runguard

-----------------------------------------------------------------------------
(* The rules of the scripts.                                               *)

\* Lists of rules, and whether one of the rules applies.
IsRules(rules) == \E T : rules \in Seq(T)
Applies(rules) == \E k \in 1 .. Len(rules) : rules[k][1]

\* A set of natural numbers has a least one, so there is a first rule that applies.
LEMMA Minimum ==
  ASSUME NEW T, T \subseteq Nat, T # {}
  PROVE  \E x \in T : \A y \in T : x <= y
<1>1. PICK x \in T : \A y \in T : ~ (<<y, x>> \in OpToRel(<, Nat))
  BY NatLessThanWellFounded, WFMin, Zenon
<1>2. \A y \in T : ~ (y < x)
  BY <1>1 DEF OpToRel
<1>. QED  BY <1>2

\* FirstOf gives the outcome of that rule.
LEMMA FirstRule ==
  ASSUME NEW rules, IsRules(rules), Applies(rules)
  PROVE  \E i \in 1 .. Len(rules) :
           /\ rules[i][1]
           /\ \A j \in 1 .. i - 1 : ~ rules[j][1]
           /\ FirstOf(rules) = rules[i][2]
<1>. DEFINE T == { i \in 1 .. Len(rules) : rules[i][1] }
<1>. PICK S : rules \in Seq(S)
  BY DEF IsRules
<1>1. PICK i \in T : \A j \in T : i <= j
  <2>1. T \subseteq Nat /\ T # {}
    BY DEF Applies
  <2>. QED  BY <2>1, Minimum
<1>2. /\ i \in 1 .. Len(rules) /\ rules[i][1] /\ i \in DOMAIN rules
      /\ \A j \in 1 .. i - 1 : ~ rules[j][1]
  BY <1>1
<1>. DEFINE c == CHOOSE m \in DOMAIN rules : rules[m][1] /\ \A j \in 1 .. m - 1 : ~ rules[j][1]
<1>3. c \in DOMAIN rules /\ rules[c][1] /\ \A j \in 1 .. c - 1 : ~ rules[j][1]
  BY <1>2
<1>4. c = i
  <2>1. ~ (i \in 1 .. c - 1) /\ ~ (c \in 1 .. i - 1)
    BY <1>2, <1>3
  <2>. QED  BY <2>1, <1>2, <1>3
<1>. QED  BY <1>2, <1>4 DEF FirstOf

\* Two lists in a row.
LEMMA Concatenated ==
  ASSUME NEW a, NEW b, IsRules(a), IsRules(b)
  PROVE  /\ IsRules(a \o b) /\ Len(a) \in Nat /\ Len(b) \in Nat
         /\ Len(a \o b) = Len(a) + Len(b)
         /\ \A i \in 1 .. Len(a) : (a \o b)[i] = a[i]
         /\ \A i \in 1 .. Len(b) : (a \o b)[Len(a) + i] = b[i]
<1>1. PICK S, T : a \in Seq(S) /\ b \in Seq(T)
  BY DEF IsRules
<1>2. a \in Seq(S \cup T) /\ b \in Seq(S \cup T)
  BY <1>1
<1>3. a \o b \in Seq(S \cup T)
  BY <1>2
<1>. QED  BY <1>2, <1>3 DEF IsRules

LEMMA FirstOfLeft ==
  ASSUME NEW a, NEW b, IsRules(a), IsRules(b), Applies(a)
  PROVE  Applies(a \o b) /\ FirstOf(a \o b) = FirstOf(a)
<1>1. PICK i \in 1 .. Len(a) :
        a[i][1] /\ (\A j \in 1 .. i - 1 : ~ a[j][1]) /\ FirstOf(a) = a[i][2]
  BY FirstRule
<1>2. Applies(a \o b)
  BY <1>1, Concatenated DEF Applies
<1>3. PICK n \in 1 .. Len(a \o b) :
        /\ (a \o b)[n][1]
        /\ \A j \in 1 .. n - 1 : ~ (a \o b)[j][1]
        /\ FirstOf(a \o b) = (a \o b)[n][2]
  BY <1>2, Concatenated, FirstRule
<1>4. ~ (i \in 1 .. n - 1) /\ ~ (n \in 1 .. i - 1)
  BY <1>1, <1>3, Concatenated
<1>5. i = n
  BY <1>1, <1>3, <1>4, Concatenated
<1>. QED  BY <1>1, <1>2, <1>3, <1>5, Concatenated

LEMMA FirstOfRight ==
  ASSUME NEW a, NEW b, IsRules(a), IsRules(b), ~ Applies(a), Applies(b)
  PROVE  Applies(a \o b) /\ FirstOf(a \o b) = FirstOf(b)
<1>1. PICK i \in 1 .. Len(b) :
        b[i][1] /\ (\A j \in 1 .. i - 1 : ~ b[j][1]) /\ FirstOf(b) = b[i][2]
  BY FirstRule
<1>2. (a \o b)[Len(a) + i] = b[i] /\ Len(a) + i \in 1 .. Len(a \o b)
  BY <1>1, Concatenated
<1>3. Applies(a \o b)
  BY <1>1, <1>2 DEF Applies
<1>4. PICK n \in 1 .. Len(a \o b) :
        /\ (a \o b)[n][1]
        /\ \A j \in 1 .. n - 1 : ~ (a \o b)[j][1]
        /\ FirstOf(a \o b) = (a \o b)[n][2]
  BY <1>3, Concatenated, FirstRule
<1>5. n > Len(a)
  BY <1>4, Concatenated DEF Applies
<1>. DEFINE m == n - Len(a)
<1>6. m \in 1 .. Len(b) /\ n = Len(a) + m
  BY <1>5, Concatenated
<1>. HIDE DEF m
<1>7. (a \o b)[n] = b[m]
  BY <1>6, Concatenated
<1>8. ~ (m \in 1 .. i - 1)
  BY <1>1, <1>4, <1>7
<1>9. ~ (i \in 1 .. m - 1)
  <2>1. i \in 1 .. m - 1 => Len(a) + i \in 1 .. n - 1
    BY <1>6, Concatenated
  <2>2. (a \o b)[Len(a) + i][1]
    BY <1>1, <1>2
  <2>. QED  BY <2>1, <2>2, <1>4
<1>10. i = m
  BY <1>1, <1>6, <1>8, <1>9
<1>. QED  BY <1>1, <1>3, <1>4, <1>7, <1>10

\* Of two lists in a row, the first one in which a rule applies decides.
LEMMA Joined ==
  ASSUME NEW a, NEW b, IsRules(a), IsRules(b)
  PROVE  /\ IsRules(a \o b)
         /\ Applies(a \o b) <=> Applies(a) \/ Applies(b)
         /\ Applies(a) => FirstOf(a \o b) = FirstOf(a)
         /\ ~ Applies(a) /\ Applies(b) => FirstOf(a \o b) = FirstOf(b)
<1>1. ~ Applies(a) /\ ~ Applies(b) => ~ Applies(a \o b)
  <2>. SUFFICES ASSUME ~ Applies(a), ~ Applies(b), NEW n \in 1 .. Len(a \o b)
                PROVE  ~ (a \o b)[n][1]
    BY DEF Applies
  <2>1. CASE n <= Len(a)
    <3>1. n \in 1 .. Len(a) /\ (a \o b)[n] = a[n]
      BY <2>1, Concatenated
    <3>. QED  BY <3>1 DEF Applies
  <2>2. CASE n > Len(a)
    <3>. DEFINE k == n - Len(a)
    <3>1. k \in 1 .. Len(b) /\ n = Len(a) + k
      BY <2>2, Concatenated
    <3>. HIDE DEF k
    <3>2. (a \o b)[n] = b[k]
      BY <3>1, Concatenated
    <3>. QED  BY <3>1, <3>2 DEF Applies
  <2>3. n <= Len(a) \/ n > Len(a)
    BY Concatenated
  <2>. QED  BY <2>1, <2>2, <2>3
<1>. QED  BY <1>1, Concatenated, FirstOfLeft, FirstOfRight

\* A list that is written out is a list of rules.
LEMMA Two ==
  ASSUME NEW a, NEW b
  PROVE  IsRules(<<a, b>>) /\ Len(<<a, b>>) = 2
<1>1. <<a, b>> \in Seq({ a, b })
  OBVIOUS
<1>. QED  BY <1>1 DEF IsRules

LEMMA Six ==
  ASSUME NEW a, NEW b, NEW c, NEW d, NEW e, NEW f
  PROVE  IsRules(<<a, b, c, d, e, f>>) /\ Len(<<a, b, c, d, e, f>>) = 6
<1>1. <<a, b, c, d, e, f>> \in Seq({ a, b, c, d, e, f })
  OBVIOUS
<1>. QED  BY <1>1 DEF IsRules

LEMMA Seven ==
  ASSUME NEW a, NEW b, NEW c, NEW d, NEW e, NEW f, NEW g
  PROVE  IsRules(<<a, b, c, d, e, f, g>>) /\ Len(<<a, b, c, d, e, f, g>>) = 7
<1>1. <<a, b, c, d, e, f, g>> \in Seq({ a, b, c, d, e, f, g })
  OBVIOUS
<1>. QED  BY <1>1 DEF IsRules

\* The rules about the program, read one by one.
LEMMA ProgramRulesRead ==
  ASSUME NEW m
  PROVE  /\ IsRules(ProgramRules(m)) /\ Len(ProgramRules(m)) = 9
         /\ (ProgramRules(m)[1][1] <=> m = NoMeta) /\ ProgramRules(m)[1][2] = "INTERNAL"
         /\ (ProgramRules(m)[2][1] <=> m.internal) /\ ProgramRules(m)[2][2] = "INTERNAL"
         /\ (ProgramRules(m)[3][1] <=> OverTime(m)) /\ ProgramRules(m)[3][2] = "TIME_LIMIT"
         /\ (ProgramRules(m)[4][1] <=> m.memory = "oom") /\ ProgramRules(m)[4][2] = "MEM_LIMIT"
         /\ (ProgramRules(m)[5][1] <=> m.signal = "SEGV") /\ ProgramRules(m)[5][2] = "SEG_FAULT"
         /\ (ProgramRules(m)[6][1] <=> m.signal = "FPE") /\ ProgramRules(m)[6][2] = "FLOATING_POINT"
         /\ (ProgramRules(m)[7][1] <=> m.signal = "KILL") /\ ProgramRules(m)[7][2] = "MEM_LIMIT"
         /\ (ProgramRules(m)[8][1] <=> m.signal # Absent) /\ ProgramRules(m)[8][2] = "RUNTIME_ERROR"
         /\ (ProgramRules(m)[9][1] <=> m.exit = "nonzero") /\ ProgramRules(m)[9][2] = "RUNTIME_ERROR"
<1>1. ProgramRules(m) \in Seq({ ProgramRules(m)[i] : i \in 1 .. 9 })
  BY DEF ProgramRules
<1>2. Len(ProgramRules(m)) = 9
  BY DEF ProgramRules
<1>. QED  BY <1>1, <1>2, Zenon DEF ProgramRules, IsRules

\* What a code says of the meta file: an accepted run and a time limit look at the time,
\* and any other fault of the program is reported by a run that was not over it.
Faults == { "SEG_FAULT", "FLOATING_POINT", "RUNTIME_ERROR" }
Reasoned(code, m) ==
  /\ code = "ACCEPTED" => ~ m.internal /\ ~ OverTime(m)
  /\ code = "TIME_LIMIT" => ~ m.internal /\ OverTime(m)
  /\ code = "MEM_LIMIT" =>
       ~ m.internal /\ ~ OverTime(m) /\ (m.memory = "oom" \/ m.signal = "KILL")
  /\ code \in Faults =>
       ~ m.internal /\ ~ OverTime(m) /\ (m.signal # Absent \/ m.exit = "nonzero")

LEMMA ProgramCode ==
  ASSUME NEW m, Applies(ProgramRules(m))
  PROVE  /\ FirstOf(ProgramRules(m)) \in { "INTERNAL", "TIME_LIMIT", "MEM_LIMIT" } \cup Faults
         /\ Reasoned(FirstOf(ProgramRules(m)), m)
<1>. DEFINE r == ProgramRules(m)
<1>1. IsRules(r) /\ Applies(r) /\ Len(r) = 9
  BY ProgramRulesRead, Zenon
<1>2. /\ r[2][1] <=> m.internal
      /\ r[3][1] <=> OverTime(m)
      /\ r[4][1] <=> m.memory = "oom"
      /\ r[5][1] <=> m.signal = "SEGV"
      /\ r[6][1] <=> m.signal = "FPE"
      /\ r[7][1] <=> m.signal = "KILL"
      /\ r[8][1] <=> m.signal # Absent
      /\ r[9][1] <=> m.exit = "nonzero"
  BY ProgramRulesRead, Zenon
<1>3. /\ r[1][2] = "INTERNAL" /\ r[2][2] = "INTERNAL" /\ r[3][2] = "TIME_LIMIT"
      /\ r[4][2] = "MEM_LIMIT" /\ r[5][2] = "SEG_FAULT" /\ r[6][2] = "FLOATING_POINT"
      /\ r[7][2] = "MEM_LIMIT" /\ r[8][2] = "RUNTIME_ERROR" /\ r[9][2] = "RUNTIME_ERROR"
  BY ProgramRulesRead, Zenon
<1>. HIDE DEF r
<1>4. PICK i \in 1 .. 9 : 
        r[i][1] /\ (\A j \in 1 .. i - 1 : ~ r[j][1]) /\ FirstOf(r) = r[i][2]
  BY <1>1, FirstRule
<1>5. /\ i > 2 => ~ m.internal
      /\ i > 3 => ~ OverTime(m)
  BY <1>2, <1>4
<1>6. \/ i \in { 1, 2 } /\ FirstOf(r) = "INTERNAL"
      \/ i = 3 /\ FirstOf(r) = "TIME_LIMIT" /\ OverTime(m)
      \/ i = 4 /\ FirstOf(r) = "MEM_LIMIT" /\ m.memory = "oom"
      \/ i = 5 /\ FirstOf(r) = "SEG_FAULT" /\ m.signal = "SEGV"
      \/ i = 6 /\ FirstOf(r) = "FLOATING_POINT" /\ m.signal = "FPE"
      \/ i = 7 /\ FirstOf(r) = "MEM_LIMIT" /\ m.signal = "KILL"
      \/ i = 8 /\ FirstOf(r) = "RUNTIME_ERROR" /\ m.signal # Absent
      \/ i = 9 /\ FirstOf(r) = "RUNTIME_ERROR" /\ m.exit = "nonzero"
  BY <1>2, <1>3, <1>4
<1>7. FirstOf(r) \in { "INTERNAL", "TIME_LIMIT", "MEM_LIMIT" } \cup Faults /\ Reasoned(FirstOf(r), m)
  BY <1>5, <1>6 DEF Reasoned, Faults, Absent
<1>. QED  BY <1>7 DEF r

\* No rule about the program applies to one that went well.
LEMMA ProgramPassed ==
  ASSUME NEW m, ~ Applies(ProgramRules(m))
  PROVE  ~ m.internal /\ ~ OverTime(m) /\ m.exit # "nonzero"
<1>. DEFINE r == ProgramRules(m)
<1>1. ~ Applies(r) /\ Len(r) = 9
  BY ProgramRulesRead, Zenon
<1>2. /\ r[2][1] <=> m.internal
      /\ r[3][1] <=> OverTime(m)
      /\ r[9][1] <=> m.exit = "nonzero"
  BY ProgramRulesRead, Zenon
<1>. HIDE DEF r
<1>. QED  BY <1>1, <1>2 DEF Applies

\* What the comparator alone can lead to.
Answers ==
  { "ACCEPTED", "WRONG_ANSWER", "PRESENTATION_ERROR", "PARTIAL_CORRECT", "COMPARE_ERROR" }

\* One of the comparator's rules always applies.
LEMMA CompareCode ==
  ASSUME NEW c
  PROVE  /\ IsRules(CompareRules(c)) /\ Applies(CompareRules(c))
         /\ FirstOf(CompareRules(c)) \in Answers
<1>. DEFINE r == CompareRules(c)
<1>1. IsRules(r) /\ Len(r) = 6
  BY Six, Zenon DEF CompareRules
<1>2. /\ r[1][2] = "COMPARE_ERROR" /\ r[2][2] = "ACCEPTED" /\ r[3][2] = "WRONG_ANSWER"
      /\ r[4][2] = "PRESENTATION_ERROR" /\ r[5][2] = "PARTIAL_CORRECT"
      /\ r[6][1] /\ r[6][2] = "COMPARE_ERROR"
  BY Zenon DEF CompareRules
<1>. HIDE DEF r
<1>3. Applies(r)
  BY <1>1, <1>2 DEF Applies
<1>4. PICK i \in 1 .. 6 : FirstOf(r) = r[i][2]
  BY <1>1, <1>3, FirstRule
<1>5. FirstOf(r) \in Answers
  BY <1>2, <1>4 DEF Answers
<1>. QED  BY <1>1, <1>3, <1>5 DEF r

\* A mount point in use.
LEMMA UmountCode ==
  ASSUME NEW alive
  PROVE  /\ IsRules(UmountRules(alive))
         /\ Applies(UmountRules(alive)) <=> alive
         /\ alive => FirstOf(UmountRules(alive)) = "127"
<1>. DEFINE r == UmountRules(alive)
<1>1. IsRules(r) /\ Len(r) = 1
  <2>1. \A x : <<x>> \in Seq({ x }) /\ Len(<<x>>) = 1
    OBVIOUS
  <2>. QED  BY <2>1, Zenon DEF UmountRules, IsRules
<1>2. (r[1][1] <=> alive) /\ r[1][2] = "127"
  BY Zenon DEF UmountRules
<1>. HIDE DEF r
<1>3. Applies(r) <=> alive
  BY <1>1, <1>2 DEF Applies
<1>4. alive => FirstOf(r) = "127"
  BY <1>1, <1>2, <1>3, FirstRule
<1>. QED  BY <1>1, <1>3, <1>4 DEF r

\* The rules about the program, then those about the comparator, after some others.
LEMMA RunCode ==
  ASSUME NEW pre, IsRules(pre), NEW m, NEW c
  PROVE  LET code == FirstOf(pre \o ProgramRules(m) \o CompareRules(c))
         IN  /\ Applies(pre) => code = FirstOf(pre)
             /\ ~ Applies(pre) => /\ Reasoned(code, m)
                                  /\ code = "ACCEPTED" => m.exit # "nonzero"
<1>. DEFINE p == ProgramRules(m)
            q == CompareRules(c)
            code == FirstOf(pre \o p \o q)
<1>1. IsRules(p) /\ IsRules(q) /\ Applies(q) /\ FirstOf(q) \in Answers
  BY ProgramRulesRead, CompareCode, Zenon
<1>2. Applies(p) => /\ FirstOf(p) \in { "INTERNAL", "TIME_LIMIT", "MEM_LIMIT" } \cup Faults
                    /\ Reasoned(FirstOf(p), m)
  BY ProgramCode, Zenon
<1>3. ~ Applies(p) => ~ m.internal /\ ~ OverTime(m) /\ m.exit # "nonzero"
  BY ProgramPassed, Zenon
<1>. HIDE DEF p, q
<1>4. /\ IsRules(pre \o p) /\ (Applies(pre \o p) <=> Applies(pre) \/ Applies(p))
      /\ Applies(pre) => FirstOf(pre \o p) = FirstOf(pre)
      /\ ~ Applies(pre) /\ Applies(p) => FirstOf(pre \o p) = FirstOf(p)
  BY <1>1, Joined
<1>5. /\ Applies(pre \o p) => code = FirstOf(pre \o p)
      /\ ~ Applies(pre \o p) => code = FirstOf(q)
  BY <1>1, <1>4, Joined
<1>6. ASSUME ~ Applies(pre)
      PROVE  Reasoned(code, m) /\ (code = "ACCEPTED" => m.exit # "nonzero")
  <2>1. CASE Applies(p)
    <3>1. code = FirstOf(p)
      BY <1>4, <1>5, <1>6, <2>1
    <3>2. code # "ACCEPTED"
      BY <1>2, <2>1, <3>1 DEF Faults
    <3>. QED  BY <1>2, <2>1, <3>1, <3>2
  <2>2. CASE ~ Applies(p)
    <3>1. code = FirstOf(q)
      BY <1>4, <1>5, <1>6, <2>2
    <3>. QED  BY <1>1, <1>3, <2>2, <3>1 DEF Reasoned, Faults, Answers
  <2>. QED  BY <2>1, <2>2
<1>. QED  BY <1>4, <1>5, <1>6 DEF p, q

\* exec/check/standard-trusted: 127 while a process holds a mount point.
LEMMA TrustedReasons ==
  ASSUME NEW alive, NEW m, NEW c
  PROVE  LET code == TrustedCode(alive, m, c)
         IN  /\ alive => code = "127"
             /\ ~ alive => Reasoned(code, m) /\ (code = "ACCEPTED" => m.exit # "nonzero")
<1>1. /\ IsRules(UmountRules(alive)) /\ (Applies(UmountRules(alive)) <=> alive)
      /\ alive => FirstOf(UmountRules(alive)) = "127"
  BY UmountCode
<1>. DEFINE code == FirstOf(UmountRules(alive) \o ProgramRules(m) \o CompareRules(c))
<1>2. /\ Applies(UmountRules(alive)) => code = FirstOf(UmountRules(alive))
      /\ ~ Applies(UmountRules(alive)) => /\ Reasoned(code, m)
                                          /\ code = "ACCEPTED" => m.exit # "nonzero"
  BY <1>1, RunCode
<1>3. code = TrustedCode(alive, m, c)
  BY Zenon DEF TrustedCode
<1>. HIDE DEF code
<1>. QED  BY <1>1, <1>2, <1>3

\* exec/check/standard, which looks at the run of the comparator first.
LEMMA StandardReasons ==
  ASSUME NEW alive, NEW m, NEW c
  PROVE  LET code == StandardCode(alive, m, c)
         IN  /\ alive => code = "127"
             /\ ~ alive => Reasoned(code, m) /\ (code = "ACCEPTED" => m.exit # "nonzero")
<1>. DEFINE u == UmountRules(alive)
            s == << << c.meta = "timelimit", "COMPARE_ERROR" >>,
                    << c.meta = "internal", "INTERNAL" >> >>
            code == FirstOf(u \o s \o ProgramRules(m) \o CompareRules(c))
<1>1. code = StandardCode(alive, m, c)
  BY Zenon DEF StandardCode
<1>2. IsRules(u) /\ (Applies(u) <=> alive) /\ (alive => FirstOf(u) = "127")
  BY UmountCode DEF u
<1>3. IsRules(s) /\ Len(s) = 2
  BY Two, Zenon
<1>4. s[1][2] = "COMPARE_ERROR" /\ s[2][2] = "INTERNAL"
  BY Zenon
<1>. HIDE DEF u, s
<1>5. Applies(s) => FirstOf(s) \in { "COMPARE_ERROR", "INTERNAL" }
  BY <1>3, <1>4, FirstRule
<1>6. /\ IsRules(u \o s) /\ (Applies(u \o s) <=> Applies(u) \/ Applies(s))
      /\ Applies(u) => FirstOf(u \o s) = FirstOf(u)
      /\ ~ Applies(u) /\ Applies(s) => FirstOf(u \o s) = FirstOf(s)
  BY <1>2, <1>3, Joined
<1>7. /\ Applies(u \o s) => code = FirstOf(u \o s)
      /\ ~ Applies(u \o s) => Reasoned(code, m) /\ (code = "ACCEPTED" => m.exit # "nonzero")
  BY <1>6, RunCode, Zenon
<1>8. ~ alive /\ Applies(s) => Reasoned(code, m) /\ code # "ACCEPTED"
  BY <1>2, <1>5, <1>6, <1>7 DEF Reasoned, Faults
<1>. QED  BY <1>1, <1>2, <1>6, <1>7, <1>8

\* exec/check/static: it reads the time, and neither the exit code nor a signal.
LEMMA StaticReasons ==
  ASSUME NEW m, NEW c
  PROVE  Reasoned(StaticCode(m, c), m) /\ StaticCode(m, c) \notin Faults \cup { "MEM_LIMIT" }
<1>. DEFINE r == <<
       << m = NoMeta,     "INTERNAL" >>,
       << m.internal,     "INTERNAL" >>,
       << OverTime(m),    "TIME_LIMIT" >>,
       << c.exit = "AC",  "ACCEPTED" >>,
       << c.exit = "WA",  "WRONG_ANSWER" >>,
       << c.exit = "PC",  "PARTIAL_CORRECT" >>,
       << TRUE,           "INTERNAL" >> >>
<1>1. StaticCode(m, c) = FirstOf(r)
  BY Zenon DEF StaticCode
<1>2. IsRules(r) /\ Len(r) = 7
  BY Seven, Zenon
<1>3. (r[2][1] <=> m.internal) /\ (r[3][1] <=> OverTime(m)) /\ r[7][1]
  BY Zenon
<1>4. /\ r[1][2] = "INTERNAL" /\ r[2][2] = "INTERNAL" /\ r[3][2] = "TIME_LIMIT"
      /\ r[4][2] = "ACCEPTED" /\ r[5][2] = "WRONG_ANSWER" /\ r[6][2] = "PARTIAL_CORRECT"
      /\ r[7][2] = "INTERNAL"
  BY Zenon
<1>. HIDE DEF r
<1>5. PICK i \in 1 .. 7 :
        r[i][1] /\ (\A j \in 1 .. i - 1 : ~ r[j][1]) /\ FirstOf(r) = r[i][2]
  <2>1. Applies(r)
    BY <1>2, <1>3 DEF Applies
  <2>. QED  BY <1>2, <2>1, FirstRule
<1>6. (i > 2 => ~ m.internal) /\ (i > 3 => ~ OverTime(m))
  BY <1>3, <1>5
<1>7. \/ i = 3 /\ FirstOf(r) = "TIME_LIMIT" /\ OverTime(m)
      \/ i = 4 /\ FirstOf(r) = "ACCEPTED"
      \/ FirstOf(r) \in { "INTERNAL", "WRONG_ANSWER", "PARTIAL_CORRECT" }
  BY <1>3, <1>4, <1>5
<1>. QED  BY <1>1, <1>6, <1>7 DEF Reasoned, Faults

\* exec/compile.sh: success needs an exit code that is not a failure.
LEMMA CompileReasons ==
  ASSUME NEW alive, NEW m, NEW c, CompileCode(alive, m, c) = "SUCCESS"
  PROVE  ~ alive /\ ~ m.internal /\ ~ OverTime(m) /\ m.exit # "nonzero"
<1>. DEFINE u == UmountRules(alive)
            r == <<
              << m = NoMeta,                   "INTERNAL" >>,
              << m.internal,                   "INTERNAL" >>,
              << OverTime(m),                  "COMPILER_ERROR" >>,
              << m.exit = "nonzero",           "COMPILER_ERROR" >>,
              << c.exit # "AC",                "COMPILER_ERROR" >>,
              << TRUE,                         "SUCCESS" >> >>
<1>1. CompileCode(alive, m, c) = FirstOf(u \o r)
  BY Zenon DEF CompileCode
<1>2. IsRules(u) /\ (Applies(u) <=> alive) /\ (alive => FirstOf(u) = "127")
  BY UmountCode DEF u
<1>3. IsRules(r) /\ Len(r) = 6
  BY Six, Zenon
<1>4. /\ r[2][1] <=> m.internal
      /\ r[3][1] <=> OverTime(m)
      /\ r[4][1] <=> m.exit = "nonzero"
      /\ r[6][1]
  BY Zenon
<1>5. /\ r[1][2] = "INTERNAL" /\ r[2][2] = "INTERNAL" /\ r[3][2] = "COMPILER_ERROR"
      /\ r[4][2] = "COMPILER_ERROR" /\ r[5][2] = "COMPILER_ERROR"
  BY Zenon
<1>. HIDE DEF u, r
<1>6. Applies(r)
  BY <1>3, <1>4 DEF Applies
<1>7. ~ alive /\ FirstOf(r) = "SUCCESS"
  BY <1>1, <1>2, <1>3, <1>6, Joined
<1>8. PICK i \in 1 .. 6 :
        r[i][1] /\ (\A j \in 1 .. i - 1 : ~ r[j][1]) /\ FirstOf(r) = r[i][2]
  BY <1>3, <1>6, FirstRule
<1>9. i = 6
  BY <1>5, <1>7, <1>8
<1>. QED  BY <1>4, <1>7, <1>8, <1>9

-----------------------------------------------------------------------------
(* The status of the test.                                                 *)

\* What a verdict says of the meta file, and of the processes that were left.
Reasons(v) ==
  /\ v = "ACCEPTED" =>
       ~ meta.internal /\ ~ OverTime(meta) /\ (purpose # "static" => meta.exit # "nonzero")
  /\ v = "TIME_LIMIT_EXCEEDED" => ~ meta.internal /\ OverTime(meta)
  /\ v = "MEMORY_LIMIT_EXCEEDED" =>
       ~ meta.internal /\ ~ OverTime(meta) /\ (meta.memory = "oom" \/ meta.signal = "KILL")
  /\ v \in { "RUNTIME_ERROR", "SEGMENTATION_FAULT", "FLOATING_POINT_ERROR" } =>
       ~ meta.internal /\ ~ OverTime(meta) /\ (meta.signal # Absent \/ meta.exit = "nonzero")
  /\ purpose # "static" /\ Alive => v \in { "SYSTEM_ERROR", "COMPILATION_ERROR" }

\* The status of a code is one of those, and tells the codes apart that matter.
LEMMA StatusOfCode ==
  ASSUME NEW code, NEW v, v = JudgeStatus(code)
  PROVE  /\ v = "ACCEPTED" => code = "ACCEPTED"
         /\ v = "TIME_LIMIT_EXCEEDED" => code = "TIME_LIMIT"
         /\ v = "MEMORY_LIMIT_EXCEEDED" => code = "MEM_LIMIT"
         /\ v \in { "RUNTIME_ERROR", "SEGMENTATION_FAULT", "FLOATING_POINT_ERROR" } =>
              code \in Faults
         /\ code = "127" => v = "SYSTEM_ERROR"
  BY DEF JudgeStatus, Faults

\* Every script has the reasons for what it says.
LEMMA ReasonsGiven ==
  ASSUME purpose \in Purposes, NEW c
  PROVE  Reasons(StatusOf(c))
<1>1. CASE purpose = "standard"
  <2>. DEFINE code == StandardCode(Alive, meta, c)
  <2>1. /\ Alive => code = "127"
        /\ ~ Alive => Reasoned(code, meta) /\ (code = "ACCEPTED" => meta.exit # "nonzero")
    BY StandardReasons
  <2>2. StatusOf(c) = JudgeStatus(code)
    BY <1>1 DEF StatusOf
  <2>. HIDE DEF code
  <2>. QED  BY <1>1, <2>1, <2>2, StatusOfCode DEF Reasons, Reasoned, Faults
<1>2. CASE purpose = "trusted"
  <2>. DEFINE code == TrustedCode(Alive, meta, c)
  <2>1. /\ Alive => code = "127"
        /\ ~ Alive => Reasoned(code, meta) /\ (code = "ACCEPTED" => meta.exit # "nonzero")
    BY TrustedReasons
  <2>2. StatusOf(c) = JudgeStatus(code)
    BY <1>2 DEF StatusOf
  <2>. HIDE DEF code
  <2>. QED  BY <1>2, <2>1, <2>2, StatusOfCode DEF Reasons, Reasoned, Faults
<1>3. CASE purpose = "static"
  <2>. DEFINE code == StaticCode(meta, c)
  <2>1. Reasoned(code, meta)
    BY StaticReasons
  <2>2. StatusOf(c) = JudgeStatus(code)
    BY <1>3 DEF StatusOf
  <2>. HIDE DEF code
  <2>. QED  BY <1>3, <2>1, <2>2, StatusOfCode DEF Reasons, Reasoned
<1>4. CASE purpose = "compile"
  <2>. DEFINE code == CompileCode(Alive, meta, c)
  <2>1. code = "SUCCESS" =>
          ~ Alive /\ ~ meta.internal /\ ~ OverTime(meta) /\ meta.exit # "nonzero"
    BY CompileReasons
  <2>2. StatusOf(c) = CompileStatus(code)
    BY <1>4 DEF StatusOf
  <2>. HIDE DEF code
  <2>. QED  BY <1>4, <2>1, <2>2 DEF Reasons, CompileStatus
<1>. QED  BY <1>1, <1>2, <1>3, <1>4 DEF Purposes

\* The verdict: what the scripts read in the meta file is true of the run.
LEMMA JudgeStep ==
  ASSUME IInv, Judge
  PROVE  IInv'
<1>1. PICK c \in Comparisons : verdict' = StatusOf(c)
  BY DEF Judge
<1>2. Reasons(verdict')
  BY <1>1, ReasonsGiven DEF IInv, Control
<1>3. Stopped /\ UNCHANGED <<rvars, purpose>>
  BY DEF Judge
<1>4. Control' /\ Supervised' /\ Noted'
  BY <1>3 DEF IInv, Control, Supervised, Noted, rvars, watch, program
<1>5. Filled'
  BY <1>3 DEF IInv, Filled, TimeResult, rvars, watch, program
<1>6. Reaping' /\ Clock'
  BY <1>3 DEF IInv, Reaping, Clock, rvars, watch, program
<1>7. Causes'
  BY <1>3 DEF IInv, Causes, Blamed, rvars, watch, program
<1>8. verdict' \in Claims => pc # "failed"
  BY <1>2 DEF IInv, Filled, Reasons, Claims
<1>9. OverTime(meta) => pc = "done" /\ (hardhit \/ endtime > soft)
  BY DEF IInv, Filled, OverTime, TimeResult, Absent
<1>10. pc = "done" /\ ~ OverTime(meta) => ~ hardhit /\ endtime <= soft
  <2>. SUFFICES ASSUME pc = "done", ~ OverTime(meta)
                PROVE  ~ hardhit /\ endtime <= soft
    OBVIOUS
  <2>1. TimeResult \notin { "soft", "hard" }
    BY DEF IInv, Filled, OverTime
  <2>2. ~ hardhit /\ ~ endtime > soft
    BY <2>1 DEF TimeResult
  <2>. QED  BY <2>2 DEF IInv, Control
<1>11. pc = "done" => /\ status \in ExitCodes \cup Signals
                      /\ meta.exit = ExitcodeOf(status)
  BY DEF IInv, Supervised, Filled, Reaping, AfterExit, AfterSweep, AfterRead, AfterExplain,
         AfterWait
<1>12. Ended'
  BY <1>2, <1>3, <1>8, <1>9 DEF Ended, Stopped, Claims, Reasons, rvars, watch
<1>13. verdict' = "ACCEPTED" =>
         \/ pc = "killed"
         \/ endtime <= soft /\ ~ hardhit /\ (purpose # "static" => status = "zero")
  BY <1>2, <1>3, <1>8, <1>10, <1>11 DEF Stopped, Claims, Reasons, ExitcodeOf, ExitCodes
<1>14. verdict' = "TIME_LIMIT_EXCEEDED" =>
         endtime > soft \/ (limit = "wall" /\ time >= Hard) \/ status = "XCPU"
  BY <1>2, <1>9 DEF IInv, Clock, Reasons
<1>15. verdict' = "MEMORY_LIMIT_EXCEEDED" => oom \/ suicide \/ terms > 0
  <2>. SUFFICES ASSUME verdict' = "MEMORY_LIMIT_EXCEEDED", terms = 0
                PROVE  oom \/ suicide
    BY DEF IInv, Control
  <2>1. pc = "done" /\ ~ hardhit /\ endtime <= soft
    BY <1>2, <1>3, <1>8, <1>10 DEF IInv, Causes, Stopped, Claims, Reasons
  <2>2. limit = "cpu" => own <= endtime
    BY <2>1 DEF IInv, Clock, AfterRead, AfterExplain, AfterWait
  <2>3. soft <= Hard /\ soft \in Nat /\ endtime \in Nat /\ own \in Nat
    BY DEF IInv, Control, Supervised
  <2>4. meta.signal = "KILL" => oom \/ suicide
    BY <2>1, <2>2, <2>3 DEF IInv, Causes
  <2>5. meta.memory = "oom" => oom
    BY DEF IInv, Filled
  <2>. QED  BY <1>2, <2>4, <2>5 DEF Reasons
<1>16. verdict' \in { "RUNTIME_ERROR", "SEGMENTATION_FAULT", "FLOATING_POINT_ERROR" } =>
         status # "zero" \/ terms > 0
  <2>. SUFFICES ASSUME verdict' \in { "RUNTIME_ERROR", "SEGMENTATION_FAULT",
                                      "FLOATING_POINT_ERROR" },
                       ~ terms > 0
                PROVE  status # "zero"
    OBVIOUS
  <2>1. pc = "done" /\ ~ hardhit
    BY <1>2, <1>3, <1>8, <1>10 DEF IInv, Causes, Stopped, Claims, Reasons
  <2>2. meta.signal # Absent => status \in Signals
    BY <2>1 DEF IInv, Causes, Blamed
  <2>. QED  BY <1>2, <1>11, <2>1, <2>2 DEF Reasons, ExitcodeOf, ExitCodes, Signals
<1>17. Justified'
  BY <1>3, <1>13, <1>14, <1>15, <1>16 DEF Justified, rvars, watch, program
<1>18. Contained'
  BY <1>2, <1>3 DEF IInv, Contained, Alive, Reasons, rvars, watch, program
<1>. QED  BY <1>4, <1>5, <1>6, <1>7, <1>12, <1>17, <1>18 DEF IInv

-----------------------------------------------------------------------------
(* The theorems.                                                           *)

\* TypeOK is what its three parts say.
LEMMA TypeParts == Control /\ Supervised /\ Noted => TypeOK
  BY DEF Control, Supervised, Noted, TypeOK

\* No step of a run and no verdict disturbs the invariant.
LEMMA NextPreserves ==
  ASSUME IInv, [Next]_vars
  PROVE  IInv'
<1>1. CASE Judge
  BY <1>1, JudgeStep
<1>2. CASE Step /\ UNCHANGED <<purpose, verdict>>
  BY <1>2, ControlStep, SupervisedStep, NotedStep, FilledStep, ReapingStep, ClockStep,
     CausesStep, EndedStep DEF IInv
<1>3. CASE UNCHANGED vars
  <2>. USE <1>3 DEF IInv, vars, rvars, watch, program
  <2>1. Control' /\ Supervised' /\ Noted'
    BY DEF Control, Supervised, Noted
  <2>2. Filled'
    BY DEF Filled, TimeResult
  <2>3. Reaping' /\ Clock'
    BY DEF Reaping, Clock
  <2>4. Causes' /\ Ended'
    BY DEF Causes, Blamed, Ended, Stopped
  <2>5. Justified' /\ Contained'
    BY DEF Justified, Contained, Alive
  <2>. QED  BY <2>1, <2>2, <2>3, <2>4, <2>5
<1>. QED  BY <1>1, <1>2, <1>3 DEF Next

\* The inductive invariant holds of every run under every script.
THEOREM Invariance == Spec => []IInv
<1>1. Init => IInv
  <2>. SUFFICES ASSUME Init  PROVE IInv
    OBVIOUS
  <2>. USE DEF Init, RInit
  <2>1. endtime \in 0 .. Hard + 1 /\ time \in 0 .. Hard + 1 /\ own \in 0 .. Hard + 1
    OBVIOUS
  <2>2. terms \in 0 .. MaxTerms
    OBVIOUS
  <2>3. Control
    BY <2>1, <2>2 DEF Control
  <2>4. Supervised
    BY <2>1 DEF Supervised, ExitCodes, Signals, Absent
  <2>5. Noted
    BY DEF Noted, ExitCodes, Signals, NoMeta
  <2>6. Filled
    BY DEF Filled, Meta, ExitCodes, Signals, Absent, NoMeta, AfterExit, AfterSweep, AfterRead,
           AfterExplain, AfterWait
  <2>7. Reaping /\ Clock
    BY DEF Reaping, Clock, AfterSweep, AfterRead, AfterExplain, AfterWait, Absent
  <2>8. Causes /\ Ended
    BY DEF Causes, Blamed, Ended, Claims, NoMeta, Absent
  <2>9. Justified /\ Contained
    BY DEF Justified, Contained, Alive
  <2>. QED  BY <2>3, <2>4, <2>5, <2>6, <2>7, <2>8, <2>9 DEF IInv
<1>. QED  BY <1>1, NextPreserves, PTL DEF Spec

\* Every variable keeps its type, and the meta file of a run fills from the top.
THEOREM TypeCorrect == Spec => []TypeOK
<1>1. IInv => TypeOK
  BY TypeParts DEF IInv
<1>. QED  BY <1>1, Invariance, PTL

\* A verdict of the check scripts or of the compile script is true of the run they
\* judge, wherever its signals, its limits and its end fall among runguard's steps.
THEOREM VerdictJustified == Spec => []Justified
<1>1. IInv => Justified
  BY DEF IInv
<1>. QED  BY <1>1, Invariance, PTL

\* No process of the program outlives a run that runguard has summarized, nor a verdict
\* about the program.
THEOREM ProgramContained == Spec => []Contained
<1>1. IInv => Contained
  BY DEF IInv
<1>. QED  BY <1>1, Invariance, PTL
=============================================================================
