----------------------------- MODULE CheckScript -----------------------------
(***************************************************************************)
(* What the scripts of exec/ make of a run: the order in which they look   *)
(* at the meta file of the program and at the comparator, the code they    *)
(* exit with, and the status judge_impl and compile make of that code.     *)
(***************************************************************************)
EXTENDS Runguard, Sequences

\* The comparator: what its own meta file says, its exit code, and whether it left a
\* score.txt.  Its run is one of Runguard's, not followed here.
Comparisons ==
  [ meta : { "clean", "timelimit", "internal" },
    exit : { "AC", "WA", "PE", "PC", "other" }, score : BOOLEAN ]

\* The outcome of the first rule that applies, for rules <<condition, outcome>>.
FirstOf(rules) ==
  rules[ CHOOSE i \in DOMAIN rules :
           rules[i][1] /\ \A j \in 1 .. i - 1 : ~ rules[j][1] ][2]

\* grep '^time-result: .*timelimit'.
OverTime(m) == m.time \in { "soft", "hard" }

\* The run of the program under the check scripts standard and standard-trusted.
\* runguard never writes output-truncated, so the rule about it never applies.
\* `[ "$progexit" -ne 0 ]' is an error, hence false, when there is no exit code.
ProgramRules(m) == <<
  << m = NoMeta,                     "INTERNAL" >>,
  << m.internal,                     "INTERNAL" >>,
  << OverTime(m),                    "TIME_LIMIT" >>,
  << m.memory = "oom",               "MEM_LIMIT" >>,
  << m.signal = "SEGV",              "SEG_FAULT" >>,
  << m.signal = "FPE",               "FLOATING_POINT" >>,
  << m.signal = "KILL",              "MEM_LIMIT" >>,
  << m.signal # Absent,              "RUNTIME_ERROR" >>,
  << m.exit = "nonzero",             "RUNTIME_ERROR" >> >>

CompareRules(c) == <<
  << c.exit = "PC" /\ ~ c.score, "COMPARE_ERROR" >>,
  << c.exit = "AC",              "ACCEPTED" >>,
  << c.exit = "WA",              "WRONG_ANSWER" >>,
  << c.exit = "PE",              "PRESENTATION_ERROR" >>,
  << c.exit = "PC",              "PARTIAL_CORRECT" >>,
  << TRUE,                       "COMPARE_ERROR" >> >>

\* A mount point that a process still uses cannot be unmounted: force_umount exits
\* and the EXIT trap makes that 127.
UmountRules(alive) == << << alive, "127" >> >>

\* exec/check/standard-trusted.  It lets the comparator run without runguard.
TrustedCode(alive, m, c) == FirstOf(UmountRules(alive) \o ProgramRules(m) \o CompareRules(c))

\* exec/check/standard.
StandardCode(alive, m, c) ==
  FirstOf(UmountRules(alive) \o
          << << c.meta = "timelimit", "COMPARE_ERROR" >>, << c.meta = "internal", "INTERNAL" >> >>
          \o ProgramRules(m) \o CompareRules(c))

\* exec/check/static, where process.py exits in place of a comparator.
StaticCode(m, c) == FirstOf(<<
  << m = NoMeta,     "INTERNAL" >>,
  << m.internal,     "INTERNAL" >>,
  << OverTime(m),    "TIME_LIMIT" >>,
  << c.exit = "AC",  "ACCEPTED" >>,
  << c.exit = "WA",  "WRONG_ANSWER" >>,
  << c.exit = "PC",  "PARTIAL_CORRECT" >>,
  << TRUE,           "INTERNAL" >> >>)

\* exec/compile.sh.  c.exit is "AC" when the compiler made an executable.
CompileCode(alive, m, c) == FirstOf(UmountRules(alive) \o <<
  << m = NoMeta,                   "INTERNAL" >>,
  << m.internal,                   "INTERNAL" >>,
  << OverTime(m),                  "COMPILER_ERROR" >>,
  << m.exit = "nonzero",           "COMPILER_ERROR" >>,
  << c.exit # "AC",                "COMPILER_ERROR" >>,
  << TRUE,                         "SUCCESS" >> >>)

\* The switch of judge_impl.
JudgeStatus(code) ==
  CASE code \in { "ACCEPTED", "WRONG_ANSWER", "PARTIAL_CORRECT", "PRESENTATION_ERROR",
                  "COMPARE_ERROR", "RUNTIME_ERROR" } -> code
    [] code = "FLOATING_POINT" -> "FLOATING_POINT_ERROR"
    [] code = "SEG_FAULT" -> "SEGMENTATION_FAULT"
    [] code = "TIME_LIMIT" -> "TIME_LIMIT_EXCEEDED"
    [] code = "MEM_LIMIT" -> "MEMORY_LIMIT_EXCEEDED"
    [] OTHER -> "SYSTEM_ERROR"

\* source_code::fetch throws compilation_error for every code but 0.
CompileStatus(code) == IF code = "SUCCESS" THEN "ACCEPTED" ELSE "COMPILATION_ERROR"
=============================================================================
