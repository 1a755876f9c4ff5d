------------------------- MODULE MCProgrammingJudger -------------------------
(***************************************************************************)
(* Instances of ProgrammingJudger for TLC.                                 *)
(***************************************************************************)
EXTENDS ProgrammingJudger

CONSTANTS w1, w2

MCWorker == { w1, w2 }

\* One status per combination of conditions it satisfies, and a failed compilation.
MCVerdict ==
  { "ACCEPTED", "PARTIAL_CORRECT", "WRONG_ANSWER", "TIME_LIMIT_EXCEEDED",
    "COMPILATION_ERROR" }

\* A task without a parent never looks at its condition.
TaskOn(parents, conds, scripts) ==
  { t \in [ depends_on : parents, depends_cond : conds, check_script : scripts ] :
      t.depends_on < 0 => t.depends_cond = "ACCEPTED" }

\* Every graph of at most three tasks, well formed or not.
AnyGraph ==
  UNION { [0 .. n - 1 -> TaskOn(-1 .. n - 1, DependencyCondition, { "standard" })] :
            n \in 0 .. 3 }

\* The well-formed graphs of four tasks, with the two extreme conditions.
Forest4 ==
  { g \in [0 .. 3 -> TaskOn(-1 .. 2, { "ACCEPTED", "NON_TIME_LIMIT" }, { "standard" })] :
      \A i \in 0 .. 3 : g[i].depends_on < i }

\* Compile tasks: one, two, or one that depends on another task.
WithCompile ==
  UNION { [0 .. n - 1 -> TaskOn(-1 .. n - 2, { "ACCEPTED" }, { "compile", "standard" })] :
            n \in 1 .. 3 }

MCSubmissions ==
  [ judge_tasks : AnyGraph \cup Forest4, has_program : { TRUE } ]
    \cup [ judge_tasks : WithCompile, has_program : BOOLEAN ]
=============================================================================
