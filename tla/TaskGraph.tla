------------------------------ MODULE TaskGraph ------------------------------
(***************************************************************************)
(* The judge tasks of a programming submission and the two pure questions  *)
(* programming_judger asks about them: is the graph acceptable (verify),   *)
(* and what does the verdict of one task do to the others (the recursion   *)
(* of process).                                                            *)
(*                                                                         *)
(* judge_tasks is a function on 0 .. n-1.  Of a judge_task only the fields *)
(* that steer the control flow are kept: depends_on (negative: none),      *)
(* depends_cond and check_script.                                          *)
(***************************************************************************)
EXTENDS Integers

Status ==
  { "PENDING", "RUNNING", "ACCEPTED", "PARTIAL_CORRECT", "COMPILATION_ERROR",
    "EXECUTABLE_COMPILATION_ERROR", "DEPENDENCY_NOT_SATISFIED", "WRONG_ANSWER",
    "RUNTIME_ERROR", "TIME_LIMIT_EXCEEDED", "MEMORY_LIMIT_EXCEEDED",
    "OUTPUT_LIMIT_EXCEEDED", "PRESENTATION_ERROR", "RESTRICT_FUNCTION",
    "OUT_OF_CONTEST_TIME", "COMPILING", "SEGMENTATION_FAULT",
    "FLOATING_POINT_ERROR", "RANDOM_GEN_ERROR", "COMPARE_ERROR", "SYSTEM_ERROR" }

DependencyCondition == { "ACCEPTED", "PARTIAL_CORRECT", "NON_TIME_LIMIT" }

JudgeTask ==
  [ depends_on : Int, depends_cond : DependencyCondition,
    check_script : { "compile", "standard" } ]

\* The statuses a compile task can return; any other task is run by judge_impl.
CompileOutcome ==
  { "ACCEPTED", "COMPILATION_ERROR", "EXECUTABLE_COMPILATION_ERROR", "SYSTEM_ERROR" }

CheckOutcome ==
  { "SYSTEM_ERROR", "ACCEPTED", "WRONG_ANSWER", "PARTIAL_CORRECT",
    "PRESENTATION_ERROR", "COMPARE_ERROR", "RUNTIME_ERROR", "FLOATING_POINT_ERROR",
    "SEGMENTATION_FAULT", "OUTPUT_LIMIT_EXCEEDED", "TIME_LIMIT_EXCEEDED",
    "MEMORY_LIMIT_EXCEEDED", "RANDOM_GEN_ERROR" }

Outcome(task) ==
  IF task.check_script = "compile" THEN CompileOutcome ELSE CheckOutcome

-----------------------------------------------------------------------------
(* Does a parent's status satisfy the condition of its dependent?          *)

Failing ==
  { "SYSTEM_ERROR", "COMPARE_ERROR", "COMPILATION_ERROR",
    "DEPENDENCY_NOT_SATISFIED", "TIME_LIMIT_EXCEEDED",
    "EXECUTABLE_COMPILATION_ERROR", "OUT_OF_CONTEST_TIME", "RANDOM_GEN_ERROR" }

Satisfied(cond, status) ==
  \/ cond = "ACCEPTED" /\ status = "ACCEPTED"
  \/ cond = "PARTIAL_CORRECT" /\ status \in { "PARTIAL_CORRECT", "ACCEPTED" }
  \/ cond = "NON_TIME_LIMIT" /\ status \notin Failing

-----------------------------------------------------------------------------
(* verify: the checks a submission passes before it is distributed.        *)

\* Mutation: task 0, the default parent of a zeroed field, counts as no parent.
EntryOrFirst(tasks, i) == tasks[i].depends_on <= 0

Entry(tasks, i) == tasks[i].depends_on < 0

IsCompile(tasks, i) == tasks[i].check_script = "compile"

\* Mutation: verify does not look at the direction of the dependencies.
VerifiedAnyOrder(sub) ==
  /\ sub.has_program
  /\ \E i \in DOMAIN sub.judge_tasks : Entry(sub.judge_tasks, i)

Verified(sub) ==
  LET tasks == sub.judge_tasks
  IN  /\ \A i \in DOMAIN tasks : tasks[i].depends_on < i
      /\ \A i \in DOMAIN tasks : IsCompile(tasks, i) => Entry(tasks, i)
      /\ \A i, j \in DOMAIN tasks :
            IsCompile(tasks, i) /\ IsCompile(tasks, j) => i = j
      /\ sub.has_program
      /\ \E i \in DOMAIN tasks : Entry(tasks, i)

-----------------------------------------------------------------------------
(* process: task t has got a status.  A dependent whose condition holds is *)
(* pushed to the task queue; any other one is given                        *)
(* DEPENDENCY_NOT_SATISFIED and processed in turn, by recursion.           *)

\* Mutation: a dependent is skipped whatever its condition.
RefusedAlways(tasks, t, status, S) ==
  { i \in DOMAIN tasks : tasks[i].depends_on \in S \cup {t} }

\* The tasks process() is called for when it is called for t and for all of S.
Refused(tasks, t, status, S) ==
  { i \in DOMAIN tasks :
      \/ /\ tasks[i].depends_on = t
         /\ ~ Satisfied(tasks[i].depends_cond, status)
      \/ /\ tasks[i].depends_on \in S
         /\ ~ Satisfied(tasks[i].depends_cond, "DEPENDENCY_NOT_SATISFIED") }

\* Mutation: process() gives the direct dependents their status and stops there.
SkippedDirect(tasks, t, status) == Refused(tasks, t, status, {})

\* All the tasks the recursion reaches: the least set closed under Refused.
Skipped(tasks, t, status) ==
  { i \in DOMAIN tasks :
      \A S \in SUBSET (DOMAIN tasks) :
        Refused(tasks, t, status, S) \subseteq S => i \in S }

\* Mutation: a dependent is pushed whatever its condition.
ReleasedAlways(tasks, t, status) == { i \in DOMAIN tasks : tasks[i].depends_on = t }

\* The tasks the same calls push to the queue.
Released(tasks, t, status) ==
  { i \in DOMAIN tasks :
      \/ /\ tasks[i].depends_on = t
         /\ Satisfied(tasks[i].depends_cond, status)
      \/ /\ tasks[i].depends_on \in Skipped(tasks, t, status)
         /\ Satisfied(tasks[i].depends_cond, "DEPENDENCY_NOT_SATISFIED") }

-----------------------------------------------------------------------------
(* What a table of results looks like when process() has left none behind. *)

\* A task waits while its parent is undecided; it is refused if and only if
\* its parent's status does not satisfy its condition.
Consistent(tasks, r) ==
  \A i \in DOMAIN tasks :
    ~ Entry(tasks, i) =>
      LET p == tasks[i].depends_on
      IN  IF r[p] = "PENDING" THEN r[i] = "PENDING"
          ELSE Satisfied(tasks[i].depends_cond, r[p])
                 <=> r[i] # "DEPENDENCY_NOT_SATISFIED"

=============================================================================
