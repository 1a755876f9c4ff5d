----------------------------- MODULE CourseTasks -----------------------------
(***************************************************************************)
(* What the servers mcourse and moj have in common: the judge tasks they   *)
(* build for a programming problem, by type of check, and how the cases of *)
(* one type are summed up in a report.  The two servers are two copies of  *)
(* the same code that have drifted apart; modules Mcourse and Moj say      *)
(* where.                                                                  *)
(*                                                                         *)
(* Scores are boost::rational<int>.  Here they are integers that count     *)
(* Unit-ths of a point: Unit is such that every division of the instance   *)
(* is exact.                                                               *)
(***************************************************************************)
EXTENDS TaskGraph, Sequences, FiniteSetsExt

CONSTANT Unit

ASSUME UnitAssumption == Unit \in Nat \ {0}

CheckType == { "compile", "memory", "random", "standard", "static", "gtest" }

\* A task of a server that grades: what TaskGraph keeps of it, and its score.
CourseTask(type, script, score, parent, case) ==
  [ check_type |-> type, check_script |-> script, score |-> score,
    depends_on |-> parent, depends_cond |-> "ACCEPTED",
    is_random |-> type = "random", testcase_id |-> case ]

\* The full grade of a check divided among its cases.
Share(full, cases) == (full * Unit) \div cases

\* The result of a task: its status, whether its report is JSON, the score the
\* checker wrote (in Unit-ths), the failed cases the report of gtest lists, and whether
\* the text that its section may quote of it is UTF-8: the error log, a report that is
\* not JSON, the input and the outputs of the case.
Result(status, parses, score, failed, utf8) ==
  [ status |-> status, parses |-> parses, score |-> score, failed |-> failed, utf8 |-> utf8 ]

Pending == Result("PENDING", TRUE, 0, {}, TRUE)

OfType(tasks, type) == { i \in DOMAIN tasks : tasks[i].check_type = type }

\* round(): half a point goes away from zero.
Round(score) ==
  IF score >= 0 THEN (2 * score + Unit) \div (2 * Unit)
  ELSE - ((Unit - 2 * score) \div (2 * Unit))

\* Lists that belong together are read up to the end of the shortest.
Paired(lengths) == 1 .. Min(lengths)

-----------------------------------------------------------------------------
(* The section of a report that one type of check gets.                    *)

\* Verdicts that are not the contestant's: the whole check becomes an error.
ServerError ==
  { "SYSTEM_ERROR", "RANDOM_GEN_ERROR", "EXECUTABLE_COMPILATION_ERROR", "COMPARE_ERROR" }

\* The statuses status_string has a name for.
StatusString ==
  { "PENDING", "RUNNING", "ACCEPTED", "COMPILATION_ERROR", "WRONG_ANSWER",
    "RUNTIME_ERROR", "TIME_LIMIT_EXCEEDED", "MEMORY_LIMIT_EXCEEDED",
    "OUTPUT_LIMIT_EXCEEDED", "PRESENTATION_ERROR", "RESTRICT_FUNCTION",
    "OUT_OF_CONTEST_TIME", "COMPILING", "SEGMENTATION_FAULT", "FLOATING_POINT_ERROR" }

\* Its at() throws out_of_range for the others.
Unlisted == Status \ StatusString

\* A section: what it adds to the total, and what the report shows.  The texts of the
\* cases, which each report reads from the files of the test anew, are not part of it.
Section(score, listed) ==
  [ kind |-> "graded", score |-> score, grade |-> Round(score), listed |-> listed ]
Broken == [ kind |-> "error", score |-> 0, grade |-> 0, listed |-> {} ]
None == [ kind |-> "none", score |-> 0, grade |-> 0, listed |-> {} ]
Thrown == [ kind |-> "thrown", score |-> 0, grade |-> 0, listed |-> {} ]

\* The tasks of S that were judged at all.
Ran(results, S) == { i \in S : results[i].status # "DEPENDENCY_NOT_SATISFIED" }

\* Mutation: a partial score counts in full.
EarnedInFull(tasks, results, i) ==
  IF results[i].status \in { "ACCEPTED", "PARTIAL_CORRECT" } THEN tasks[i].score ELSE 0

\* What one task adds to the score of its check.
Earned(tasks, results, i) ==
  CASE results[i].status = "ACCEPTED" -> tasks[i].score
    [] results[i].status = "PARTIAL_CORRECT" -> (results[i].score * tasks[i].score) \div Unit
    [] OTHER -> 0

EarnedBy(tasks, results, S) == SumFunction([ i \in S |-> Earned(tasks, results, i) ])

\* The section if there is a task that was judged, nothing otherwise.
Shown(results, S, section) == IF Ran(results, S) = {} THEN None ELSE section

\* Mutation: the loop goes past a task that is not judged yet.
CaseSectionEager(tasks, results, S, listed) ==
  Shown(results, S, Section(EarnedBy(tasks, results, S), listed))

\* The loop over the cases of a check, in the order of the tasks.  It ends at the
\* first one that is not judged yet (no section), that is broken (an error), or
\* whose status has no name (an exception); otherwise it adds up all of them.
CaseSection(tasks, results, S, listed) ==
  LET stops == { i \in Ran(results, S) :
                   results[i].status \in Unlisted \cup { "PENDING" } }
      first == CHOOSE i \in stops : \A j \in stops : i <= j
  IN  IF stops = {} THEN
        Shown(results, S, Section(EarnedBy(tasks, results, S), listed))
      ELSE CASE results[first].status = "PENDING" -> None
             [] results[first].status \in ServerError -> Broken
             [] OTHER -> Thrown

\* The task whose error its check is reported with: the first that is broken.
Breaks(tasks, results, i) ==
  /\ results[i].status \in ServerError
  /\ \A j \in OfType(tasks, tasks[i].check_type) : results[j].status \in ServerError => i <= j

\* The tasks of which sections quote text: the listed cases, and what broke a check.
Quoted(tasks, results, sections) ==
  { i \in DOMAIN tasks :
      LET type == tasks[i].check_type
      IN  \/ type \in { "random", "standard", "memory" } /\ i \in sections[type].listed
          \/ sections[type].kind = "error" /\ Breaks(tasks, results, i) }

\* The total of the sections, rounded once more.
Grade(sections) == Unit * Round(SumFunction([ type \in CheckType |-> sections[type].score ]))

\* The sections that are there.
Present(sections) ==
  [ type \in { t \in CheckType : sections[t].kind # "none" } |-> sections[type] ]
=============================================================================
