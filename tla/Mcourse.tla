------------------------------- MODULE Mcourse -------------------------------
(***************************************************************************)
(* The judge server of the course system: the judge tasks of a programming *)
(* problem and the report of a programming submission.                     *)
(*                                                                         *)
(* Of a problem's config only what decides about tasks and grades is kept: *)
(* the grade of each check, the random generator (random, random_source,   *)
(* run_times), the standard files (inputs, outputs), and of google tests   *)
(* the "info" and the grades of the cases ("detail").                      *)
(***************************************************************************)
EXTENDS CourseTasks

-----------------------------------------------------------------------------
(* from_json_programming.                                                  *)

\* The standard inputs and outputs are paired up to the shorter list.
TestData(config) == IF config.inputs < config.outputs THEN config.inputs ELSE config.outputs

\* Random tests take place if there is a "random" section and a grade for them.
RandomTimes(config) ==
  IF config.random /\ config.grading.random > 0 THEN config.run_times ELSE 0

CompileTasks(config) ==
  << CourseTask("compile", "compile", config.grading.compile * Unit, -1, -1) >>

RandomTasks(config) ==
  [ k \in 1 .. RandomTimes(config) |->
      CourseTask("random", "standard-trusted",
                 Share(config.grading.random, RandomTimes(config)), 0, k - 1) ]

StandardTasks(config) ==
  [ k \in 1 .. IF config.grading.standard > 0 THEN TestData(config) ELSE 0 |->
      CourseTask("standard", "standard-trusted",
                 Share(config.grading.standard, TestData(config)), 0, k - 1) ]

StaticTasks(config) ==
  IF config.grading.static = 0 THEN <<>>
  ELSE << CourseTask("static", "static", config.grading.static * Unit, 0, -1) >>

GTestTasks(config) ==
  IF config.grading.gtest = 0 THEN <<>>
  ELSE << CourseTask("gtest", "standard", config.grading.gtest * Unit, 0, -1) >>

\* A memory check follows each standard test.  is_random is whether judge_tasks is
\* empty, which it never is: no memory check uses random data.
MemoryTasks(config, before) ==
  LET standard == { i \in DOMAIN before : before[i].check_type = "standard" }
      nth(k) == CHOOSE i \in standard : before[i].testcase_id = k - 1
  IN  IF config.grading.memory = 0 THEN <<>>
      ELSE [ k \in 1 .. Cardinality(standard) |->
               CourseTask("memory", "standard",
                          Share(config.grading.memory, Cardinality(standard)),
                          nth(k) - 1, k - 1) ]

\* judge_tasks, numbered from 0.
Tasks(config) ==
  LET before == CompileTasks(config) \o RandomTasks(config) \o StandardTasks(config)
                  \o StaticTasks(config) \o GTestTasks(config)
      all == before \o MemoryTasks(config, before)
  IN  [ i \in 0 .. Len(all) - 1 |-> all[i + 1] ]

-----------------------------------------------------------------------------
(* summarize_programming: one section for each type of check.              *)

CompileSection(tasks, results) ==
  CASE results[0].status = "ACCEPTED" -> Section(tasks[0].score, {})
    [] results[0].status = "SYSTEM_ERROR" -> Broken
    [] OTHER -> Section(0, {0})

\* Random and standard tests: the cases that are not accepted are listed.
Failed(results, S) == { i \in Ran(results, S) : results[i].status # "ACCEPTED" }

RandomSection(tasks, results) ==
  LET S == OfType(tasks, "random")
  IN  CaseSection(tasks, results, S, Failed(results, S))

StandardSection(tasks, results) ==
  LET S == OfType(tasks, "standard")
  IN  CaseSection(tasks, results, S, Failed(results, S))

\* A static check whose report is not JSON becomes a SYSTEM_ERROR, in results too.
Reread(tasks, results) ==
  [ i \in DOMAIN results |->
      IF /\ tasks[i].check_type = "static"
         /\ results[i].status \notin { "PENDING", "DEPENDENCY_NOT_SATISFIED" }
         /\ ~ results[i].parses
      THEN [ results[i] EXCEPT !.status = "SYSTEM_ERROR" ] ELSE results[i] ]

\* Each time, the parser's complaint and the report are appended to its error log.
ErrorLog(tasks, results, log) ==
  IF \E i \in OfType(tasks, "static") :
       /\ results[i].status \notin { "PENDING", "DEPENDENCY_NOT_SATISFIED" }
       /\ ~ results[i].parses
  THEN log + 1 ELSE log

\* Unlike the random and standard tests, no status needs a name here; an error
\* is a section of its own shape.
StaticSection(tasks, results) ==
  LET S == OfType(tasks, "static")
  IN  IF \E i \in S : results[i].status = "PENDING" THEN None
      ELSE IF \E i \in S : results[i].status \in ServerError THEN Broken
      ELSE Shown(results, S, Section(EarnedBy(tasks, results, S), Ran(results, S)))

\* Only accepted runs count; any other verdict is listed and earns nothing.
MemorySection(tasks, results) ==
  LET S == OfType(tasks, "memory")
      accepted == { i \in S : results[i].status = "ACCEPTED" }
  IN  IF \E i \in S : results[i].status = "PENDING" THEN None
      ELSE Shown(results, S, Section(EarnedBy(tasks, results, accepted), Failed(results, S)))

\* The grades of the failed cases; a case "detail" does not know is free.
Charged(config, failed) ==
  SumFunction([ case \in failed \cap DOMAIN config.detail |-> config.detail[case] * Unit ])

\* Google tests lose the grade of each case the report lists as failed, whatever
\* the verdict; without a report, or after an error or a crash, they get nothing.
GTestSection(config, tasks, results) ==
  LET S == OfType(tasks, "gtest")
      i == CHOOSE i \in S : TRUE
      graded == { "ACCEPTED", "PARTIAL_CORRECT", "WRONG_ANSWER" }
  IN  IF \/ S = {} \/ ~ config.info
         \/ results[i].status \in { "PENDING", "DEPENDENCY_NOT_SATISFIED" } THEN None
      ELSE IF ~ results[i].parses \/ results[i].status \notin graded THEN Section(0, {})
      ELSE Section(tasks[i].score - Charged(config, results[i].failed), results[i].failed)

Sections(config, tasks, results) ==
  LET known == Reread(tasks, results)
  IN  [ type \in CheckType |->
          CASE type = "compile" -> CompileSection(tasks, results)
            [] type = "memory" -> MemorySection(tasks, results)
            [] type = "random" -> RandomSection(tasks, results)
            [] type = "standard" -> StandardSection(tasks, results)
            [] type = "static" -> StaticSection(tasks, known)
            [] type = "gtest" -> GTestSection(config, tasks, results) ]

\* The tasks of which the report quotes text as it is.  What a compiler says is checked
\* first, unless the compilation broke; google tests quote their report if it is not JSON,
\* and their error log if they broke.
QuotedRaw(config, tasks, results) ==
  LET sections == Sections(config, tasks, results)
  IN  Quoted(tasks, Reread(tasks, results), sections)
        \cup { i \in OfType(tasks, "gtest") :
                 /\ sections["gtest"].kind = "graded"
                 /\ ~ results[i].parses \/ results[i].status \in ServerError }

\* Complete when every task is counted.
Report(config, tasks, results, finished) ==
  LET sections == Sections(config, tasks, results)
  IN  [ complete |-> finished = Cardinality(DOMAIN tasks),
        grade |-> Grade(sections), sections |-> Present(sections) ]

-----------------------------------------------------------------------------
(* Questionnaires: from_json_choice, from_json_program_output and what is  *)
(* reported of them.                                                       *)

\* Questions and answers must be numbered in the order of their lists; otherwise
\* the submission is invalid.
Numbered(questions, answers) ==
  \A k \in Paired({ Len(questions), Len(answers) }) :
    questions[k].id = k - 1 /\ answers[k].question_id = k - 1

ChoiceQuestions(questions, answers) ==
  [ k \in Paired({ Len(questions), Len(answers) }) |->
      [ standard |-> questions[k].standard_answer, student |-> answers[k].choice_id,
        full |-> questions[k].max_grade, half |-> questions[k].half_grade ] ]

OutputQuestions(standard, scores, student) ==
  [ k \in Paired({ Len(standard), Len(scores), Len(student) }) |->
      [ standard |-> standard[k], student |-> student[k], full |-> scores[k] ] ]

\* The grade of a report is an int: each addition cuts the fraction off.
AnswerReport(grades) ==
  LET total[k \in 0 .. Len(grades)] ==
        IF k = 0 THEN 0 ELSE ((total[k - 1] + grades[k]) \div Unit) * Unit
  IN  [ complete |-> TRUE, grade |-> total[Len(grades)], sections |-> <<>> ]
=============================================================================
