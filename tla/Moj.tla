--------------------------------- MODULE Moj ---------------------------------
(***************************************************************************)
(* The judge server of Matrix Online Judge: the judge tasks and the report *)
(* of a programming submission.  The fields of config are those of         *)
(* Mcourse; "files" says which programs were uploaded.                     *)
(***************************************************************************)
EXTENDS CourseTasks

-----------------------------------------------------------------------------
(* from_json_programming.                                                  *)

\* Without the standard program there are no test data either.
TestData(config) ==
  IF "standard" \notin config.files THEN 0
  ELSE IF config.inputs < config.outputs THEN config.inputs ELSE config.outputs

\* The run times are read whether or not there is a generator.
RandomTimes(config) == IF config.random THEN config.run_times ELSE 0

\* The tasks of one check that depend on the compilation.
Cases(type, script, full, cases) ==
  IF full = 0 THEN <<>>
  ELSE [ k \in 1 .. cases |-> CourseTask(type, script, Share(full, cases), 0, k - 1) ]

Single(type, script, full) ==
  IF full = 0 THEN <<>> ELSE << CourseTask(type, script, full * Unit, 0, -1) >>

\* Mutation: memory checks are numbered from the first task, not the first test.
MemoryTasksShifted(config, before) ==
  [ k \in 1 .. Cardinality({ i \in DOMAIN before : before[i].check_type = "standard" }) |->
      CourseTask("memory", "standard", config.grading.memory * Unit, Len(before) + k, k - 1) ]

\* As in Mcourse, but also without a grade: the memory checks are run for nothing.
MemoryTasks(config, before) ==
  LET standard == { i \in DOMAIN before : before[i].check_type = "standard" }
      nth(k) == CHOOSE i \in standard : before[i].testcase_id = k - 1
  IN  [ k \in 1 .. Cardinality(standard) |->
          CourseTask("memory", "standard",
                     Share(config.grading.memory, Cardinality(standard)), nth(k) - 1, k - 1) ]

\* judge_tasks, numbered from 0: the compilation comes first, the memory checks last.
Tasks(config) ==
  LET grading == config.grading
      before ==
        << CourseTask("compile", "compile", grading.compile * Unit, -1, -1) >>
          \o Cases("random", "standard-trusted", grading.random, RandomTimes(config))
          \o Cases("standard", "standard-trusted", grading.standard, TestData(config))
          \o Single("static", "static", grading.static)
          \o Single("gtest", "standard", grading.gtest)
      all == before \o MemoryTasks(config, before)
  IN  [ i \in 0 .. Len(all) - 1 |-> all[i + 1] ]

-----------------------------------------------------------------------------
(* summarize_programming.                                                  *)

CompileSection(tasks, results) ==
  CASE results[0].status = "ACCEPTED" -> Section(tasks[0].score, {})
    [] results[0].status = "SYSTEM_ERROR" -> Broken
    [] OTHER -> Section(0, {0})

\* A section with the full grade of its check and the number of its cases, those that
\* were not judged included.
Counted(tasks, results, S, section) ==
  IF section.kind # "graded" THEN section
  ELSE [ kind |-> "graded", score |-> section.score, grade |-> section.grade,
         listed |-> section.listed,
         full_grade |-> Round(SumFunction([ i \in S |-> tasks[i].score ])),
         pass_cases |-> Cardinality({ i \in S : results[i].status = "ACCEPTED" }),
         total_cases |-> Cardinality(S) ]

\* All the cases are listed, the accepted ones as well.
RandomSection(tasks, results) ==
  LET S == OfType(tasks, "random")
  IN  Counted(tasks, results, S, CaseSection(tasks, results, S, Ran(results, S)))

StandardSection(tasks, results) ==
  LET S == OfType(tasks, "standard")
  IN  Counted(tasks, results, S, CaseSection(tasks, results, S, Ran(results, S)))

\* Reports that are not JSON turn static checks and google tests into SYSTEM_ERRORs,
\* in results too; so does a gtest status that has no name (PARTIAL_CORRECT).
Reread(tasks, results) ==
  [ i \in DOMAIN results |->
      IF /\ results[i].status \notin { "PENDING", "DEPENDENCY_NOT_SATISFIED" }
         /\ \/ tasks[i].check_type \in { "static", "gtest" } /\ ~ results[i].parses
            \/ tasks[i].check_type = "gtest" /\ results[i].status \in Unlisted
      THEN [ results[i] EXCEPT !.status = "SYSTEM_ERROR" ] ELSE results[i] ]

\* Each time, the parser's complaint is appended to the error log of a static check; that
\* of google tests is written anew.
ErrorLog(tasks, results, log) ==
  IF \E i \in OfType(tasks, "static") :
       /\ results[i].status \notin { "PENDING", "DEPENDENCY_NOT_SATISFIED" }
       /\ ~ results[i].parses
  THEN log + 1 ELSE log

StaticSection(tasks, results) ==
  LET S == OfType(tasks, "static")
  IN  IF \E i \in S : results[i].status = "PENDING" THEN None
      ELSE IF \E i \in S : results[i].status \in ServerError THEN Broken
      ELSE Shown(results, S, Section(EarnedBy(tasks, results, S), Ran(results, S)))

MemorySection(tasks, results) ==
  LET S == OfType(tasks, "memory")
      accepted == { i \in S : results[i].status = "ACCEPTED" }
  IN  IF \E i \in S : results[i].status = "PENDING" THEN None
      ELSE Counted(tasks, results, S,
             Shown(results, S, Section(EarnedBy(tasks, results, accepted),
                                       Ran(results, S) \ accepted)))

\* All or nothing: the full grade if every case passed.
GTestSection(tasks, results) ==
  LET S == OfType(tasks, "gtest")
  IN  IF \E i \in S : results[i].status = "PENDING" THEN None
      ELSE IF \E i \in S : results[i].status \in ServerError THEN Broken
      ELSE Shown(results, S, Section(EarnedBy(tasks, results, S), Ran(results, S)))

Sections(tasks, results) ==
  LET known == Reread(tasks, results)
  IN  [ type \in CheckType |->
          CASE type = "compile" -> CompileSection(tasks, results)
            [] type = "memory" -> MemorySection(tasks, results)
            [] type = "random" -> RandomSection(tasks, results)
            [] type = "standard" -> StandardSection(tasks, results)
            [] type = "static" -> StaticSection(tasks, known)
            [] type = "gtest" -> GTestSection(tasks, known) ]

\* The tasks of which the report quotes text as it is: what a compiler says always.
QuotedRaw(tasks, results) ==
  Quoted(tasks, Reread(tasks, results), Sections(tasks, results)) \cup OfType(tasks, "compile")

\* Complete when every task is counted.
Report(tasks, results, finished) ==
  LET sections == Sections(tasks, results)
  IN  [ complete |-> finished = Cardinality(DOMAIN tasks),
        grade |-> Grade(sections), sections |-> Present(sections) ]

-----------------------------------------------------------------------------
(* Choices: from_json_choice and summarize_choice.                         *)

\* Answers carry no number here: they belong to the question at their place.
ChoiceQuestions(standard, answer) ==
  [ k \in Paired({ Len(standard), Len(answer) }) |->
      [ standard |-> standard[k].answer, student |-> answer[k],
        full |-> standard[k].max_grade, half |-> standard[k].half_grade ] ]

\* The grade of a report is a double: nothing is lost.
AnswerReport(grades) ==
  [ complete |-> TRUE, grade |-> SumFunction(grades), sections |-> <<>> ]
=============================================================================
