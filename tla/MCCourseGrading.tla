--------------------------- MODULE MCCourseGrading ---------------------------
(***************************************************************************)
(* Submissions of both servers: problems with every check at once and with *)
(* few, with more test cases than points, without a program, without a     *)
(* standard program; and small questionnaires.                             *)
(***************************************************************************)
EXTENDS CourseGrading

Grading(compile, random, standard, static, gtest, memory) ==
  [ compile |-> compile, random |-> random, standard |-> standard,
    static |-> static, gtest |-> gtest, memory |-> memory ]

Config(grading, times, inputs, outputs, info, files) ==
  [ grading |-> grading, random |-> times > 0, run_times |-> times,
    inputs |-> inputs, outputs |-> outputs, info |-> info,
    detail |-> [ case \in {"a", "b"} |-> 1 ], files |-> files ]

AllFiles == { "standard", "submission" }

Configs ==
  { Config(Grading(1, 2, 2, 2, 0, 2), 1, 2, 3, FALSE, AllFiles),
    Config(Grading(1, 3, 0, 2, 3, 0), 2, 2, 2, TRUE, AllFiles),
    Config(Grading(1, 0, 3, 0, 3, 1), 2, 2, 2, FALSE, AllFiles),
    Config(Grading(0, 0, 0, 0, 3, 5), 1, 1, 1, FALSE, { "submission" }),
    Config(Grading(1, 1, 1, 0, 0, 1), 2, 2, 2, TRUE, AllFiles),
    Config(Grading(1, 1, 1, 0, 0, 0), 1, 1, 1, TRUE, { "standard" }) }

Letter == { "x", "y", " " }
Text == UNION { [1 .. n -> Letter] : n \in 0 .. 3 }

\* Questionnaires of mcourse: some lists are longer than the others, some answers
\* are out of order.
Question(id) == [ id |-> id, standard_answer |-> {0, 31}, max_grade |-> 6, half_grade |-> 3 ]
Chosen(id, choices) == [ question_id |-> id, choice_id |-> choices ]

\* Those of MOJ.
MojQuestion == [ answer |-> {0, 31}, max_grade |-> 6, half_grade |-> 3 ]

Option == SUBSET { 0, 1, 31 }

MCSubmissions ==
  { [ kind |-> "programming", server |-> server, config |-> config ] :
      server \in { "mcourse", "moj" }, config \in Configs }
  \cup
  { [ kind |-> "output", server |-> "mcourse",
      standard_answers |-> << << "x", " ", "y" >>, << "x" >>, << "y" >> >>,
      answer_scores |-> << 6, 6 >>,
      student_answers |-> << t, << "x" >>, << "y" >> >> ] :
      t \in Text \cup { <<"y", "x", "y", "x", "x">> } }
  \cup
  { [ kind |-> "choice", server |-> "mcourse",
      questions |-> << Question(0), Question(1), Question(2) >>,
      answers |-> << Chosen(i, a), Chosen(1, b) >> ] : i \in { 0, 1 }, a, b \in Option }
  \cup
  { [ kind |-> "choice", server |-> "mcourse",
      questions |-> << Question(0), Question(1) >>,
      answers |-> << Chosen(0, a), Chosen(i, {0}), Chosen(2, {0}) >> ] :
      i \in { 1, 2 }, a \in Option }
  \cup
  { [ kind |-> "choice", server |-> "moj",
      standard |-> << MojQuestion, MojQuestion >>, answer |-> answer ] :
      answer \in UNION { [1 .. n -> Option] : n \in 1 .. 3 } }

\* diff-all, which compares random and standard tests, has no partial score; the check
\* script of static checks only judges a report that is JSON; google tests may crash without
\* a report.  A compiler may quote the program, and a program write, what is not UTF-8.
Plain(s) == Result(s, TRUE, 0, {}, TRUE)
Bytes(s) == Result(s, TRUE, 0, {}, FALSE)

MCJudgement ==
  [ compile |-> { Plain("ACCEPTED"), Plain("COMPILATION_ERROR"), Plain("SYSTEM_ERROR"),
                  Bytes("COMPILATION_ERROR") },
    random |-> { Plain("ACCEPTED"), Plain("PRESENTATION_ERROR"), Plain("RANDOM_GEN_ERROR"),
                 Bytes("ACCEPTED") },
    standard |-> { Plain("ACCEPTED"), Plain("WRONG_ANSWER"), Plain("COMPARE_ERROR"),
                   Bytes("WRONG_ANSWER") },
    static |-> { Plain("ACCEPTED"), Result("PARTIAL_CORRECT", TRUE, Unit \div 2, {}, TRUE),
                 Result("TIME_LIMIT_EXCEEDED", FALSE, 0, {}, TRUE) },
    gtest |-> { Plain("ACCEPTED"), Result("PARTIAL_CORRECT", TRUE, 0, {"a"}, TRUE),
                Result("WRONG_ANSWER", TRUE, 0, {"a", "b"}, TRUE),
                Result("SEGMENTATION_FAULT", FALSE, 0, {}, FALSE) },
    memory |-> { Plain("ACCEPTED"), Plain("WRONG_ANSWER"), Plain("TIME_LIMIT_EXCEEDED") } ]
=============================================================================
