---------------------------- MODULE CourseGrading ----------------------------
(***************************************************************************)
(* A submission of the course system or of MOJ, from the tasks its server  *)
(* builds to the report it stores.                                         *)
(*                                                                         *)
(* A worker that has judged a task calls process(), here with its          *)
(* recursion: `calls` is the stack of the calls under way, and each call   *)
(* that returns counts its task and makes the server report, so that the   *)
(* reports in the middle of a recursion are seen as well.  Workers are     *)
(* left out: submission::mut lets one of them process at a time.           *)
(***************************************************************************)
EXTENDS CourseTasks

CONSTANTS
  Submissions,     \* the submissions the servers may receive
  Judgement,       \* Judgement[type]: what judging a task of that check may give
  MaxLength        \* as in AnswerGrading

ASSUME LengthAssumption == MaxLength \in Nat

McourseServer == INSTANCE Mcourse
MojServer == INSTANCE Moj
Answers == INSTANCE AnswerGrading

\* What the configs and questionnaires of the problems are, as far as they are read.  A
\* choice is a bit of an int, a character a string, and a problem asks for some output.
Grades == [ compile : Int, random : Int, standard : Int, static : Int, gtest : Int, memory : Int ]

ChoiceSet == SUBSET Answers!Choice

ASSUME SubmissionAssumption ==
  \A s \in Submissions :
    /\ s.server \in { "mcourse", "moj" }
    /\ s.kind = "programming" =>
         /\ s.config.grading \in Grades
         /\ s.config.run_times \in Int
         /\ s.config.inputs \in Nat /\ s.config.outputs \in Nat
         /\ IsFiniteSet(DOMAIN s.config.detail)
         /\ s.config.detail \in [DOMAIN s.config.detail -> Int]
    /\ s.kind # "programming" => s.kind \in { "choice", "output" }
    /\ s.kind = "choice" /\ s.server = "mcourse" =>
         /\ s.questions \in Seq([ id : Int, standard_answer : ChoiceSet,
                                  max_grade : Int, half_grade : Int ])
         /\ s.answers \in Seq([ question_id : Int, choice_id : ChoiceSet ])
    /\ s.kind = "choice" /\ s.server = "moj" =>
         /\ s.standard \in Seq([ answer : ChoiceSet, max_grade : Int, half_grade : Int ])
         /\ s.answer \in Seq(ChoiceSet)
    /\ s.kind = "output" =>
         /\ s.standard_answers \in Seq(Seq(STRING)) /\ s.student_answers \in Seq(Seq(STRING))
         /\ s.answer_scores \in Seq(Nat)
         /\ \A k \in DOMAIN s.standard_answers :
              Answers!Stripped(s.standard_answers[k]) # << >>

\* A check that has ended has a verdict.  Random and standard tests are compared by
\* diff-all, which knows no partial score.
Verdict ==
  [ status : Status \ { "PENDING", "DEPENDENCY_NOT_SATISFIED" }, parses : BOOLEAN,
    score : Int, failed : SUBSET STRING, utf8 : BOOLEAN ]

ASSUME JudgementAssumption ==
  \A type \in CheckType : \A result \in Judgement[type] :
    /\ result \in Verdict
    /\ type \in { "random", "standard" } => result.status # "PARTIAL_CORRECT"

VARIABLES
  sub,             \* the submission: its server, kind, and config or questionnaire
  results,         \* the results of the tasks; the grades of the questions
  queue,           \* the tasks pushed to the task queue and not judged yet
  calls,           \* the calls of process(): the task and its dependents to come
  finished,        \* submission.finished
  report,          \* the latest report of the server
  errorLog,        \* how often summarize has appended to the error log of the static check
  shownLog,        \* what the latest report shows of that log
  thrown           \* an exception left summarize

vars == <<sub, results, queue, calls, finished, report, errorLog, shownLog, thrown>>

programming == sub.kind = "programming"

tasks ==
  IF ~ programming THEN <<>>
  ELSE IF sub.server = "mcourse" THEN McourseServer!Tasks(sub.config)
  ELSE MojServer!Tasks(sub.config)

Task == DOMAIN tasks

\* The questions of a questionnaire, each with its answer.
questions ==
  CASE sub.kind = "output" ->
         McourseServer!OutputQuestions(sub.standard_answers, sub.answer_scores,
                                       sub.student_answers)
    [] sub.kind = "choice" /\ sub.server = "mcourse" ->
         McourseServer!ChoiceQuestions(sub.questions, sub.answers)
    [] sub.kind = "choice" /\ sub.server = "moj" ->
         MojServer!ChoiceQuestions(sub.standard, sub.answer)

\* Only valid submissions are fetched.
Valid(s) ==
  s.kind = "choice" /\ s.server = "mcourse" => McourseServer!Numbered(s.questions, s.answers)

\* The contestant's program: MOJ takes what was uploaded, mcourse always has one.
HasProgram == sub.server = "mcourse" \/ "submission" \in sub.config.files

NoReport == [ complete |-> FALSE, grade |-> 0, sections |-> <<>> ]

Init ==
  /\ sub \in { s \in Submissions : Valid(s) }
  /\ results = IF programming THEN [ i \in Task |-> Pending ] ELSE <<>>
  /\ queue = { i \in Task : Entry(tasks, i) /\ HasProgram }
  /\ calls = <<>>
  /\ finished = 0
  /\ report = NoReport
  /\ errorLog = 0 /\ shownLog = 0
  /\ thrown = FALSE

-----------------------------------------------------------------------------
(* Programming submissions.                                                *)

Known(rs) ==
  IF sub.server = "mcourse" THEN McourseServer!Reread(tasks, rs) ELSE MojServer!Reread(tasks, rs)

SectionsOf(rs) ==
  IF sub.server = "mcourse" THEN McourseServer!Sections(sub.config, tasks, rs)
  ELSE MojServer!Sections(tasks, rs)

Summary(rs, count) ==
  IF sub.server = "mcourse" THEN McourseServer!Report(sub.config, tasks, rs, count)
  ELSE MojServer!Report(tasks, rs, count)

LogAfter(rs) ==
  IF sub.server = "mcourse" THEN McourseServer!ErrorLog(tasks, rs, errorLog)
  ELSE MojServer!ErrorLog(tasks, rs, errorLog)

QuotedRaw(rs) ==
  IF sub.server = "mcourse" THEN McourseServer!QuotedRaw(sub.config, tasks, rs)
  ELSE MojServer!QuotedRaw(tasks, rs)

\* The report can be dumped: every text in it is UTF-8.
Dumps(rs) == \A i \in QuotedRaw(rs) : rs[i].utf8

\* A status without a name.
Throws(rs) == \E type \in CheckType : SectionsOf(rs)[type].kind = "thrown"

\* Mutation: every later task counts as a dependent.
DependentsLater(i) == { j \in Task : j > i }

Dependents(i) == { j \in Task : tasks[j].depends_on = i }
Call(i) == [ task |-> i, todo |-> Dependents(i) ]
Top == calls[Len(calls)]

\* A worker has judged a task of the queue and enters process().
Judge(i) ==
  /\ calls = <<>> /\ ~ thrown
  /\ i \in queue
  /\ \E result \in Judgement[tasks[i].check_type] :
       results' = [results EXCEPT ![i] = result]
  /\ queue' = queue \ {i}
  /\ calls' = << Call(i) >>
  /\ UNCHANGED <<sub, finished, report, errorLog, shownLog, thrown>>

\* Mutation: a refused dependent gets its status, but no call of its own.
DependFlat ==
  /\ calls # <<>>
  /\ Top.todo # {}
  /\ LET j == Min(Top.todo)
     IN  /\ calls' = [calls EXCEPT ![Len(calls)].todo = @ \ {j}]
         /\ IF Satisfied(tasks[j].depends_cond, results[Top.task].status)
            THEN queue' = queue \cup {j} /\ UNCHANGED <<results, finished>>
            ELSE /\ results' = [results EXCEPT ![j].status = "DEPENDENCY_NOT_SATISFIED"]
                 /\ finished' = finished + 1
                 /\ UNCHANGED queue
  /\ UNCHANGED <<sub, report, errorLog, shownLog, thrown>>

\* process() looks at the next dependent of its task: it is pushed, or it gets the
\* result with another status and is processed by a call of its own.
Depend ==
  /\ calls # <<>>
  /\ Top.todo # {}
  /\ LET j    == Min(Top.todo)
         here == [calls EXCEPT ![Len(calls)].todo = @ \ {j}]
         from == results[Top.task]
     IN  IF Satisfied(tasks[j].depends_cond, from.status)
         THEN /\ queue' = queue \cup {j}
              /\ calls' = here
              /\ UNCHANGED results
         ELSE /\ results' = [results EXCEPT
                               ![j] = [from EXCEPT !.status = "DEPENDENCY_NOT_SATISFIED"]]
              /\ calls' = Append(here, Call(j))
              /\ UNCHANGED queue
  /\ UNCHANGED <<sub, finished, report, errorLog, shownLog, thrown>>

\* An exception that leaves summarize ends all the calls, and the process.
Leave == thrown' = TRUE /\ calls' = <<>>
Pop == calls' = SubSeq(calls, 1, Len(calls) - 1) /\ UNCHANGED thrown

\* report_to_server dumps the report to JSON, which throws if a text in it is not UTF-8.
\* mcourse catches that and goes on, the report unstored; MOJ dumps outside its try.
ReportToServer(r) ==
  IF Dumps(results) THEN report' = r /\ shownLog' = LogAfter(results) /\ Pop
  ELSE /\ UNCHANGED <<report, shownLog>>
       /\ IF sub.server = "mcourse" THEN Pop ELSE Leave

\* Mutation: the recursion returns without counting its task.
ReturnUncounted ==
  /\ calls # <<>>
  /\ Top.todo = {}
  /\ finished' = IF Len(calls) = 1 THEN finished + 1 ELSE finished
  /\ results' = Known(results)
  /\ errorLog' = LogAfter(results)
  /\ ReportToServer(Summary(results, finished'))
  /\ UNCHANGED <<sub, queue>>

\* A call has seen all dependents: it counts its task and makes the server summarize and
\* report.
Return ==
  /\ calls # <<>>
  /\ Top.todo = {}
  /\ finished' = finished + 1
  /\ IF Throws(results)
     THEN Leave /\ UNCHANGED <<report, results, errorLog, shownLog>>
     ELSE /\ results' = Known(results)
          /\ errorLog' = LogAfter(results)
          /\ ReportToServer(Summary(results, finished + 1))
  /\ UNCHANGED <<sub, queue>>

-----------------------------------------------------------------------------
(* Choices and outputs: one task judges all the questions and reports.     *)

QuestionGrade(q) ==
  IF sub.kind = "choice" THEN Answers!ChoiceGrade(q) ELSE Answers!OutputGrade(q)

AnswerReport(grades) ==
  IF sub.server = "mcourse" THEN McourseServer!AnswerReport(grades)
  ELSE MojServer!AnswerReport(grades)

Answer ==
  /\ ~ programming /\ ~ report.complete
  /\ results' = [ k \in DOMAIN questions |-> QuestionGrade(questions[k]) ]
  /\ report' = AnswerReport(results')
  /\ UNCHANGED <<sub, queue, calls, finished, errorLog, shownLog, thrown>>

Next == (\E i \in Task : Judge(i)) \/ Depend \/ Return \/ Answer

Spec == Init /\ [][Next]_vars
-----------------------------------------------------------------------------
(* Properties.                                                             *)

SectionKind == { "graded", "error", "none", "thrown" }

ReportType(r) ==
  /\ r.complete \in BOOLEAN
  /\ r.grade \in Int
  /\ DOMAIN r.sections \subseteq CheckType
  /\ \A type \in DOMAIN r.sections : r.sections[type].kind \in SectionKind

\* Type invariant: results of known statuses, a stack of calls of different tasks,
\* and a report with sections of the six checks.
TypeOK ==
  /\ sub \in Submissions
  /\ programming => \A i \in Task : results[i].status \in Status
  /\ queue \subseteq Task
  /\ \A k \in DOMAIN calls : calls[k].task \in Task /\ calls[k].todo \subseteq Task
  /\ \A k, l \in DOMAIN calls : calls[k].task = calls[l].task => k = l
  /\ finished \in 0 .. Cardinality(Task)
  /\ ReportType(report)
  /\ errorLog \in 0 .. finished /\ shownLog \in 0 .. errorLog
  /\ thrown \in BOOLEAN

\* The tasks that from_json_programming builds pass verify of programming_judger,
\* whatever the problem's config, if and only if the contestant sent a program.
BuiltVerified ==
  programming =>
    (Verified([ judge_tasks |-> tasks, has_program |-> HasProgram ]) <=> HasProgram)

\* Outside process(), the recursion has left behind what the least set of module
\* TaskGraph says: every verdict agrees with the parent's, and the tasks that wait
\* in the queue are those whose parent allows them.
Settled ==
  programming /\ calls = <<>> /\ ~ thrown =>
    /\ Consistent(tasks, [ i \in Task |-> results[i].status ])
    /\ finished = Cardinality({ i \in Task : results[i].status # "PENDING" })
    /\ HasProgram =>
         queue = { i \in Task :
                     /\ results[i].status = "PENDING"
                     /\ \/ Entry(tasks, i)
                        \/ results[tasks[i].depends_on].status # "PENDING" }

\* A section that a report has shown is in every later report, with the same cases and the
\* same grades: no report shows a check of which a case is still to come.  Only the text of
\* a static check that ended with a report that is not JSON changes, and only grows.
SectionsStable ==
  [][ /\ \A type \in DOMAIN report.sections :
           /\ type \in DOMAIN report'.sections
           /\ report'.sections[type] = report.sections[type]
      /\ shownLog' # shownLog =>
           /\ shownLog' > shownLog
           /\ report'.sections["static"].kind = "error"
           /\ \E i \in OfType(tasks, "static") : ~ results[i].parses ]_vars

\* When the work of a submission has run out the latest report is the complete one, and it
\* is complete no earlier, unless the last report quotes text that is not UTF-8, which only
\* mcourse survives; a complete report has a section for exactly the checks of which a task
\* was judged (google tests of mcourse: if their "info" is configured).  Nothing else throws:
\* summarize never meets a status it has no name for, since of the checks that look one up
\* none can end with PARTIAL_CORRECT, and DEPENDENCY_NOT_SATISFIED is passed over.
FinalComplete ==
  programming /\ HasProgram =>
    /\ thrown => sub.server = "moj" /\ ~ Dumps(results)
    /\ report.complete => queue = {} /\ calls = <<>> /\ Dumps(results)
    /\ queue = {} /\ calls = <<>> => report.complete \/ ~ Dumps(results)
    /\ report.complete =>
         DOMAIN report.sections =
           { type \in CheckType :
               /\ Ran(results, OfType(tasks, type)) # {}
               /\ type = "gtest" /\ sub.server = "mcourse" => sub.config.info }

FullMarks == Unit * Round(SumFunction([ i \in Task |-> tasks[i].score ]))

\* Whatever fails costs a point or more, so that rounding does not give it back.  In mcourse
\* a google test costs the grades of the cases that its report lists, which may be none.
Costly ==
  \A i \in Task :
    /\ tasks[i].score >= Unit
    /\ results[i].status = "PARTIAL_CORRECT" =>
         results[i].score * tasks[i].score <= (tasks[i].score - Unit) * Unit
    /\ tasks[i].check_type = "gtest" /\ sub.server = "mcourse" =>
         LET charged == McourseServer!Charged(sub.config, results[i].failed)
         IN  /\ results[i].status = "ACCEPTED" => results[i].parses /\ charged = 0
             /\ results[i].status \in { "PARTIAL_CORRECT", "WRONG_ANSWER" } =>
                  charged >= Unit \/ ~ results[i].parses

\* Full marks are for submissions of which every case is accepted, and those get
\* them; the google tests of mcourse are only graded if their "info" is configured.
\* In MOJ the section of each check says the same of its cases.
FailureCosts ==
  programming /\ report.complete /\ Costly =>
    /\ report.grade = FullMarks <=>
         /\ \A i \in Task : results[i].status = "ACCEPTED"
         /\ OfType(tasks, "gtest") # {} /\ sub.server = "mcourse" => sub.config.info
    /\ \A type \in DOMAIN report.sections \cap { "random", "standard", "memory" } :
         LET section == report.sections[type]
         IN  sub.server = "moj" /\ section.kind = "graded" =>
               ( section.grade = section.full_grade <=>
                   section.pass_cases = section.total_cases )

\* The total of mcourse, an int, loses less than a point for each question, and never gains
\* one; that of MOJ loses nothing.
TotalBounded ==
  ~ programming /\ report.complete =>
    LET exact == SumFunction(results)
    IN  IF sub.server = "mcourse"
        THEN report.grade <= exact /\ exact <= report.grade + (Unit - 1) * Len(results)
        ELSE report.grade = exact

\* Every answer that has a question, and chooses something, is graded against it by the sets
\* of options, whatever their bits.  In mcourse an answer says which question it is for,
\* wherever it is in the list.
ChoicesAsDefined ==
  sub.kind = "choice" /\ report.complete =>
    /\ sub.server = "mcourse" =>
         \A k, l \in DOMAIN results :
           LET q == sub.questions[k]
               a == sub.answers[l]
           IN  a.question_id = q.id /\ a.choice_id # {} =>
                 results[k] = Answers!ChoiceDefined(q.standard_answer, a.choice_id,
                                                    q.max_grade, q.half_grade)
    /\ sub.server = "moj" =>
         \A k \in DOMAIN sub.answer \cap DOMAIN sub.standard :
           LET q == sub.standard[k]
           IN  sub.answer[k] # {} =>
                 results[k] = Answers!ChoiceDefined(q.answer, sub.answer[k],
                                                    q.max_grade, q.half_grade)

\* An output earns the share of the grade that its edit distance leaves, rounded down to a
\* Unit-th; a full grade means that the two texts agree but for white space.
OutputsAsDefined ==
  sub.kind = "output" /\ report.complete =>
    \A k \in DOMAIN results :
      LET s == Answers!Stripped(sub.standard_answers[k])
          t == Answers!Stripped(sub.student_answers[k])
          full == sub.answer_scores[k]
          most == Answers!Longest(s, t)
          earned == full * (most - Answers!LeastEdits(s, t))
      IN  most <= MaxLength =>
            /\ results[k] * most <= earned /\ earned < (results[k] + 1) * most
            /\ full > 0 => (results[k] = full <=> s = t)

\* What questionnaires earn is what their descriptions promise.
AnswersAsDefined == TotalBounded /\ ChoicesAsDefined /\ OutputsAsDefined
=============================================================================
