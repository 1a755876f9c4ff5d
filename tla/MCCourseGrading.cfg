SPECIFICATION Spec
CONSTANTS
  Unit = 4
  MaxLength = 4
  Submissions <- MCSubmissions
  Judgement <- MCJudgement
INVARIANTS
  TypeOK
  BuiltVerified
  Settled
  FinalComplete
  FailureCosts
  AnswersAsDefined
PROPERTIES
  SectionsStable
CHECK_DEADLOCK FALSE
