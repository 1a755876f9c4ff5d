CONSTANTS
  w1 = w1
  w2 = w2
  Worker <- MCWorker
  Submissions <- MCSubmissions
  Verdict <- MCVerdict
  MaxTasks = 4
SPECIFICATION Spec
INVARIANTS
  TypeOK
  JudgedOnce
  NotStranded
  FinalSummary
PROPERTIES
  Implements
  Disposed
CHECK_DEADLOCK FALSE
