CONSTANTS
  w1 = w1
  w2 = w2
  s1 = s1
  s2 = s2
  s3 = s3
  None = None
  Worker <- MCWorker
  Sub <- MCSub
  Graph <- MCGraph
  Servers = 2
  Inboxes <- MCInboxes
  Verdict <- MCVerdict
  MaxTasks = 3
SPECIFICATION Spec
INVARIANTS
  TypeOK
  PointersLive
  Drained
PROPERTIES
  ImplementsJudger
  Reclaimed
  Stops
CHECK_DEADLOCK FALSE
