CONSTANTS
  w1 = w1
  w2 = w2
  w3 = w3
  check = check
  compare = compare
  None = None
  Orphan = Orphan
  Worker <- MCWorker
  Script <- MCScript
  Builds <- MCBuilds
  Tasks <- MCTasks
  MaxCrashes = 1
  MaxFails = 1
SPECIFICATION Spec
INVARIANTS
  TypeOK
  RunsWhole
PROPERTIES
  Fetched
CHECK_DEADLOCK FALSE
