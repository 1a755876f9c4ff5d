CONSTANTS
  w1 = w1
  w2 = w2
  w3 = w3
  w4 = w4
  None = None
  Worker <- MCWorker4
  Workloads <- MCWorkloads4
SPECIFICATION Spec
SYMMETRY Symmetry
INVARIANTS
  TypeOK
  RequestAlive
  CountedCores
CHECK_DEADLOCK FALSE
