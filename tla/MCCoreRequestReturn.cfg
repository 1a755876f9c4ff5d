CONSTANTS
  w1 = w1
  w2 = w2
  w3 = w3
  w4 = w4
  None = None
  Worker <- MCWorker
  Workloads <- MCWorkloads
SPECIFICATION Spec
PROPERTY
  CoresReturned
CHECK_DEADLOCK FALSE
