CONSTANTS
  w1 = w1
  w2 = w2
  w3 = w3
  a1 = a1
  a2 = a2
  b = b
  c = c
  A = A
  B = B
  C = C
  None = None
  Worker <- MCWorker
  Sub <- MCSub
  Dir <- MCDir
  Inboxes <- MCInboxes
  Debug = FALSE
SPECIFICATION Spec
INVARIANTS
  TypeOK
  JudgedApart
PROPERTIES
  Completes
CHECK_DEADLOCK FALSE
