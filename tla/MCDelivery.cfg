SPECIFICATION Spec
CONSTANTS
  a = a
  b = b
  Messages <- MCMessages
  Kinds <- MCKinds
  Servers = {"mcourse", "moj", "forth"}
  Prefetch = 1
  Tests = 2
  MaxBreaks = 2
  MaxCrashes = 1
  MaxOutages = 1
  MaxChannels = 4
INVARIANTS
  TypeOK
  NotLost
  HungByRedelivery
PROPERTIES
  Served
CHECK_DEADLOCK FALSE
