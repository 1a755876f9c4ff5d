SPECIFICATION Spec
CONSTANTS
  Hard = 2
  MaxTerms = 1
INVARIANTS
  TypeOK
  Justified
  Contained
PROPERTIES
  Ends
CHECK_DEADLOCK FALSE
