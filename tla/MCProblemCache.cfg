SPECIFICATION Spec
CONSTANTS
  s1 = s1
  s2 = s2
  s3 = s3
  None = None
  Submissions <- MCSubmissions
  Version <- MCVersion
  Now = 3
  MaxRandom = 1
  MaxCrashes = 1
  MaxFails = 1
INVARIANTS
  TypeOK
  Fresh
  WritersApart
PROPERTIES
  Finishes
CHECK_DEADLOCK FALSE
