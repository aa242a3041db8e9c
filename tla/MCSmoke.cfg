CONSTANTS
  Modes = {"none", "any", "expect"}
  MaxMarks = 3
  TTL = 2
  BootWait <- MCBootWait
SPECIFICATION FairSmokeSpec
INVARIANTS
  PassIsEarned
  ExpectedImageRan
  RunIsExclusive
PROPERTIES
  VerdictReached
CHECK_DEADLOCK FALSE
