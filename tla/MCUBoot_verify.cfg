SPECIFICATION Spec
CONSTANTS
  MaxAttempts = 2
  MaxCalls = 3
CHECK_DEADLOCK FALSE
INVARIANTS
  VerifyMeansVerified
