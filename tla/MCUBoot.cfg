SPECIFICATION Spec
CONSTANTS
  MaxAttempts = 2
  MaxCalls = 4
CHECK_DEADLOCK FALSE
INVARIANTS
  InStep
  SyncedBootIsVerified
  BootedIsNetbooted
