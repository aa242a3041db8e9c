SPECIFICATION Spec
CONSTANTS
  Cap = 3
  MaxBytes = 7
  c1 = c1
  c2 = c2
  Calls = {c1, c2}
SYMMETRY CallSymmetry
INVARIANTS
  SnapshotIsTail
  ReportedCycleRebooted
  DarkIsTold
  FreshLog
CHECK_DEADLOCK FALSE
