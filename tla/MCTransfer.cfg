CONSTANTS
  Kinds = {"image", "put", "get", "exec"}
  MaxSize = 2
  Window = 1
SPECIFICATION FairSpec
INVARIANTS
  ArrivesWhole
PROPERTIES
  NothingStays
  CallEnds
CHECK_DEADLOCK FALSE
