CONSTANTS
  Cap = 1
  MaxSent = 2
SPECIFICATION FairSpec
INVARIANTS
  TailArrives
PROPERTIES
  TunnelUnwinds
CHECK_DEADLOCK FALSE
