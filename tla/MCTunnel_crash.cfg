CONSTANTS
  Cap = 1
  MaxSent = 2
SPECIFICATION DaemonSpec
PROPERTIES
  CrashedClientLetsGo
CHECK_DEADLOCK FALSE
