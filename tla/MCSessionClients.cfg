CONSTANTS
  i1 = i1
  i2 = i2
  i3 = i3
  c1 = c1
  m1 = m1
  r1 = r1
  r2 = r2
  Ids <- MCIds
  NoId = NoId
  Waiters <- MCRpcs
  Calls <- MCRpcs
  TTL = 4
  Clis <- MCClis
  Mcps <- MCMcps
  NoRpc = NoRpc
  Latency = 1
  MaxLost = 1
  MaxOps <- MCMaxOps
  MaxRestarts = 1
SPECIFICATION ClientsSpec
INVARIANTS
  ExactlyOnce
  DriverHolds
  CommandKept
CHECK_DEADLOCK FALSE
