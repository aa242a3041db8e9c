SPECIFICATION FairSpec
CONSTANTS
  s1 = s1
  s2 = s2
  s3 = s3
  w1 = w1
  w2 = w2
  k1 = k1
  k2 = k2
  NoId = NoId
  Ids <- MCIds
  Waiters <- MCWaiters
  Calls <- MCCalls
  TTL = 2
INVARIANTS
  CallsCounted
  NoLostWakeup
  StaleCallsWereFinished
PROPERTIES
  LeaseSpec
  LockCirculates
