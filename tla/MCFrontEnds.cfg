SPECIFICATION FairSpec
INVARIANTS
  LockTablesAgree
  LockReturned
  OneReply
  ServedFromOpen
PROPERTIES
  RetryRepeatsNothing
  EveryoneEnds
CHECK_DEADLOCK FALSE
