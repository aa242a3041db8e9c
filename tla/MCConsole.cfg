SPECIFICATION PatternSpec
CONSTANTS
  o1 = o1
  w1 = w1
  Observers <- MCObservers
  Waiters <- MCWaiters
  Cap = 4
  SubChanCap = 2
  Window = 4
  Overlap = 1
  Replays <- MCReplays
  Mark = 5
  MaxChunk = 2
  MaxOutput = 7
  MaxHandlers = 1
  MaxResets = 1
INVARIANTS
  FeedHasNoGap
  ClosedMeansClosed
  ReplayIsExact
  ScanFindsAll
PROPERTIES
  PatternFound
