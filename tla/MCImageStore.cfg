SPECIFICATION FairSpec
CONSTANTS
  u1 = u1
  u2 = u2
  b1 = b1
  NoFile = NoFile
  Images <- MCImages
  Uploads <- MCUploads
  Overwriting <- MCOverwriting
  Boots <- MCBoots
  Size = 1
  MaxCrashes = 1
CHECK_DEADLOCK FALSE
INVARIANTS
  VisibleIsComplete
  NamesLeadHome
  TempsAreOwned
PROPERTIES
  AbandonedReclaimed
  ShelfSpec
