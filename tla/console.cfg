SPECIFICATION FairSpec
CONSTANTS
  NULL = NULL
  Adapters <- MCAdapters
  MaxPending = 2
INVARIANTS
  ListedAsFound
  OctetsAreBytes
PROPERTIES
  HeardAsTyped
  GetsThrough
CHECK_DEADLOCK FALSE
