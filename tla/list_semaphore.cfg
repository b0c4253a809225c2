SPECIFICATION Spec
CONSTANTS
  Producers = {"L1", "L3"}
  Owner = "L2"
  Threads = {"L1", "L2", "L3"}
  Lists = {"L2"}
  MaxPerThread = 1
  MaxPackets = 2
  NULL = NULL
  Items <- MCItems
INVARIANT
  SendsExclude
CHECK_DEADLOCK FALSE
