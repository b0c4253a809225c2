SPECIFICATION Spec
CONSTANTS
  Producers = {"L1", "L3"}
  Owner = "L2"
  Threads = {"L1", "L2", "L3"}
  Lists = {"L2"}
  MaxPerThread = 3
  MaxPackets = 4
  NULL = NULL
  Items <- MCItems
INVARIANTS
  TypeOK
  SizeInv
  ExactUntilRaced
PROPERTIES
  WedgeIsForever
  EachProducerInOrder
CHECK_DEADLOCK FALSE
