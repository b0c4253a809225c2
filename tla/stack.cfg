SPECIFICATION Spec
CONSTANTS
  Threads = {"L1", "L2", "L3", "ARP", "IP", "MAIN"}
  Lists = {"L1", "L2", "L3", "ARP", "IP"}
  Items <- MCItems
  NULL = NULL
  Frames <- MixedFrames
  IPs = {"ipOwn", "ipB"}
  MACs = {"own", "macB", "macC", "bcast", "zero"}
  OwnMac = "own"
  OwnIP = "ipOwn"
  Broadcast = "bcast"
  ZeroMac = "zero"
  MaxFrames = 2
  MaxRequests = 2
  MaxPackets = 2
INVARIANTS
  IInv
  DeliveredIsOurs
  SentIsStamped
  OneInSection
  NoAddToFinished
  DeathNeedsRace
PROPERTIES
  RequestedIsUnknown
  PathsInOrder
CHECK_DEADLOCK FALSE
