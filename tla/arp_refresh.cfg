SPECIFICATION Spec
CONSTANTS
  Threads = {"L1", "L2", "L3", "ARP", "IP", "MAIN"}
  Lists = {"L1", "L2", "L3", "ARP", "IP"}
  Items <- MCItems
  NULL = NULL
  Frames <- TwoReplies
  IPs = {"ipOwn", "ipB"}
  MACs = {"own", "macB", "macC", "bcast", "zero"}
  OwnMac = "own"
  OwnIP = "ipOwn"
  Broadcast = "bcast"
  ZeroMac = "zero"
  MaxFrames = 2
  MaxRequests = 0
  MaxPackets = 2
INVARIANTS
  TableRefreshed
CHECK_DEADLOCK FALSE
