SPECIFICATION FairSpec
CONSTANTS
  Threads = {"L1", "L2", "L3", "ARP", "IP", "MAIN"}
  Lists = {"L1", "L2", "L3", "ARP", "IP"}
  Items <- MCItems
  NULL = NULL
  Frames <- OneReply
  IPs = {"ipOwn", "ipB"}
  MACs = {"own", "macB", "macC", "bcast", "zero"}
  OwnMac = "own"
  OwnIP = "ipOwn"
  Broadcast = "bcast"
  ZeroMac = "zero"
  MaxFrames = 1
  MaxRequests = 1
  MaxPackets = 2
PROPERTIES
  ShutdownCompletes
  ReplyLearnt
CHECK_DEADLOCK FALSE
