SPECIFICATION Spec
CONSTANTS
  Packets <- MCPackets
  Strange <- MCStrange
  Junk = {0, 6, 17, 65535}
  MaxHops = 0
INVARIANTS
  NothingIsLost
CHECK_DEADLOCK FALSE
