SPECIFICATION Spec
CONSTANTS
  Packets <- MCPackets
  Strange <- MCStrange
  Junk = {0, 6, 17, 65535}
  MaxHops = 1
INVARIANTS
  ClassIsDetermined
  CastsSucceed
  TransportIsReal
  PartsAreTheDatagram
  PeerAccepts
  RoundTrip
  ForwardIsStable
CHECK_DEADLOCK FALSE
