SPECIFICATION ClientsSpec
CONSTANTS
  MaxInstances = 3
  Objects = {"captor", "sender", "another"}
  NULL = NULL
INVARIANTS
  DevicesTypeOK
  PcapHasID
  OwnDevice
  IDsAreLost
