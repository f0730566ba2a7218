\* Shared memory only: does a waiting subscriber miss out on a new publisher?
SPECIFICATION FairSpec
CONSTANTS
  MaxChannels = 2
  MaxPackets = 1
  Capacity = 1
  MaxSpurious = 0
  Transports = {"shm"}
PROPERTIES
  DontMissOut
CHECK_DEADLOCK FALSE
