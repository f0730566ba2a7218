\* Both transports, two publisher objects of the name and one packet: what must happen.
SPECIFICATION FairSpec
CONSTANTS
  MaxChannels = 2
  MaxPackets = 1
  Capacity = 1
  MaxSpurious = 0
  Transports = {"shm", "mq"}
PROPERTIES
  AlwaysListening
  CancelReturns
CHECK_DEADLOCK FALSE
