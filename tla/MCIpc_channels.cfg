\* Both transports, two publisher objects of the name, two packets, one wake-up
\* without a notification.
SPECIFICATION Spec
CONSTANTS
  MaxChannels = 2
  MaxPackets = 2
  Capacity = 2
  MaxSpurious = 1
  Transports = {"shm", "mq"}
INVARIANTS
  TypeOK
  FailsOnlyInTeardown
  FlagMatchesListener
PROPERTIES
  IsPacketChannel
\* a process that failed, or has closed with nothing left to do, stops
CHECK_DEADLOCK FALSE
