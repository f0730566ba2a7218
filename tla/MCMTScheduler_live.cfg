CONSTANTS
  Periodic = {p}
  OneShot = {o}
  Cancelable = {p}
  Spawned = {}
  Spawner = {}
  Offsets = {0, 1}
  Period = 1
  MainThread = FALSE
  MaxTime = 2
  MaxSpurious = 0
SPECIFICATION FairSpec
CHECK_DEADLOCK FALSE
PROPERTIES StopReturns EventsStart
