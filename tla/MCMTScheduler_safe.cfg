CONSTANTS
  Periodic = {p}
  OneShot = {o, s}
  Cancelable = {p}
  Spawned = {s}
  Spawner = {o}
  Offsets = {0, 1}
  Period = 1
  MainThread = TRUE
  MaxTime = 2
  MaxSpurious = 1
SPECIFICATION Spec
CHECK_DEADLOCK FALSE
INVARIANTS
  TypeOK
  RateBound
  ThreadsOwned
  QuietAfterStop
