CONSTANTS
  Periodic = {p}
  OneShot = {}
  Cancelable = {p}
  Spawned = {}
  Spawner = {}
  Offsets = {0, 1}
  Period = 1
  MainThread = FALSE
  MaxTime = 2
  MaxSpurious = 0
SPECIFICATION Spec
CHECK_DEADLOCK FALSE
INVARIANT NeverTerminates
