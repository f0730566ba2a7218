CONSTANTS
  Periodic = {p}
  OneShot = {o, s}
  Offsets = {0, 1}
  Period = 1
  Durations = {1, 2}
  RealTime = TRUE
  Clients = TRUE
  MaxTime = 2
SPECIFICATION FairSpec
CHECK_DEADLOCK FALSE
INVARIANTS
  TypeOK
  OnSchedule
PROPERTIES
  NothingLeftBehind
  NoOvertaking
  SimulateReturns
