SPECIFICATION MasterFairSpec
CONSTANTS
  r1 = r1
  r2 = r2
  r3 = r3
  Runners <- ThreeRunners
  MaxSpurious = 2
  StopsOnError = TRUE
INVARIANT TypeOK
INVARIANT BarrierSlack
PROPERTY MasterReturns
PROPERTY RunnersReturn
PROPERTY IsStageBarrier
CHECK_DEADLOCK FALSE
