SPECIFICATION FairSpec
CONSTANTS
  Configs <- MCConfigs
  Payloads <- MCPayloads
  Bits = {0, 5}
  MaxFaults = 1
INVARIANTS TypeOK Integrity HeardOnce Resynchronizes Corrects
PROPERTY SignalHandled
CHECK_DEADLOCK FALSE
