SPECIFICATION Spec
CONSTANTS
  Byte = 3
  Types <- MCTypes
  Vals <- MCVals
  Depth = 3
  Cases <- MCCases
INVARIANTS TypeOK RoundTrip MissingNoticed
CHECK_DEADLOCK FALSE
