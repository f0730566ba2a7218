SPECIFICATION Spec
CONSTANTS
  Class <- MCClass
  Types <- MCTypes
  Factory <- MCFactory
  Plugins <- MCPlugins
  Starts <- MCStarts
  AddParam <- MCAddParam
  AcceptsParam <- MCAcceptsParam
  Json <- MCJson
  ParamTypes <- MCParamTypes
  Level <- MCLevel
  DefaultNames <- MCDefaultNames
  OwnNames <- MCOwnNames
  ClientClasses <- MCClientClasses
  EnumNames = {"e0", "e1"}
  FirstEnum = "e0"
INVARIANT MandatoryEnforced
CHECK_DEADLOCK FALSE
