SPECIFICATION Spec
CONSTANTS
  f1 = f1
  f2 = f2
  o1 = o1
  o2 = o2
  o3 = o3
  o4 = o4
  Targets <- MCTargets
  ObjectTypes <- MCObjectTypes
  ParamLists <- MCParamLists
  Objects = {o1, o2, o3, o4}
  Mapped <- MCMapped
INVARIANTS FunctionsIsolated ReportComplete CoverageComplete
CHECK_DEADLOCK FALSE
