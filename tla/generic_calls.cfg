SPECIFICATION Spec
CONSTANTS
  Worlds <- MCWorlds
  PrimTags <- MCPrimTags
  INIT_FUNCTION_SCORE = 100
  MaxDepth = 3
  MaxCalls = 6
INVARIANTS TargetsResolve HooksReachTargets MatchingExact ArgumentsFit
CHECK_DEADLOCK FALSE
