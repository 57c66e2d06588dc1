SPECIFICATION Spec
CONSTANTS
  s0 = s0
  s1 = s1
  s2 = s2
  None = None
  Sequences = {s0, s1, s2}
  Length <- MCLength
  Initial = s0
  Edges = {1}
  MaxReplay = 2
  MaxIterations = 3
  CycleLimit = 4
INVARIANTS ReplayOfOwnFailure OutcomesAttached CorpusSound FindingsKept
PROPERTY CampaignEnds
CHECK_DEADLOCK FALSE
