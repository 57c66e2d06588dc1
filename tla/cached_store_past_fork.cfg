SPECIFICATION Spec
CONSTANTS
  r1 = r1
  c1 = c1
  Roots <- MCOneRoot
  Children <- MCChildren
  Parent <- MCParent
  MaxVersion = 4
  ChainVersions = 3
  MaxTx = 2
  Dumps = FALSE
  Unset = Unset
  Missing = Missing
  StaleCallers = FALSE
INVARIANT NothingPastFork
CHECK_DEADLOCK FALSE
