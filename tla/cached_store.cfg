SPECIFICATION Spec
CONSTANTS
  r1 = r1
  c1 = c1
  Roots <- MCOneRoot
  Children <- MCChildren
  Parent <- MCParent
  MaxVersion = 4
  ChainVersions = 2
  MaxTx = 3
  Dumps = TRUE
  Unset = Unset
  Missing = Missing
  StaleCallers = FALSE
INVARIANTS CacheTruthful NegativesJustified  FreshChildrenVisible CommitsDurable
PROPERTY ExactReadsStable
CHECK_DEADLOCK FALSE
