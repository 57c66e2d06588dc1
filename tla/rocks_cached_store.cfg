SPECIFICATION Spec
CONSTANTS
  r1 = r1
  c1 = c1
  Handles = {h1, h2}
  Roots <- MCRoots
  Children <- MCChildren
  Parent <- MCParent
  MaxVersion = 3
  ChainVersions = 2
  MaxTx = 2
  Unset = Unset
SYMMETRY Symmetry
INVARIANTS OneForkPerDatabase ForkedRootsExact RootCommitsDurable RemovedStayGone
CHECK_DEADLOCK FALSE
