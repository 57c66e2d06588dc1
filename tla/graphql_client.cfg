SPECIFICATION FairSpec
CONSTANTS
  Tasks = {t1, t2}
  Permits = 1
  MaxAttempts = 2
  MaxPerPage = 1
  Objects <- MCTwoObjects
  Fork = 1
  MaxTip = 2
INVARIANTS PermitsConserved ListingFaithful
PROPERTY OperationsEnd
