SPECIFICATION FairSpec
CONSTANTS
  Threads = {t1, t2, t3}
  Payloads = {p1}
  Targets = {i1, i2}
  None = None
  MaxDeploys = 1
INVARIANT NoLeak
PROPERTIES ImplementsPinned DeploymentsEnd
CHECK_DEADLOCK FALSE
