SPECIFICATION Spec
CONSTANTS
  deposit = deposit
  fee = fee
  set = set
  hash = hash
  Other = Other
  Funs <- MCFuns
  Params <- MCParams
  Locals <- MCLocals
  Returns <- MCReturns
  Native <- MCNative
  Programs <- MCParents
  Bits <- MCBits
  Literals <- MCLiterals
  MaxInstr = 5
  MaxStack = 3
  MaxDepth = 2
  OwnSequence = FALSE
INVARIANT NoSolverPanic
CHECK_DEADLOCK FALSE
