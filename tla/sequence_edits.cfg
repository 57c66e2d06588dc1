SPECIFICATION Spec
CONSTANTS
  Abi <- LendingAbi
  Targets = {"borrow", "repay", "use", "redeem"}
  Producers = {"borrow", "buy", "redeem"}
  SeqPre <- LendingPre
  SeqPost <- LendingPost
  Hooks <- LendingHooks
  Create = "create_context"
  Destroy = "destroy_context"
  Coins = {"Coin"}
  Balances = {"Balance"}
  KeyStore = {"Coin", "Ticket", "Pass"}
  HotPotatoes = {"Loan", "Context"}
  Objects <- LendingObjects
  MaxDepth = 2
  MaxTries = 3
  MaxSplits = 3
  AlwaysGrow = 2
  MaxCommands = 20
  MaxRounds = 3
INVARIANTS  WellTyped MovedOnce PotatoesResolved 
CHECK_DEADLOCK FALSE
