--------------------------- MODULE MCSequenceEdits ---------------------------
EXTENDS SequenceEdits

P(ty, mode) == [ty |-> ty, mode |-> mode]
Fn(params, returns) == [params |-> params, returns |-> returns]
Num == P("pure", "pure")

\* The calls the mutator makes itself, and a context for hooks.
Framework ==
  [n \in {"coin::split"} |-> Fn(<<P("Coin", "mut"), Num>>, <<"Coin">>)]
  @@ [n \in {"balance::split"} |-> Fn(<<P("Balance", "mut"), Num>>, <<"Balance">>)]
  @@ [n \in {"coin::from_balance"} |-> Fn(<<P("Balance", "value")>>, <<"Coin">>)]
  @@ [n \in {"create_context"} |-> Fn(<<>>, <<"Context">>)]
  @@ [n \in {"destroy_context"} |-> Fn(<<P("Context", "value")>>, <<>>)]

\* A pool that lends, and a ticket that is sold for a pass.
LendingAbi ==
  Framework
  @@ [n \in {"borrow"} |-> Fn(<<P("Pool", "mut")>>, <<"Balance", "Loan">>)]
  @@ [n \in {"repay"} |-> Fn(<<P("Loan", "value"), P("Balance", "value")>>, <<>>)]
  @@ [n \in {"use"} |-> Fn(<<P("Pass", "ref"), P("Ticket", "value")>>, <<>>)]
  @@ [n \in {"buy"} |-> Fn(<<P("Pass", "value"), Num>>, <<"Ticket">>)]
  @@ [n \in {"redeem"} |-> Fn(<<P("Ticket", "value"), P("Coin", "value")>>, <<"Pass">>)]
  @@ [n \in {"pre_borrow", "post_borrow"} |-> Fn(<<P("Context", "mut"), P("Pool", "mut")>>, <<>>)]
  @@ [n \in {"odd_hook"} |-> Fn(<<P("Context", "mut"), P("Pass", "mut")>>, <<>>)]
  @@ [n \in {"post_ptb"} |-> Fn(<<P("Context", "mut"), P("Oracle", "ref")>>, <<>>)]
  @@ [n \in {"pre_ptb"} |-> Fn(<<P("Context", "mut"), P("Pool", "ref")>>, <<>>)]
LendingHooks == [f \in {"borrow"} |-> [pre |-> <<"pre_borrow">>, post |-> <<"post_borrow", "odd_hook">>]]
LendingObjects == <<[ty |-> "Pool", owner |-> "shared"], [ty |-> "Pass", owner |-> "owned"],
                    [ty |-> "Coin", owner |-> "owned"], [ty |-> "Pass", owner |-> "immutable"]>>
LendingPre == <<"pre_ptb">>
LendingPost == <<"post_ptb">>
==============================================================================
