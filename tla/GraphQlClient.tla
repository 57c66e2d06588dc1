---------------------------- MODULE GraphQlClient ----------------------------
(***************************************************************************)
(* The GraphQL client of movy-sui (rpc/graphql.rs) and the fork wait of    *)
(* database/graphql.rs.  Tasks share a semaphore of permits; a query holds *)
(* one permit while it is sent and retried; listings come page by page     *)
(* and give the permit back in between, while the chain goes on.           *)
(*                                                                         *)
(* External: the service lists the objects alive at its tip in id order    *)
(* after a cursor, each with its state at the requested checkpoint; tokio's *)
(* semaphore serves its waiters in order.                                  *)
(***************************************************************************)
EXTENDS Integers, Sequences, FiniteSets, FiniteSetsExt

CONSTANTS
  Tasks,
  Permits,      \* ASSUMED_GRAPHQL_CONCURRENT (5), or the caller's choice
  MaxAttempts,  \* 10 in run_query
  MaxPerPage,   \* 50
  Objects,      \* ids, numbers in the order the service lists them
  Fork,         \* the checkpoint every query is pinned to
  MaxTip        \* bound on the newest checkpoint

ASSUME ConstantsAssumption ==
  /\ Permits \in Nat \ {0} /\ MaxAttempts \in Nat \ {0} /\ MaxPerPage \in Nat \ {0}
  /\ Objects \subseteq Nat \ {0} /\ IsFiniteSet(Objects)
  /\ MaxTip \in Nat /\ Fork \in 0..MaxTip

VARIABLES
  born, died,  \* first checkpoint with and first checkpoint without an object
  tip,         \* the newest checkpoint
  queue,       \* tasks waiting for a permit
  holders,     \* tasks holding one
  op,          \* what a task is doing
  pc,          \* where it is
  idx,         \* attempts of the present query
  after,       \* cursor of the listing
  out          \* what it gathered

chain == <<born, died>>
vars == <<born, died, tip, queue, holders, op, pc, idx, after, out>>

Alive(o, c) == born[o] <= c /\ c < died[o]

Init ==
  /\ born \in [Objects -> 0..MaxTip]
  /\ died \in [Objects -> 1..(MaxTip + 1)]
  /\ \A o \in Objects : born[o] < died[o]
  /\ tip \in 0..Fork
  /\ queue = <<>> /\ holders = {}
  /\ op = [t \in Tasks |-> "none"]
  /\ pc = [t \in Tasks |-> "idle"]
  /\ idx = [t \in Tasks |-> 0]
  /\ after = [t \in Tasks |-> 0]
  /\ out = [t \in Tasks |-> <<>>]

Goto(t, p) == pc' = [pc EXCEPT ![t] = p]
Release(t) == holders' = holders \ {t}

\* A caller waits for the fork before it asks for anything at it.
start(t, o) ==
  /\ pc[t] = "idle"
  /\ o # "wait_until_fork" => tip >= Fork
  /\ op' = [op EXCEPT ![t] = o]
  /\ after' = [after EXCEPT ![t] = 0]
  /\ out' = [out EXCEPT ![t] = <<>>]
  /\ Goto(t, "query")
  /\ UNCHANGED <<chain, tip, queue, holders, idx>>

-----------------------------------------------------------------------------
(* run_query: one permit for up to MaxAttempts posts.                       *)

acquire_wait(t) ==
  /\ pc[t] = "query"
  /\ queue' = Append(queue, t)
  /\ Goto(t, "queued")
  /\ UNCHANGED <<chain, tip, holders, op, idx, after, out>>

acquire(t) ==
  /\ pc[t] = "queued" /\ Head(queue) = t /\ Cardinality(holders) < Permits
  /\ queue' = Tail(queue)
  /\ holders' = holders \cup {t}
  /\ idx' = [idx EXCEPT ![t] = 0]
  /\ Goto(t, "sending")
  /\ UNCHANGED <<chain, tip, op, after, out>>

\* Mutant: an error path forgets the permit.
response_rejected_leaking(t) ==
  /\ pc[t] = "sending" /\ Goto(t, "failed")
  /\ UNCHANGED <<chain, tip, queue, holders, op, idx, after, out>>

\* A transport error, a GraphQL error, or an answer with a missing field: the
\* whole operation fails at once, and dropping the permit gives it back.
response_rejected(t) ==
  /\ pc[t] = "sending" /\ Release(t) /\ Goto(t, "failed")
  /\ UNCHANGED <<chain, tip, queue, op, idx, after, out>>

\* An answer that is not JSON: sleep and try again, the permit in hand.
response_unreadable(t) ==
  /\ pc[t] = "sending"
  /\ idx' = [idx EXCEPT ![t] = @ + 1]
  /\ Goto(t, "backoff")
  /\ UNCHANGED <<chain, tip, queue, holders, op, after, out>>

\* Mutant: the loop over attempts never gives up.
backoff_over_forever(t) ==
  /\ pc[t] = "backoff" /\ Goto(t, "sending")
  /\ idx' = [idx EXCEPT ![t] = 0]
  /\ UNCHANGED <<chain, tip, queue, holders, op, after, out>>

backoff_over(t) ==
  /\ pc[t] = "backoff"
  /\ \/ idx[t] < MaxAttempts /\ Goto(t, "sending") /\ UNCHANGED holders
     \/ idx[t] = MaxAttempts /\ Goto(t, "failed") /\ Release(t)
  /\ UNCHANGED <<chain, tip, queue, op, idx, after, out>>

-----------------------------------------------------------------------------
(* What the operations do with an accepted answer.                          *)

Listed(a) == {o \in Objects : Alive(o, tip) /\ o > a}

\* The first MaxPerPage of the objects in S.
Page(S) == {o \in S : Cardinality({p \in S : p <= o}) <= MaxPerPage}

\* The objects of S in the order the service lists them.
InOrder(S) ==
  CHOOSE s \in [1..Cardinality(S) -> S] : \A i, j \in 1..Cardinality(S) : i < j => s[i] < s[j]

\* Mutant: the cursor counts entries instead of naming the last one seen.
filter_objects_offset(t) ==
  LET all == Listed(0)
      listed == {o \in all : Cardinality({p \in all : p <= o}) > after[t]}
      nodes == Page(listed)
      more == nodes # listed
  IN  /\ pc[t] = "sending" /\ op[t] = "filter_objects" /\ Release(t)
      /\ out' = [out EXCEPT ![t] = @ \o InOrder({o \in nodes : Alive(o, Fork)})]
      /\ after' = [after EXCEPT ![t] = @ + Cardinality(nodes)]
      /\ Goto(t, IF more THEN "query" ELSE "done")
      /\ UNCHANGED <<chain, tip, queue, op, idx>>

\* One page: objects that did not exist at the checkpoint are skipped.
filter_objects(t) ==
  LET nodes == Page(Listed(after[t]))
      more == nodes # Listed(after[t])
  IN  /\ pc[t] = "sending" /\ op[t] = "filter_objects" /\ Release(t)
      /\ out' = [out EXCEPT ![t] = @ \o InOrder({o \in nodes : Alive(o, Fork)})]
      /\ after' = [after EXCEPT ![t] = IF more THEN Max(nodes) ELSE @]
      /\ Goto(t, IF more THEN "query" ELSE "done")
      /\ UNCHANGED <<chain, tip, queue, op, idx>>

\* A multi-get answers absent keys with null, which are dropped (also
\* query_transactions, query_epoches, query_checkpoint).
query_objects(t) ==
  /\ pc[t] = "sending" /\ op[t] = "query_objects" /\ Release(t)
  /\ out' = [out EXCEPT ![t] = InOrder({o \in Objects : Alive(o, Fork)})]
  /\ Goto(t, "done")
  /\ UNCHANGED <<chain, tip, queue, op, idx, after>>

wait_until_fork(t) ==
  /\ pc[t] = "sending" /\ op[t] = "wait_until_fork" /\ Release(t)
  /\ Goto(t, IF tip >= Fork THEN "done" ELSE "polling")
  /\ UNCHANGED <<chain, tip, queue, op, idx, after, out>>

poll_again(t) ==
  /\ pc[t] = "polling" /\ Goto(t, "query")
  /\ UNCHANGED <<chain, tip, queue, holders, op, idx, after, out>>

return(t) ==
  /\ pc[t] \in {"done", "failed"} /\ Goto(t, "idle")
  /\ UNCHANGED <<chain, tip, queue, holders, op, idx, after, out>>

next_checkpoint ==
  /\ tip < MaxTip /\ tip' = tip + 1
  /\ UNCHANGED <<chain, queue, holders, op, pc, idx, after, out>>

Step(t) ==
  \/ acquire_wait(t) \/ acquire(t) \/ response_rejected(t)
  \/ response_unreadable(t) \/ backoff_over(t)
  \/ filter_objects(t) \/ query_objects(t) \/ wait_until_fork(t) \/ poll_again(t)

Next ==
  \/ \E t \in Tasks, o \in {"filter_objects", "query_objects", "wait_until_fork"} : start(t, o)
  \/ \E t \in Tasks : Step(t) \/ return(t)
  \/ next_checkpoint

\* The runtime schedules every task, the service answers every request, and
\* the chain goes on.
Fairness == WF_vars(next_checkpoint) /\ \A t \in Tasks : WF_vars(Step(t))

Spec == Init /\ [][Next]_vars
FairSpec == Spec /\ Fairness

-----------------------------------------------------------------------------
\* Permits are conserved: at most Permits queries are on the wire, and a task
\* that fails, sleeps between pages or between polls holds none.
PermitsConserved ==
  /\ Cardinality(holders) <= Permits
  /\ \A t \in Tasks : t \in holders <=> pc[t] \in {"sending", "backoff"}

\* A finished listing names, in order and without repetition, only objects of
\* the forked checkpoint, and all of them that the chain still lists, although
\* the listing took several queries and the chain moved between them.
ListingFaithful ==
  \A t \in Tasks : pc[t] = "done" /\ op[t] = "filter_objects" =>
    /\ \A i \in 1..(Len(out[t]) - 1) : out[t][i] < out[t][i + 1]
    /\ \A i \in 1..Len(out[t]) : Alive(out[t][i], Fork)
    /\ \A o \in Objects : Alive(o, Fork) /\ Alive(o, tip) => \E i \in 1..Len(out[t]) : out[t][i] = o

\* Every operation ends: no task waits forever for a permit, a retry, a page
\* or the fork.
OperationsEnd ==
  \A t \in Tasks : pc[t] = "query" ~> pc[t] \in {"done", "failed"}
=============================================================================
