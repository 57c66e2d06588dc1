-------------------------- MODULE TargetDeployment --------------------------
(***************************************************************************)
(* Targeted package deployment in movy-replay (exec.rs).  Executors run on *)
(* several threads of one process and share the static map                 *)
(* TARGET_DEPLOYMENT from transaction digest to the package id the publish *)
(* must land on.  A registration that finds its digest taken bumps the gas *)
(* budget and tries again; it is removed when the guard is dropped.        *)
(*                                                                         *)
(* The transaction digest is an injective hash of the transaction, here    *)
(* the pair of its payload and its gas budget.  The publish itself runs in *)
(* Sui's adapter (external): it asks targeted_deployment for its id once.  *)
(***************************************************************************)
EXTENDS Integers, FiniteSets

CONSTANTS
  Threads,     \* threads that run an executor
  Payloads,    \* transactions up to their gas budget
  Targets,     \* package ids a caller can pin
  None,
  MaxDeploys   \* bound on deployments per thread

ASSUME ConstantsAssumption ==
  /\ MaxDeploys \in Nat
  /\ None \notin Threads /\ None \notin Targets

VARIABLES
  pc,       \* where each thread is
  tx,       \* the payload and budget bumps of its transaction
  target,   \* the id its caller pinned
  lock,     \* holder of the mutex around the map, or None
  map,      \* TARGET_DEPLOYMENT: digest -> target id
  found,    \* what targeted_deployment answered
  placed,   \* the id its last committed deployment landed on
  deploys   \* deployments started so far

vars == <<pc, tx, target, lock, map, found, placed, deploys>>

Digests == Payloads \X Nat
digest(t) == <<tx[t].payload, tx[t].bumps>>

\* Steps at which a thread's guard value is alive.
Registered == {"running", "lookup", "looked", "failed", "dropping"}

Init ==
  /\ pc = [t \in Threads |-> "idle"]
  /\ tx \in [Threads -> [payload : Payloads, bumps : {0}]]
  /\ target \in [Threads -> Targets]
  /\ lock = None
  /\ map = {}
  /\ found = [t \in Threads |-> None]
  /\ placed = [t \in Threads |-> None]
  /\ deploys = [t \in Threads |-> 0]

Goto(t, p) == pc' = [pc EXCEPT ![t] = p]
Acquire(t) == lock = None /\ lock' = t
Release(t) == lock = t /\ lock' = None

\* deploy_contract / upgrade_contract build the transaction.
deploy_contract(t, p, id) ==
  /\ pc[t] = "idle" /\ deploys[t] < MaxDeploys
  /\ tx' = [tx EXCEPT ![t] = [payload |-> p, bumps |-> 0]]
  /\ target' = [target EXCEPT ![t] = id]
  /\ found' = [found EXCEPT ![t] = None]
  /\ deploys' = [deploys EXCEPT ![t] = @ + 1]
  /\ Goto(t, "register")
  /\ UNCHANGED <<lock, map, placed>>

\* GlobalDeployment::new: the digest is computed before the lock is taken.
register_lock(t) ==
  /\ pc[t] = "register" /\ Acquire(t) /\ Goto(t, "entry")
  /\ UNCHANGED <<tx, target, map, found, placed, deploys>>

\* Mutant: insert without looking at the entry.
entry_vacant_unchecked(t) ==
  /\ pc[t] = "entry"
  /\ Goto(t, "insert")
  /\ UNCHANGED <<tx, target, lock, map, found, placed, deploys>>

entry_vacant(t) ==
  /\ pc[t] = "entry"
  /\ \A e \in map : e.digest # digest(t)
  /\ Goto(t, "insert")
  /\ UNCHANGED <<tx, target, lock, map, found, placed, deploys>>

\* Mutant: retry with the lock guard still in scope.
entry_occupied_locked(t) ==
  /\ pc[t] = "entry" /\ lock = t
  /\ \E e \in map : e.digest = digest(t)
  /\ tx' = [tx EXCEPT ![t].bumps = @ + 1]
  /\ Goto(t, "register")
  /\ UNCHANGED <<target, lock, map, found, placed, deploys>>

entry_occupied(t) ==
  /\ pc[t] = "entry" /\ Release(t)
  /\ \E e \in map : e.digest = digest(t)
  /\ tx' = [tx EXCEPT ![t].bumps = @ + 1]
  /\ Goto(t, "register")
  /\ UNCHANGED <<target, map, found, placed, deploys>>

entry_insert(t) ==
  /\ pc[t] = "insert" /\ Release(t)
  /\ map' = map \cup {[digest |-> digest(t), id |-> target[t]]}
  /\ Goto(t, "running")
  /\ UNCHANGED <<tx, target, found, placed, deploys>>

\* SuiFuzzMode::targeted_deployment, called by the publish.
lookup_lock(t) ==
  /\ pc[t] = "running" /\ Acquire(t) /\ Goto(t, "lookup")
  /\ UNCHANGED <<tx, target, map, found, placed, deploys>>

targeted_deployment(t) ==
  /\ pc[t] = "lookup" /\ Release(t)
  /\ \/ \E e \in map : e.digest = digest(t) /\ found' = [found EXCEPT ![t] = e.id]
     \/ (\A e \in map : e.digest # digest(t)) /\ found' = [found EXCEPT ![t] = None]
  /\ Goto(t, "looked")
  /\ UNCHANGED <<tx, target, map, placed, deploys>>

\* Mutant: a failed execution forgets its guard.
execution_fails_leaking(t) ==
  /\ pc[t] \in {"running", "looked"} /\ Goto(t, "executed")
  /\ UNCHANGED <<tx, target, lock, map, found, placed, deploys>>

\* The execution aborts or panics before or after the lookup: no package.
execution_fails(t) ==
  /\ pc[t] \in {"running", "looked"} /\ Goto(t, "failed")
  /\ UNCHANGED <<tx, target, lock, map, found, placed, deploys>>

\* Drop, on return or while a panic unwinds.
drop_lock(t) ==
  /\ pc[t] \in {"looked", "failed"} /\ Acquire(t)
  /\ found' = [found EXCEPT ![t] = IF pc[t] = "failed" THEN None ELSE @]
  /\ Goto(t, "dropping")
  /\ UNCHANGED <<tx, target, map, placed, deploys>>

GlobalDeployment_drop(t) ==
  /\ pc[t] = "dropping" /\ Release(t)
  /\ map' = {e \in map : e.digest # digest(t)}
  /\ Goto(t, "executed")
  /\ UNCHANGED <<tx, target, found, placed, deploys>>

\* A package at the pinned id is committed; any other outcome is an error.
finish_deployment(t) ==
  /\ pc[t] = "executed" /\ Goto(t, "idle")
  /\ placed' = [placed EXCEPT ![t] = IF found[t] = target[t] THEN found[t] ELSE None]
  /\ UNCHANGED <<tx, target, lock, map, found, deploys>>

Step(t) ==
  \/ register_lock(t) \/ entry_vacant(t) \/ entry_occupied(t) \/ entry_insert(t)
  \/ lookup_lock(t) \/ targeted_deployment(t) \/ execution_fails(t)
  \/ drop_lock(t) \/ GlobalDeployment_drop(t)
  \/ finish_deployment(t)

Next ==
  \E t \in Threads :
    \/ \E p \in Payloads, id \in Targets : deploy_contract(t, p, id)
    \/ Step(t)

\* A started deployment keeps running: the threads are scheduled by the OS.
Fairness == \A t \in Threads : WF_vars(Step(t))

Spec == Init /\ [][Next]_vars
FairSpec == Spec /\ Fairness

-----------------------------------------------------------------------------
(* Type correctness; the map is a set of digest/id records.                 *)
TypeOK ==
  /\ pc \in [Threads -> {"idle", "register", "entry", "insert", "executed"} \cup Registered]
  /\ tx \in [Threads -> [payload : Payloads, bumps : Nat]]
  /\ target \in [Threads -> Targets]
  /\ lock \in Threads \cup {None}
  /\ map \subseteq [digest : Digests, id : Targets]
  /\ found \in [Threads -> Targets \cup {None}]
  /\ placed \in [Threads -> Targets \cup {None}]
  /\ deploys \in [Threads -> 0..MaxDeploys]

\* While its guard lives, a thread's digest maps to the target it asked for,
\* whatever the other threads register, bump or drop.
OwnEntry ==
  \A t \in Threads : pc[t] \in Registered =>
    \A e \in map : e.digest = digest(t) => e.id = target[t]

\* The map holds the entries of the live guards and nothing else: no entry is
\* leaked by a failed execution, none is removed by somebody else's drop.
NoLeak == {e.digest : e \in map} = {digest(t) : t \in {u \in Threads : pc[u] \in Registered}}

\* Every entry operation happens under the mutex: its holder is the one
\* thread inside a critical section.
InCritical == {"entry", "insert", "lookup", "dropping"}
MutexHeld == \A t \in Threads : pc[t] \in InCritical <=> lock = t

\* Two live guards never share a digest, even for identical transactions.
DistinctDigests ==
  \A t, u \in Threads :
    t # u /\ pc[t] \in Registered /\ pc[u] \in Registered => digest(t) # digest(u)

\* A publish that ran to completion was told its own pinned id, so the
\* "failed to deployed at target" error is never caused by another thread.
NeverMisplaced ==
  \A t \in Threads : pc[t] = "looked" => found[t] = target[t]

\* How far a caller sees its deployment: a publish that has been told an id
\* and has not failed since is told; the bookkeeping around it is invisible.
Told(t) == pc[t] = "looked" \/ (pc[t] \in {"dropping", "executed"} /\ found[t] # None)
Aborted(t) == pc[t] = "failed" \/ (pc[t] \in {"dropping", "executed"} /\ found[t] = None)
phase ==
  [t \in Threads |-> CASE pc[t] = "idle" -> "idle"
                       [] Told(t)        -> "told"
                       [] Aborted(t)     -> "aborted"
                       [] OTHER          -> "pending"]
answer == [t \in Threads |-> IF Told(t) THEN found[t] ELSE None]

Abs == INSTANCE PinnedPublish WITH pin <- target

\* The shared map, the digests, the bumped retries and the drops implement a
\* publication in which every caller has its pinned id to itself: each publish
\* is told its own caller's id whatever the other threads register or drop,
\* and what is committed is at that id.
ImplementsPinned == Abs!Spec

\* Every deployment that is started comes to an end.
DeploymentsEnd == \A t \in Threads : pc[t] # "idle" ~> pc[t] = "idle"
=============================================================================
