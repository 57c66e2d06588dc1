---------------------------- MODULE CachedStore ----------------------------
(***************************************************************************)
(* The in-memory versioned object cache of movy-sui (database/cache.rs)    *)
(* over a forked backing store (database/graphql.rs, or EmptyStore when    *)
(* the chain is empty).                                                    *)
(*                                                                         *)
(* An object's payload is abstracted to where it came from: OnChain, or    *)
(* the number of the local commit that wrote it.  A snapshot maps every id *)
(* and version to a payload, to Missing (Rust: Some entry holding None) or *)
(* to Unset (Rust: no entry).                                              *)
(***************************************************************************)
EXTENDS Integers, FiniteSets

CONSTANTS
  Roots,         \* objects a transaction names as inputs
  Children,      \* dynamic fields, reached only through their parent
  Parent,        \* the root a child hangs below
  MaxVersion,    \* bound on versions (u64 in the code)
  ChainVersions, \* bound on the versions the chain itself uses
  MaxTx,         \* bound on the number of local commits
  Dumps,         \* whether the run takes a snapshot (at most one, a bound)
  Unset, Missing,
  StaleCallers   \* may a caller name a superseded version or a removed object?

Ids == Roots \cup Children
Versions == 1..MaxVersion
OnChain == 0
Payloads == 0..MaxTx
Entries == Payloads \cup {Unset, Missing}
Snapshots == [Ids -> [Versions -> Entries]]

ASSUME ConstantsAssumption ==
  /\ Roots \cap Children = {}
  /\ Parent \in [Children -> Roots]
  /\ MaxVersion \in Nat /\ ChainVersions \in 0..MaxVersion /\ MaxTx \in Nat
  /\ Unset \notin Payloads /\ Missing \notin Payloads /\ Unset # Missing
  /\ Dumps \in BOOLEAN /\ StaleCallers \in BOOLEAN

RootOf(id) == IF id \in Children THEN Parent[id] ELSE id

VARIABLES
  chain,      \* every version event the GraphQL service knows
  fork,       \* per root, the newest version inside the forked checkpoint
  cache,      \* CachedStore.inner
  snapshot,   \* the last dump_snapshot, with the commits it contains
  local,      \* history: what local commits wrote or removed since the last reset
  txs         \* number of local commits so far

vars == <<chain, fork, cache, snapshot, local, txs>>

EmptySnapshot == [id \in Ids |-> [v \in Versions |-> Unset]]

-----------------------------------------------------------------------------
(* CachedSnapshot: lookups on a snapshot s.  An answer is a version and the *)
(* payload found there; NoObject is Rust's None.                            *)

NoObject == [ver |-> 0, data |-> Missing]
Obj(v, d) == [ver |-> v, data |-> d]

Max0(S) == IF S = {} THEN 0 ELSE CHOOSE v \in S : \A w \in S : w <= v

\* The newest version with an entry at or below the bound, 0 when unbound.
TopVersion(s, id, bound) == Max0({v \in Versions : v <= bound /\ s[id][v] # Unset})

object_exact_version(s, id, v) ==
  IF s[id][v] \in Payloads THEN Obj(v, s[id][v]) ELSE NoObject

object_resolved_upperbound(s, id, bound) ==
  LET v == TopVersion(s, id, bound)
  IN  IF v = 0 THEN NoObject ELSE object_exact_version(s, id, v)

object_id_cached(s, id) == object_resolved_upperbound(s, id, MaxVersion)

cache_query(s, id, v, entry) == [s EXCEPT ![id][v] = entry]
cache_object_only(s, id, o) == cache_query(s, id, o.ver, o.data)

-----------------------------------------------------------------------------
(* The backing store.  get_object is pinned to the forked checkpoint; reads *)
(* by key and by root version are answered from the whole history.          *)

ChainAt(id, bound) == object_resolved_upperbound(chain, id, bound)
BackingGetObject(id) == ChainAt(id, fork[RootOf(id)])
BackingByKey(id, v) == object_exact_version(chain, id, v)
BackingReadChild(id, bound) == ChainAt(id, bound)

\* The fork and the local commits on top of it: what a faithful store shows.
View == [id \in Ids |-> [v \in Versions |->
           IF local[id][v] # Unset THEN local[id][v]
           ELSE IF v <= fork[RootOf(id)] THEN chain[id][v] ELSE Unset]]
Current(id) == object_id_cached(View, id)

\* The versions of id a caller can name in an object reference.
NameableVersions(id) ==
  LET current == Current(id).ver
  IN  {v \in Versions : View[id][v] \in Payloads /\ (StaleCallers \/ v = current)}

-----------------------------------------------------------------------------
(* What each read answers in the present state.                             *)

\* Mutant: ask the backing store first.
GetObjectAnswer_backing(id) ==
  IF BackingGetObject(id) # NoObject THEN BackingGetObject(id)
  ELSE object_id_cached(cache, id)

GetObjectAnswer(id) ==
  LET hit == object_id_cached(cache, id)
  IN  IF hit # NoObject THEN hit ELSE BackingGetObject(id)

ByKeyAnswer(id, v) ==
  LET hit == object_exact_version(cache, id, v)
  IN  IF hit # NoObject THEN hit ELSE BackingByKey(id, v)

\* Mutant: only a negative entry is trusted.
ChildHit_negative(id, bound) ==
  LET v == TopVersion(cache, id, bound) IN v # 0 /\ cache[id][v] = Missing

\* A cached entry answers a child read only when it is Missing or sits exactly at the bound.
ChildHit(id, bound) ==
  LET v == TopVersion(cache, id, bound)
  IN  v # 0 /\ (cache[id][v] = Missing \/ v = bound)

ReadChildAnswer(id, bound) ==
  IF ChildHit(id, bound) THEN object_resolved_upperbound(cache, id, bound)
  ELSE BackingReadChild(id, bound)

-----------------------------------------------------------------------------
(* Reads: a miss asks the backing store and caches what it says.            *)

Fill(id, o) == cache' = IF o = NoObject THEN cache ELSE cache_object_only(cache, id, o)

ReadFrame == UNCHANGED <<chain, fork, snapshot, local, txs>>

get_object(id) ==
  /\ object_id_cached(cache, id) = NoObject
  /\ Fill(id, BackingGetObject(id))
  /\ ReadFrame

get_package_object(id) ==
  /\ id \in Roots
  /\ object_id_cached(cache, id) = NoObject
  /\ Fill(id, BackingGetObject(id))
  /\ ReadFrame

get_object_by_key(id, v) ==
  /\ object_exact_version(cache, id, v) = NoObject
  /\ Fill(id, BackingByKey(id, v))
  /\ ReadFrame

get_object_received_at_version(id, v) ==
  /\ id \in Roots
  /\ object_exact_version(cache, id, v) = NoObject
  /\ Fill(id, BackingByKey(id, v))
  /\ ReadFrame

\* Mutant: the answer is filed under the bound it was asked for.
read_child_object_at_bound(id, bound) ==
  /\ ~ChildHit(id, bound)
  /\ cache' = cache_query(cache, id, bound, BackingReadChild(id, bound).data)
  /\ ReadFrame

\* Mutant: an answer older than the bound is taken for an absent child.
read_child_object_exact(id, bound) ==
  /\ ~ChildHit(id, bound)
  /\ cache' = LET o == BackingReadChild(id, bound)
              IN  IF o.ver # bound THEN cache_query(cache, id, bound, Missing)
                  ELSE cache_object_only(cache, id, o)
  /\ ReadFrame

read_child_object(id, bound) ==
  /\ ~ChildHit(id, bound)
  /\ cache' = LET o == BackingReadChild(id, bound)
              IN  IF o = NoObject THEN cache_query(cache, id, bound, Missing)
                  ELSE cache_object_only(cache, id, o)
  /\ ReadFrame

-----------------------------------------------------------------------------
(* Commits.                                                                 *)

\* An object fetched from the fork and stored as is (fetch_package_at_address,
\* deploy_object_id, load_history).
commit_single_object_fetched(id) ==
  /\ BackingGetObject(id) # NoObject
  /\ cache' = cache_object_only(cache, id, BackingGetObject(id))
  /\ ReadFrame

\* An object made locally: a coin with an id nobody used (mint_coin_id), or a
\* framework package above every version in use (install_std).
commit_single_object_made(id, v) ==
  /\ txs < MaxTx
  /\ \A w \in Versions : View[id][w] # Unset => w < v
  /\ TopVersion(View, id, MaxVersion) = 0 => TopVersion(chain, id, MaxVersion) = 0
  /\ txs' = txs + 1
  /\ cache' = cache_object_only(cache, id, Obj(v, txs'))
  /\ local' = cache_query(local, id, v, txs')
  /\ UNCHANGED <<chain, fork, snapshot>>

\* The part of the transaction effects commit_store looks at (Sui execution is
\* external): every input is written or deleted; a child is touched only below
\* an input; rehomed are the inputs in transferred_from_consensus or
\* consensus_owner_changed; ended are removed consensus objects still named.
Effects ==
  {e \in [inputs : (SUBSET Roots) \ {{}}, written : SUBSET Ids, deleted : SUBSET Ids,
          rehomed : SUBSET Roots, ended : SUBSET Roots] :
     /\ e.inputs \subseteq e.written \cup e.deleted
     /\ e.written \cap e.deleted = {}
     /\ e.rehomed \subseteq e.inputs \cap e.written
     /\ e.ended \cap (e.written \cup e.deleted) = {}
     /\ Roots \cap e.deleted \subseteq e.inputs
     /\ \A c \in Children \cap (e.written \cup e.deleted) : Parent[c] \in e.inputs}

\* Inputs are the versions the store itself hands out, a fresh root has an id
\* nobody used, and a child is deleted only when the store shows it.
Executable(e) ==
  /\ \A r \in e.inputs : /\ GetObjectAnswer(r) # NoObject
                         /\ StaleCallers \/ Current(r) # NoObject
  /\ \A r \in e.ended : TopVersion(View, r, MaxVersion) # 0 /\ Current(r) = NoObject
  /\ \A r \in (Roots \cap e.written) \ e.inputs :
       /\ TopVersion(View, r, MaxVersion) = 0
       /\ TopVersion(chain, r, MaxVersion) = 0
  /\ \A c \in Children \cap e.deleted :
       ReadChildAnswer(c, GetObjectAnswer(Parent[c]).ver) # NoObject

LamportVersion(e) ==
  1 + Max0({GetObjectAnswer(r).ver : r \in e.inputs}
           \cup {TopVersion(View, r, MaxVersion) : r \in e.ended})

\* Only removed ids that are also transaction inputs get a Missing entry.  An
\* object that leaves consensus ownership counts as removed although the same
\* transaction wrote it: the tombstone replaces what was just committed.
commit_store(e) ==
  LET L == LamportVersion(e)
      removed == ((e.deleted \cup e.rehomed) \cap e.inputs) \cup e.ended
  IN  /\ txs < MaxTx /\ Executable(e) /\ L <= MaxVersion
      /\ txs' = txs + 1
      /\ cache' = [id \in Ids |-> [v \in Versions |->
                     IF v = L /\ id \in removed THEN Missing
                     ELSE IF v = L /\ id \in e.written THEN txs'
                     ELSE cache[id][v]]]
      /\ local' = [id \in Ids |-> [v \in Versions |->
                     IF v = L /\ id \in removed \cup e.deleted THEN Missing
                     ELSE IF v = L /\ id \in e.written THEN txs'
                     ELSE local[id][v]]]
      /\ UNCHANGED <<chain, fork, snapshot>>

-----------------------------------------------------------------------------
(* Snapshots.  Every caller restores into an empty store: a fresh one, or   *)
(* one it has just reset.                                                   *)

NoDump == [objects |-> EmptySnapshot, commits |-> EmptySnapshot]

dump_snapshot ==
  /\ Dumps /\ snapshot = NoDump
  /\ snapshot' = [objects |-> cache, commits |-> local]
  /\ UNCHANGED <<chain, fork, cache, local, txs>>

reset ==
  /\ cache' = EmptySnapshot
  /\ local' = EmptySnapshot
  /\ UNCHANGED <<chain, fork, snapshot, txs>>

Extend(s, t) ==
  [id \in Ids |-> [v \in Versions |-> IF t[id][v] # Unset THEN t[id][v] ELSE s[id][v]]]

\* Mutant: only the newest version of every object survives the round trip.
restore_snapshot_heads ==
  /\ cache = EmptySnapshot /\ snapshot # NoDump
  /\ cache' = [id \in Ids |-> [v \in Versions |->
                 IF v = TopVersion(snapshot.objects, id, MaxVersion)
                 THEN snapshot.objects[id][v] ELSE Unset]]
  /\ local' = Extend(local, snapshot.commits)
  /\ UNCHANGED <<chain, fork, snapshot, txs>>

restore_snapshot ==
  /\ cache = EmptySnapshot /\ snapshot # NoDump
  /\ cache' = Extend(cache, snapshot.objects)
  /\ local' = Extend(local, snapshot.commits)
  /\ UNCHANGED <<chain, fork, snapshot, txs>>

-----------------------------------------------------------------------------
(* A chain history: an id is created before it is removed, a removed root   *)
(* stays removed, and a child changes only together with its parent.        *)
ChainHistories ==
  {h \in [Ids -> [Versions -> {Unset, Missing, OnChain}]] :
     /\ \A id \in Ids, v \in Versions :
          /\ v > ChainVersions => h[id][v] = Unset
          /\ h[id][v] = Missing => object_resolved_upperbound(h, id, v - 1) # NoObject
          /\ id \in Roots /\ h[id][v] = Missing => \A w \in Versions : w > v => h[id][w] = Unset
          /\ id \in Children /\ h[id][v] # Unset => h[Parent[id]][v] # Unset}

Init ==
  /\ chain \in ChainHistories
  /\ fork \in [Roots -> 0..ChainVersions]
  /\ cache = EmptySnapshot
  /\ local = EmptySnapshot
  /\ snapshot = NoDump
  /\ txs = 0

Next ==
  \/ \E id \in Ids : get_object(id)
  \/ \E id \in Ids : get_package_object(id)
  \/ \E id \in Ids : \E v \in NameableVersions(id) : get_object_by_key(id, v)
  \/ \E id \in Ids : \E v \in NameableVersions(id) : get_object_received_at_version(id, v)
  \/ \E id \in Children : \E v \in NameableVersions(Parent[id]) : read_child_object(id, v)
  \/ \E id \in Roots : commit_single_object_fetched(id)
  \/ \E id \in Roots, v \in Versions : commit_single_object_made(id, v)
  \/ \E e \in Effects : commit_store(e)
  \/ dump_snapshot
  \/ reset
  \/ restore_snapshot

Spec == Init /\ [][Next]_vars

-----------------------------------------------------------------------------
(* Type correctness of the cache, the ghost record of commits and the dump. *)
TypeOK ==
  /\ chain \in Snapshots /\ fork \in [Roots -> 0..MaxVersion]
  /\ cache \in Snapshots /\ local \in Snapshots
  /\ snapshot \in [objects : Snapshots, commits : Snapshots]
  /\ txs \in 0..MaxTx

\* No cached object is ever attributed to a version that does not hold it: an
\* entry is the chain's object of exactly that version, or the newest local
\* commit to it (cache_object_only keys by the object's own version).
CacheTruthful ==
  \A id \in Ids, v \in Versions :
    cache[id][v] \in Payloads =>
      IF cache[id][v] = OnChain THEN chain[id][v] = OnChain
      ELSE local[id][v] = cache[id][v]

\* The forked checkpoint is the newest the service serves.
ForkIsTip == \A r \in Roots : fork[r] = ChainVersions

\* Forked at the tip, an object committed locally stays readable at its version
\* until the next reset: no later read, miss, tombstone or commit displaces it.
CommitsDurable ==
  ForkIsTip => \A id \in Ids, v \in Versions :
    local[id][v] \in Payloads => cache[id][v] = local[id][v]

\* A negative entry is earned: the version was removed by a local commit, or
\* it is a child for which the chain shows nothing at that bound.
NegativesJustified ==
  \A id \in Ids, v \in Versions :
    cache[id][v] = Missing =>
      \/ local[id][v] = Missing
      \/ id \in Children /\ ChainAt(id, v) = NoObject

\* get_object shows the newest version of every root that still exists on the
\* fork plus the local commits: the cache never pins it to an older version.
LiveRootsCurrent ==
  \A r \in Roots : Current(r) # NoObject => GetObjectAnswer(r) = Current(r)

\* A child written by the same transaction as the present version of its
\* parent is found under that parent, whatever was read or cached before.
FreshChildrenVisible ==
  \A c \in Children :
    (/\ Current(Parent[c]) # NoObject
     /\ Current(c).ver = Current(Parent[c]).ver)
      => ReadChildAnswer(c, Current(Parent[c]).ver) = Current(c)

\* Nothing newer than the forked checkpoint enters the store from the chain
\* (database/mod.rs: "Inclusive checkpoint number").
NothingPastFork ==
  \A id \in Ids, v \in Versions : cache[id][v] = OnChain => v <= fork[RootOf(id)]

\* Forked at the tip, only commits change what an exact version holds: no read,
\* dump, or reset/restore round trip changes an answer of get_object_by_key.
ExactReadsStable ==
  [][ForkIsTip /\ local' = local =>
       \A id \in Ids, v \in Versions : ByKeyAnswer(id, v)' = ByKeyAnswer(id, v)]_vars
=============================================================================
