-------------------------- MODULE RocksCachedStore --------------------------
(***************************************************************************)
(* The persistent object cache of movy-sui (database/file.rs): a RocksDB   *)
(* directory that several processes open one after the other, or read-only *)
(* next to a writer, each for the checkpoint it wants to fork.             *)
(*                                                                         *)
(* RocksDB itself is external: one writer holds the directory lock, a      *)
(* read-only instance sees the database as it was when it was opened, a    *)
(* finished write survives the death of the process, a WriteBatch is all   *)
(* or nothing, and keys (id, then big-endian version) iterate in order.    *)
(* Checkpoint c of the chain holds exactly the versions up to c.           *)
(***************************************************************************)
EXTENDS Integers, FiniteSets

CONSTANTS
  Handles,       \* processes that open the directory
  Roots, Children, Parent,
  MaxVersion,    \* bound on versions
  ChainVersions, \* bound on the versions, and checkpoints, of the chain
  MaxTx,         \* bound on the number of local commits
  Unset

Ids == Roots \cup Children
Versions == 1..MaxVersion
Checkpoints == 0..ChainVersions
OnChain == 0
Objects == [id : Ids, ver : Versions, data : 0..MaxTx]

ASSUME ConstantsAssumption ==
  /\ Roots \cap Children = {}
  /\ Parent \in [Children -> Roots]
  /\ MaxVersion \in Nat \ {0} /\ ChainVersions \in 0..MaxVersion /\ MaxTx \in Nat
  /\ Unset \notin Int

VARIABLES
  history,  \* per id the versions the chain wrote
  created,  \* does the directory hold a database with its column families?
  meta,     \* the checkpoint under META_KEY, or Unset
  disk,     \* the "objects" column family
  handle,   \* per process its RocksCachedStore
  snapshot, \* the last dump_snapshot and the fork it was taken at (one per run, a bound)
  txs,      \* number of local commits so far
  local     \* ghost: objects committed locally and not removed since

vars == <<history, created, meta, disk, handle, snapshot, txs, local>>

Closed == [pc |-> "closed", ro |-> FALSE, fork |-> 0, mark |-> Unset, view |-> {}]
NoDump == [fork |-> Unset, objects |-> {}]

Init ==
  /\ history \in [Ids -> SUBSET (1..ChainVersions)]
  /\ \A c \in Children : history[c] \subseteq history[Parent[c]]
  /\ created = FALSE /\ meta = Unset /\ disk = {}
  /\ handle = [h \in Handles |-> Closed]
  /\ snapshot = NoDump
  /\ txs = 0 /\ local = {}

-----------------------------------------------------------------------------
(* RocksCachedStore::new, in the two steps between which it can die.        *)

Writer(h) == handle[h].pc # "closed" /\ ~handle[h].ro

\* DB::open_*: a reader needs an existing database, a writer makes one.
open_db(h, ro, c) ==
  /\ handle[h].pc = "closed"
  /\ ro => created
  /\ ~ro => \A g \in Handles : ~Writer(g)
  /\ handle' = [handle EXCEPT ![h] =
       [pc |-> "opening", ro |-> ro, fork |-> c, mark |-> meta,
        view |-> IF ro THEN disk ELSE {}]]
  /\ created' = TRUE
  /\ UNCHANGED <<history, meta, disk, snapshot, txs, local>>

\* Mutant: the checkpoint mark is written but never compared.
check_metadata_unchecked(h) ==
  LET s == handle[h] IN
  /\ s.pc = "opening"
  /\ meta' = IF s.mark = Unset /\ ~s.ro THEN s.fork ELSE meta
  /\ handle' = [handle EXCEPT ![h].pc = "open"]
  /\ UNCHANGED <<history, created, disk, snapshot, txs, local>>

\* Mutant: the mark always follows the newest opener.
check_metadata_overwriting(h) ==
  LET s == handle[h] IN
  /\ s.pc = "opening"
  /\ meta' = IF s.ro THEN meta ELSE s.fork
  /\ handle' = [handle EXCEPT ![h].pc = "open"]
  /\ UNCHANGED <<history, created, disk, snapshot, txs, local>>

check_metadata(h) ==
  LET s == handle[h] IN
  /\ s.pc = "opening"
  /\ meta' = IF s.mark = Unset /\ ~s.ro THEN s.fork ELSE meta
  /\ handle' = [handle EXCEPT ![h] =
       IF s.mark \in {Unset, s.fork} THEN [s EXCEPT !.pc = "open"] ELSE Closed]
  /\ UNCHANGED <<history, created, disk, snapshot, txs, local>>

\* The process ends or dies, at any point.
exit(h) ==
  /\ handle[h].pc # "closed"
  /\ handle' = [handle EXCEPT ![h] = Closed]
  /\ UNCHANGED <<history, created, meta, disk, snapshot, txs, local>>

-----------------------------------------------------------------------------
(* Lookups and the backing store.                                           *)

Seen(h) == IF handle[h].ro THEN handle[h].view ELSE disk

NoObject == [id |-> Unset, ver |-> 0, data |-> Unset]

Newest(S) ==
  IF S = {} THEN NoObject ELSE CHOOSE o \in S : \A p \in S : p.ver <= o.ver

get_object_upperbound(h, id, bound) ==
  Newest({o \in Seen(h) : o.id = id /\ o.ver <= bound})
get_object_exact(h, id, v) ==
  Newest({o \in Seen(h) : o.id = id /\ o.ver = v})
get_object_by_id_db(h, id) == get_object_upperbound(h, id, MaxVersion)

ChainObject(id, v) == [id |-> id, ver |-> v, data |-> OnChain]
ChainUpTo(id, bound) == Newest({ChainObject(id, v) : v \in {w \in history[id] : w <= bound}})

GetObjectAnswer(h, id) ==
  LET hit == get_object_by_id_db(h, id)
  IN  IF hit # NoObject THEN hit ELSE ChainUpTo(id, handle[h].fork)

-----------------------------------------------------------------------------
(* Reads and commits of an open store.                                      *)

Put(S, o) == {p \in S : p.id # o.id \/ p.ver # o.ver} \cup {o}

\* Nothing is ever recorded for an absent object, and nothing by a reader.
put_object(h, o) == disk' = IF handle[h].ro \/ o = NoObject THEN disk ELSE Put(disk, o)

StoreFrame == UNCHANGED <<history, created, meta, handle, snapshot>>
ReadFrame == StoreFrame /\ UNCHANGED <<txs, local>>

get_object(h, id) ==
  /\ handle[h].pc = "open" /\ get_object_by_id_db(h, id) = NoObject
  /\ put_object(h, ChainUpTo(id, handle[h].fork))
  /\ ReadFrame

\* Also get_object_received_at_version; a caller names the version it was shown.
get_object_by_key(h, id) ==
  LET v == GetObjectAnswer(h, id).ver IN
  /\ handle[h].pc = "open" /\ v # 0
  /\ get_object_exact(h, id, v) = NoObject
  /\ put_object(h, ChainUpTo(id, v))
  /\ ReadFrame

\* Only a hit exactly at the bound, the version of the parent, is trusted.
read_child_object(h, c) ==
  LET bound == GetObjectAnswer(h, Parent[c]).ver IN
  /\ handle[h].pc = "open" /\ bound # 0
  /\ get_object_upperbound(h, c, bound).ver # bound
  /\ put_object(h, ChainUpTo(c, bound))
  /\ ReadFrame

\* A minted coin: an id that neither the chain nor a commit used.  A reader's
\* commits succeed and change nothing.
commit_single_object(h, id) ==
  LET o == [id |-> id, ver |-> 1, data |-> txs + 1] IN
  /\ handle[h].pc = "open" /\ ~handle[h].ro /\ txs < MaxTx
  /\ history[id] = {} /\ \A p \in disk \cup local : p.id # id
  /\ put_object(h, o)
  /\ txs' = txs + 1
  /\ local' = local \cup {o}
  /\ StoreFrame

\* Mutant: the batch is applied in the order deletes, puts, and the deletes
\* are computed from the ids the transaction wrote.
commit_store_dropping(h, inputs, written, removed) ==
  LET L == 1 + Newest({GetObjectAnswer(h, r) : r \in inputs}).ver
      new == {[id |-> i, ver |-> L, data |-> txs + 1] : i \in written}
      keep(S) == {o \in S : o.id \notin removed}
  IN  /\ handle[h].pc = "open" /\ ~handle[h].ro /\ txs < MaxTx /\ L <= MaxVersion
      /\ \A r \in inputs : GetObjectAnswer(h, r) # NoObject
      /\ txs' = txs + 1
      /\ disk' = {o \in disk : o.id \notin removed \cup written} \cup new
      /\ local' = {o \in keep(local) : \A n \in new : n.id # o.id \/ n.ver # o.ver} \cup new
      /\ StoreFrame

\* Mutant: the removed objects are only forgotten at the version of the commit.
commit_store_shallow(h, inputs, written, removed) ==
  LET L == 1 + Newest({GetObjectAnswer(h, r) : r \in inputs}).ver
      new == {[id |-> i, ver |-> L, data |-> txs + 1] : i \in written}
  IN  /\ handle[h].pc = "open" /\ ~handle[h].ro /\ txs < MaxTx /\ L <= MaxVersion
      /\ \A r \in inputs : GetObjectAnswer(h, r) # NoObject
      /\ txs' = txs + 1
      /\ disk' = {o \in disk : \A n \in new : n.id # o.id \/ n.ver # o.ver} \cup new
      /\ local' = {o \in local : o.id \notin removed} \cup new
      /\ StoreFrame

\* One WriteBatch: the written objects, and for every removed input (deleted or
\* leaving consensus ownership) the versions stored before.
commit_store(h, inputs, written, removed) ==
  LET L == 1 + Newest({GetObjectAnswer(h, r) : r \in inputs}).ver
      new == {[id |-> i, ver |-> L, data |-> txs + 1] : i \in written}
      keep(S) == {o \in S : /\ o.id \notin removed
                            /\ \A n \in new : n.id # o.id \/ n.ver # o.ver}
  IN  /\ handle[h].pc = "open" /\ ~handle[h].ro /\ txs < MaxTx /\ L <= MaxVersion
      /\ \A r \in inputs : GetObjectAnswer(h, r) # NoObject
      /\ txs' = txs + 1
      /\ disk' = keep(disk) \cup new
      /\ local' = keep(local) \cup new
      /\ StoreFrame

dump_snapshot(h) ==
  /\ handle[h].pc = "open" /\ snapshot = NoDump
  /\ snapshot' = [fork |-> handle[h].fork, objects |-> Seen(h)]
  /\ UNCHANGED <<history, created, meta, disk, handle, txs, local>>

\* One batch of puts over whatever the database holds; a reader refuses.  The
\* dump does not name its checkpoint: the caller keeps it with the same fork.
restore_snapshot(h) ==
  LET over(S, new) == {o \in S : \A n \in new : n.id # o.id \/ n.ver # o.ver} \cup new IN
  /\ handle[h].pc = "open" /\ ~handle[h].ro
  /\ snapshot.fork = handle[h].fork
  /\ disk' = over(disk, snapshot.objects)
  /\ local' = over(local, {o \in snapshot.objects : o.data # OnChain})
  /\ UNCHANGED <<history, created, meta, handle, snapshot, txs>>

\* Every input is written or removed; a child is written below an input.
Transactions ==
  {t \in [inputs : (SUBSET Roots) \ {{}}, written : SUBSET Ids, removed : SUBSET Roots] :
     /\ t.inputs \subseteq t.written \cup t.removed
     /\ t.removed \subseteq t.inputs
     /\ t.written \cap Roots \subseteq t.inputs
     /\ \A c \in Children \cap t.written : Parent[c] \in t.inputs}

Next ==
  \E h \in Handles :
    \/ \E ro \in BOOLEAN, c \in Checkpoints : open_db(h, ro, c)
    \/ check_metadata(h)
    \/ exit(h)
    \/ \E id \in Ids : get_object(h, id)
    \/ \E id \in Roots : get_object_by_key(h, id)
    \/ \E c \in Children : read_child_object(h, c)
    \/ \E id \in Roots : commit_single_object(h, id)
    \/ \E t \in Transactions : commit_store(h, t.inputs, t.written, t.removed)
    \/ dump_snapshot(h)
    \/ restore_snapshot(h)

Spec == Init /\ [][Next]_vars

-----------------------------------------------------------------------------
\* An open store only shows objects that were gathered for the checkpoint it
\* forks, however many processes opened the directory for other checkpoints
\* before it, next to it, or died between opening and marking it.
OneForkPerDatabase ==
  \A h \in Handles :
    handle[h].pc = "open" /\ Seen(h) # {} => handle[h].fork = meta

\* A root that was not committed locally reads as the chain has it at the
\* fork of the reader, not of whoever filled the database.
ForkedRootsExact ==
  \A h \in Handles, r \in Roots :
    (handle[h].pc = "open" /\ \A o \in Seen(h) : o.id = r => o.data = OnChain)
      => GetObjectAnswer(h, r) = ChainUpTo(r, handle[h].fork)

\* A committed root survives every later read, commit, crash and reopening
\* until a commit removes it or commits over its version.
RootCommitsDurable == \A o \in local : o.id \in Roots => o \in disk

\* Once a commit removed an object, no version that local commits gave it is
\* left in the database (commit_store deletes every stored version).
RemovedStayGone ==
  \A o \in disk : o.data # OnChain /\ o.id \in Roots => o \in local
=============================================================================
