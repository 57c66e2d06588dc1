-------------------------- MODULE CachedStoreProofs --------------------------
(***************************************************************************)
(* Proofs about CachedStore for any sets of roots and children, any bounds *)
(* and both kinds of callers and forks.                                    *)
(***************************************************************************)
EXTENDS CachedStore, WellFoundedInduction, TLAPS

-----------------------------------------------------------------------------
(* Facts about the lookups.                                                 *)

\* A nonempty set of versions has a largest element.
LEMMA MaxExists ==
  ASSUME NEW N \in Nat, NEW S, S \subseteq 0..N, S # {}
  PROVE  \E v \in S : \A w \in S : w <= v
<1> DEFINE T == {N - v : v \in S}
<1>0. \A v \in S : v \in 0..N /\ N - v \in Nat
  OBVIOUS
<1>1. T \subseteq Nat /\ T # {}
  BY <1>0
<1>2. PICK x \in T : \A y \in T : ~(<<y, x>> \in OpToRel(<, Nat))
  BY <1>1, NatLessThanWellFounded, WFMin
<1>3. \A y \in T : ~(y < x)
  BY <1>1, <1>2 DEF OpToRel
<1>4. PICK v \in S : x = N - v
  BY <1>2
<1>5. ASSUME NEW w \in S PROVE w <= v
  <2>1. N - w \in T
    OBVIOUS
  <2>2. ~(N - w < N - v)
    BY <1>3, <1>4, <2>1
  <2>3. v \in Int /\ w \in Int
    BY <1>0
  <2> QED BY <2>2, <2>3
<1> QED BY <1>5

\* Max0 picks a member of a nonempty set of versions.
LEMMA Max0Member ==
  ASSUME NEW N \in Nat, NEW S, S \subseteq 0..N
  PROVE  /\ S = {} => Max0(S) = 0
         /\ S # {} => Max0(S) \in S /\ \A w \in S : w <= Max0(S)
BY MaxExists DEF Max0

\* The newest entry at or below a bound: 0 when there is none, otherwise a
\* version with an entry that no other entry below the bound exceeds.
LEMMA TopVersionFacts ==
  ASSUME NEW s, NEW id, NEW bound
  PROVE  LET v == TopVersion(s, id, bound) IN
         /\ v # 0 => v \in Versions /\ v <= bound /\ s[id][v] # Unset
         /\ v \in Nat
         /\ \A w \in Versions : w <= bound /\ s[id][w] # Unset => v # 0 /\ w <= v
<1> DEFINE S == {v \in Versions : v <= bound /\ s[id][v] # Unset}
<1>1. MaxVersion \in Nat /\ S \subseteq 0..MaxVersion /\ 0 \notin S
  BY ConstantsAssumption DEF Versions
<1>2. /\ S = {} => Max0(S) = 0
      /\ S # {} => Max0(S) \in S /\ \A w \in S : w <= Max0(S)
  BY <1>1, Max0Member
<1>3. TopVersion(s, id, bound) = Max0(S)
  BY DEF TopVersion
<1> QED BY <1>1, <1>2, <1>3

\* A bounded lookup answers with an object of the snapshot, or with NoObject.
LEMMA LookupFacts ==
  ASSUME NEW s, NEW id, NEW bound
  PROVE  LET o == object_resolved_upperbound(s, id, bound) IN
         o # NoObject => /\ o.ver \in Versions /\ o.ver <= bound
                         /\ o.data \in Payloads /\ o.data = s[id][o.ver]
BY TopVersionFacts DEF object_resolved_upperbound, object_exact_version, Obj

\* An exact lookup answers with the object of that version, or with NoObject.
LEMMA ExactFacts ==
  ASSUME NEW s, NEW id, NEW v \in Versions
  PROVE  LET o == object_exact_version(s, id, v) IN
         o # NoObject => o.ver = v /\ o.data \in Payloads /\ o.data = s[id][v]
BY DEF object_exact_version, Obj

\* Storing an entry keeps a snapshot a snapshot and changes that entry only.
LEMMA QueryFacts ==
  ASSUME NEW s \in Snapshots, NEW id \in Ids, NEW v \in Versions, NEW entry \in Entries
  PROVE  /\ cache_query(s, id, v, entry) \in Snapshots
         /\ \A i \in Ids, w \in Versions :
              cache_query(s, id, v, entry)[i][w] = IF i = id /\ w = v THEN entry ELSE s[i][w]
BY DEF Snapshots, cache_query

\* What a miss may store: nothing, or an object of the backing store at its
\* own version.
FillsWith(id, o) ==
  \/ cache' = cache
  \/ /\ o.ver \in Versions /\ o.data \in Payloads /\ o.data = chain[id][o.ver]
     /\ cache' = cache_query(cache, id, o.ver, o.data)

\* Both object reads of GraphQlDatabase answer with nothing, or with an object
\* as the chain has it at that very version.
LEMMA BackingFacts ==
  ASSUME NEW id \in Ids
  PROVE  /\ Fill(id, BackingGetObject(id)) => FillsWith(id, BackingGetObject(id))
         /\ \A v \in Versions : Fill(id, BackingByKey(id, v)) => FillsWith(id, BackingByKey(id, v))
<1>1. ASSUME NEW o, Fill(id, o), o # NoObject => /\ o.ver \in Versions /\ o.data \in Payloads
                                                 /\ o.data = chain[id][o.ver]
      PROVE  FillsWith(id, o)
  BY <1>1 DEF Fill, FillsWith, cache_object_only
<1>2. LET o == BackingGetObject(id)
      IN  o # NoObject => /\ o.ver \in Versions /\ o.data \in Payloads
                          /\ o.data = chain[id][o.ver]
  BY LookupFacts DEF BackingGetObject, ChainAt
<1>3. ASSUME NEW v \in Versions
      PROVE  LET o == BackingByKey(id, v)
             IN  o # NoObject => /\ o.ver \in Versions /\ o.data \in Payloads
                                 /\ o.data = chain[id][o.ver]
  BY ExactFacts DEF BackingByKey
<1> QED BY <1>1, <1>2, <1>3

-----------------------------------------------------------------------------
\* The shape of every step, for the invariants below: what it may do to the
\* cache, the record of commits and the dump.
ReadStep ==
  /\ \E id \in Ids, v \in Versions, d \in Payloads \cup {Missing} :
       /\ \/ d = chain[id][v] /\ d \in Payloads
          \/ d = Missing /\ id \in Children /\ ChainAt(id, v) = NoObject
       /\ cache' = cache_query(cache, id, v, d)
  /\ UNCHANGED <<chain, fork, snapshot, local, txs>>

CommitStep ==
  /\ txs < MaxTx /\ txs' = txs + 1
  /\ \E L \in Versions, gone \in SUBSET Ids, removed \in SUBSET Ids, written \in SUBSET Ids :
       /\ cache' = [id \in Ids |-> [v \in Versions |->
                     IF v = L /\ id \in removed THEN Missing
                     ELSE IF v = L /\ id \in written THEN txs'
                     ELSE cache[id][v]]]
       /\ local' = [id \in Ids |-> [v \in Versions |->
                     IF v = L /\ id \in gone THEN Missing
                     ELSE IF v = L /\ id \in written THEN txs'
                     ELSE local[id][v]]]
       /\ removed \subseteq gone /\ gone \cap written \subseteq removed
  /\ UNCHANGED <<chain, fork, snapshot>>

\* Every operation of the store is one of these: a read that may add an entry, a
\* commit, one of the snapshot operations, or no change at all.
LEMMA StepShapes ==
  TypeOK /\ Next => ReadStep \/ CommitStep \/ dump_snapshot \/ reset \/ restore_snapshot
                    \/ UNCHANGED vars
<1> SUFFICES ASSUME TypeOK, Next
             PROVE  \/ ReadStep \/ CommitStep \/ dump_snapshot \/ reset \/ restore_snapshot
                    \/ UNCHANGED vars
  OBVIOUS
<1> USE DEF Ids
<1>1. ASSUME NEW id \in Ids, NEW o, FillsWith(id, o), ReadFrame
      PROVE  ReadStep \/ UNCHANGED vars
  BY <1>1 DEF FillsWith, ReadFrame, ReadStep, vars
<1>2. ASSUME NEW id \in Ids, get_object(id) \/ get_package_object(id)
      PROVE  ReadStep \/ UNCHANGED vars
  BY <1>1, <1>2, BackingFacts DEF get_object, get_package_object
<1>3. ASSUME NEW id \in Ids, NEW v \in NameableVersions(id),
             get_object_by_key(id, v) \/ get_object_received_at_version(id, v)
      PROVE  ReadStep \/ UNCHANGED vars
  <2>1. v \in Versions
    BY DEF NameableVersions
  <2> QED BY <1>1, <1>3, <2>1, BackingFacts DEF get_object_by_key, get_object_received_at_version
<1>4. ASSUME NEW id \in Children, NEW v \in NameableVersions(Parent[id]), read_child_object(id, v)
      PROVE  ReadStep
  <2> DEFINE o == BackingReadChild(id, v)
  <2>1. v \in Versions
    BY DEF NameableVersions
  <2>2. CASE o = NoObject
    <3>1. cache' = cache_query(cache, id, v, Missing)
      BY <1>4, <2>2 DEF read_child_object
    <3> QED BY <1>4, <2>1, <2>2, <3>1
            DEF ReadStep, ReadFrame, read_child_object, BackingReadChild
  <2>3. CASE o # NoObject
    <3>1. /\ o.ver \in Versions /\ o.data \in Payloads /\ o.data = chain[id][o.ver]
      BY <2>3, LookupFacts DEF BackingReadChild, ChainAt
    <3>2. cache' = cache_query(cache, id, o.ver, o.data)
      BY <1>4, <2>3 DEF read_child_object, cache_object_only
    <3> QED BY <1>4, <3>1, <3>2 DEF ReadStep, ReadFrame, read_child_object
  <2> QED BY <2>2, <2>3
<1>5. ASSUME NEW id \in Roots, commit_single_object_fetched(id)
      PROVE  ReadStep
  <2> DEFINE o == BackingGetObject(id)
  <2>1. /\ o.ver \in Versions /\ o.data \in Payloads /\ o.data = chain[id][o.ver]
    BY <1>5, LookupFacts DEF commit_single_object_fetched, BackingGetObject, ChainAt
  <2>2. cache' = cache_query(cache, id, o.ver, o.data)
    BY <1>5 DEF commit_single_object_fetched, cache_object_only
  <2> QED BY <1>5, <2>1, <2>2 DEF ReadStep, ReadFrame, commit_single_object_fetched
<1>6. ASSUME NEW id \in Roots, NEW v \in Versions, commit_single_object_made(id, v)
      PROVE  CommitStep
  <2> DEFINE none == {}
             written == {id}
             Upd(s) == [i \in Ids |-> [w \in Versions |->
                          IF w = v /\ i \in none THEN Missing
                          ELSE IF w = v /\ i \in written THEN txs' ELSE s[i][w]]]
  <2>1. \A s \in Snapshots : cache_query(s, id, v, txs') = Upd(s)
    BY DEF cache_query, Snapshots
  <2>2. /\ txs < MaxTx /\ txs' = txs + 1 /\ UNCHANGED <<chain, fork, snapshot>>
        /\ cache' = Upd(cache) /\ local' = Upd(local)
    BY <1>6, <2>1 DEF commit_single_object_made, cache_object_only, Obj, TypeOK
  <2>3. /\ none \in SUBSET Ids /\ written \in SUBSET Ids
        /\ none \subseteq none /\ none \cap written \subseteq none
    OBVIOUS
  <2> HIDE DEF none, written
  <2> QED BY <2>2, <2>3 DEF CommitStep
<1>7. ASSUME NEW e \in Effects, commit_store(e)
      PROVE  CommitStep
  <2> DEFINE L == LamportVersion(e)
             removed == ((e.deleted \cup e.rehomed) \cap e.inputs) \cup e.ended
             gone == removed \cup e.deleted
  <2>1. L \in Versions
    <3> DEFINE S == {GetObjectAnswer(r).ver : r \in e.inputs}
                    \cup {TopVersion(View, r, MaxVersion) : r \in e.ended}
    <3>1. \A r \in e.inputs : GetObjectAnswer(r).ver \in 0..MaxVersion
      <4> TAKE r \in e.inputs
      <4>1. GetObjectAnswer(r) # NoObject
        BY <1>7 DEF commit_store, Executable
      <4>2. GetObjectAnswer(r).ver \in Versions
        BY <4>1, LookupFacts DEF GetObjectAnswer, object_id_cached, BackingGetObject, ChainAt
      <4> QED BY <4>2, ConstantsAssumption DEF Versions
    <3>2. \A r \in e.ended : TopVersion(View, r, MaxVersion) \in 0..MaxVersion
      BY TopVersionFacts, ConstantsAssumption DEF Versions
    <3>3. S \subseteq 0..MaxVersion
      BY <3>1, <3>2
    <3>4. Max0(S) \in 0..MaxVersion
      BY <3>3, Max0Member, ConstantsAssumption
    <3>5. L = 1 + Max0(S) /\ L <= MaxVersion
      BY <1>7 DEF commit_store, LamportVersion
    <3> QED BY <3>4, <3>5, ConstantsAssumption DEF Versions
  <2>2. /\ removed \in SUBSET Ids /\ gone \in SUBSET Ids /\ e.written \in SUBSET Ids
        /\ removed \subseteq gone /\ gone \cap e.written \subseteq removed
    BY DEF Effects
  <2>3. /\ txs < MaxTx /\ txs' = txs + 1 /\ UNCHANGED <<chain, fork, snapshot>>
        /\ cache' = [id \in Ids |-> [v \in Versions |->
                     IF v = L /\ id \in removed THEN Missing
                     ELSE IF v = L /\ id \in e.written THEN txs'
                     ELSE cache[id][v]]]
        /\ local' = [id \in Ids |-> [v \in Versions |->
                     IF v = L /\ id \in gone THEN Missing
                     ELSE IF v = L /\ id \in e.written THEN txs'
                     ELSE local[id][v]]]
    BY <1>7 DEF commit_store
  <2> HIDE DEF L, removed, gone
  <2> QED BY <2>1, <2>2, <2>3, ZenonT(40) DEF CommitStep
<1> QED BY <1>2, <1>3, <1>4, <1>5, <1>6, <1>7 DEF Next

-----------------------------------------------------------------------------
\* A fresh store is well typed.
LEMMA TypeInit == Init => TypeOK
<1> SUFFICES ASSUME Init PROVE TypeOK
  OBVIOUS
<1>1. EmptySnapshot \in Snapshots
  BY DEF EmptySnapshot, Snapshots, Entries
<1>2. OnChain \in Payloads
  BY ConstantsAssumption DEF OnChain, Payloads
<1>3. chain \in Snapshots
  <2>1. chain \in [Ids -> [Versions -> {Unset, Missing, OnChain}]]
    BY DEF Init, ChainHistories
  <2> QED BY <2>1, <1>2 DEF Snapshots, Entries
<1>4. fork \in [Roots -> 0..MaxVersion]
  BY ConstantsAssumption DEF Init
<1> QED BY <1>1, <1>3, <1>4, ConstantsAssumption DEF Init, TypeOK, NoDump

\* restore_snapshot merges two well-typed caches into one.
LEMMA ExtendFacts ==
  ASSUME NEW s \in Snapshots, NEW t \in Snapshots
  PROVE  /\ Extend(s, t) \in Snapshots
         /\ \A i \in Ids, w \in Versions :
              Extend(s, t)[i][w] = IF t[i][w] # Unset THEN t[i][w] ELSE s[i][w]
BY DEF Extend, Snapshots, Entries

\* Every operation keeps the store well typed.
LEMMA TypeStep == TypeOK /\ [Next]_vars => TypeOK'
<1> SUFFICES ASSUME TypeOK, [Next]_vars PROVE TypeOK'
  OBVIOUS
<1>1. CASE ReadStep
  <2>1. PICK id \in Ids, v \in Versions, d \in Payloads \cup {Missing} :
          cache' = cache_query(cache, id, v, d)
    BY <1>1 DEF ReadStep
  <2>2. d \in Entries
    BY DEF Entries
  <2>3. cache' \in Snapshots
    BY <2>1, <2>2, QueryFacts DEF TypeOK
  <2> QED BY <1>1, <2>3 DEF ReadStep, TypeOK
<1>2. CASE CommitStep
  <2>1. txs' \in 0..MaxTx /\ txs' \in Entries /\ Missing \in Entries
    BY <1>2, ConstantsAssumption DEF CommitStep, TypeOK, Entries, Payloads
  <2>2. cache' \in Snapshots /\ local' \in Snapshots
    BY <1>2, <2>1 DEF CommitStep, TypeOK, Snapshots
  <2> QED BY <1>2, <2>1, <2>2 DEF CommitStep, TypeOK
<1>3. CASE dump_snapshot
  BY <1>3 DEF dump_snapshot, TypeOK
<1>4. CASE reset
  <2>1. EmptySnapshot \in Snapshots
    BY DEF EmptySnapshot, Snapshots, Entries
  <2> QED BY <1>4, <2>1 DEF reset, TypeOK
<1>5. CASE restore_snapshot
  <2>1. cache' \in Snapshots /\ local' \in Snapshots
    BY <1>5, ExtendFacts DEF restore_snapshot, TypeOK
  <2> QED BY <1>5, <2>1 DEF restore_snapshot, TypeOK
<1>6. CASE UNCHANGED vars
  BY <1>6 DEF vars, TypeOK
<1> QED BY <1>1, <1>2, <1>3, <1>4, <1>5, <1>6, StepShapes

\* Every reachable cache, dump and record of commits is well typed.
THEOREM TypeCorrect == Spec => []TypeOK
BY TypeInit, TypeStep, PTL DEF Spec

-----------------------------------------------------------------------------
(* Negative entries.  The invariant must cover the dump as well: a restore   *)
(* brings its entries back.                                                  *)

Justified(s, l) ==
  \A id \in Ids, v \in Versions :
    s[id][v] = Missing => \/ l[id][v] = Missing
                          \/ id \in Children /\ ChainAt(id, v) = NoObject

NegativesInv ==
  /\ TypeOK
  /\ Justified(cache, local)
  /\ Justified(snapshot.objects, snapshot.commits)

\* Every operation keeps each negative entry of the cache and of the dump justified.
LEMMA NegativesStep == NegativesInv /\ [Next]_vars => NegativesInv'
<1> SUFFICES ASSUME NegativesInv, [Next]_vars PROVE NegativesInv'
  OBVIOUS
<1>0. TypeOK /\ TypeOK'
  BY TypeStep DEF NegativesInv
<1>c. ASSUME chain' = chain, NEW id, NEW v PROVE ChainAt(id, v)' = ChainAt(id, v)
  BY <1>c DEF ChainAt, object_resolved_upperbound, object_exact_version, TopVersion
<1>1. CASE ReadStep
  <2>1. PICK id \in Ids, v \in Versions, d \in Payloads \cup {Missing} :
          /\ \/ d \in Payloads
             \/ id \in Children /\ ChainAt(id, v) = NoObject
          /\ cache' = cache_query(cache, id, v, d)
    BY <1>1 DEF ReadStep
  <2>2. \A i \in Ids, w \in Versions : cache'[i][w] = IF i = id /\ w = v THEN d ELSE cache[i][w]
    BY <1>0, <2>1, QueryFacts DEF TypeOK, Entries
  <2>3. Missing \notin Payloads
    BY ConstantsAssumption
  <2> QED BY <1>0, <1>1, <1>c, <2>1, <2>2, <2>3 DEF NegativesInv, Justified, ReadStep
<1>2. CASE CommitStep
  <2>1. txs' # Missing
    BY <1>0, ConstantsAssumption DEF TypeOK, Payloads
  <2> QED BY <1>0, <1>2, <1>c, <2>1 DEF NegativesInv, Justified, CommitStep
<1>3. CASE dump_snapshot
  BY <1>0, <1>3, <1>c DEF NegativesInv, Justified, dump_snapshot
<1>4. CASE reset
  BY <1>0, <1>4, <1>c, ConstantsAssumption DEF NegativesInv, Justified, reset, EmptySnapshot
<1>5. CASE restore_snapshot
  <2>1. \A i \in Ids, w \in Versions :
          /\ cache[i][w] = Unset
          /\ cache'[i][w] = IF snapshot.objects[i][w] # Unset THEN snapshot.objects[i][w] ELSE cache[i][w]
          /\ local'[i][w] = IF snapshot.commits[i][w] # Unset THEN snapshot.commits[i][w] ELSE local[i][w]
    BY <1>0, <1>5, ExtendFacts DEF restore_snapshot, EmptySnapshot, TypeOK
  <2> QED BY <1>0, <1>5, <1>c, <2>1, ConstantsAssumption DEF NegativesInv, Justified, restore_snapshot
<1>6. CASE UNCHANGED vars
  BY <1>0, <1>6, <1>c DEF NegativesInv, Justified, vars
<1> QED BY <1>0, <1>1, <1>2, <1>3, <1>4, <1>5, <1>6, StepShapes

\* Whatever callers read, commit, dump, reset and restore, a cached negative
\* entry always stands for a local removal or for a child the chain does not
\* show at that bound: no failed or older lookup leaves a wrong one behind.
THEOREM NegativesAlwaysJustified == Spec => []NegativesJustified
<1>1. Init => NegativesInv
  BY TypeInit, ConstantsAssumption DEF Init, NegativesInv, Justified, EmptySnapshot, NoDump
<1>2. NegativesInv => NegativesJustified
  BY DEF NegativesInv, Justified, NegativesJustified
<1> QED BY <1>1, <1>2, NegativesStep, PTL DEF Spec

-----------------------------------------------------------------------------
(* What the cache and the local commits have to do with each other, for     *)
(* callers that name present versions only.  The parts are stated of a pair *)
(* of snapshots s and l: the cache and the local commits, or what a dump     *)
(* recorded of them.                                                         *)

\* The fork holds version w of the root r.
ForkHas(r, w) == w <= fork[r] /\ chain[r][w] # Unset

\* The chain as Init gives it.
ChainOK ==
  /\ \A id \in Ids, v \in Versions : chain[id][v] \in {Unset, Missing, OnChain}
  /\ \A id \in Ids, v \in Versions : chain[id][v] # Unset => v <= ChainVersions
  /\ \A c \in Children, v \in Versions : chain[c][v] # Unset => chain[Parent[c]][v] # Unset

\* Local commits to a root lie above everything the fork has of it, and a child
\* is committed together with its parent.
CommitsAbove(l) ==
  /\ \A id \in Ids, v \in Versions : l[id][v] # OnChain
  /\ \A r \in Roots, v, w \in Versions : l[r][v] # Unset /\ ForkHas(r, w) => w < v
  /\ \A c \in Children, v \in Versions : l[c][v] # Unset => l[Parent[c]][v] # Unset

\* Of a root the cache has every local commit, and beyond them at most the
\* newest version of the fork.
RootsKept(s, l) ==
  \A r \in Roots, v \in Versions :
    /\ l[r][v] # Unset => s[r][v] = l[r][v]
    /\ l[r][v] = Unset /\ s[r][v] # Unset =>
         /\ s[r][v] = OnChain /\ chain[r][v] = OnChain
         /\ ForkHas(r, v) /\ \A w \in Versions : ForkHas(r, w) => w <= v

\* Has the version of a child to stay in the cache?
MustStay(l, c, v) ==
  /\ l[c][v] \in Payloads
  /\ ForkIsTip \/ \A w \in Versions : w > v => l[Parent[c]][w] = Unset

ChildrenKept(s, l) ==
  \A c \in Children, v \in Versions :
    /\ s[c][v] = OnChain => chain[c][v] = OnChain
    /\ s[c][v] \in Payloads /\ s[c][v] # OnChain => l[c][v] = s[c][v]
    /\ MustStay(l, c, v) => s[c][v] = l[c][v]
    /\ s[c][v] = Missing =>
         /\ chain[c][v] \notin Payloads /\ ChainAt(c, v) = NoObject
         /\ \A w \in Versions : ForkHas(Parent[c], w) => w <= v

Consistent(s, l) == CommitsAbove(l) /\ RootsKept(s, l) /\ ChildrenKept(s, l)

\* The inductive invariant for callers that name present versions.
StoreInv ==
  /\ TypeOK /\ ChainOK
  /\ Consistent(cache, local) /\ Consistent(snapshot.objects, snapshot.commits)

-----------------------------------------------------------------------------
\* A bounded lookup that answers has found the newest entry.
LEMMA NewestFound ==
  ASSUME NEW s, NEW id, NEW bound, object_resolved_upperbound(s, id, bound) # NoObject
  PROVE  LET o == object_resolved_upperbound(s, id, bound) IN
         /\ o.ver \in Versions /\ o.ver <= bound
         /\ o.data \in Payloads /\ o.data = s[id][o.ver] /\ o = Obj(o.ver, o.data)
         /\ \A w \in Versions : w <= bound /\ s[id][w] # Unset => w <= o.ver
<1> DEFINE v == TopVersion(s, id, bound)
<1>1. v # 0 /\ s[id][v] \in Payloads /\ object_resolved_upperbound(s, id, bound) = Obj(v, s[id][v])
  BY DEF object_resolved_upperbound, object_exact_version
<1>2. Obj(v, s[id][v]).ver = v /\ Obj(v, s[id][v]).data = s[id][v]
  BY DEF Obj
<1> QED BY <1>1, <1>2, TopVersionFacts

\* A payload that no entry below the bound is newer than is what it answers.
LEMMA FoundNewest ==
  ASSUME NEW s, NEW id, NEW bound, NEW v \in Versions, v <= bound, s[id][v] \in Payloads,
         \A w \in Versions : w <= bound /\ s[id][w] # Unset => w <= v
  PROVE  /\ object_resolved_upperbound(s, id, bound) = Obj(v, s[id][v])
         /\ Obj(v, s[id][v]) # NoObject /\ Obj(v, s[id][v]).ver = v
         /\ TopVersion(s, id, bound) = v
<1> DEFINE t == TopVersion(s, id, bound)
<1>1. s[id][v] # Unset
  BY ConstantsAssumption
<1>2. t # 0 /\ v <= t /\ t \in Versions /\ t <= bound /\ s[id][t] # Unset
  BY <1>1, TopVersionFacts
<1>3. t <= v
  BY <1>2
<1>4. t = v /\ v # 0
  BY <1>2, <1>3, ConstantsAssumption DEF Versions
<1>5. Obj(v, s[id][v]).ver = v /\ NoObject.ver = 0
  BY DEF Obj, NoObject
<1> QED BY <1>4, <1>5 DEF object_resolved_upperbound, object_exact_version

\* The fork with the local commits on top, entry by entry.
LEMMA ViewFacts ==
  ASSUME NEW id \in Ids, NEW v \in Versions
  PROVE  /\ View[id][v] = IF local[id][v] # Unset THEN local[id][v]
                          ELSE IF v <= fork[RootOf(id)] THEN chain[id][v] ELSE Unset
         /\ id \in Roots => RootOf(id) = id
         /\ id \in Roots => (View[id][v] # Unset <=> local[id][v] # Unset \/ ForkHas(id, v))
<1>1. id \in Roots => RootOf(id) = id
  BY ConstantsAssumption DEF RootOf
<1>2. View[id][v] = IF local[id][v] # Unset THEN local[id][v]
                    ELSE IF v <= fork[RootOf(id)] THEN chain[id][v] ELSE Unset
  BY DEF View
<1> QED BY <1>1, <1>2 DEF ForkHas

\* What Current answers, entry by entry.
LEMMA CurrentFacts ==
  ASSUME NEW id \in Ids, Current(id) # NoObject
  PROVE  /\ Current(id).ver \in Versions /\ Current(id) = Obj(Current(id).ver, View[id][Current(id).ver])
         /\ View[id][Current(id).ver] \in Payloads
         /\ \A w \in Versions : View[id][w] # Unset => w <= Current(id).ver
<1>1. \A w \in Versions : w <= MaxVersion
  BY ConstantsAssumption DEF Versions
<1> QED BY <1>1, NewestFound DEF Current, object_id_cached

\* get_object shows the present version of a root that exists.
LEMMA LiveRoot ==
  ASSUME TypeOK, ChainOK, Consistent(cache, local), NEW r \in Roots, Current(r) # NoObject
  PROVE  GetObjectAnswer(r) = Current(r)
<1> DEFINE v == Current(r).ver
<1>0. r \in Ids /\ RootOf(r) = r /\ \A w \in Versions : w <= MaxVersion
  BY ConstantsAssumption DEF Ids, RootOf, Versions
<1>1. /\ v \in Versions /\ Current(r) = Obj(v, View[r][v]) /\ View[r][v] \in Payloads
      /\ \A w \in Versions : View[r][w] # Unset => w <= v
  BY <1>0, CurrentFacts
<1> HIDE DEF v
<1>2. \A w \in Versions : cache[r][w] # Unset => View[r][w] # Unset
  BY <1>0, ViewFacts DEF Consistent, RootsKept
<1>3. \A w \in Versions : cache[r][w] # Unset => w <= v
  BY <1>1, <1>2
<1>4. CASE cache[r][v] # Unset
  <2>1. cache[r][v] = View[r][v]
    BY <1>0, <1>1, <1>4, ViewFacts DEF Consistent, RootsKept, ForkHas
  <2>2. object_id_cached(cache, r) = Obj(v, View[r][v]) /\ Obj(v, View[r][v]) # NoObject
    BY <1>0, <1>1, <1>3, <2>1, FoundNewest DEF object_id_cached
  <2> QED BY <1>1, <2>2 DEF GetObjectAnswer
<1>5. CASE cache[r][v] = Unset
  <2>1. local[r][v] = Unset
    BY <1>1, <1>5 DEF Consistent, RootsKept
  <2>2. View[r][v] = chain[r][v] /\ ForkHas(r, v)
    BY <1>0, <1>1, <2>1, ViewFacts, ConstantsAssumption DEF ForkHas
  <2>3. \A w \in Versions : cache[r][w] = Unset
    <3> SUFFICES ASSUME NEW w \in Versions, cache[r][w] # Unset PROVE FALSE
      OBVIOUS
    <3>1. w <= v /\ w # v
      BY <1>3, <1>5
    <3>2. local[r][w] = Unset
      BY <2>2, <3>1, <1>1 DEF Consistent, CommitsAbove, Versions
    <3>3. v <= w
      BY <1>1, <2>2, <3>2 DEF Consistent, RootsKept
    <3> QED BY <1>1, <3>1, <3>3 DEF Versions
  <2>4. object_id_cached(cache, r) = NoObject
    BY <2>3, TopVersionFacts DEF object_id_cached, object_resolved_upperbound
  <2>5. \A w \in Versions : w <= fork[r] /\ chain[r][w] # Unset => w <= v
    BY <1>0, <1>1, ViewFacts DEF ForkHas
  <2>6. BackingGetObject(r) = Obj(v, chain[r][v])
    BY <1>0, <1>1, <2>2, <2>5, FoundNewest DEF BackingGetObject, ChainAt, ForkHas
  <2> QED BY <1>1, <2>2, <2>4, <2>6 DEF GetObjectAnswer
<1> QED BY <1>4, <1>5

-----------------------------------------------------------------------------
(* Reads.                                                                    *)

\* What a read may store at version v of id without breaking the consistency.
SafeFill(id, v, d) ==
  /\ id \in Roots =>
       /\ local[id][v] = Unset /\ d = OnChain /\ chain[id][v] = OnChain
       /\ ForkHas(id, v) /\ \A w \in Versions : ForkHas(id, w) => w <= v
  /\ id \in Children =>
       /\ ~MustStay(local, id, v)
       /\ \/ d = OnChain /\ chain[id][v] = OnChain
          \/ /\ d = Missing /\ chain[id][v] \notin Payloads /\ ChainAt(id, v) = NoObject
             /\ \A w \in Versions : ForkHas(Parent[id], w) => w <= v

SafeRead ==
  /\ \E id \in Ids, v \in Versions, d \in {OnChain, Missing} :
       SafeFill(id, v, d) /\ cache' = cache_query(cache, id, v, d)
  /\ UNCHANGED <<chain, fork, snapshot, local, txs>>

\* A payload of the chain is OnChain.
LEMMA ChainPayload ==
  ASSUME ChainOK, NEW id \in Ids, NEW v \in Versions, chain[id][v] \in Payloads
  PROVE  chain[id][v] = OnChain
BY ConstantsAssumption DEF ChainOK

\* What get_object of the backing store answers may be stored.
LEMMA FetchSafe ==
  ASSUME StoreInv, NEW id \in Ids, BackingGetObject(id) # NoObject
  PROVE  LET o == BackingGetObject(id) IN
         o.ver \in Versions /\ o.data = OnChain /\ SafeFill(id, o.ver, OnChain)
<1> DEFINE o == BackingGetObject(id)
           v == o.ver
<1>1. /\ v \in Versions /\ v <= fork[RootOf(id)] /\ o.data \in Payloads /\ o.data = chain[id][v]
      /\ \A w \in Versions : w <= fork[RootOf(id)] /\ chain[id][w] # Unset => w <= v
  BY NewestFound DEF BackingGetObject, ChainAt
<1>2. ChainOK /\ CommitsAbove(local)
  BY DEF StoreInv, Consistent
<1> HIDE DEF o
<1>3. chain[id][v] = OnChain /\ chain[id][v] # Unset
  BY <1>1, <1>2, ChainPayload, ConstantsAssumption
<1>4. ~(v < v)
  BY <1>1 DEF Versions
<1>5. CASE id \in Roots
  <2>1. RootOf(id) = id /\ id \notin Children
    BY <1>5, ConstantsAssumption DEF RootOf
  <2>2. ForkHas(id, v) /\ \A w \in Versions : ForkHas(id, w) => w <= v
    BY <1>1, <1>3, <2>1 DEF ForkHas
  <2>3. local[id][v] = Unset
    BY <1>1, <1>2, <1>4, <1>5, <2>2 DEF CommitsAbove
  <2> QED BY <1>1, <1>3, <2>1, <2>2, <2>3 DEF SafeFill, o
<1>6. CASE id \in Children
  <2>1. RootOf(id) = Parent[id] /\ id \notin Roots /\ Parent[id] \in Roots
    BY <1>6, ConstantsAssumption DEF RootOf
  <2>2. ForkHas(Parent[id], v)
    BY <1>1, <1>2, <1>3, <1>6, <2>1 DEF ForkHas, ChainOK
  <2>3. local[id][v] = Unset
    BY <1>1, <1>2, <1>4, <1>6, <2>1, <2>2 DEF CommitsAbove
  <2>4. ~MustStay(local, id, v)
    BY <2>3, ConstantsAssumption DEF MustStay
  <2> QED BY <1>1, <1>3, <2>1, <2>4 DEF SafeFill, o
<1> QED BY <1>5, <1>6 DEF Ids

\* A caller that names present versions names the newest entry of the view.
LEMMA NameableFacts ==
  ASSUME ~StaleCallers, NEW id \in Ids, NEW v \in NameableVersions(id)
  PROVE  /\ v \in Versions /\ View[id][v] \in Payloads
         /\ \A w \in Versions : View[id][w] # Unset => w <= v
<1>1. v \in Versions /\ View[id][v] \in Payloads /\ v = Current(id).ver
  BY DEF NameableVersions
<1>2. v # 0 /\ NoObject.ver = 0
  BY <1>1, ConstantsAssumption DEF Versions, NoObject
<1>3. Current(id) # NoObject
  BY <1>1, <1>2
<1> QED BY <1>1, <1>3, CurrentFacts

\* What a read by key at the present version answers may be stored.
LEMMA ByKeySafe ==
  ASSUME ~StaleCallers, StoreInv, NEW id \in Ids, NEW v \in NameableVersions(id),
         object_exact_version(cache, id, v) = NoObject, BackingByKey(id, v) # NoObject
  PROVE  LET o == BackingByKey(id, v) IN
         o.ver = v /\ v \in Versions /\ o.data = OnChain /\ SafeFill(id, v, OnChain)
<1>1. /\ v \in Versions /\ View[id][v] \in Payloads
      /\ \A w \in Versions : View[id][w] # Unset => w <= v
  BY NameableFacts
<1>2. BackingByKey(id, v).ver = v /\ BackingByKey(id, v).data = chain[id][v] /\ chain[id][v] \in Payloads
  BY <1>1, ExactFacts DEF BackingByKey
<1>3. chain[id][v] = OnChain
  BY <1>1, <1>2, ChainPayload DEF StoreInv
<1>4. cache[id][v] \notin Payloads
  <2>1. v # 0 /\ NoObject.ver = 0 /\ Obj(v, cache[id][v]).ver = v
    BY <1>1, ConstantsAssumption DEF Versions, NoObject, Obj
  <2> QED BY <2>1 DEF object_exact_version
<1>5. CASE id \in Roots
  <2>1. id \notin Children
    BY <1>5, ConstantsAssumption
  <2>2. local[id][v] = Unset
    BY <1>1, <1>4, <1>5, ViewFacts DEF StoreInv, Consistent, RootsKept
  <2>3. \A w \in Versions : View[id][w] # Unset <=> local[id][w] # Unset \/ ForkHas(id, w)
    BY <1>5, ViewFacts
  <2>4. View[id][v] # Unset
    BY <1>1, ConstantsAssumption
  <2>5. ForkHas(id, v) /\ \A w \in Versions : ForkHas(id, w) => w <= v
    BY <1>1, <2>2, <2>3, <2>4
  <2> QED BY <1>1, <1>2, <1>3, <2>1, <2>2, <2>5 DEF SafeFill
<1>6. CASE id \in Children
  <2>1. id \notin Roots
    BY <1>6, ConstantsAssumption
  <2>2. ~MustStay(local, id, v)
    BY <1>1, <1>4, <1>6 DEF StoreInv, Consistent, ChildrenKept, MustStay
  <2> QED BY <1>1, <1>2, <1>3, <2>1, <2>2 DEF SafeFill
<1> QED BY <1>5, <1>6 DEF Ids

\* A miss of read_child_object below the present version of the parent: the
\* cache holds no commit that the answer could displace.
LEMMA ChildMissSafe ==
  ASSUME ~StaleCallers, StoreInv, NEW c \in Children, NEW b \in NameableVersions(Parent[c]),
         ~ChildHit(c, b), NEW w \in Versions, w = b \/ (w <= b /\ chain[c][w] # Unset)
  PROVE  ~MustStay(local, c, w)
<1> SUFFICES ASSUME MustStay(local, c, w) PROVE FALSE
  OBVIOUS
<1>0. /\ Parent[c] \in Roots /\ Parent[c] \in Ids /\ c \in Ids
      /\ \A x, y \in Versions : ~(x < x) /\ (x <= y /\ y <= x => x = y) /\ ~(x < y /\ y <= x)
  BY ConstantsAssumption DEF Ids, Versions
<1>1. b \in Versions /\ View[Parent[c]][b] \in Payloads
  BY <1>0, NameableFacts
<1>2. cache[c][w] = local[c][w] /\ local[c][w] \in Payloads /\ local[c][w] # Unset
  BY ConstantsAssumption DEF StoreInv, Consistent, ChildrenKept, MustStay
<1>3. CommitsAbove(local) /\ ChainOK
  BY DEF StoreInv, Consistent
<1>4. local[Parent[c]][w] # Unset
  BY <1>2, <1>3 DEF CommitsAbove
<1>5. CASE w = b
  <2>1. \A x \in Versions : x <= b /\ cache[c][x] # Unset => x <= b
    OBVIOUS
  <2>2. b <= b /\ b # 0
    BY <1>1, ConstantsAssumption DEF Versions
  <2>3. TopVersion(cache, c, b) = b
    BY <1>1, <1>2, <1>5, <2>1, <2>2, FoundNewest
  <2> QED BY <2>2, <2>3 DEF ChildHit
<1>6. CASE w # b
  <2>1. w <= b /\ chain[c][w] # Unset
    BY <1>6
  <2>2. chain[Parent[c]][w] # Unset /\ w <= ChainVersions
    BY <1>0, <1>3, <2>1 DEF ChainOK
  <2>3. ~ForkIsTip
    <3> SUFFICES ASSUME ForkIsTip PROVE FALSE
      OBVIOUS
    <3>1. ForkHas(Parent[c], w)
      BY <1>0, <2>2 DEF ForkIsTip, ForkHas
    <3> QED BY <1>0, <1>3, <1>4, <3>1 DEF CommitsAbove
  <2>4. b > w
    BY <1>1, <1>6, <2>1 DEF Versions
  <2>5. local[Parent[c]][b] = Unset
    BY <1>1, <2>3, <2>4 DEF MustStay
  <2>6. View[Parent[c]][b] # Unset
    BY <1>1, ConstantsAssumption
  <2>7. ForkHas(Parent[c], b)
    BY <1>0, <1>1, <2>5, <2>6, ViewFacts
  <2>8. b < w
    BY <1>0, <1>1, <1>3, <1>4, <2>7 DEF CommitsAbove
  <2> QED BY <1>0, <1>1, <2>1, <2>8
<1> QED BY <1>5, <1>6

\* Every read, and the storing of a fetched object, is a safe read.
LEMMA ReadsSafe ==
  ASSUME ~StaleCallers, StoreInv,
         \/ \E id \in Ids : get_object(id) \/ get_package_object(id)
         \/ \E id \in Ids : \E v \in NameableVersions(id) :
              get_object_by_key(id, v) \/ get_object_received_at_version(id, v)
         \/ \E id \in Children : \E v \in NameableVersions(Parent[id]) : read_child_object(id, v)
         \/ \E id \in Roots : commit_single_object_fetched(id)
  PROVE  SafeRead \/ UNCHANGED vars
<1>0. OnChain \in {OnChain, Missing} /\ Missing \in {OnChain, Missing} /\ Roots \subseteq Ids /\ Children \subseteq Ids
  BY DEF Ids
<1>1. ASSUME NEW id \in Ids, get_object(id) \/ get_package_object(id) PROVE SafeRead \/ UNCHANGED vars
  <2> DEFINE o == BackingGetObject(id)
  <2>1. Fill(id, o) /\ ReadFrame
    BY <1>1 DEF get_object, get_package_object
  <2>2. CASE o = NoObject
    BY <2>1, <2>2 DEF Fill, ReadFrame, vars
  <2>3. CASE o # NoObject
    <3>1. o.ver \in Versions /\ o.data = OnChain /\ SafeFill(id, o.ver, OnChain)
      BY <2>3, FetchSafe
    <3>2. cache' = cache_query(cache, id, o.ver, OnChain)
      BY <2>1, <2>3, <3>1 DEF Fill, cache_object_only
    <3> QED BY <1>0, <2>1, <3>1, <3>2 DEF SafeRead, ReadFrame
  <2> QED BY <2>2, <2>3
<1>2. ASSUME NEW id \in Ids, NEW v \in NameableVersions(id),
             get_object_by_key(id, v) \/ get_object_received_at_version(id, v)
      PROVE  SafeRead \/ UNCHANGED vars
  <2> DEFINE o == BackingByKey(id, v)
  <2>1. Fill(id, o) /\ ReadFrame /\ object_exact_version(cache, id, v) = NoObject
    BY <1>2 DEF get_object_by_key, get_object_received_at_version
  <2>2. CASE o = NoObject
    BY <2>1, <2>2 DEF Fill, ReadFrame, vars
  <2>3. CASE o # NoObject
    <3>1. o.ver = v /\ v \in Versions /\ o.data = OnChain /\ SafeFill(id, v, OnChain)
      BY <2>1, <2>3, ByKeySafe
    <3>2. cache' = cache_query(cache, id, v, OnChain)
      BY <2>1, <2>3, <3>1 DEF Fill, cache_object_only
    <3> QED BY <1>0, <2>1, <3>1, <3>2 DEF SafeRead, ReadFrame
  <2> QED BY <2>2, <2>3
<1>3. ASSUME NEW id \in Children, NEW b \in NameableVersions(Parent[id]), read_child_object(id, b)
      PROVE  SafeRead
  <2> DEFINE o == BackingReadChild(id, b)
  <2>0. Parent[id] \in Roots /\ Parent[id] \in Ids /\ id \in Ids /\ id \notin Roots
    BY ConstantsAssumption DEF Ids
  <2>1. /\ b \in Versions
        /\ \A w \in Versions : View[Parent[id]][w] # Unset => w <= b
    BY <2>0, NameableFacts
  <2>2. ~ChildHit(id, b) /\ ReadFrame
    BY <1>3 DEF read_child_object
  <2>3. CASE o = NoObject
    <3>1. cache' = cache_query(cache, id, b, Missing)
      BY <1>3, <2>3 DEF read_child_object
    <3>2. ChainAt(id, b) = NoObject
      BY <2>3 DEF BackingReadChild
    <3>3. chain[id][b] \notin Payloads
      <4>1. b <= b /\ \A w \in Versions : w <= b => w <= b
        BY <2>1 DEF Versions
      <4> QED BY <2>1, <3>2, <4>1, FoundNewest DEF ChainAt
    <3>4. \A w \in Versions : ForkHas(Parent[id], w) => w <= b
      BY <2>0, <2>1, ViewFacts
    <3>5. ~MustStay(local, id, b)
      BY <2>1, <2>2, ChildMissSafe
    <3>6. SafeFill(id, b, Missing)
      BY <2>0, <3>2, <3>3, <3>4, <3>5 DEF SafeFill
    <3> QED BY <1>0, <2>0, <2>1, <2>2, <3>1, <3>6 DEF SafeRead, ReadFrame
  <2>4. CASE o # NoObject
    <3>1. /\ o.ver \in Versions /\ o.ver <= b /\ o.data \in Payloads /\ o.data = chain[id][o.ver]
      BY <2>4, LookupFacts DEF BackingReadChild, ChainAt
    <3>2. chain[id][o.ver] = OnChain /\ chain[id][o.ver] # Unset
      BY <2>0, <3>1, ChainPayload, ConstantsAssumption DEF StoreInv
    <3>3. cache' = cache_query(cache, id, o.ver, OnChain)
      BY <1>3, <2>4, <3>1, <3>2 DEF read_child_object, cache_object_only
    <3> HIDE DEF o
    <3>4. ~MustStay(local, id, o.ver)
      BY <2>2, <3>1, <3>2, ChildMissSafe
    <3>5. SafeFill(id, o.ver, OnChain)
      BY <2>0, <3>2, <3>4 DEF SafeFill
    <3> QED BY <1>0, <2>0, <2>2, <3>1, <3>3, <3>5 DEF SafeRead, ReadFrame
  <2> QED BY <2>3, <2>4
<1>4. ASSUME NEW id \in Roots, commit_single_object_fetched(id) PROVE SafeRead
  <2> DEFINE o == BackingGetObject(id)
  <2>1. id \in Ids /\ o # NoObject /\ cache' = cache_query(cache, id, o.ver, o.data) /\ ReadFrame
    BY <1>0, <1>4 DEF commit_single_object_fetched, cache_object_only
  <2>2. o.ver \in Versions /\ o.data = OnChain /\ SafeFill(id, o.ver, OnChain)
    BY <2>1, FetchSafe
  <2> QED BY <1>0, <2>1, <2>2 DEF SafeRead, ReadFrame
<1> QED BY <1>1, <1>2, <1>3, <1>4

-----------------------------------------------------------------------------
(* Commits.                                                                  *)

\* A commit at version L, with removed the ids that get a tombstone and gone
\* those that count as removed.
Commits(L, gone, removed, written) ==
  /\ cache' = [id \in Ids |-> [v \in Versions |->
                 IF v = L /\ id \in removed THEN Missing
                 ELSE IF v = L /\ id \in written THEN txs'
                 ELSE cache[id][v]]]
  /\ local' = [id \in Ids |-> [v \in Versions |->
                 IF v = L /\ id \in gone THEN Missing
                 ELSE IF v = L /\ id \in written THEN txs'
                 ELSE local[id][v]]]

\* What it has to respect to keep the consistency.
Respects(L, gone, removed, written) ==
  /\ removed \subseteq gone /\ gone \cap written \subseteq removed /\ gone \cap Roots \subseteq removed
  /\ \A r \in Roots \cap (written \cup removed), w \in Versions :
       local[r][w] # Unset \/ ForkHas(r, w) => w < L
  /\ \A c \in Children \cap (written \cup gone) : Parent[c] \in written \cup removed
  /\ Roots \cap (written \cup removed) # {}

SafeCommit ==
  /\ \E L \in Versions, gone \in SUBSET Ids, removed \in SUBSET Roots, written \in SUBSET Ids :
       Commits(L, gone, removed, written) /\ Respects(L, gone, removed, written)
  /\ txs' \in Payloads /\ txs' # OnChain
  /\ UNCHANGED <<chain, fork, snapshot>>

\* The Lamport version of a transaction lies above whatever the store has of
\* the roots it writes or removes.
LEMMA LamportAbove ==
  ASSUME ~StaleCallers, StoreInv, NEW e \in Effects, Executable(e)
  PROVE  /\ LamportVersion(e) \in Nat /\ LamportVersion(e) # 0
         /\ \A r \in Roots \cap (e.inputs \cup e.ended \cup e.written), w \in Versions :
              View[r][w] # Unset => w < LamportVersion(e)
<1> DEFINE S == {GetObjectAnswer(r).ver : r \in e.inputs}
                \cup {TopVersion(View, r, MaxVersion) : r \in e.ended}
           m == Max0(S)
<1>0. /\ e.inputs \subseteq Roots /\ e.ended \subseteq Roots /\ Roots \subseteq Ids
      /\ \A w \in Versions : w <= MaxVersion /\ w \in Nat /\ w # 0
  BY ConstantsAssumption DEF Effects, Ids, Versions
<1>1. ASSUME NEW r \in e.inputs
      PROVE  /\ GetObjectAnswer(r).ver \in 0..MaxVersion
             /\ \A w \in Versions : View[r][w] # Unset => w <= GetObjectAnswer(r).ver
  <2>1. Current(r) # NoObject /\ r \in Roots /\ r \in Ids
    BY <1>0 DEF Executable
  <2>2. GetObjectAnswer(r) = Current(r)
    BY <2>1, LiveRoot DEF StoreInv
  <2>3. /\ Current(r).ver \in Versions
        /\ \A w \in Versions : View[r][w] # Unset => w <= Current(r).ver
    BY <2>1, CurrentFacts
  <2>4. Current(r).ver \in 0..MaxVersion
    BY <2>3, ConstantsAssumption DEF Versions
  <2> QED BY <2>2, <2>3, <2>4
<1>2. ASSUME NEW r \in e.ended
      PROVE  /\ TopVersion(View, r, MaxVersion) \in 0..MaxVersion
             /\ \A w \in Versions : View[r][w] # Unset => w <= TopVersion(View, r, MaxVersion)
  <2>1. TopVersion(View, r, MaxVersion) \in 0..MaxVersion
    BY TopVersionFacts, ConstantsAssumption DEF Versions
  <2> QED BY <1>0, <2>1, TopVersionFacts
<1>3. S \subseteq 0..MaxVersion
  BY <1>1, <1>2
<1>4. /\ S = {} => m = 0
      /\ S # {} => m \in S /\ \A x \in S : x <= m
  BY <1>3, Max0Member, ConstantsAssumption
<1>5. m \in 0..MaxVersion /\ LamportVersion(e) = 1 + m
  <2>1. m \in 0..MaxVersion
    BY <1>3, <1>4, ConstantsAssumption
  <2> QED BY <2>1 DEF LamportVersion
<1>6. \A x \in S : x <= m
  BY <1>4
<1> HIDE DEF m
<1>7. ASSUME NEW r \in Roots, r \in e.inputs \cup e.ended \cup e.written, NEW w \in Versions, View[r][w] # Unset
      PROVE  w < 1 + m
  <2>1. CASE r \in e.inputs
    <3> DEFINE a == GetObjectAnswer(r).ver
    <3>1. w <= a /\ a \in S /\ a \in 0..MaxVersion
      BY <1>1, <1>7, <2>1
    <3>2. a <= m
      BY <1>6, <3>1
    <3> HIDE DEF a
    <3> QED BY <1>0, <1>5, <3>1, <3>2
  <2>2. CASE r \in e.ended
    <3>1. /\ w <= TopVersion(View, r, MaxVersion) /\ TopVersion(View, r, MaxVersion) \in S
          /\ TopVersion(View, r, MaxVersion) \in 0..MaxVersion
      BY <1>2, <1>7, <2>2
    <3> QED BY <1>0, <1>5, <1>6, <3>1
  <2>3. CASE r \in e.written /\ r \notin e.inputs
    <3>1. TopVersion(View, r, MaxVersion) = 0
      BY <2>3 DEF Executable
    <3> QED BY <1>0, <1>7, <3>1, TopVersionFacts
  <2> QED BY <1>7, <2>1, <2>2, <2>3
<1>8. 1 + m \in Nat /\ 1 + m # 0
  BY <1>5
<1> QED BY <1>5, <1>7, <1>8

\* Both kinds of commits are safe.
LEMMA CommitsSafe ==
  ASSUME ~StaleCallers, StoreInv,
         \/ \E id \in Roots, v \in Versions : commit_single_object_made(id, v)
         \/ \E e \in Effects : commit_store(e)
  PROVE  SafeCommit
<1>0. TypeOK /\ Roots \subseteq Ids
  BY DEF StoreInv, Ids
<1>1. ASSUME NEW id \in Roots, NEW v \in Versions, commit_single_object_made(id, v) PROVE SafeCommit
  <2> DEFINE none == {}
             written == {id}
             Upd(s) == [i \in Ids |-> [w \in Versions |->
                          IF w = v /\ i \in none THEN Missing
                          ELSE IF w = v /\ i \in written THEN txs' ELSE s[i][w]]]
  <2>1. \A s \in Snapshots : cache_query(s, id, v, txs') = Upd(s)
    BY <1>0 DEF cache_query, Snapshots
  <2>2. /\ txs' \in Payloads /\ txs' # OnChain /\ UNCHANGED <<chain, fork, snapshot>>
        /\ cache' = Upd(cache) /\ local' = Upd(local)
        /\ \A w \in Versions : View[id][w] # Unset => w < v
    <3>1. txs' \in Payloads /\ txs' # OnChain
      BY <1>0, <1>1, ConstantsAssumption DEF commit_single_object_made, TypeOK, Payloads, OnChain
    <3> QED BY <1>0, <1>1, <2>1, <3>1 DEF commit_single_object_made, cache_object_only, Obj, TypeOK
  <2>3. \A w \in Versions : local[id][w] # Unset \/ ForkHas(id, w) => w < v
    BY <1>0, <2>2, ViewFacts
  <2>4. /\ none \in SUBSET Ids /\ none \in SUBSET Roots /\ written \in SUBSET Ids /\ none \subseteq none
        /\ none \cap written \subseteq none /\ none \cap Roots \subseteq none
        /\ \A r \in Roots \cap (written \cup none) : r = id
        /\ Children \cap (written \cup none) = {} /\ Roots \cap (written \cup none) # {}
    BY <1>0, ConstantsAssumption
  <2> HIDE DEF none, written
  <2>5. Commits(v, none, none, written)
    BY <2>2 DEF Commits
  <2>6. Respects(v, none, none, written)
    BY <2>3, <2>4 DEF Respects
  <2> QED BY <2>2, <2>4, <2>5, <2>6 DEF SafeCommit
<1>2. ASSUME NEW e \in Effects, commit_store(e) PROVE SafeCommit
  <2> DEFINE L == LamportVersion(e)
             removed == ((e.deleted \cup e.rehomed) \cap e.inputs) \cup e.ended
             gone == removed \cup e.deleted
  <2>1. /\ Executable(e) /\ L <= MaxVersion /\ txs' = txs + 1 /\ txs < MaxTx
        /\ UNCHANGED <<chain, fork, snapshot>>
        /\ cache' = [id \in Ids |-> [v \in Versions |->
                     IF v = L /\ id \in removed THEN Missing
                     ELSE IF v = L /\ id \in e.written THEN txs'
                     ELSE cache[id][v]]]
        /\ local' = [id \in Ids |-> [v \in Versions |->
                     IF v = L /\ id \in gone THEN Missing
                     ELSE IF v = L /\ id \in e.written THEN txs'
                     ELSE local[id][v]]]
    BY <1>2 DEF commit_store
  <2>2. /\ L \in Nat /\ L # 0
        /\ \A r \in Roots \cap (e.inputs \cup e.ended \cup e.written), w \in Versions : View[r][w] # Unset => w < L
    BY <2>1, LamportAbove
  <2>3. L \in Versions
    BY <2>1, <2>2, ConstantsAssumption DEF Versions
  <2>4. txs' \in Payloads /\ txs' # OnChain
    BY <1>0, <2>1, ConstantsAssumption DEF TypeOK, Payloads, OnChain
  <2>5. /\ removed \in SUBSET Roots /\ gone \in SUBSET Ids /\ e.written \in SUBSET Ids
        /\ removed \subseteq gone /\ gone \cap e.written \subseteq removed /\ gone \cap Roots \subseteq removed
    BY <1>0 DEF Effects
  <2>6. /\ removed \subseteq e.inputs \cup e.ended
        /\ e.inputs \subseteq e.written \cup removed /\ e.inputs # {} /\ e.inputs \subseteq Roots
    BY DEF Effects
  <2>7. \A c \in Children \cap (e.written \cup gone) : Parent[c] \in e.written \cup removed
    <3>1. \A c \in Children \cap (e.written \cup gone) : Parent[c] \in e.inputs
      <4>1. \A c \in Children \cap (e.written \cup e.deleted) : Parent[c] \in e.inputs
        BY DEF Effects
      <4>2. Children \cap gone \subseteq e.deleted
        BY <2>5, ConstantsAssumption
      <4> QED BY <4>1, <4>2
    <3> QED BY <2>6, <3>1
  <2> HIDE DEF L, removed, gone
  <2>8. \A r \in Roots \cap (e.written \cup removed), w \in Versions :
          local[r][w] # Unset \/ ForkHas(r, w) => w < L
    BY <1>0, <2>2, <2>6, ViewFacts
  <2>9. Roots \cap (e.written \cup removed) # {}
    BY <2>6
  <2>10. Commits(L, gone, removed, e.written)
    BY <2>1 DEF Commits
  <2>11. Respects(L, gone, removed, e.written)
    BY <2>5, <2>7, <2>8, <2>9 DEF Respects
  <2> QED BY <2>1, <2>3, <2>4, <2>5, <2>10, <2>11 DEF SafeCommit
<1> QED BY <1>1, <1>2

-----------------------------------------------------------------------------
\* The chain and the fork never change, so what is consistent stays so.
LEMMA ConsistentStays ==
  ASSUME NEW s, NEW l, Consistent(s, l), UNCHANGED <<chain, fork>>
  PROVE  Consistent(s, l)'
<1>1. \A r, w : ForkHas(r, w)' <=> ForkHas(r, w)
  BY DEF ForkHas
<1>2. \A c, v : ChainAt(c, v)' = ChainAt(c, v)
  BY DEF ChainAt, object_resolved_upperbound, object_exact_version, TopVersion
<1>3. \A c, v : MustStay(l, c, v)' <=> MustStay(l, c, v)
  BY DEF MustStay, ForkIsTip
<1>4. CommitsAbove(l)'
  BY <1>1 DEF Consistent, CommitsAbove
<1>5. RootsKept(s, l)'
  BY <1>1 DEF Consistent, RootsKept
<1>6. ChildrenKept(s, l)'
  BY <1>1, <1>2, <1>3 DEF Consistent, ChildrenKept
<1> QED BY <1>4, <1>5, <1>6 DEF Consistent

\* A safe read keeps the cache consistent with the commits.
LEMMA SafeReadKeeps ==
  ASSUME TypeOK, Consistent(cache, local), NEW id \in Ids, NEW v \in Versions, NEW d \in {OnChain, Missing},
         SafeFill(id, v, d), cache' = cache_query(cache, id, v, d)
  PROVE  Consistent(cache', local)
<1>0. /\ OnChain \in Entries /\ Missing \in Entries /\ OnChain # Missing /\ OnChain # Unset /\ Missing \notin Payloads
  BY ConstantsAssumption DEF Entries, Payloads, OnChain
<1>1. \A i \in Ids, w \in Versions : cache'[i][w] = IF i = id /\ w = v THEN d ELSE cache[i][w]
  <2>1. d \in Entries /\ cache \in Snapshots
    BY <1>0 DEF TypeOK
  <2> QED BY <2>1, QueryFacts
<1>2. RootsKept(cache', local)
  <2> SUFFICES ASSUME NEW r \in Roots, NEW x \in Versions
               PROVE  /\ local[r][x] # Unset => cache'[r][x] = local[r][x]
                      /\ local[r][x] = Unset /\ cache'[r][x] # Unset =>
                           /\ cache'[r][x] = OnChain /\ chain[r][x] = OnChain
                           /\ ForkHas(r, x) /\ \A w \in Versions : ForkHas(r, w) => w <= x
    BY DEF RootsKept
  <2>1. CASE r = id /\ x = v
    BY <1>1, <2>1 DEF SafeFill
  <2>2. CASE ~(r = id /\ x = v)
    BY <1>1, <2>2 DEF Consistent, RootsKept, Ids
  <2> QED BY <2>1, <2>2
<1>3. ChildrenKept(cache', local)
  <2> SUFFICES ASSUME NEW c \in Children, NEW x \in Versions
               PROVE  /\ cache'[c][x] = OnChain => chain[c][x] = OnChain
                      /\ cache'[c][x] \in Payloads /\ cache'[c][x] # OnChain => local[c][x] = cache'[c][x]
                      /\ MustStay(local, c, x) => cache'[c][x] = local[c][x]
                      /\ cache'[c][x] = Missing =>
                           /\ chain[c][x] \notin Payloads /\ ChainAt(c, x) = NoObject
                           /\ \A w \in Versions : ForkHas(Parent[c], w) => w <= x
    BY DEF ChildrenKept
  <2>1. CASE c = id /\ x = v
    BY <1>0, <1>1, <2>1 DEF SafeFill
  <2>2. CASE ~(c = id /\ x = v)
    <3>1. cache'[c][x] = cache[c][x]
      BY <1>1, <2>2 DEF Ids
    <3> QED BY <3>1 DEF Consistent, ChildrenKept
  <2> QED BY <2>1, <2>2
<1> QED BY <1>2, <1>3 DEF Consistent

\* A safe commit keeps the cache consistent with the commits.
LEMMA SafeCommitKeeps ==
  ASSUME TypeOK, Consistent(cache, local), NEW L \in Versions, NEW gone \in SUBSET Ids,
         NEW removed \in SUBSET Roots, NEW written \in SUBSET Ids,
         Commits(L, gone, removed, written), Respects(L, gone, removed, written),
         txs' \in Payloads, txs' # OnChain
  PROVE  Consistent(cache', local')
<1>0. /\ Missing # Unset /\ Missing # OnChain /\ Missing \notin Payloads /\ txs' # Unset /\ txs' # Missing
      /\ \A v \in Versions : ~(v < v)
      /\ Roots \subseteq Ids /\ Children \subseteq Ids /\ Roots \cap Children = {}
  BY ConstantsAssumption DEF Payloads, OnChain, Versions, Ids
<1>1. \A i \in Ids, v \in Versions :
        /\ cache'[i][v] = IF v = L /\ i \in removed THEN Missing
                          ELSE IF v = L /\ i \in written THEN txs' ELSE cache[i][v]
        /\ local'[i][v] = IF v = L /\ i \in gone THEN Missing
                          ELSE IF v = L /\ i \in written THEN txs' ELSE local[i][v]
  BY DEF Commits
<1>2. \A i \in Ids, v \in Versions : local[i][v] # Unset => local'[i][v] # Unset
  BY <1>0, <1>1
<1>3. CommitsAbove(local')
  <2>1. \A id \in Ids, v \in Versions : local'[id][v] # OnChain
    BY <1>0, <1>1 DEF Consistent, CommitsAbove
  <2>2. ASSUME NEW r \in Roots, NEW v \in Versions, NEW w \in Versions, local'[r][v] # Unset, ForkHas(r, w)
        PROVE  w < v
    <3>1. CASE v = L /\ r \in gone \cup written
      BY <2>2, <3>1 DEF Respects
    <3>2. CASE ~(v = L /\ r \in gone \cup written)
      BY <1>0, <1>1, <2>2, <3>2 DEF Consistent, CommitsAbove
    <3> QED BY <3>1, <3>2
  <2>3. ASSUME NEW c \in Children, NEW v \in Versions, local'[c][v] # Unset
        PROVE  local'[Parent[c]][v] # Unset
    <3>0. Parent[c] \in Ids
      BY ConstantsAssumption DEF Ids
    <3>1. CASE v = L /\ c \in gone \cup written
      <4>1. Parent[c] \in written \cup gone
        BY <3>1 DEF Respects
      <4> QED BY <1>0, <1>1, <3>0, <3>1, <4>1
    <3>2. CASE ~(v = L /\ c \in gone \cup written)
      <4>1. local[c][v] # Unset
        BY <1>0, <1>1, <2>3, <3>2
      <4>2. local[Parent[c]][v] # Unset
        BY <4>1 DEF Consistent, CommitsAbove
      <4> QED BY <1>2, <3>0, <4>2
    <3> QED BY <3>1, <3>2
  <2> QED BY <2>1, <2>2, <2>3 DEF CommitsAbove
<1>4. RootsKept(cache', local')
  <2> SUFFICES ASSUME NEW r \in Roots, NEW x \in Versions
               PROVE  /\ local'[r][x] # Unset => cache'[r][x] = local'[r][x]
                      /\ local'[r][x] = Unset /\ cache'[r][x] # Unset =>
                           /\ cache'[r][x] = OnChain /\ chain[r][x] = OnChain
                           /\ ForkHas(r, x) /\ \A w \in Versions : ForkHas(r, w) => w <= x
    BY DEF RootsKept
  <2>1. (r \in gone <=> r \in removed) /\ r \in Ids
    BY <1>0 DEF Respects
  <2>2. CASE x = L /\ r \in removed \cup written
    BY <1>0, <1>1, <2>1, <2>2
  <2>3. CASE ~(x = L /\ r \in removed \cup written)
    <3>1. cache'[r][x] = cache[r][x] /\ local'[r][x] = local[r][x]
      BY <1>1, <2>1, <2>3
    <3> QED BY <3>1 DEF Consistent, RootsKept
  <2> QED BY <2>2, <2>3
<1>5. ChildrenKept(cache', local')
  <2> SUFFICES ASSUME NEW c \in Children, NEW x \in Versions
               PROVE  /\ cache'[c][x] = OnChain => chain[c][x] = OnChain
                      /\ cache'[c][x] \in Payloads /\ cache'[c][x] # OnChain => local'[c][x] = cache'[c][x]
                      /\ MustStay(local', c, x) => cache'[c][x] = local'[c][x]
                      /\ cache'[c][x] = Missing =>
                           /\ chain[c][x] \notin Payloads /\ ChainAt(c, x) = NoObject
                           /\ \A w \in Versions : ForkHas(Parent[c], w) => w <= x
    BY DEF ChildrenKept
  <2>0. c \in Ids /\ c \notin removed /\ Parent[c] \in Roots /\ Parent[c] \in Ids
    BY <1>0, ConstantsAssumption
  <2>1. CASE x = L /\ c \in written
    <3>1. c \notin gone
      BY <2>0, <2>1 DEF Respects
    <3> QED BY <1>0, <1>1, <2>0, <2>1, <3>1
  <2>2. CASE x = L /\ c \notin written /\ c \in gone
    <3>1. cache'[c][x] = cache[c][x] /\ local'[c][x] = Missing
      BY <1>1, <2>0, <2>2
    <3>2. local[c][x] = Unset
      <4>1. Parent[c] \in Roots \cap (written \cup removed)
        BY <2>0, <2>2 DEF Respects
      <4>2. local[Parent[c]][L] = Unset
        BY <1>0, <4>1 DEF Respects
      <4> QED BY <2>2, <4>2 DEF Consistent, CommitsAbove
    <3>3. ~(cache[c][x] \in Payloads /\ cache[c][x] # OnChain)
      BY <3>2, ConstantsAssumption DEF Consistent, ChildrenKept
    <3>4. ~MustStay(local', c, x)
      BY <1>0, <3>1 DEF MustStay
    <3> QED BY <3>1, <3>3, <3>4 DEF Consistent, ChildrenKept
  <2>3. CASE ~(x = L /\ (c \in written \/ c \in gone))
    <3>1. cache'[c][x] = cache[c][x] /\ local'[c][x] = local[c][x]
      BY <1>1, <2>0, <2>3
    <3>2. MustStay(local', c, x) => MustStay(local, c, x)
      BY <1>2, <2>0, <3>1 DEF MustStay
    <3> QED BY <3>1, <3>2 DEF Consistent, ChildrenKept
  <2> QED BY <2>1, <2>2, <2>3
<1> QED BY <1>3, <1>4, <1>5 DEF Consistent

\* An empty cache has no commits to keep, and none were made.
LEMMA EmptyFacts ==
  /\ EmptySnapshot \in Snapshots
  /\ \A id \in Ids, v \in Versions : EmptySnapshot[id][v] = Unset
  /\ Consistent(EmptySnapshot, EmptySnapshot)
  /\ TypeOK /\ Consistent(cache, local) /\ cache = EmptySnapshot => local = EmptySnapshot
<1>1. EmptySnapshot \in Snapshots /\ \A id \in Ids, v \in Versions : EmptySnapshot[id][v] = Unset
  BY DEF EmptySnapshot, Snapshots, Entries
<1>2. Roots \subseteq Ids /\ Children \subseteq Ids /\ Unset # OnChain /\ Unset # Missing /\ Unset \notin Payloads
  BY ConstantsAssumption DEF Ids, OnChain, Payloads
<1>3. Consistent(EmptySnapshot, EmptySnapshot)
  BY <1>1, <1>2 DEF Consistent, CommitsAbove, RootsKept, ChildrenKept, MustStay
<1>4. ASSUME TypeOK, Consistent(cache, local), cache = EmptySnapshot PROVE local = EmptySnapshot
  <2>1. \A r \in Roots, v \in Versions : local[r][v] = Unset
    BY <1>1, <1>2, <1>4 DEF Consistent, RootsKept
  <2>2. \A c \in Children, v \in Versions : local[c][v] = Unset
    BY <1>4, <2>1, ConstantsAssumption DEF Consistent, CommitsAbove
  <2>3. \A id \in Ids, v \in Versions : local[id][v] = Unset
    BY <2>1, <2>2 DEF Ids
  <2> QED BY <1>4, <2>3 DEF TypeOK, Snapshots, EmptySnapshot
<1> QED BY <1>1, <1>3, <1>4

\* Restoring a dump over an empty snapshot gives the dump.
LEMMA ExtendEmpty ==
  ASSUME NEW t \in Snapshots
  PROVE  Extend(EmptySnapshot, t) = t
BY DEF Extend, EmptySnapshot, Snapshots

\* Every step is a safe read, a safe commit or one of the snapshot operations.
LEMMA SafeSteps ==
  ASSUME ~StaleCallers, StoreInv, [Next]_vars
  PROVE  SafeRead \/ SafeCommit \/ dump_snapshot \/ reset \/ restore_snapshot \/ UNCHANGED vars
BY ReadsSafe, CommitsSafe DEF Next

\* Every operation keeps the store and the dump consistent.
LEMMA StoreStep ==
  ASSUME ~StaleCallers, StoreInv, [Next]_vars
  PROVE  StoreInv'
<1>0. /\ TypeOK /\ TypeOK' /\ ChainOK /\ Consistent(cache, local)
      /\ Consistent(snapshot.objects, snapshot.commits)
  BY TypeStep DEF StoreInv
<1>a. ASSUME UNCHANGED <<chain, fork>>, Consistent(cache', local'),
             Consistent(snapshot'.objects, snapshot'.commits)
      PROVE  StoreInv'
  <2>1. ASSUME NEW s, NEW l, Consistent(s, l) PROVE Consistent(s, l)'
    BY <1>a, <2>1, ConsistentStays
  <2>2. Consistent(cache, local)' /\ Consistent(snapshot.objects, snapshot.commits)'
    BY <1>a, <2>1
  <2>3. ChainOK'
    BY <1>0, <1>a DEF ChainOK
  <2> QED BY <1>0, <2>2, <2>3 DEF StoreInv
<1>1. CASE SafeRead
  BY <1>0, <1>1, <1>a, SafeReadKeeps DEF SafeRead
<1>2. CASE SafeCommit
  BY <1>0, <1>2, <1>a, SafeCommitKeeps DEF SafeCommit
<1>3. CASE dump_snapshot
  BY <1>0, <1>3, <1>a DEF dump_snapshot
<1>4. CASE reset
  BY <1>0, <1>4, <1>a, EmptyFacts DEF reset
<1>5. CASE restore_snapshot
  <2>1. local = EmptySnapshot
    BY <1>0, <1>5, EmptyFacts DEF restore_snapshot
  <2>2. cache' = snapshot.objects /\ local' = snapshot.commits
    BY <1>0, <1>5, <2>1, ExtendEmpty DEF restore_snapshot, TypeOK
  <2> QED BY <1>0, <1>5, <1>a, <2>2 DEF restore_snapshot
<1>6. CASE UNCHANGED vars
  BY <1>0, <1>6, <1>a DEF vars
<1> QED BY <1>1, <1>2, <1>3, <1>4, <1>5, <1>6, SafeSteps

\* A fresh store over any chain is consistent.
LEMMA StoreInit == Init => StoreInv
<1> SUFFICES ASSUME Init PROVE StoreInv
  OBVIOUS
<1>1. TypeOK
  BY TypeInit
<1>2. ChainOK
  <2>1. /\ chain \in [Ids -> [Versions -> {Unset, Missing, OnChain}]]
        /\ \A id \in Ids, v \in Versions :
             /\ v > ChainVersions => chain[id][v] = Unset
             /\ id \in Children /\ chain[id][v] # Unset => chain[Parent[id]][v] # Unset
    BY DEF Init, ChainHistories
  <2>2. Children \subseteq Ids /\ \A v \in Versions : v <= ChainVersions \/ v > ChainVersions
    BY ConstantsAssumption DEF Ids, Versions
  <2> QED BY <2>1, <2>2 DEF ChainOK
<1> QED BY <1>1, <1>2, EmptyFacts DEF Init, StoreInv, NoDump

\* Every state such callers reach is consistent.
LEMMA StoreInvHolds ==
  ASSUME ~StaleCallers
  PROVE  Spec => []StoreInv
BY StoreInit, StoreStep, PTL DEF Spec

-----------------------------------------------------------------------------
(* What the consistency gives for callers that name present versions.        *)

\* A payload the cache holds is the chain's or a local commit's.
LEMMA PayloadOrigin ==
  ASSUME NEW s, NEW l, CommitsAbove(l), RootsKept(s, l), ChildrenKept(s, l),
         NEW id \in Ids, NEW v \in Versions, s[id][v] \in Payloads
  PROVE  IF s[id][v] = OnChain THEN chain[id][v] = OnChain ELSE l[id][v] = s[id][v]
<1>1. Unset \notin Payloads
  BY ConstantsAssumption
<1>2. CASE id \in Roots
  <2>1. CASE l[id][v] # Unset
    BY <1>2, <2>1 DEF RootsKept, CommitsAbove
  <2>2. CASE l[id][v] = Unset
    BY <1>1, <1>2, <2>2 DEF RootsKept
  <2> QED BY <2>1, <2>2
<1>3. CASE id \in Children
  BY <1>3 DEF ChildrenKept
<1> QED BY <1>2, <1>3 DEF Ids

\* Every cached object is the chain's object of exactly that version, or the
\* newest local commit to it: neither a read (cache_object_only) nor a commit, a
\* dump, a reset or a restore files an object under a version it does not have.
THEOREM CacheAlwaysTruthful ==
  ASSUME ~StaleCallers
  PROVE  Spec => []CacheTruthful
<1>1. StoreInv => CacheTruthful
  BY PayloadOrigin DEF StoreInv, Consistent, CacheTruthful
<1> QED BY <1>1, StoreInvHolds, PTL

\* get_object shows the newest version of every root that exists on the fork
\* with the local commits on top; the cache never pins it to an older one.
THEOREM LiveRootsAlwaysCurrent ==
  ASSUME ~StaleCallers
  PROVE  Spec => []LiveRootsCurrent
<1>1. StoreInv => LiveRootsCurrent
  BY LiveRoot DEF StoreInv, LiveRootsCurrent
<1> QED BY <1>1, StoreInvHolds, PTL

\* Forked at the tip, a local commit stays readable at its version until the
\* next reset: read_child_object and get_object_by_key never displace it.
THEOREM CommitsAlwaysDurable ==
  ASSUME ~StaleCallers
  PROVE  Spec => []CommitsDurable
<1>1. StoreInv => CommitsDurable
  <2> SUFFICES ASSUME StoreInv, ForkIsTip, NEW id \in Ids, NEW v \in Versions, local[id][v] \in Payloads
               PROVE  cache[id][v] = local[id][v]
    BY DEF CommitsDurable
  <2>1. CASE id \in Roots
    BY <2>1, ConstantsAssumption DEF StoreInv, Consistent, RootsKept
  <2>2. CASE id \in Children
    BY <2>2 DEF StoreInv, Consistent, ChildrenKept, MustStay
  <2> QED BY <2>1, <2>2 DEF Ids
<1> QED BY <1>1, StoreInvHolds, PTL

\* A child written together with the present version of its parent is what a
\* read below that version shows.
LEMMA FreshChild ==
  ASSUME TypeOK, ChainOK, Consistent(cache, local), NEW c \in Children,
         Current(Parent[c]) # NoObject, Current(c).ver = Current(Parent[c]).ver
  PROVE  ReadChildAnswer(c, Current(Parent[c]).ver) = Current(c)
<1> DEFINE v == Current(Parent[c]).ver
           t == TopVersion(cache, c, v)
<1>0. /\ c \in Ids /\ Parent[c] \in Roots /\ Parent[c] \in Ids /\ RootOf(c) = Parent[c]
      /\ Unset \notin Payloads /\ Missing \notin Payloads /\ OnChain \in Payloads
      /\ \A w \in Versions : w \in Int /\ w # 0 /\ w <= w
  BY ConstantsAssumption DEF Ids, RootOf, Versions, Payloads, OnChain
<1>1. /\ v \in Versions
      /\ \A w \in Versions : View[Parent[c]][w] # Unset => w <= v
  BY <1>0, CurrentFacts
<1>2. Current(c) # NoObject
  BY <1>0, <1>1 DEF NoObject
<1>3. Current(c) = Obj(v, View[c][v]) /\ View[c][v] \in Payloads
  BY <1>0, <1>2, CurrentFacts
<1> HIDE DEF v
<1>4. \A w \in Versions : local[Parent[c]][w] # Unset \/ ForkHas(Parent[c], w) => w <= v
  BY <1>0, <1>1, ViewFacts
<1>5. CASE local[c][v] # Unset
  <2>1. View[c][v] = local[c][v]
    BY <1>0, <1>1, <1>5, ViewFacts
  <2>2. MustStay(local, c, v)
    <3>1. \A w \in Versions : w > v => local[Parent[c]][w] = Unset
      BY <1>0, <1>1, <1>4
    <3> QED BY <1>3, <2>1, <3>1 DEF MustStay
  <2>3. cache[c][v] = View[c][v]
    BY <1>1, <2>1, <2>2 DEF Consistent, ChildrenKept
  <2>4. object_resolved_upperbound(cache, c, v) = Obj(v, View[c][v]) /\ t = v
    BY <1>0, <1>1, <1>3, <2>3, FoundNewest
  <2>5. ChildHit(c, v)
    BY <1>0, <1>1, <2>4 DEF ChildHit
  <2> QED BY <1>3, <2>4, <2>5 DEF ReadChildAnswer, v
<1>6. CASE local[c][v] = Unset
  <2>1. View[c][v] = chain[c][v] /\ v <= fork[Parent[c]]
    BY <1>0, <1>1, <1>3, <1>6, ViewFacts
  <2>2. ForkHas(Parent[c], v) /\ chain[c][v] = OnChain
    BY <1>0, <1>1, <1>3, <2>1, ChainPayload DEF ForkHas, ChainOK
  <2>3. CASE ChildHit(c, v)
    <3>1. t \in Versions /\ t <= v /\ cache[c][t] # Unset /\ (cache[c][t] = Missing \/ t = v)
      BY <2>3, TopVersionFacts DEF ChildHit
    <3> HIDE DEF t
    <3>2. t = v
      <4>1. CASE cache[c][t] = Missing
        <5>1. v <= t
          BY <1>1, <2>2, <3>1, <4>1 DEF Consistent, ChildrenKept
        <5> QED BY <1>0, <1>1, <3>1, <5>1
      <4> QED BY <3>1, <4>1
    <3>3. cache[c][v] # Missing
      BY <1>0, <1>1, <2>2 DEF Consistent, ChildrenKept
    <3>4. cache[c][v] \in Payloads
      BY <1>0, <1>1, <3>1, <3>2, <3>3 DEF TypeOK, Snapshots, Entries
    <3>5. cache[c][v] = OnChain
      BY <1>0, <1>1, <1>6, <3>4 DEF Consistent, ChildrenKept
    <3>6. object_resolved_upperbound(cache, c, v) = Obj(v, OnChain)
      BY <1>0, <1>1, <3>2, <3>4, <3>5 DEF t, object_resolved_upperbound, object_exact_version
    <3> QED BY <1>3, <2>1, <2>2, <2>3, <3>6 DEF ReadChildAnswer, v
  <2>4. CASE ~ChildHit(c, v)
    <3>1. ChainAt(c, v) = Obj(v, chain[c][v])
      BY <1>0, <1>1, <1>3, <2>1, FoundNewest DEF ChainAt
    <3> QED BY <1>3, <2>1, <2>4, <3>1 DEF ReadChildAnswer, BackingReadChild, v
  <2> QED BY <2>3, <2>4
<1> QED BY <1>5, <1>6

\* A child written by the same transaction as the present version of its parent
\* is found by read_child_object below that parent, whatever was read before.
THEOREM FreshChildrenAlwaysVisible ==
  ASSUME ~StaleCallers
  PROVE  Spec => []FreshChildrenVisible
<1>1. StoreInv => FreshChildrenVisible
  BY FreshChild DEF StoreInv, FreshChildrenVisible
<1> QED BY <1>1, StoreInvHolds, PTL

\* What get_object_by_key answers, entry by entry.
LEMMA ByKeyFacts ==
  ASSUME NEW id \in Ids, NEW v \in Versions
  PROVE  ByKeyAnswer(id, v) = IF cache[id][v] \in Payloads THEN Obj(v, cache[id][v])
                              ELSE IF chain[id][v] \in Payloads THEN Obj(v, chain[id][v]) ELSE NoObject
<1>1. \A d : Obj(v, d) # NoObject
  BY ConstantsAssumption DEF Obj, NoObject, Versions
<1> QED BY <1>1 DEF ByKeyAnswer, BackingByKey, object_exact_version

\* Under a store that holds only objects of the chain, an exact read answers
\* what the chain has.
LEMMA OnlyChain ==
  ASSUME NEW s, Consistent(s, EmptySnapshot), NEW id \in Ids, NEW v \in Versions, s[id][v] \in Payloads
  PROVE  s[id][v] = OnChain /\ chain[id][v] = OnChain
<1>1. EmptySnapshot[id][v] = Unset /\ Unset \notin Payloads
  BY EmptyFacts, ConstantsAssumption
<1> QED BY <1>1, PayloadOrigin DEF Consistent

\* Forked at the tip, a step that commits nothing changes no exact read.
LEMMA ExactReadKept ==
  ASSUME ~StaleCallers, StoreInv, [Next]_vars, ForkIsTip, local' = local,
         NEW id \in Ids, NEW v \in Versions
  PROVE  ByKeyAnswer(id, v)' = ByKeyAnswer(id, v)
<1> DEFINE Answer(s) == IF s[id][v] \in Payloads THEN Obj(v, s[id][v])
                        ELSE IF chain[id][v] \in Payloads THEN Obj(v, chain[id][v]) ELSE NoObject
<1>0. /\ TypeOK /\ ChainOK /\ Consistent(cache, local) /\ Consistent(snapshot.objects, snapshot.commits)
      /\ OnChain \in Payloads /\ Missing \notin Payloads /\ Unset \notin Payloads
  BY ConstantsAssumption DEF StoreInv, OnChain, Payloads
<1>1. ByKeyAnswer(id, v) = Answer(cache)
  BY ByKeyFacts
<1>2. chain' = chain => ByKeyAnswer(id, v)' = Answer(cache')
  <2>1. ByKeyAnswer(id, v)' = IF cache'[id][v] \in Payloads THEN Obj(v, cache'[id][v])
                              ELSE IF chain'[id][v] \in Payloads THEN Obj(v, chain'[id][v]) ELSE NoObject
    <3>1. \A d : Obj(v, d) # NoObject
      BY ConstantsAssumption DEF Obj, NoObject, Versions
    <3> QED BY <3>1 DEF ByKeyAnswer, BackingByKey, object_exact_version
  <2> QED BY <2>1
<1>a. ASSUME chain' = chain, Answer(cache') = Answer(cache) PROVE ByKeyAnswer(id, v)' = ByKeyAnswer(id, v)
  BY <1>1, <1>2, <1>a
<1>b. ASSUME NEW s, \/ s[id][v] \notin Payloads
                    \/ s[id][v] = OnChain /\ chain[id][v] = OnChain
      PROVE  Answer(s) = IF chain[id][v] \in Payloads THEN Obj(v, chain[id][v]) ELSE NoObject
  BY <1>0, <1>b
<1>c. Consistent(cache, EmptySnapshot) => \/ cache[id][v] \notin Payloads
                                          \/ cache[id][v] = OnChain /\ chain[id][v] = OnChain
  BY OnlyChain
<1>3. CASE SafeRead
  <2>1. PICK i \in Ids, x \in Versions, d \in {OnChain, Missing} :
          SafeFill(i, x, d) /\ cache' = cache_query(cache, i, x, d)
    BY <1>3 DEF SafeRead
  <2>2. chain' = chain
    BY <1>3 DEF SafeRead
  <2>3. cache \in Snapshots /\ d \in Entries
    BY <1>0 DEF TypeOK, Entries
  <2>4. cache'[id][v] = IF id = i /\ v = x THEN d ELSE cache[id][v]
    BY <2>1, <2>3, QueryFacts
  <2>5. CASE ~(id = i /\ v = x)
    BY <2>2, <2>4, <2>5, <1>a
  <2>6. CASE id = i /\ v = x
    <3>1. \/ cache[id][v] \notin Payloads
          \/ cache[id][v] = OnChain /\ chain[id][v] = OnChain
      <4>1. CASE id \in Roots
        BY <1>0, <2>1, <2>6, <4>1 DEF SafeFill, Consistent, RootsKept
      <4>2. CASE id \in Children
        BY <1>0, <2>1, <2>6, <4>2 DEF SafeFill, Consistent, ChildrenKept, MustStay
      <4> QED BY <4>1, <4>2 DEF Ids
    <3>2. d = Missing \/ (d = OnChain /\ chain[id][v] = OnChain)
      BY <2>1, <2>6 DEF SafeFill, Ids
    <3>3. \/ cache'[id][v] \notin Payloads
          \/ cache'[id][v] = OnChain /\ chain[id][v] = OnChain
      BY <1>0, <2>4, <2>6, <3>2
    <3>4. Answer(cache') = Answer(cache)
      BY <1>b, <3>1, <3>3
    <3> QED BY <2>2, <3>4, <1>a
  <2> QED BY <2>5, <2>6
<1>4. CASE SafeCommit
  <2>1. PICK L \in Versions, gone \in SUBSET Ids, removed \in SUBSET Roots, written \in SUBSET Ids :
          Commits(L, gone, removed, written) /\ Respects(L, gone, removed, written)
    BY <1>4 DEF SafeCommit
  <2>2. PICK r \in Roots : r \in written \cup removed
    BY <2>1 DEF Respects
  <2>3. local[r][L] = Unset
    <3>1. ~(L < L)
      BY DEF Versions
    <3> QED BY <2>1, <2>2, <3>1 DEF Respects
  <2>4. local'[r][L] # Unset
    <3>1. r \in Ids /\ r \in written \cup gone /\ Missing # Unset /\ txs' \in Payloads
      BY <1>4, <2>1, <2>2, ConstantsAssumption DEF Ids, Respects, SafeCommit
    <3> QED BY <1>0, <2>1, <3>1 DEF Commits
  <2> QED BY <2>3, <2>4
<1>5. CASE dump_snapshot
  BY <1>5, <1>a DEF dump_snapshot
<1>6. CASE reset
  <2>1. local = EmptySnapshot /\ chain' = chain /\ cache' = EmptySnapshot
    BY <1>6 DEF reset
  <2>2. cache'[id][v] \notin Payloads
    BY <1>0, <2>1, EmptyFacts
  <2>3. Answer(cache') = Answer(cache)
    BY <1>0, <1>b, <1>c, <2>1, <2>2
  <2> QED BY <2>1, <2>3, <1>a
<1>7. CASE restore_snapshot
  <2>1. local = EmptySnapshot /\ chain' = chain /\ cache = EmptySnapshot
    BY <1>0, <1>7, EmptyFacts DEF restore_snapshot
  <2>2. cache' = snapshot.objects /\ local' = snapshot.commits
    BY <1>0, <1>7, <2>1, ExtendEmpty DEF restore_snapshot, TypeOK
  <2>3. \/ cache'[id][v] \notin Payloads
        \/ cache'[id][v] = OnChain /\ chain[id][v] = OnChain
    BY <1>0, <2>1, <2>2, OnlyChain
  <2>4. Answer(cache') = Answer(cache)
    BY <1>0, <1>b, <1>c, <2>1, <2>3
  <2> QED BY <2>1, <2>4, <1>a
<1>8. CASE UNCHANGED vars
  BY <1>8, <1>a DEF vars
<1> QED BY <1>3, <1>4, <1>5, <1>6, <1>7, <1>8, SafeSteps

\* Forked at the tip, only commits change what an exact version holds: no read,
\* dump, or reset/restore round trip changes an answer of get_object_by_key.
THEOREM ExactReadsAlwaysStable ==
  ASSUME ~StaleCallers
  PROVE  Spec => ExactReadsStable
<1>1. StoreInv /\ [Next]_vars =>
        [ForkIsTip /\ local' = local =>
           \A id \in Ids, v \in Versions : ByKeyAnswer(id, v)' = ByKeyAnswer(id, v)]_vars
  BY ExactReadKept
<1> QED BY <1>1, StoreInvHolds, PTL DEF Spec, ExactReadsStable

=============================================================================
