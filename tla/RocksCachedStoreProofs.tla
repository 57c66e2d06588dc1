----------------------- MODULE RocksCachedStoreProofs -----------------------
(***************************************************************************)
(* Proofs about RocksCachedStore for any number of processes, objects and  *)
(* checkpoints.                                                            *)
(***************************************************************************)
EXTENDS RocksCachedStore, WellFoundedInduction, TLAPS

Fields == {"pc", "ro", "fork", "mark", "view"}

\* The control state of a handle; nothing is said of the objects it sees.
HandlesTyped ==
  /\ meta \in Checkpoints \cup {Unset}
  /\ handle = [h \in Handles |-> handle[h]]
  /\ \A h \in Handles :
       /\ handle[h] = [f \in Fields |-> handle[h][f]]
       /\ handle[h].pc \in {"closed", "opening", "open"} /\ handle[h].ro \in BOOLEAN
       /\ handle[h].fork \in Checkpoints /\ handle[h].mark \in Checkpoints \cup {Unset}

\* The directory lock: at most one live process may write.
OneWriter == \A g, h \in Handles : Writer(g) /\ Writer(h) => g = h

\* A database that holds objects is marked.
FilledIsMarked == disk # {} => meta # Unset

\* What the writer read when it opened the directory still is the mark, and once
\* it is open the mark is its own checkpoint.
WriterMark ==
  \A h \in Handles :
    /\ handle[h].pc = "opening" /\ ~handle[h].ro => handle[h].mark = meta
    /\ handle[h].pc = "open" /\ ~handle[h].ro => handle[h].fork = meta

\* A mark a reader saw never changes, a reader that sees objects saw a mark, and
\* it is open only if that mark was its own checkpoint.
ReaderMark ==
  \A h \in Handles :
    handle[h].pc # "closed" /\ handle[h].ro =>
      /\ handle[h].mark # Unset => handle[h].mark = meta
      /\ handle[h].view # {} => handle[h].mark # Unset
      /\ handle[h].pc = "open" => handle[h].mark \in {Unset, handle[h].fork}

\* The inductive invariant.
IInv == HandlesTyped /\ OneWriter /\ FilledIsMarked /\ WriterMark /\ ReaderMark

-----------------------------------------------------------------------------
\* A closed handle is well typed.
LEMMA ClosedFacts ==
  /\ Closed = [f \in Fields |-> Closed[f]]
  /\ Closed.pc = "closed" /\ Closed.ro = FALSE /\ Closed.fork = 0 /\ Closed.fork \in Checkpoints
  /\ Closed.mark = Unset /\ Closed.view = {}
<1>1. Closed = [f \in Fields |-> Closed[f]]
  BY DEF Closed, Fields
<1>2. 0 \in Checkpoints
  BY ConstantsAssumption DEF Checkpoints
<1> QED BY <1>1, <1>2 DEF Closed

\* Opening succeeds: only the state of the handle changes.
LEMMA OpenedFacts ==
  ASSUME NEW STATE s, s = [f \in Fields |-> s[f]], NEW STATE t, t = [s EXCEPT !.pc = "open"]
  PROVE  /\ t = [f \in Fields |-> t[f]] /\ t.pc = "open" /\ t.ro = s.ro
         /\ t.fork = s.fork /\ t.mark = s.mark /\ t.view = s.view
BY DEF Fields

\* A writer that is open has marked the database.
LEMMA OpenWriterMarked ==
  ASSUME IInv, NEW h \in Handles, handle[h].pc = "open", ~handle[h].ro
  PROVE  meta # Unset
BY ConstantsAssumption DEF IInv, HandlesTyped, WriterMark, Checkpoints

\* A step that leaves the handles and the mark alone, and the objects too unless
\* an open writer takes it, keeps the invariant.
LEMMA StoreStep ==
  ASSUME IInv, UNCHANGED <<meta, handle>>, NEW h \in Handles, handle[h].pc = "open",
         handle[h].ro => disk' = disk
  PROVE  IInv'
<1>1. FilledIsMarked'
  BY OpenWriterMarked DEF IInv, FilledIsMarked
<1> QED BY <1>1 DEF IInv, HandlesTyped, OneWriter, WriterMark, ReaderMark, Writer

\* Every step of every process keeps the invariant.
LEMMA InvStep == IInv /\ [Next]_vars => IInv'
<1> SUFFICES ASSUME IInv, [Next]_vars PROVE IInv'
  OBVIOUS
<1> USE ConstantsAssumption DEF IInv
<1>1. ASSUME NEW h \in Handles, NEW ro \in BOOLEAN, NEW c \in Checkpoints, open_db(h, ro, c)
      PROVE  IInv'
  <2> DEFINE new == [pc |-> "opening", ro |-> ro, fork |-> c, mark |-> meta,
                     view |-> IF ro THEN disk ELSE {}]
  <2>1. /\ handle' = [handle EXCEPT ![h] = new]
        /\ UNCHANGED <<meta, disk>>
    BY <1>1 DEF open_db
  <2>2. /\ new = [f \in Fields |-> new[f]]
        /\ new.pc = "opening" /\ new.ro = ro /\ new.fork = c /\ new.mark = meta
        /\ new.view = IF ro THEN disk ELSE {}
    BY DEF Fields
  <2> HIDE DEF new
  <2>3. /\ handle' = [g \in Handles |-> handle'[g]] /\ handle'[h] = new
        /\ \A g \in Handles : g # h => handle'[g] = handle[g]
    BY <2>1 DEF HandlesTyped
  <2>4. HandlesTyped'
    BY <2>1, <2>2, <2>3 DEF HandlesTyped
  <2>5. OneWriter'
    BY <1>1, <2>2, <2>3 DEF OneWriter, Writer, open_db
  <2>6. FilledIsMarked'
    BY <2>1 DEF FilledIsMarked
  <2>7. WriterMark'
    BY <2>1, <2>2, <2>3 DEF WriterMark
  <2>8. ReaderMark'
    BY <2>1, <2>2, <2>3 DEF ReaderMark, FilledIsMarked
  <2> QED BY <2>4, <2>5, <2>6, <2>7, <2>8
<1>2. ASSUME NEW h \in Handles, check_metadata(h) PROVE IInv'
  <2> DEFINE s == handle[h]
             new == IF s.mark \in {Unset, s.fork} THEN [s EXCEPT !.pc = "open"] ELSE Closed
  <2>1. /\ s.pc = "opening"
        /\ handle' = [handle EXCEPT ![h] = new]
        /\ meta' = (IF s.mark = Unset /\ ~s.ro THEN s.fork ELSE meta)
        /\ disk' = disk
    BY <1>2 DEF check_metadata
  <2>2. /\ new = [f \in Fields |-> new[f]]
        /\ \/ /\ s.mark \in {Unset, s.fork} /\ new.pc = "open" /\ new.ro = s.ro
              /\ new.fork = s.fork /\ new.mark = s.mark /\ new.view = s.view
           \/ /\ s.mark \notin {Unset, s.fork} /\ new.pc = "closed" /\ new.ro = FALSE
              /\ new.fork = 0 /\ new.mark = Unset /\ new.view = {}
    <3>1. CASE s.mark \in {Unset, s.fork}
      BY <3>1, OpenedFacts DEF HandlesTyped
    <3>2. CASE s.mark \notin {Unset, s.fork}
      BY <3>2, ClosedFacts
    <3> QED BY <3>1, <3>2
  <2> HIDE DEF new
  <2>3. /\ handle' = [g \in Handles |-> handle'[g]] /\ handle'[h] = new
        /\ \A g \in Handles : g # h => handle'[g] = handle[g]
    BY <2>1 DEF HandlesTyped
  <2>4. 0 \in Checkpoints
    BY DEF Checkpoints
  <2>5. HandlesTyped'
    BY <2>1, <2>2, <2>3, <2>4 DEF HandlesTyped
  <2>6. OneWriter'
    BY <2>1, <2>2, <2>3 DEF OneWriter, Writer
  <2>7. meta # Unset => meta' = meta
    BY <2>1 DEF WriterMark, HandlesTyped
  <2>8. FilledIsMarked'
    BY <2>1, <2>7 DEF FilledIsMarked
  <2>9. meta' # meta => ~s.ro
    BY <2>1
  <2>10. WriterMark'
    <3>1. ASSUME NEW g \in Handles, g # h PROVE
            /\ handle'[g].pc = "opening" /\ ~handle'[g].ro => handle'[g].mark = meta'
            /\ handle'[g].pc = "open" /\ ~handle'[g].ro => handle'[g].fork = meta'
      BY <2>1, <2>3, <2>9, <3>1 DEF WriterMark, OneWriter, Writer
    <3>2. /\ handle'[h].pc = "opening" /\ ~handle'[h].ro => handle'[h].mark = meta'
          /\ handle'[h].pc = "open" /\ ~handle'[h].ro => handle'[h].fork = meta'
      BY <2>1, <2>2, <2>3 DEF WriterMark
    <3> QED BY <3>1, <3>2 DEF WriterMark
  <2>11. ReaderMark'
    <3>1. ASSUME NEW g \in Handles, handle'[g].pc # "closed", handle'[g].ro PROVE
             /\ handle'[g].mark # Unset => handle'[g].mark = meta'
             /\ handle'[g].view # {} => handle'[g].mark # Unset
             /\ handle'[g].pc = "open" => handle'[g].mark \in {Unset, handle'[g].fork}
      <4>1. CASE g = h
        BY <2>1, <2>2, <2>3, <2>7, <3>1, <4>1 DEF ReaderMark
      <4>2. CASE g # h
        BY <2>3, <2>7, <3>1, <4>2 DEF ReaderMark
      <4> QED BY <4>1, <4>2
    <3> QED BY <3>1 DEF ReaderMark
  <2> QED BY <2>5, <2>6, <2>8, <2>10, <2>11
<1>3. ASSUME NEW h \in Handles, exit(h) PROVE IInv'
  <2>1. handle' = [handle EXCEPT ![h] = Closed] /\ UNCHANGED <<meta, disk>>
    BY <1>3 DEF exit
  <2>2. /\ handle' = [g \in Handles |-> handle'[g]] /\ handle'[h] = Closed
        /\ \A g \in Handles : g # h => handle'[g] = handle[g]
    BY <2>1 DEF HandlesTyped
  <2>3. /\ Closed = [f \in Fields |-> Closed[f]] /\ Closed.pc = "closed" /\ Closed.ro = FALSE
        /\ Closed.fork \in Checkpoints /\ Closed.mark = Unset
    BY ClosedFacts
  <2>4. HandlesTyped' /\ OneWriter'
    BY <2>1, <2>2, <2>3, ZenonT(40) DEF HandlesTyped, OneWriter, Writer
  <2>5. FilledIsMarked' /\ WriterMark' /\ ReaderMark'
    BY <2>1, <2>2, <2>3 DEF FilledIsMarked, WriterMark, ReaderMark
  <2> QED BY <2>4, <2>5
<1>4. ASSUME NEW h \in Handles, NEW id \in Ids, get_object(h, id) PROVE IInv'
  BY <1>4, StoreStep DEF get_object, ReadFrame, StoreFrame, put_object
<1>5. ASSUME NEW h \in Handles, NEW id \in Roots, get_object_by_key(h, id) PROVE IInv'
  BY <1>5, StoreStep DEF get_object_by_key, ReadFrame, StoreFrame, put_object
<1>6. ASSUME NEW h \in Handles, NEW c \in Children, read_child_object(h, c) PROVE IInv'
  BY <1>6, StoreStep DEF read_child_object, ReadFrame, StoreFrame, put_object
<1>7. ASSUME NEW h \in Handles, NEW id \in Roots, commit_single_object(h, id) PROVE IInv'
  BY <1>7, StoreStep DEF commit_single_object, StoreFrame, put_object
<1>8. ASSUME NEW h \in Handles, NEW t \in Transactions,
             commit_store(h, t.inputs, t.written, t.removed)
      PROVE  IInv'
  BY <1>8, StoreStep DEF commit_store, StoreFrame
<1>9. ASSUME NEW h \in Handles, dump_snapshot(h) PROVE IInv'
  BY <1>9, StoreStep DEF dump_snapshot
<1>10. ASSUME NEW h \in Handles, restore_snapshot(h) PROVE IInv'
  BY <1>10, StoreStep DEF restore_snapshot
<1>11. CASE UNCHANGED vars
  BY <1>11 DEF vars, HandlesTyped, OneWriter, FilledIsMarked, WriterMark, ReaderMark, Writer
<1> QED BY <1>1, <1>2, <1>3, <1>4, <1>5, <1>6, <1>7, <1>8, <1>9, <1>10, <1>11 DEF Next

\* An open store only shows objects gathered for its own checkpoint: however many
\* processes open the directory, next to each other or after a crash, the
\* metadata check of RocksCachedStore::new keeps checkpoints apart.
THEOREM ForksNeverMix == Spec => []OneForkPerDatabase
<1>1. Init => IInv
  BY ClosedFacts DEF Init, IInv, HandlesTyped, OneWriter, FilledIsMarked, WriterMark, ReaderMark, Writer
<1>2. IInv => OneForkPerDatabase
  BY DEF IInv, HandlesTyped, WriterMark, ReaderMark, OneForkPerDatabase, Seen
<1> QED BY <1>1, <1>2, InvStep, PTL DEF Spec

-----------------------------------------------------------------------------
(* The objects the database, its readers and its dump hold.                 *)

\* Every root in S either is the chain's own, as of checkpoint m, or was
\* committed locally at a later version.
GatheredFor(S, m) ==
  \A o \in S :
    /\ m # Unset /\ o.ver \in Versions
    /\ o.id \in Roots =>
         IF o.data = OnChain THEN o = ChainUpTo(o.id, m) ELSE ChainUpTo(o.id, m).ver < o.ver

\* The local commits of roots are exactly what the database holds of them.
RootsAgree ==
  /\ \A o \in disk : o.data # OnChain /\ o.id \in Roots => o \in local
  /\ \A o \in local : o.id \in Roots => o \in disk /\ o.data # OnChain

\* What processes hold of the database was all gathered for its checkpoint.
ObjectsInv ==
  /\ history \in [Ids -> SUBSET (1..ChainVersions)] /\ txs \in Nat
  /\ GatheredFor(disk, meta) /\ GatheredFor(snapshot.objects, meta)
  /\ \A h \in Handles : handle[h].pc # "closed" /\ handle[h].ro => GatheredFor(handle[h].view, meta)
  /\ RootsAgree

\* The second inductive invariant.
FullInv == IInv /\ ObjectsInv

-----------------------------------------------------------------------------
\* A set of naturals that is not empty has a least element.
LEMMA LeastNat ==
  ASSUME NEW T \in SUBSET Nat, T # {}
  PROVE  \E x \in T : \A y \in T : x <= y
<1> DEFINE R == OpToRel(<, Nat)
<1>1. IsWellFoundedOn(R, Nat)
  BY NatLessThanWellFounded
<1>2. \A x, y \in Nat : x < y => <<x, y>> \in R
  BY DEF OpToRel
<1> HIDE DEF R
<1>3. PICK x \in T : \A y \in T : ~(<<y, x>> \in R)
  BY <1>1, WFMin, Zenon
<1>4. x \in Nat /\ \A y \in T : y \in Nat /\ ~(y < x)
  BY <1>2, <1>3, Zenon
<1>5. \A y \in T : x <= y
  BY <1>4
<1> QED BY <1>5

\* Newest finds an object of the largest version.
LEMMA NewestFacts ==
  ASSUME NEW S, S # {}, \A o \in S : o.ver \in Nat /\ o.ver <= MaxVersion
  PROVE  Newest(S) \in S /\ \A p \in S : p.ver <= Newest(S).ver
<1> DEFINE T == {MaxVersion - o.ver : o \in S}
<1>1. T \in SUBSET Nat /\ T # {}
  BY ConstantsAssumption
<1>2. PICK x \in T : \A y \in T : x <= y
  BY <1>1, LeastNat
<1>3. PICK o \in S : x = MaxVersion - o.ver
  BY <1>2
<1>4. \A p \in S : p.ver <= o.ver
  BY <1>2, <1>3, ConstantsAssumption
<1> QED BY <1>4 DEF Newest

\* What the chain answers: nothing, or its newest version up to the bound.
LEMMA ChainFacts ==
  ASSUME ObjectsInv, NEW id \in Ids, NEW b \in Nat
  PROVE  \/ ChainUpTo(id, b) = NoObject /\ \A w \in history[id] : ~(w <= b)
         \/ \E v \in history[id] :
              /\ ChainUpTo(id, b) = ChainObject(id, v)
              /\ v <= b /\ v \in Versions
              /\ \A w \in history[id] : w <= b => w <= v
<1> DEFINE S == {ChainObject(id, v) : v \in {w \in history[id] : w <= b}}
<1>1. \A w \in history[id] : w \in Nat /\ w <= MaxVersion /\ w \in Versions
  BY ConstantsAssumption DEF ObjectsInv, Versions
<1>2. \A v : ChainObject(id, v).ver = v
  BY DEF ChainObject
<1>3. CASE S = {}
  BY <1>3 DEF ChainUpTo, Newest
<1>4. CASE S # {}
  <2>1. \A o \in S : o.ver \in Nat /\ o.ver <= MaxVersion
    BY <1>1, <1>2
  <2>2. Newest(S) \in S /\ \A p \in S : p.ver <= Newest(S).ver
    BY <1>4, <2>1, NewestFacts
  <2>3. PICK v \in history[id] : v <= b /\ Newest(S) = ChainObject(id, v)
    BY <2>2
  <2>4. ASSUME NEW w \in history[id], w <= b PROVE w <= v
    BY <1>2, <2>2, <2>3, <2>4
  <2> QED BY <1>1, <2>3, <2>4 DEF ChainUpTo
<1> QED BY <1>3, <1>4

\* Asked again at the version it answered, the chain gives the same answer.
LEMMA ChainStable ==
  ASSUME ObjectsInv, NEW id \in Ids, NEW b \in Nat, ChainUpTo(id, b).ver # 0
  PROVE  ChainUpTo(id, ChainUpTo(id, b).ver) = ChainUpTo(id, b)
<1>1. NoObject.ver = 0 /\ \A v : ChainObject(id, v).ver = v
  BY DEF NoObject, ChainObject
<1>2. PICK v \in history[id] :
        /\ ChainUpTo(id, b) = ChainObject(id, v)
        /\ v <= b /\ v \in Versions
        /\ \A w \in history[id] : w <= b => w <= v
  BY <1>1, ChainFacts
<1>3. v \in Nat /\ \A w \in history[id] : w \in Nat
  BY ConstantsAssumption DEF ObjectsInv, Versions
<1>4. PICK u \in history[id] :
        /\ ChainUpTo(id, v) = ChainObject(id, u)
        /\ u <= v
        /\ \A w \in history[id] : w <= v => w <= u
  BY <1>3, ChainFacts
<1>5. u = v
  BY <1>3, <1>4
<1> QED BY <1>1, <1>2, <1>4, <1>5

\* What an open store shows was gathered for its own checkpoint.
LEMMA SeenFacts ==
  ASSUME FullInv, NEW h \in Handles, handle[h].pc = "open"
  PROVE  /\ GatheredFor(Seen(h), meta) /\ handle[h].fork \in Nat
         /\ Seen(h) # {} \/ ~handle[h].ro => handle[h].fork = meta
<1>1. handle[h].fork \in Nat
  BY ConstantsAssumption DEF FullInv, IInv, HandlesTyped, Checkpoints
<1>2. Seen(h) # {} \/ ~handle[h].ro => handle[h].fork = meta
  BY DEF FullInv, IInv, WriterMark, ReaderMark, Seen, HandlesTyped
<1>3. GatheredFor(Seen(h), meta)
  BY DEF FullInv, ObjectsInv, Seen
<1> QED BY <1>1, <1>2, <1>3

\* A lookup finds a stored object of the id if there is one.
LEMMA LookupFacts ==
  ASSUME FullInv, NEW h \in Handles, handle[h].pc = "open", NEW id \in Ids
  PROVE  LET hit == get_object_by_id_db(h, id) IN
         \/ hit = NoObject /\ \A o \in Seen(h) : o.id # id
         \/ hit # NoObject /\ hit \in Seen(h) /\ hit.id = id
<1> DEFINE S == {o \in Seen(h) : o.id = id /\ o.ver <= MaxVersion}
<1>1. \A o \in Seen(h) : o.ver \in Nat /\ o.ver <= MaxVersion /\ o.ver # 0
  BY SeenFacts, ConstantsAssumption DEF GatheredFor, Versions
<1>2. CASE S = {}
  BY <1>1, <1>2 DEF get_object_by_id_db, get_object_upperbound, Newest
<1>3. CASE S # {}
  <2>1. Newest(S) \in S
    BY <1>1, <1>3, NewestFacts
  <2> QED BY <1>1, <2>1 DEF get_object_by_id_db, get_object_upperbound, NoObject
<1> QED BY <1>2, <1>3

\* The answer of get_object for a root: never older than what the chain holds
\* at the fork, and the chain's own answer if nothing is stored.
LEMMA AnswerFacts ==
  ASSUME FullInv, NEW h \in Handles, handle[h].pc = "open", NEW r \in Roots
  PROVE  LET a == GetObjectAnswer(h, r) IN
         /\ a.ver \in Nat /\ a.ver <= MaxVersion
         /\ ChainUpTo(r, handle[h].fork).ver \in Nat /\ ChainUpTo(r, handle[h].fork).ver <= a.ver
         /\ \/ a = ChainUpTo(r, handle[h].fork) /\ \A o \in Seen(h) : o.id # r
            \/ a \in Seen(h) /\ a.id = r /\ handle[h].fork = meta
<1> DEFINE f == handle[h].fork
           hit == get_object_by_id_db(h, r)
<1>1. r \in Ids /\ f \in Nat /\ NoObject.ver = 0 /\ \A v : ChainObject(r, v).ver = v
  BY SeenFacts DEF Ids, NoObject, ChainObject
<1>2. ChainUpTo(r, f).ver \in Nat /\ ChainUpTo(r, f).ver <= MaxVersion
  <2>1. ObjectsInv
    BY DEF FullInv
  <2> QED BY <1>1, <2>1, ChainFacts, ConstantsAssumption DEF Versions
<1>3. CASE hit = NoObject /\ \A o \in Seen(h) : o.id # r
  BY <1>2, <1>3 DEF GetObjectAnswer
<1>4. CASE hit # NoObject /\ hit \in Seen(h) /\ hit.id = r
  <2>1. f = meta /\ hit.ver \in Versions
    BY <1>4, SeenFacts DEF GatheredFor
  <2>2. ChainUpTo(r, f).ver <= hit.ver
    <3>1. hit.ver \in Nat
      BY <2>1, ConstantsAssumption DEF Versions
    <3>2. IF hit.data = OnChain THEN hit = ChainUpTo(r, meta) ELSE ChainUpTo(r, meta).ver < hit.ver
      BY <1>4, SeenFacts DEF GatheredFor
    <3> QED BY <1>2, <2>1, <3>1, <3>2
  <2>3. GetObjectAnswer(h, r) = hit
    BY <1>4 DEF GetObjectAnswer
  <2> QED BY <1>2, <1>4, <2>1, <2>2, <2>3, ConstantsAssumption DEF Versions
<1> QED BY <1>1, <1>3, <1>4, LookupFacts

-----------------------------------------------------------------------------
\* What was gathered for the checkpoint of the database stays so: the chain's
\* past is fixed, and a mark that is set never changes.
LEMMA GatheredStays ==
  ASSUME NEW S, GatheredFor(S, meta), history' = history, meta # Unset => meta' = meta
  PROVE  GatheredFor(S, meta)'
<1>1. SUFFICES ASSUME NEW o \in S
               PROVE  /\ meta' # Unset /\ o.ver \in Versions
                      /\ o.id \in Roots =>
                           IF o.data = OnChain THEN o = ChainUpTo(o.id, meta)'
                           ELSE ChainUpTo(o.id, meta)'.ver < o.ver
  BY DEF GatheredFor
<1>2. meta' = meta /\ meta # Unset
  BY <1>1 DEF GatheredFor
<1>3. ChainUpTo(o.id, meta)' = ChainUpTo(o.id, meta)
  BY <1>2 DEF ChainUpTo, ChainObject
<1> QED BY <1>1, <1>2, <1>3 DEF GatheredFor

\* A step that leaves the handles, the mark and the dump alone has to be looked
\* at for the database only.
LEMMA DiskStep ==
  ASSUME FullInv, UNCHANGED <<history, meta, handle, snapshot>>, txs' \in Nat,
         GatheredFor(disk, meta)', RootsAgree'
  PROVE  ObjectsInv'
<1>1. GatheredFor(snapshot.objects, meta)'
  BY GatheredStays DEF FullInv, ObjectsInv
<1>2. ASSUME NEW g \in Handles, handle'[g].pc # "closed", handle'[g].ro
      PROVE  GatheredFor(handle[g].view, meta)'
  BY <1>2, GatheredStays DEF FullInv, ObjectsInv
<1> QED BY <1>1, <1>2 DEF ObjectsInv, FullInv

\* A read stores what the chain answered.  For a root it does so only when the
\* database holds nothing of it.
LEMMA ReadStep ==
  ASSUME FullInv, NEW h \in Handles, NEW id \in Ids, NEW b \in Nat, handle[h].pc = "open",
         put_object(h, ChainUpTo(id, b)), ReadFrame,
         id \in Roots /\ ~handle[h].ro =>
           ChainUpTo(id, b) = ChainUpTo(id, meta) /\ \A o \in disk : o.id # id
  PROVE  ObjectsInv'
<1> DEFINE new == ChainUpTo(id, b)
<1>1. UNCHANGED <<history, meta, handle, snapshot, txs, local>>
  BY DEF ReadFrame, StoreFrame
<1>2. CASE disk' = disk
  BY <1>1, <1>2, DiskStep, GatheredStays DEF FullInv, ObjectsInv, RootsAgree
<1>3. CASE ~handle[h].ro /\ disk' = Put(disk, new) /\ new # NoObject
  <2>1. new.id = id /\ new.ver \in Versions /\ new.data = OnChain
    BY <1>3, ChainFacts DEF FullInv, ChainObject
  <2>2. meta # Unset
    BY <1>3, OpenWriterMarked DEF FullInv
  <2> HIDE DEF new
  <2>3. \A o \in disk' : o \in disk \/ o = new
    BY <1>3 DEF Put
  <2>4. \A o \in disk : o.id \in Roots => o \in disk'
    <3>1. CASE id \in Roots
      BY <1>3, <2>1, <3>1 DEF Put
    <3>2. CASE id \notin Roots
      BY <1>3, <2>1, <3>2 DEF Put
    <3> QED BY <3>1, <3>2
  <2>5. GatheredFor(disk', meta)
    <3>1. GatheredFor(disk, meta) /\ (id \in Roots => new = ChainUpTo(id, meta))
      BY <1>3 DEF FullInv, ObjectsInv, new
    <3> QED BY <2>1, <2>2, <2>3, <3>1 DEF GatheredFor
  <2>6. GatheredFor(disk, meta)'
    <3>1. ASSUME NEW S, GatheredFor(S, meta) PROVE GatheredFor(S, meta)'
      BY <1>1, <3>1, GatheredStays
    <3> QED BY <2>5, <3>1
  <2>7. RootsAgree'
    BY <1>1, <2>1, <2>3, <2>4 DEF FullInv, ObjectsInv, RootsAgree
  <2> QED BY <1>1, <2>6, <2>7, DiskStep DEF FullInv, ObjectsInv
<1> QED BY <1>2, <1>3 DEF put_object

\* A commit gives its objects a version that no input and nothing the chain has
\* of them reaches.
LEMMA CommitVersion ==
  ASSUME FullInv, NEW h \in Handles, handle[h].pc = "open", ~handle[h].ro,
         NEW inputs \in SUBSET Roots, inputs # {}
  PROVE  LET L == 1 + Newest({GetObjectAnswer(h, r) : r \in inputs}).ver IN
         L \in Nat /\ L # 0 /\ \A r \in inputs : ChainUpTo(r, meta).ver < L
<1> DEFINE S == {GetObjectAnswer(h, r) : r \in inputs}
<1>1. handle[h].fork = meta
  BY SeenFacts
<1>2. \A r \in inputs : /\ GetObjectAnswer(h, r).ver \in Nat
                        /\ GetObjectAnswer(h, r).ver <= MaxVersion
                        /\ ChainUpTo(r, meta).ver \in Nat
                        /\ ChainUpTo(r, meta).ver <= GetObjectAnswer(h, r).ver
  BY <1>1, AnswerFacts
<1>3. Newest(S) \in S /\ \A p \in S : p.ver <= Newest(S).ver
  BY <1>2, NewestFacts
<1>4. Newest(S).ver \in Nat
  BY <1>2, <1>3
<1>5. \A r \in inputs : GetObjectAnswer(h, r).ver <= Newest(S).ver
  BY <1>3
<1> DEFINE n == Newest(S).ver
<1>6. n \in Nat /\ \A r \in inputs : GetObjectAnswer(h, r).ver <= n
  BY <1>4, <1>5
<1> HIDE DEF n
<1>7. 1 + n \in Nat /\ 1 + n # 0 /\ \A r \in inputs : ChainUpTo(r, meta).ver < 1 + n
  BY <1>2, <1>6
<1> QED BY <1>7 DEF n

\* Every step of every process keeps what is said of the objects.
LEMMA ObjectsStep == FullInv /\ [Next]_vars => ObjectsInv'
<1> SUFFICES ASSUME FullInv, [Next]_vars PROVE ObjectsInv'
  OBVIOUS
<1>0. IInv /\ ObjectsInv
  BY DEF FullInv
<1>a. ASSUME history' = history, meta # Unset => meta' = meta,
             UNCHANGED <<disk, local, txs>>,
             GatheredFor(snapshot'.objects, meta),
             \A g \in Handles : handle'[g].pc # "closed" /\ handle'[g].ro
                                 => GatheredFor(handle'[g].view, meta)
      PROVE  ObjectsInv'
  <2>1. ASSUME NEW S, GatheredFor(S, meta) PROVE GatheredFor(S, meta)'
    BY <1>a, <2>1, GatheredStays
  <2>2. GatheredFor(disk, meta)' /\ GatheredFor(snapshot.objects, meta)'
    BY <1>0, <1>a, <2>1 DEF ObjectsInv
  <2>3. ASSUME NEW g \in Handles, handle'[g].pc # "closed", handle'[g].ro
        PROVE  GatheredFor(handle[g].view, meta)'
    BY <1>a, <2>1, <2>3
  <2> QED BY <1>0, <1>a, <2>2, <2>3 DEF ObjectsInv, RootsAgree
<1>1. ASSUME NEW h \in Handles, NEW ro \in BOOLEAN, NEW c \in Checkpoints, open_db(h, ro, c)
      PROVE  ObjectsInv'
  <2> DEFINE new == [pc |-> "opening", ro |-> ro, fork |-> c, mark |-> meta,
                     view |-> IF ro THEN disk ELSE {}]
  <2>1. handle' = [handle EXCEPT ![h] = new] /\ UNCHANGED <<history, meta, disk, snapshot, txs, local>>
    BY <1>1 DEF open_db
  <2>2. /\ handle'[h].ro => handle'[h].view = disk
        /\ \A g \in Handles : g # h => handle'[g] = handle[g]
    BY <1>0, <2>1 DEF IInv, HandlesTyped
  <2>3. \A g \in Handles : handle'[g].pc # "closed" /\ handle'[g].ro
                            => GatheredFor(handle'[g].view, meta)
    BY <1>0, <2>2 DEF ObjectsInv
  <2> QED BY <1>0, <1>a, <2>1, <2>3 DEF ObjectsInv
<1>2. ASSUME NEW h \in Handles, check_metadata(h) PROVE ObjectsInv'
  <2> DEFINE s == handle[h]
             new == IF s.mark \in {Unset, s.fork} THEN [s EXCEPT !.pc = "open"] ELSE Closed
  <2>1. /\ s.pc = "opening"
        /\ handle' = [handle EXCEPT ![h] = new]
        /\ meta' = (IF s.mark = Unset /\ ~s.ro THEN s.fork ELSE meta)
        /\ UNCHANGED <<history, disk, snapshot, txs, local>>
    BY <1>2 DEF check_metadata
  <2>2. \/ new.ro = s.ro /\ new.view = s.view
        \/ new.pc = "closed"
    <3>1. CASE s.mark \in {Unset, s.fork}
      BY <1>0, <3>1, OpenedFacts DEF IInv, HandlesTyped
    <3>2. CASE s.mark \notin {Unset, s.fork}
      BY <3>2, ClosedFacts
    <3> QED BY <3>1, <3>2
  <2>3. meta # Unset => meta' = meta
    BY <1>0, <2>1 DEF IInv, WriterMark, HandlesTyped
  <2>4. handle'[h] = new /\ \A g \in Handles : g # h => handle'[g] = handle[g]
    BY <1>0, <2>1 DEF IInv, HandlesTyped
  <2> HIDE DEF new
  <2>5. \A g \in Handles : handle'[g].pc # "closed" /\ handle'[g].ro
                            => GatheredFor(handle'[g].view, meta)
    BY <1>0, <2>1, <2>2, <2>4 DEF ObjectsInv
  <2> QED BY <1>0, <1>a, <2>1, <2>3, <2>5 DEF ObjectsInv
<1>3. ASSUME NEW h \in Handles, exit(h) PROVE ObjectsInv'
  <2>1. handle' = [handle EXCEPT ![h] = Closed] /\ UNCHANGED <<history, meta, disk, snapshot, txs, local>>
    BY <1>3 DEF exit
  <2>2. \A g \in Handles : handle'[g].pc # "closed" /\ handle'[g].ro
                            => GatheredFor(handle'[g].view, meta)
    BY <1>0, <2>1, ClosedFacts DEF IInv, HandlesTyped, ObjectsInv
  <2> QED BY <1>0, <1>a, <2>1, <2>2 DEF ObjectsInv
<1>4. ASSUME NEW h \in Handles, NEW id \in Ids, get_object(h, id) PROVE ObjectsInv'
  <2>1. /\ handle[h].pc = "open" /\ get_object_by_id_db(h, id) = NoObject
        /\ put_object(h, ChainUpTo(id, handle[h].fork)) /\ ReadFrame
    BY <1>4 DEF get_object
  <2>2. handle[h].fork \in Nat /\ (~handle[h].ro => handle[h].fork = meta /\ Seen(h) = disk)
    BY <2>1, SeenFacts DEF Seen
  <2>3. \A o \in Seen(h) : o.id # id
    BY <2>1, LookupFacts
  <2> QED BY <2>1, <2>2, <2>3, ReadStep
<1>5. ASSUME NEW h \in Handles, NEW id \in Roots, get_object_by_key(h, id) PROVE ObjectsInv'
  <2> DEFINE v == GetObjectAnswer(h, id).ver
  <2>1. /\ handle[h].pc = "open" /\ v # 0 /\ get_object_exact(h, id, v) = NoObject
        /\ put_object(h, ChainUpTo(id, v)) /\ ReadFrame
    BY <1>5 DEF get_object_by_key
  <2>2. handle[h].fork \in Nat /\ (~handle[h].ro => handle[h].fork = meta /\ Seen(h) = disk)
    BY <2>1, SeenFacts DEF Seen
  <2>3. id \in Ids /\ v \in Nat
    BY <2>1, AnswerFacts DEF Ids
  <2>4. \A o \in Seen(h) : o.id = id => o.ver # v
    <3> DEFINE S == {o \in Seen(h) : o.id = id /\ o.ver = v}
    <3>1. Newest(S) = NoObject
      BY <2>1 DEF get_object_exact
    <3>2. \A o \in S : o.ver \in Nat /\ o.ver <= MaxVersion /\ o.ver # 0
      BY <2>1, SeenFacts, ConstantsAssumption DEF GatheredFor, Versions
    <3>3. ASSUME S # {} PROVE Newest(S) \in S
      BY <3>2, <3>3, NewestFacts
    <3> QED BY <3>1, <3>2, <3>3 DEF NoObject
  <2>5. GetObjectAnswer(h, id) = ChainUpTo(id, handle[h].fork) /\ \A o \in Seen(h) : o.id # id
    BY <2>1, <2>4, AnswerFacts
  <2>6. ChainUpTo(id, v) = ChainUpTo(id, handle[h].fork)
    BY <1>0, <2>1, <2>2, <2>3, <2>5, ChainStable
  <2> HIDE DEF v
  <2> QED BY <2>1, <2>2, <2>3, <2>5, <2>6, ReadStep
<1>6. ASSUME NEW h \in Handles, NEW c \in Children, read_child_object(h, c) PROVE ObjectsInv'
  <2> DEFINE b == GetObjectAnswer(h, Parent[c]).ver
  <2>1. handle[h].pc = "open" /\ put_object(h, ChainUpTo(c, b)) /\ ReadFrame
    BY <1>6 DEF read_child_object
  <2>2. Parent[c] \in Roots /\ c \in Ids /\ c \notin Roots
    BY ConstantsAssumption DEF Ids
  <2>3. b \in Nat
    BY <2>1, <2>2, AnswerFacts
  <2> HIDE DEF b
  <2> QED BY <2>1, <2>2, <2>3, ReadStep
<1>7. ASSUME NEW h \in Handles, NEW id \in Roots, commit_single_object(h, id) PROVE ObjectsInv'
  <2> DEFINE o == [id |-> id, ver |-> 1, data |-> txs + 1]
  <2>1. /\ handle[h].pc = "open" /\ ~handle[h].ro
        /\ history[id] = {} /\ \A p \in disk \cup local : p.id # id
        /\ put_object(h, o) /\ local' = local \cup {o} /\ txs' = txs + 1
        /\ UNCHANGED <<history, meta, handle, snapshot>>
    BY <1>7 DEF commit_single_object, StoreFrame
  <2>2. meta # Unset /\ meta \in Nat
    BY <1>0, <2>1, OpenWriterMarked, ConstantsAssumption DEF IInv, HandlesTyped, Checkpoints
  <2>3. o.id = id /\ o.ver = 1 /\ o.data # OnChain /\ 1 \in Versions /\ o # NoObject /\ txs' \in Nat
    BY <1>0, <2>1, ConstantsAssumption DEF ObjectsInv, OnChain, Versions, NoObject
  <2>4. ChainUpTo(id, meta).ver = 0
    BY <2>1 DEF ChainUpTo, Newest, NoObject
  <2> HIDE DEF o
  <2>5. disk' = disk \cup {o}
    BY <2>1, <2>3 DEF put_object, Put
  <2>6. GatheredFor(disk', meta)
    BY <1>0, <2>2, <2>3, <2>4, <2>5 DEF GatheredFor, ObjectsInv
  <2>7. GatheredFor(disk, meta)'
    <3>1. ASSUME NEW S, GatheredFor(S, meta) PROVE GatheredFor(S, meta)'
      BY <2>1, <3>1, GatheredStays
    <3> QED BY <2>6, <3>1
  <2>8. RootsAgree'
    BY <1>0, <2>1, <2>3, <2>5 DEF RootsAgree, ObjectsInv
  <2> QED BY <2>1, <2>3, <2>7, <2>8, DiskStep
<1>8. ASSUME NEW h \in Handles, NEW t \in Transactions,
             commit_store(h, t.inputs, t.written, t.removed)
      PROVE  ObjectsInv'
  <2> DEFINE L == 1 + Newest({GetObjectAnswer(h, r) : r \in t.inputs}).ver
             new == {[id |-> i, ver |-> L, data |-> txs + 1] : i \in t.written}
             keep(S) == {o \in S : /\ o.id \notin t.removed
                                   /\ \A n \in new : n.id # o.id \/ n.ver # o.ver}
  <2>1. /\ handle[h].pc = "open" /\ ~handle[h].ro /\ L <= MaxVersion
        /\ txs' = txs + 1
        /\ disk' = keep(disk) \cup new
        /\ local' = keep(local) \cup new
        /\ UNCHANGED <<history, meta, handle, snapshot>>
    BY <1>8 DEF commit_store, StoreFrame
  <2>2. /\ t.inputs \in SUBSET Roots /\ t.inputs # {}
        /\ \A r \in t.written : r \in Roots => r \in t.inputs
    BY DEF Transactions
  <2>3. L \in Nat /\ L # 0 /\ \A r \in t.inputs : ChainUpTo(r, meta).ver < L
    BY <2>1, <2>2, CommitVersion
  <2>4. meta # Unset /\ txs' \in Nat
    BY <1>0, <2>1, OpenWriterMarked DEF ObjectsInv
  <2>5. \A n \in new : /\ n.id \in t.written /\ n.ver = L /\ n.data = txs + 1 /\ n.data # OnChain
                        /\ n.ver \in Versions
    <3>1. L \in Versions /\ txs + 1 # OnChain
      BY <1>0, <2>1, <2>3, ConstantsAssumption DEF Versions, OnChain, ObjectsInv
    <3> HIDE DEF L
    <3> QED BY <3>1
  <2> HIDE DEF new, L
  <2>6. GatheredFor(disk', meta)
    BY <1>0, <2>1, <2>2, <2>3, <2>4, <2>5 DEF GatheredFor, ObjectsInv
  <2>7. GatheredFor(disk, meta)'
    <3>1. ASSUME NEW S, GatheredFor(S, meta) PROVE GatheredFor(S, meta)'
      BY <2>1, <3>1, GatheredStays
    <3> QED BY <2>6, <3>1
  <2>8. RootsAgree'
    BY <1>0, <2>1, <2>5 DEF RootsAgree, ObjectsInv
  <2> QED BY <2>1, <2>4, <2>7, <2>8, DiskStep
<1>9. ASSUME NEW h \in Handles, dump_snapshot(h) PROVE ObjectsInv'
  <2>1. /\ handle[h].pc = "open" /\ snapshot'.objects = Seen(h)
        /\ UNCHANGED <<history, meta, disk, handle, txs, local>>
    BY <1>9 DEF dump_snapshot
  <2>2. GatheredFor(snapshot'.objects, meta)
    BY <2>1, SeenFacts
  <2> QED BY <1>0, <1>a, <2>1, <2>2 DEF ObjectsInv
<1>10. ASSUME NEW h \in Handles, restore_snapshot(h) PROVE ObjectsInv'
  <2> DEFINE objs == snapshot.objects
             over(S, new) == {o \in S : \A n \in new : n.id # o.id \/ n.ver # o.ver} \cup new
  <2>1. /\ disk' = over(disk, objs) /\ local' = over(local, {o \in objs : o.data # OnChain})
        /\ UNCHANGED <<history, meta, handle, snapshot, txs>>
    BY <1>10 DEF restore_snapshot
  <2>2. GatheredFor(disk, meta) /\ GatheredFor(objs, meta) /\ RootsAgree /\ txs' \in Nat
    BY <1>0, <2>1 DEF ObjectsInv
  <2>3. GatheredFor(disk', meta)
    BY <2>1, <2>2 DEF GatheredFor
  <2>4. GatheredFor(disk, meta)'
    <3>1. ASSUME NEW S, GatheredFor(S, meta) PROVE GatheredFor(S, meta)'
      BY <2>1, <3>1, GatheredStays
    <3> QED BY <2>3, <3>1
  <2>5. ASSUME NEW o \in local, o.id \in Roots, NEW n \in objs, n.id = o.id, n.ver = o.ver
        PROVE  n.data # OnChain
    <3>1. o \in disk /\ o.data # OnChain
      BY <2>2, <2>5 DEF RootsAgree
    <3>2. ChainUpTo(o.id, meta).ver < o.ver /\ o.ver \in Nat
      BY <2>2, <2>5, <3>1, ConstantsAssumption DEF GatheredFor, Versions
    <3>3. n.data = OnChain => n = ChainUpTo(o.id, meta)
      BY <2>2, <2>5 DEF GatheredFor
    <3> QED BY <2>5, <3>2, <3>3
  <2>6. RootsAgree'
    BY <2>1, <2>2, <2>5 DEF RootsAgree
  <2> QED BY <2>1, <2>2, <2>4, <2>6, DiskStep
<1>11. CASE UNCHANGED vars
  BY <1>0, <1>11, <1>a DEF vars, ObjectsInv
<1> QED BY <1>1, <1>2, <1>3, <1>4, <1>5, <1>6, <1>7, <1>8, <1>9, <1>10, <1>11 DEF Next

\* Every state the processes reach satisfies both invariants.
LEMMA FullInvHolds == Spec => []FullInv
<1>1. Init => IInv
  BY ClosedFacts DEF Init, IInv, HandlesTyped, OneWriter, FilledIsMarked, WriterMark, ReaderMark, Writer
<1>2. Init => ObjectsInv
  BY ClosedFacts DEF Init, ObjectsInv, GatheredFor, RootsAgree, NoDump
<1>3. FullInv /\ [Next]_vars => FullInv'
  BY InvStep, ObjectsStep DEF FullInv
<1> QED BY <1>1, <1>2, <1>3, PTL DEF Spec, FullInv

\* Whoever filled the database, next to whom and over how many crashes, a root
\* without local commits reads as the chain has it at the reader's own fork.
THEOREM ForksAlwaysExact == Spec => []ForkedRootsExact
<1>1. FullInv => ForkedRootsExact
  <2> SUFFICES ASSUME FullInv, NEW h \in Handles, NEW r \in Roots, handle[h].pc = "open",
                      \A o \in Seen(h) : o.id = r => o.data = OnChain
               PROVE  GetObjectAnswer(h, r) = ChainUpTo(r, handle[h].fork)
    BY DEF ForkedRootsExact
  <2> DEFINE a == GetObjectAnswer(h, r)
  <2>1. CASE a \in Seen(h) /\ a.id = r /\ handle[h].fork = meta
    BY <2>1, SeenFacts DEF GatheredFor
  <2> QED BY <2>1, AnswerFacts
<1> QED BY <1>1, FullInvHolds, PTL

\* A root committed to the database stays there through reads, other commits,
\* restored dumps and crashes, until a commit removes it or commits over its
\* version.
THEOREM RootCommitsAlwaysDurable == Spec => []RootCommitsDurable
<1>1. FullInv => RootCommitsDurable
  BY DEF FullInv, ObjectsInv, RootsAgree, RootCommitsDurable
<1> QED BY <1>1, FullInvHolds, PTL

\* The database keeps no version of a root that local commits have since
\* removed or replaced.
THEOREM RemovedAlwaysGone == Spec => []RemovedStayGone
<1>1. FullInv => RemovedStayGone
  BY DEF FullInv, ObjectsInv, RootsAgree, RemovedStayGone
<1> QED BY <1>1, FullInvHolds, PTL
=============================================================================
