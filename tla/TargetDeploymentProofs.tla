----------------------- MODULE TargetDeploymentProofs -----------------------
(***************************************************************************)
(* Proofs about TargetDeployment for any number of threads, transactions,  *)
(* targets and deployments.                                                *)
(***************************************************************************)
EXTENDS TargetDeployment, TLAPS

\* A thread between the vacancy check and the insertion still finds its digest
\* free: the mutex keeps every other thread away from the map.
VacantStaysVacant ==
  \A t \in Threads : pc[t] = "insert" => \A e \in map : e.digest # digest(t)

\* The map is exactly the entries of the live guards.
MapIsLiveGuards ==
  /\ \A e \in map : \E t \in Threads :
       pc[t] \in Registered /\ e = [digest |-> digest(t), id |-> target[t]]
  /\ \A t \in Threads : pc[t] \in Registered =>
       [digest |-> digest(t), id |-> target[t]] \in map

\* The inductive invariant.
IInv ==
  /\ TypeOK
  /\ MutexHeld
  /\ VacantStaysVacant
  /\ MapIsLiveGuards
  /\ DistinctDigests
  /\ NeverMisplaced

-----------------------------------------------------------------------------
\* Every step of the deployment protocol keeps the state well typed.
LEMMA TypeStep == TypeOK /\ [Next]_vars => TypeOK'
<1> SUFFICES ASSUME TypeOK, [Next]_vars PROVE TypeOK'
  OBVIOUS
<1> USE DEF TypeOK, Registered, Digests, digest, Goto, Acquire, Release
<1>1. ASSUME NEW t \in Threads, NEW p \in Payloads, NEW id \in Targets,
             deploy_contract(t, p, id)
      PROVE  TypeOK'
  <2>1. deploys' \in [Threads -> 0..MaxDeploys]
    BY <1>1, ConstantsAssumption DEF deploy_contract
  <2> QED BY <1>1, <2>1 DEF deploy_contract
<1>2. ASSUME NEW t \in Threads, register_lock(t) PROVE TypeOK'
  BY <1>2 DEF register_lock
<1>3. ASSUME NEW t \in Threads, entry_vacant(t) PROVE TypeOK'
  BY <1>3 DEF entry_vacant
<1>4. ASSUME NEW t \in Threads, entry_occupied(t) PROVE TypeOK'
  BY <1>4 DEF entry_occupied
<1>5. ASSUME NEW t \in Threads, entry_insert(t) PROVE TypeOK'
  BY <1>5 DEF entry_insert
<1>6. ASSUME NEW t \in Threads, lookup_lock(t) PROVE TypeOK'
  BY <1>6 DEF lookup_lock
<1>7. ASSUME NEW t \in Threads, targeted_deployment(t) PROVE TypeOK'
  BY <1>7 DEF targeted_deployment
<1>8. ASSUME NEW t \in Threads, execution_fails(t) PROVE TypeOK'
  BY <1>8 DEF execution_fails
<1>9. ASSUME NEW t \in Threads, drop_lock(t) PROVE TypeOK'
  BY <1>9 DEF drop_lock
<1>10. ASSUME NEW t \in Threads, GlobalDeployment_drop(t) PROVE TypeOK'
  BY <1>10 DEF GlobalDeployment_drop
<1>11. ASSUME NEW t \in Threads, finish_deployment(t) PROVE TypeOK'
  BY <1>11 DEF finish_deployment
<1>12. CASE UNCHANGED vars
  BY <1>12 DEF vars
<1> QED
  BY <1>1, <1>2, <1>3, <1>4, <1>5, <1>6, <1>7, <1>8, <1>9, <1>10, <1>11, <1>12
  DEF Next, Step

\* Every reachable state of the deployment protocol is well typed: the shared
\* map only ever relates digests to pinned ids.
THEOREM TypeCorrect == Spec => []TypeOK
<1>1. Init => TypeOK
  BY ConstantsAssumption DEF Init, TypeOK, Registered, Digests
<1> QED BY <1>1, TypeStep, PTL DEF Spec

-----------------------------------------------------------------------------
\* The inductive step, action by action.
LEMMA Inductive == IInv /\ [Next]_vars => IInv'
<1> SUFFICES ASSUME IInv, [Next]_vars PROVE IInv'
  OBVIOUS
<1> USE ConstantsAssumption
    DEF IInv, TypeOK, MutexHeld, VacantStaysVacant, MapIsLiveGuards, DistinctDigests,
        NeverMisplaced, Registered, InCritical, digest, Goto, Acquire, Release
<1>0. TypeOK'
  BY TypeStep DEF IInv
<1>1. ASSUME NEW t \in Threads, NEW p \in Payloads, NEW id \in Targets,
             deploy_contract(t, p, id)
      PROVE  IInv'
  BY <1>0, <1>1, SMTT(30) DEF deploy_contract
<1>2. ASSUME NEW t \in Threads, register_lock(t) PROVE IInv'
  BY <1>0, <1>2 DEF register_lock
<1>3. ASSUME NEW t \in Threads, entry_vacant(t) PROVE IInv'
  <2> USE <1>3 DEF entry_vacant
  <2>1. MutexHeld'
    OBVIOUS
  <2>2. VacantStaysVacant'
    OBVIOUS
  <2>3. MapIsLiveGuards'
    OBVIOUS
  <2>4. DistinctDigests'
    OBVIOUS
  <2>5. NeverMisplaced'
    OBVIOUS
  <2> QED BY <1>0, <2>1, <2>2, <2>3, <2>4, <2>5
<1>4. ASSUME NEW t \in Threads, entry_occupied(t) PROVE IInv'
  <2> USE <1>4 DEF entry_occupied
  <2>1. MutexHeld'
    OBVIOUS
  <2>2. VacantStaysVacant'
    OBVIOUS
  <2>3. MapIsLiveGuards'
    OBVIOUS
  <2>4. DistinctDigests'
    OBVIOUS
  <2>5. NeverMisplaced'
    OBVIOUS
  <2> QED BY <1>0, <2>1, <2>2, <2>3, <2>4, <2>5
<1>5. ASSUME NEW t \in Threads, entry_insert(t) PROVE IInv'
  <2> USE <1>5 DEF entry_insert
  <2>1. MutexHeld'
    OBVIOUS
  <2>2. VacantStaysVacant'
    OBVIOUS
  <2>3. MapIsLiveGuards'
    OBVIOUS
  <2>4. DistinctDigests'
    <3>1. \A u \in Threads : u # t /\ pc[u] \in Registered => digest(u) # digest(t)
      <4> SUFFICES ASSUME NEW u \in Threads, u # t, pc[u] \in Registered
                   PROVE  digest(u) # digest(t)
        OBVIOUS
      <4>1. [digest |-> digest(u), id |-> target[u]] \in map
        OBVIOUS
      <4>2. \A e \in map : e.digest # digest(t)
        OBVIOUS
      <4> QED BY <4>1, <4>2
    <3>2. \A u \in Threads : /\ (digest(u))' = digest(u)
                             /\ pc'[u] \in Registered => u = t \/ pc[u] \in Registered
      OBVIOUS
    <3> QED BY <3>1, <3>2
  <2>5. NeverMisplaced'
    OBVIOUS
  <2> QED BY <1>0, <2>1, <2>2, <2>3, <2>4, <2>5
<1>6. ASSUME NEW t \in Threads, lookup_lock(t) PROVE IInv'
  BY <1>0, <1>6 DEF lookup_lock
<1>7. ASSUME NEW t \in Threads, targeted_deployment(t) PROVE IInv'
  <2> USE <1>7 DEF targeted_deployment
  <2>1. MutexHeld'
    OBVIOUS
  <2>2. VacantStaysVacant'
    OBVIOUS
  <2>3. MapIsLiveGuards'
    OBVIOUS
  <2>4. DistinctDigests'
    OBVIOUS
  <2>5. NeverMisplaced'
    <3>1. [digest |-> digest(t), id |-> target[t]] \in map
      OBVIOUS
    <3>2. PICK e \in map : e.digest = digest(t) /\ found' = [found EXCEPT ![t] = e.id]
      BY <3>1
    <3>3. PICK u \in Threads :
            pc[u] \in Registered /\ e = [digest |-> digest(u), id |-> target[u]]
      OBVIOUS
    <3>4. u = t
      BY <3>2, <3>3
    <3>5. e.id = target[t]
      BY <3>3, <3>4
    <3> QED BY <3>2, <3>5
  <2> QED BY <1>0, <2>1, <2>2, <2>3, <2>4, <2>5
<1>8. ASSUME NEW t \in Threads, execution_fails(t) PROVE IInv'
  BY <1>0, <1>8 DEF execution_fails
<1>9. ASSUME NEW t \in Threads, drop_lock(t) PROVE IInv'
  BY <1>0, <1>9 DEF drop_lock
<1>10. ASSUME NEW t \in Threads, GlobalDeployment_drop(t) PROVE IInv'
  BY <1>0, <1>10 DEF GlobalDeployment_drop
<1>11. ASSUME NEW t \in Threads, finish_deployment(t) PROVE IInv'
  BY <1>0, <1>11 DEF finish_deployment
<1>12. CASE UNCHANGED vars
  BY <1>12 DEF vars
<1> QED
  BY <1>1, <1>2, <1>3, <1>4, <1>5, <1>6, <1>7, <1>8, <1>9, <1>10, <1>11, <1>12
  DEF Next, Step

-----------------------------------------------------------------------------
\* The inductive invariant holds in every reachable state.
LEMMA Invariant == Spec => []IInv
<1>1. Init => IInv
  BY ConstantsAssumption
  DEF Init, IInv, TypeOK, MutexHeld, VacantStaysVacant, MapIsLiveGuards, DistinctDigests,
      NeverMisplaced, Registered, InCritical, Digests
<1> QED BY <1>1, Inductive, PTL DEF Spec

\* Two live guards never share a digest, however many threads deploy however
\* many identical transactions: the retry loop separates them.
THEOREM DigestsDistinct == Spec => []DistinctDigests
<1>1. IInv => DistinctDigests
  BY DEF IInv
<1> QED BY <1>1, Invariant, PTL

\* A thread's live digest leads to the target it asked for and to no other.
THEOREM EntriesOwned == Spec => []OwnEntry
<1>1. IInv => OwnEntry
  <2> SUFFICES ASSUME IInv, NEW t \in Threads, pc[t] \in Registered,
                      NEW e \in map, e.digest = digest(t)
               PROVE  e.id = target[t]
    BY DEF OwnEntry
  <2>1. PICK u \in Threads :
          pc[u] \in Registered /\ e = [digest |-> digest(u), id |-> target[u]]
    BY DEF IInv, MapIsLiveGuards
  <2>2. digest(u) = digest(t)
    BY <2>1
  <2>3. u = t
    BY <2>1, <2>2 DEF IInv, DistinctDigests
  <2> QED BY <2>1, <2>3
<1> QED BY <1>1, Invariant, PTL

\* The shared map holds the live registrations and nothing else: failed and
\* panicking executions leak no entry and no drop removes another's entry.
THEOREM MapNeverLeaks == Spec => []NoLeak
<1>1. IInv => NoLeak
  <2> SUFFICES ASSUME IInv PROVE NoLeak
    OBVIOUS
  <2>1. ASSUME NEW e \in map
        PROVE  \E t \in {u \in Threads : pc[u] \in Registered} : e.digest = digest(t)
    BY DEF IInv, MapIsLiveGuards
  <2>2. ASSUME NEW t \in Threads, pc[t] \in Registered
        PROVE  \E e \in map : e.digest = digest(t)
    <3>1. [digest |-> digest(t), id |-> target[t]] \in map
      BY <2>2 DEF IInv, MapIsLiveGuards
    <3> QED BY <3>1
  <2> QED BY <2>1, <2>2 DEF NoLeak
<1> QED BY <1>1, Invariant, PTL

\* A publish is always told the id its own caller pinned.
THEOREM PublishPinned == Spec => []NeverMisplaced
<1>1. IInv => NeverMisplaced
  BY DEF IInv
<1> QED BY <1>1, Invariant, PTL

-----------------------------------------------------------------------------
\* An answer that outlives the lookup is still the caller's own pin: nobody
\* writes another thread's answer, and a failed execution loses its own.
AnswerKept ==
  \A t \in Threads :
    /\ pc[t] \in {"looked", "failed", "dropping", "executed"} => found[t] \in {None, target[t]}
    /\ pc[t] \in {"register", "entry", "insert", "running", "lookup"} => found[t] = None

LEMMA AnswerStep == IInv /\ AnswerKept /\ [Next]_vars => AnswerKept'
<1> SUFFICES ASSUME IInv, AnswerKept, [Next]_vars PROVE AnswerKept'
  OBVIOUS
<1>0. IInv'
  BY Inductive
<1> USE DEF IInv, TypeOK, Registered, AnswerKept, Goto, Acquire, Release
<1>1. ASSUME NEW t \in Threads, NEW p \in Payloads, NEW id \in Targets,
             deploy_contract(t, p, id)
      PROVE  AnswerKept'
  BY <1>1 DEF deploy_contract
<1>2. ASSUME NEW t \in Threads, Step(t) PROVE AnswerKept'
  <2>1. CASE register_lock(t)
    BY <2>1 DEF register_lock
  <2>2. CASE entry_vacant(t)
    BY <2>2 DEF entry_vacant
  <2>3. CASE entry_occupied(t)
    BY <2>3 DEF entry_occupied
  <2>4. CASE entry_insert(t)
    BY <2>4 DEF entry_insert
  <2>5. CASE lookup_lock(t)
    BY <2>5 DEF lookup_lock
  <2>6. CASE targeted_deployment(t)
    <3>1. found'[t] = target[t]
      BY <1>0, <2>6 DEF targeted_deployment, NeverMisplaced
    <3>2. \A u \in Threads \ {t} : found'[u] = found[u] /\ pc'[u] = pc[u]
      BY <2>6 DEF targeted_deployment
    <3> QED BY <2>6, <3>1, <3>2 DEF targeted_deployment
  <2>7. CASE execution_fails(t)
    BY <2>7 DEF execution_fails
  <2>8. CASE drop_lock(t)
    BY <2>8 DEF drop_lock
  <2>9. CASE GlobalDeployment_drop(t)
    BY <2>9 DEF GlobalDeployment_drop
  <2>10. CASE finish_deployment(t)
    BY <2>10 DEF finish_deployment
  <2> QED BY <1>2, <2>1, <2>2, <2>3, <2>4, <2>5, <2>6, <2>7, <2>8, <2>9, <2>10 DEF Step
<1>3. CASE UNCHANGED vars
  BY <1>3 DEF vars
<1> QED BY <1>1, <1>2, <1>3 DEF Next

\* Every step of the protocol is one step of the abstract publication or is
\* invisible in it.
LEMMA StepRefines ==
  IInv /\ AnswerKept /\ IInv' /\ [Next]_vars => [Abs!Next]_(Abs!vars)
<1> SUFFICES ASSUME IInv, AnswerKept, IInv', [Next]_vars PROVE [Abs!Next]_(Abs!vars)
  OBVIOUS
<1> USE ConstantsAssumption
    DEF IInv, TypeOK, Registered, AnswerKept, NeverMisplaced, Goto, Acquire, Release, Abs!vars, Abs!Next,
        phase, answer, Told, Aborted
<1>1. ASSUME NEW t \in Threads, NEW p \in Payloads, NEW id \in Targets,
             deploy_contract(t, p, id)
      PROVE  Abs!Request(t, id)
  BY <1>1 DEF deploy_contract, Abs!Request
<1>2. ASSUME NEW t \in Threads,
             \/ register_lock(t) \/ entry_vacant(t) \/ entry_occupied(t) \/ entry_insert(t)
             \/ lookup_lock(t) \/ drop_lock(t) \/ GlobalDeployment_drop(t)
      PROVE  UNCHANGED Abs!vars
  <2>1. phase' = phase
    BY <1>2 DEF register_lock, entry_vacant, entry_occupied, entry_insert, lookup_lock,
                drop_lock, GlobalDeployment_drop
  <2>2. answer' = answer
    BY <1>2 DEF register_lock, entry_vacant, entry_occupied, entry_insert, lookup_lock,
                drop_lock, GlobalDeployment_drop
  <2>3. UNCHANGED <<target, placed>>
    BY <1>2 DEF register_lock, entry_vacant, entry_occupied, entry_insert, lookup_lock,
                drop_lock, GlobalDeployment_drop
  <2> QED BY <2>1, <2>2, <2>3
<1>3. ASSUME NEW t \in Threads, targeted_deployment(t) PROVE Abs!Publish(t)
  <2>1. found'[t] = target[t] /\ target[t] # None
    BY <1>3 DEF targeted_deployment
  <2>2. pc[t] = "lookup" /\ pc' = [pc EXCEPT ![t] = "looked"] /\ UNCHANGED <<target, placed>>
    BY <1>3 DEF targeted_deployment
  <2>3. found' = [found EXCEPT ![t] = target[t]]
    BY <1>3, <2>1 DEF targeted_deployment
  <2>4. phase[t] = "pending" /\ phase' = [phase EXCEPT ![t] = "told"]
    BY <2>2, <2>3
  <2>5. answer' = [answer EXCEPT ![t] = target[t]]
    BY <2>2, <2>3
  <2> QED BY <2>2, <2>4, <2>5 DEF Abs!Publish
<1>4. ASSUME NEW t \in Threads, execution_fails(t) PROVE Abs!Abort(t)
  BY <1>4 DEF execution_fails, Abs!Abort
<1>5. ASSUME NEW t \in Threads, finish_deployment(t) PROVE Abs!Finish(t)
  BY <1>5 DEF finish_deployment, Abs!Finish
<1>6. CASE UNCHANGED vars
  BY <1>6 DEF vars
<1> QED BY <1>1, <1>2, <1>3, <1>4, <1>5, <1>6 DEF Next, Step

\* The protocol around TARGET_DEPLOYMENT implements the publication its callers
\* rely on, for any number of threads and of identical transactions: each
\* publish is told its own caller's pin and is committed there or nowhere.
THEOREM Refinement == Spec => ImplementsPinned
<1>1. Init => Abs!Init
  BY DEF Init, Abs!Init, phase, answer, Told, Aborted
<1>2. Init => AnswerKept
  BY DEF Init, AnswerKept
<1> QED BY <1>1, <1>2, Invariant, AnswerStep, StepRefines, PTL DEF Spec, ImplementsPinned, Abs!Spec
=============================================================================
