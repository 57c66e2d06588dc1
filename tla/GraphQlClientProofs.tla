------------------------ MODULE GraphQlClientProofs ------------------------
(***************************************************************************)
(* Proofs about GraphQlClient for any number of tasks, permits, objects    *)
(* and checkpoints, and any page size.                                     *)
(***************************************************************************)
EXTENDS GraphQlClient, SequenceTheorems, FiniteSetTheorems, TLAPS

Increasing(s) == \A i, j \in 1..Len(s) : i < j => s[i] < s[j]

Asking == {"query", "queued", "sending", "backoff"}

TypeInv ==
  /\ tip \in Nat /\ born \in [Objects -> Nat] /\ died \in [Objects -> Nat]
  /\ op = [t \in Tasks |-> op[t]] /\ pc = [t \in Tasks |-> pc[t]]
  /\ after \in [Tasks -> Nat] /\ out \in [Tasks -> Seq(Objects)]

\* A permit is in the hands of a task exactly while its query is on the wire.
PermitsInv == IsFiniteSet(holders) /\ PermitsConserved

\* What a listing has gathered on the pages before its cursor: objects of the
\* fork in order, none of those missing that the chain still lists.
Gathered(t) ==
  /\ tip >= Fork
  /\ Increasing(out[t])
  /\ \A i \in 1..Len(out[t]) : Alive(out[t][i], Fork)
  /\ pc[t] # "done" => \A i \in 1..Len(out[t]) : out[t][i] <= after[t]
  /\ \A o \in Objects :
       Alive(o, Fork) /\ Alive(o, tip) /\ (pc[t] = "done" \/ o <= after[t])
         => \E i \in 1..Len(out[t]) : out[t][i] = o

ListingInv ==
  \A t \in Tasks :
    /\ op[t] = "filter_objects" /\ pc[t] \in Asking \cup {"done"} => Gathered(t)
    /\ pc[t] = "polling" => op[t] = "wait_until_fork"

\* The inductive invariant.
IInv == TypeInv /\ PermitsInv /\ ListingInv

-----------------------------------------------------------------------------
\* A set of naturals that is not empty has a least element.
LEMMA LeastNat ==
  ASSUME NEW T \in SUBSET Nat, T # {}
  PROVE  \E x \in T : \A y \in T : x <= y
<1> DEFINE R == OpToRel(<, Nat)
<1>1. IsWellFoundedOn(R, Nat)
  BY NatLessThanWellFounded
<1>2. \A x, y \in Nat : x < y => <<x, y>> \in R
  BY DEF OpToRel
<1> HIDE DEF R
<1>3. PICK x \in T : \A y \in T : ~(<<y, x>> \in R)
  BY <1>1, WFMin, Zenon
<1>4. x \in Nat /\ \A y \in T : y \in Nat /\ ~(y < x)
  BY <1>2, <1>3, Zenon
<1>5. \A y \in T : x <= y
  BY <1>4
<1> QED BY <1>5

\* A sorting of S, as a function on 1..n.
Sortings(S, n) == {s \in [1..n -> S] : \A i, j \in 1..n : i < j => s[i] < s[j]}

\* The objects of a finite set can be listed in order: the smallest one first,
\* then the others.
LEMMA SortingExists ==
  ASSUME NEW S \in SUBSET Objects
  PROVE  IsFiniteSet(S) /\ Cardinality(S) \in Nat /\ Sortings(S, Cardinality(S)) # {}
<1> DEFINE Bad == {n \in Nat : \E U \in SUBSET Objects : Cardinality(U) = n /\ Sortings(U, n) = {}}
<1>1. \A U \in SUBSET Objects : U \subseteq Nat /\ IsFiniteSet(U) /\ Cardinality(U) \in Nat
  BY ConstantsAssumption, FS_Subset, FS_CardinalityType
<1>2. Bad = {}
  <2>1. SUFFICES ASSUME Bad # {} PROVE FALSE
    OBVIOUS
  <2>2. PICK n \in Bad : \A m \in Bad : n <= m
    BY <2>1, LeastNat
  <2>3. PICK U \in SUBSET Objects : Cardinality(U) = n /\ Sortings(U, n) = {} /\ n \in Nat
    BY <2>2
  <2>4. CASE n = 0
    <3>1. 1..0 = {}
      OBVIOUS
    <3>2. [i \in 1..0 |-> i] \in Sortings(U, 0)
      BY <3>1 DEF Sortings
    <3> QED BY <2>3, <2>4, <3>2
  <2>5. CASE n # 0
    <3>1. U # {}
      BY <2>3, <2>5, FS_EmptySet
    <3>2. PICK x \in U : \A y \in U : x <= y
      BY <1>1, <3>1, LeastNat
    <3> DEFINE V == U \ {x}
    <3>3. V \in SUBSET Objects /\ Cardinality(V) = n - 1 /\ n - 1 \in Nat
      BY <1>1, <2>3, <2>5, <3>2, FS_RemoveElement
    <3>4. n - 1 \notin Bad
      BY <2>2, <2>3, <3>3
    <3>5. PICK s : s \in Sortings(V, n - 1)
      BY <3>3, <3>4
    <3> DEFINE t == [i \in 1..n |-> IF i = 1 THEN x ELSE s[i - 1]]
    <3>6. \A i \in 1..n : i # 1 => i - 1 \in 1..(n - 1)
      BY <2>3, <3>3
    <3>7. /\ \A k \in 1..(n - 1) : s[k] \in V
          /\ \A k, l \in 1..(n - 1) : k < l => s[k] < s[l]
      BY <3>5 DEF Sortings
    <3>8. \A y \in V : x < y
      BY <1>1, <3>2
    <3>9. t \in [1..n -> U]
      BY <3>2, <3>6, <3>7
    <3>10. ASSUME NEW i \in 1..n, NEW j \in 1..n, i < j PROVE t[i] < t[j]
      <4>1. j # 1 /\ j - 1 \in 1..(n - 1)
        BY <3>6, <3>10
      <4>2. CASE i = 1
        BY <3>7, <3>8, <4>1, <4>2
      <4>3. CASE i # 1
        BY <3>6, <3>7, <3>10, <4>1, <4>3
      <4> QED BY <4>2, <4>3
    <3>11. t \in Sortings(U, n)
      BY <3>9, <3>10 DEF Sortings
    <3> QED BY <2>3, <3>11
  <2> QED BY <2>4, <2>5
<1> QED BY <1>1, <1>2

\* InOrder lists each object of S once, in order.
LEMMA InOrderFacts ==
  ASSUME NEW S \in SUBSET Objects
  PROVE  /\ InOrder(S) \in Seq(S) /\ InOrder(S) \in Seq(Objects) /\ Increasing(InOrder(S))
         /\ \A i \in 1..Len(InOrder(S)) : InOrder(S)[i] \in S
         /\ \A o \in S : \E i \in 1..Len(InOrder(S)) : InOrder(S)[i] = o
<1> DEFINE n == Cardinality(S)
           s == InOrder(S)
<1>1. IsFiniteSet(S) /\ n \in Nat /\ Sortings(S, n) # {}
  BY SortingExists
<1>2. s \in [1..n -> S] /\ \A i, j \in 1..n : i < j => s[i] < s[j]
  BY <1>1 DEF InOrder, Sortings
<1> HIDE DEF s, n
<1>3. s \in Seq(S) /\ s \in Seq(Objects) /\ Len(s) = n
  BY <1>1, <1>2
<1>4. S \subseteq Nat
  BY ConstantsAssumption
<1>5. s \in Injection(1..n, S)
  <2>1. ASSUME NEW i \in 1..n, NEW j \in 1..n, s[i] = s[j] PROVE i = j
    <3>0. s[i] \in Nat
      BY <1>2, <1>4
    <3>1. ~(s[i] < s[j]) /\ ~(s[j] < s[i])
      BY <2>1, <3>0
    <3>2. i \in Int /\ j \in Int /\ ~(i < j) /\ ~(j < i)
      BY <1>1, <1>2, <3>1
    <3> QED BY <3>2
  <2> QED BY <1>2, <2>1 DEF Injection, IsInjective
<1>6. Cardinality(1..n) = n
  BY <1>1, FS_Interval
<1>7. s \in Surjection(1..n, S)
  BY <1>1, <1>5, <1>6, FS_Injection DEF n
<1>8. \A o \in S : \E i \in 1..n : s[i] = o
  BY <1>7 DEF Surjection
<1>9. Increasing(s)
  BY <1>2, <1>3 DEF Increasing
<1> QED BY <1>2, <1>3, <1>8, <1>9 DEF s

\* A page is a beginning of what is listed; unless it is all of it, it has a
\* last object, which the cursor names.
LEMMA PageFacts ==
  ASSUME NEW S \in SUBSET Objects
  PROVE  /\ Page(S) \subseteq S
         /\ \A p \in Page(S), o \in S : o <= p => o \in Page(S)
         /\ Page(S) # S => Max(Page(S)) \in Page(S) /\ \A o \in Page(S) : o <= Max(Page(S))
<1> DEFINE upTo(o) == {p \in S : p <= o}
<1>1. S \subseteq Nat /\ IsFiniteSet(S) /\ \A o \in S : o \in Nat
  BY ConstantsAssumption, SortingExists
<1>2. \A o \in S : IsFiniteSet(upTo(o)) /\ Cardinality(upTo(o)) \in Nat
  BY <1>1, FS_Subset, FS_CardinalityType
<1>3. Page(S) \subseteq S
  BY DEF Page
<1>4. ASSUME NEW p \in Page(S), NEW o \in S, o <= p PROVE o \in Page(S)
  <2>1. p \in S /\ Cardinality(upTo(p)) <= MaxPerPage
    BY DEF Page
  <2>2. upTo(o) \in SUBSET upTo(p)
    <3>1. ASSUME NEW q \in S, q <= o PROVE q <= p
      BY <1>1, <1>4, <2>1, <3>1
    <3> QED BY <3>1
  <2>3. Cardinality(upTo(o)) <= Cardinality(upTo(p))
    BY <1>2, <2>1, <2>2, FS_Subset
  <2>4. Cardinality(upTo(o)) <= MaxPerPage
    BY <1>2, <2>1, <2>3, ConstantsAssumption
  <2> QED BY <2>4 DEF Page
<1>5. ASSUME Page(S) # S
      PROVE  Max(Page(S)) \in Page(S) /\ \A o \in Page(S) : o <= Max(Page(S))
  <2> DEFINE P == Page(S)
             s == InOrder(P)
  <2>1. S # {}
    BY <1>3, <1>5
  <2>2. PICK x \in S : \A y \in S : x <= y
    BY <1>1, <2>1, LeastNat
  <2>3. upTo(x) = {x}
    <3>1. x <= x
      BY <1>1
    <3>2. ASSUME NEW q \in S, q <= x PROVE q = x
      BY <1>1, <2>2, <3>2
    <3> QED BY <3>1, <3>2
  <2>4. Cardinality(upTo(x)) = 1
    BY <2>3, FS_Singleton
  <2>5. x \in P
    BY <2>4, ConstantsAssumption DEF Page
  <2>6. P \in SUBSET Objects /\ P \subseteq Nat
    BY <1>1, <1>3
  <2> HIDE DEF P
  <2>7. /\ s \in Seq(P) /\ Increasing(s)
        /\ \A i \in 1..Len(s) : s[i] \in P
        /\ \A o \in P : \E i \in 1..Len(s) : s[i] = o
    BY <2>6, InOrderFacts
  <2> HIDE DEF s
  <2>8. Len(s) \in Nat /\ Len(s) # 0
    BY <2>5, <2>7
  <2>9. ASSUME NEW o \in P PROVE o <= s[Len(s)]
    <3>1. PICK i \in 1..Len(s) : s[i] = o
      BY <2>7
    <3>2. Len(s) \in 1..Len(s) /\ (i = Len(s) \/ i < Len(s))
      BY <2>8
    <3>3. o = s[Len(s)] \/ o < s[Len(s)]
      BY <2>7, <3>1, <3>2 DEF Increasing
    <3>4. o \in Nat /\ s[Len(s)] \in Nat
      BY <2>6, <2>7, <3>2
    <3> QED BY <3>3, <3>4
  <2>10. s[Len(s)] \in P
    BY <2>7, <2>8
  <2>11. \E m \in P : \A o \in P : m >= o
    BY <2>6, <2>9, <2>10
  <2>12. Max(P) \in P /\ \A o \in P : Max(P) >= o
    BY <2>11 DEF Max
  <2> QED BY <2>6, <2>12 DEF P
<1> QED BY <1>3, <1>4, <1>5

\* Two increasing lists, the second one beyond a bound of the first, make one.
LEMMA ConcatFacts ==
  ASSUME NEW s \in Seq(Objects), NEW u \in Seq(Objects), NEW a \in Nat, Increasing(s), Increasing(u),
         \A i \in 1..Len(s) : s[i] <= a, \A i \in 1..Len(u) : a < u[i]
  PROVE  /\ s \o u \in Seq(Objects) /\ Increasing(s \o u)
         /\ \A i \in 1..Len(s \o u) : (\E k \in 1..Len(s) : (s \o u)[i] = s[k])
                                       \/ (\E k \in 1..Len(u) : (s \o u)[i] = u[k])
         /\ \A k \in 1..Len(s) : \E i \in 1..Len(s \o u) : (s \o u)[i] = s[k]
         /\ \A k \in 1..Len(u) : \E i \in 1..Len(s \o u) : (s \o u)[i] = u[k]
<1> DEFINE r == s \o u
<1>1. /\ r \in Seq(Objects) /\ Len(r) = Len(s) + Len(u) /\ Len(s) \in Nat /\ Len(u) \in Nat
      /\ \A i \in 1..(Len(s) + Len(u)) : r[i] = IF i <= Len(s) THEN s[i] ELSE u[i - Len(s)]
  BY ConcatProperties
<1>2. /\ \A i \in 1..Len(s) : s[i] \in Nat
      /\ \A i \in 1..Len(u) : u[i] \in Nat
  BY ConstantsAssumption, ElementOfSeq
<1> HIDE DEF r
<1>3. ASSUME NEW i \in 1..Len(r)
      PROVE  \/ i \in 1..Len(s) /\ r[i] = s[i]
             \/ ~(i <= Len(s)) /\ i - Len(s) \in 1..Len(u) /\ r[i] = u[i - Len(s)]
  <2>1. i \in 1..(Len(s) + Len(u))
    BY <1>1
  <2>2. r[i] = IF i <= Len(s) THEN s[i] ELSE u[i - Len(s)]
    BY <1>1, <2>1
  <2>3. IF i <= Len(s) THEN i \in 1..Len(s) ELSE i - Len(s) \in 1..Len(u)
    BY <1>1, <2>1
  <2> QED BY <2>2, <2>3
<1>4. \A k \in 1..Len(s) : k \in 1..Len(r) /\ r[k] = s[k]
  BY <1>1
<1>5. \A k \in 1..Len(u) : k + Len(s) \in 1..Len(r) /\ r[k + Len(s)] = u[k]
  BY <1>1
<1>6. ASSUME NEW i \in 1..Len(r), NEW j \in 1..Len(r), i < j PROVE r[i] < r[j]
  <2>1. CASE j \in 1..Len(s) /\ r[j] = s[j]
    <3>1. i \in 1..Len(s) /\ r[i] = s[i]
      BY <1>1, <1>3, <1>6, <2>1
    <3> QED BY <1>6, <2>1, <3>1 DEF Increasing
  <2>2. CASE ~(j <= Len(s)) /\ j - Len(s) \in 1..Len(u) /\ r[j] = u[j - Len(s)]
    <3>1. CASE i \in 1..Len(s) /\ r[i] = s[i]
      BY <1>2, <2>2, <3>1, SMTT(30)
    <3>2. CASE ~(i <= Len(s)) /\ i - Len(s) \in 1..Len(u) /\ r[i] = u[i - Len(s)]
      <4>1. i - Len(s) < j - Len(s)
        BY <1>1, <1>6
      <4> QED BY <2>2, <3>2, <4>1 DEF Increasing
    <3> QED BY <1>3, <3>1, <3>2
  <2> QED BY <1>3, <2>1, <2>2
<1>7. Increasing(r)
  BY <1>6 DEF Increasing
<1> QED BY <1>1, <1>3, <1>4, <1>5, <1>7 DEF r

-----------------------------------------------------------------------------
\* The next page: what it adds lies beyond the cursor, and nothing between the
\* old and the new cursor is left out.
LEMMA NextPage ==
  ASSUME TypeInv, NEW t \in Tasks, Gathered(t), pc[t] # "done", filter_objects(t)
  PROVE  out'[t] \in Seq(Objects) /\ after'[t] \in Nat /\ Gathered(t)'
<1> DEFINE S == Listed(after[t])
           P == Page(S)
           u == InOrder({o \in P : Alive(o, Fork)})
           more == P # S
<1>1. /\ out'[t] = out[t] \o u
      /\ after'[t] = IF more THEN Max(P) ELSE after[t]
      /\ pc'[t] = IF more THEN "query" ELSE "done"
      /\ UNCHANGED <<born, died, tip>>
  BY DEF filter_objects, Goto, chain, TypeInv
<1>2. S \in SUBSET Objects
  BY DEF Listed
<1>3. /\ P \in SUBSET S
      /\ \A p \in P, o \in S : o <= p => o \in P
      /\ more => Max(P) \in P /\ \A o \in P : o <= Max(P)
  BY <1>2, PageFacts
<1>4. {o \in P : Alive(o, Fork)} \in SUBSET Objects
  BY <1>2, <1>3
<1>5. /\ u \in Seq(Objects) /\ Increasing(u)
      /\ \A i \in 1..Len(u) : u[i] \in P /\ Alive(u[i], Fork)
      /\ \A o \in P : Alive(o, Fork) => \E i \in 1..Len(u) : u[i] = o
  BY <1>4, InOrderFacts
<1>6. /\ after[t] \in Nat /\ out[t] \in Seq(Objects) /\ Objects \subseteq Nat
      /\ \A i \in 1..Len(out[t]) : out[t][i] \in Nat
  BY ConstantsAssumption, ElementOfSeq DEF TypeInv
<1>7. \A o \in S : o > after[t] /\ o \in Nat
  BY <1>2, <1>6 DEF Listed
<1> HIDE DEF u
<1>8. \A i \in 1..Len(u) : after[t] < u[i]
  BY <1>3, <1>5, <1>6, <1>7
<1> DEFINE r == out[t] \o u
<1>9. /\ r \in Seq(Objects) /\ Increasing(r)
      /\ \A i \in 1..Len(r) : (\E k \in 1..Len(out[t]) : r[i] = out[t][k])
                              \/ (\E k \in 1..Len(u) : r[i] = u[k])
      /\ \A k \in 1..Len(out[t]) : \E i \in 1..Len(r) : r[i] = out[t][k]
      /\ \A k \in 1..Len(u) : \E i \in 1..Len(r) : r[i] = u[k]
  BY <1>5, <1>6, <1>8, ConcatFacts DEF Gathered
<1> HIDE DEF r
<1>10. \A c, o : Alive(o, c)' <=> Alive(o, c')
  BY <1>1 DEF Alive
<1>11. \A i \in 1..Len(r) : Alive(r[i], Fork)
  BY <1>5, <1>9 DEF Gathered
<1>12. more => \A i \in 1..Len(r) : r[i] <= Max(P)
  <2> SUFFICES ASSUME more, NEW i \in 1..Len(r) PROVE r[i] <= Max(P)
    OBVIOUS
  <2>1. Max(P) \in Nat /\ after[t] < Max(P)
    BY <1>3, <1>6, <1>7
  <2>2. CASE \E k \in 1..Len(u) : r[i] = u[k]
    BY <1>3, <1>5, <2>2
  <2>3. CASE \E k \in 1..Len(out[t]) : r[i] = out[t][k]
    BY <1>6, <2>1, <2>3 DEF Gathered
  <2> QED BY <1>9, <2>2, <2>3
<1>13. ASSUME NEW o \in Objects, Alive(o, Fork), Alive(o, tip), more => o <= Max(P)
       PROVE  \E i \in 1..Len(r) : r[i] = o
  <2>1. o \in Nat
    BY <1>6
  <2>2. CASE o <= after[t]
    <3>1. PICK k \in 1..Len(out[t]) : out[t][k] = o
      BY <1>13, <2>2 DEF Gathered
    <3> QED BY <1>9, <3>1
  <2>3. CASE o > after[t]
    <3>1. o \in S
      BY <1>13, <2>3 DEF Listed
    <3>2. o \in P
      BY <1>3, <1>13, <3>1
    <3>3. PICK k \in 1..Len(u) : u[k] = o
      BY <1>5, <1>13, <3>2
    <3> QED BY <1>9, <3>3
  <2> QED BY <1>6, <2>1, <2>2, <2>3
<1>14. after'[t] \in Nat
  BY <1>1, <1>3, <1>6, <1>7
<1>15. out'[t] = r
  BY <1>1 DEF r
<1> HIDE DEF P, S
<1>16. Gathered(t)'
  BY <1>1, <1>9, <1>11, <1>12, <1>13, <1>15 DEF Gathered, Alive
<1> QED BY <1>9, <1>14, <1>15, <1>16

\* The chain goes on: an object of the fork that it still lists, it listed before.
LEMMA TipMoves ==
  ASSUME TypeInv, NEW t \in Tasks, Gathered(t), tip' >= tip, tip' \in Nat,
         UNCHANGED <<born, died>>, out'[t] = out[t], after'[t] = after[t], pc[t] = "done" <=> pc'[t] = "done"
  PROVE  Gathered(t)'
<1>1. \A o \in Objects : Alive(o, Fork)' = Alive(o, Fork)
  BY DEF Alive
<1>2. Fork \in Nat /\ tip \in Nat /\ tip >= Fork /\ tip' >= Fork
  BY ConstantsAssumption DEF TypeInv, Gathered
<1>3. ASSUME NEW o \in Objects, Alive(o, Fork), Alive(o, tip)' PROVE Alive(o, tip)
  <2>1. born[o] \in Nat /\ died[o] \in Nat
    BY DEF TypeInv
  <2> QED BY <1>2, <1>3, <2>1 DEF Alive
<1>4. \A i \in 1..Len(out[t]) : out[t][i] \in Objects
  BY ElementOfSeq DEF TypeInv
<1> QED BY <1>1, <1>2, <1>3, <1>4 DEF Gathered

\* A task that gives a permit back, or none moves: the books stay balanced.
LEMMA PermitStep ==
  ASSUME TypeInv, PermitsInv, NEW t \in Tasks, NEW p, pc' = [pc EXCEPT ![t] = p],
         \/ holders' = holders /\ (p \in {"sending", "backoff"} <=> pc[t] \in {"sending", "backoff"})
         \/ holders' = holders \ {t} /\ p \notin {"sending", "backoff"}
  PROVE  PermitsInv'
<1>1. IsFiniteSet(holders \ {t}) /\ Cardinality(holders \ {t}) <= Permits
  <2>1. IsFiniteSet(holders) /\ Cardinality(holders) \in Nat /\ Cardinality(holders) <= Permits
    BY FS_CardinalityType DEF PermitsInv, PermitsConserved
  <2>2. /\ IsFiniteSet(holders \ {t})
        /\ Cardinality(holders \ {t}) = IF t \in holders THEN Cardinality(holders) - 1
                                       ELSE Cardinality(holders)
    BY <2>1, FS_RemoveElement
  <2> QED BY <2>1, <2>2, ConstantsAssumption
<1>2. pc'[t] = p /\ \A s \in Tasks : s # t => pc'[s] = pc[s]
  BY DEF TypeInv
<1> QED BY <1>1, <1>2 DEF PermitsInv, PermitsConserved

\* A step of one task that is not the arrival of a page leaves every listing
\* where it was.
LEMMA QuietStep ==
  ASSUME TypeInv, ListingInv, NEW t \in Tasks, NEW p, pc' = [pc EXCEPT ![t] = p],
         UNCHANGED <<born, died, tip, op, after, out>>,
         p = "polling" => op[t] = "wait_until_fork",
         p \in Asking => pc[t] \in Asking \/ op[t] # "filter_objects",
         p = "done" => op[t] # "filter_objects"
  PROVE  TypeInv' /\ ListingInv'
<1>1. TypeInv'
  BY DEF TypeInv
<1>2. pc'[t] = p /\ \A s \in Tasks : s # t => pc'[s] = pc[s]
  BY DEF TypeInv
<1>3. ASSUME NEW s \in Tasks, op'[s] = "filter_objects", pc'[s] \in Asking \cup {"done"}
      PROVE  Gathered(s)'
  <2>1. pc[s] \in Asking \cup {"done"} /\ (pc[s] = "done" <=> pc'[s] = "done")
    BY <1>2, <1>3 DEF Asking
  <2>2. Gathered(s)
    BY <1>3, <2>1 DEF ListingInv
  <2>3. tip' >= tip /\ tip' \in Nat
    BY DEF TypeInv
  <2> QED BY <2>1, <2>2, <2>3, TipMoves
<1>4. ASSUME NEW s \in Tasks, pc'[s] = "polling" PROVE op'[s] = "wait_until_fork"
  BY <1>2, <1>4 DEF ListingInv
<1> QED BY <1>1, <1>3, <1>4 DEF ListingInv

\* Every step of every task keeps the invariant.
LEMMA InvStep == IInv /\ [Next]_vars => IInv'
<1> SUFFICES ASSUME IInv, [Next]_vars PROVE IInv'
  OBVIOUS
<1>0. TypeInv /\ PermitsInv /\ ListingInv /\ tip \in Nat
  BY DEF IInv, TypeInv
<1>a. ASSUME NEW s \in Tasks, op[s] = "filter_objects", pc[s] \in Asking \cup {"done"},
             pc'[s] = pc[s], out'[s] = out[s], after'[s] = after[s],
             tip' \in {tip, tip + 1}, UNCHANGED <<born, died>>
      PROVE  Gathered(s)'
  <2>1. Gathered(s)
    BY <1>0, <1>a DEF ListingInv
  <2>2. tip' >= tip /\ tip' \in Nat
    BY <1>0, <1>a
  <2> QED BY <1>0, <1>a, <2>1, <2>2, TipMoves
<1>1. ASSUME NEW t \in Tasks, NEW o \in {"filter_objects", "query_objects", "wait_until_fork"}, start(t, o)
      PROVE  IInv'
  <2>1. /\ pc[t] = "idle" /\ pc' = [pc EXCEPT ![t] = "query"] /\ holders' = holders
        /\ o # "wait_until_fork" => tip >= Fork
        /\ op' = [op EXCEPT ![t] = o]
        /\ after' = [after EXCEPT ![t] = 0]
        /\ out' = [out EXCEPT ![t] = <<>>]
        /\ UNCHANGED <<born, died, tip>>
    BY <1>1 DEF start, Goto, chain
  <2>2. PermitsInv'
    BY <1>0, <2>1, PermitStep
  <2>3. TypeInv'
    <3>1. <<>> \in Seq(Objects)
      OBVIOUS
    <3> QED BY <1>0, <2>1, <3>1 DEF TypeInv
  <2>4. /\ pc'[t] = "query" /\ op'[t] = o /\ after'[t] = 0 /\ out'[t] = <<>>
        /\ \A s \in Tasks : s # t => /\ pc'[s] = pc[s] /\ op'[s] = op[s]
                                     /\ after'[s] = after[s] /\ out'[s] = out[s]
    BY <1>0, <2>1 DEF TypeInv
  <2>5. ASSUME NEW s \in Tasks, op'[s] = "filter_objects", pc'[s] \in Asking \cup {"done"}
        PROVE  Gathered(s)'
    <3>1. CASE s # t
      BY <1>a, <2>1, <2>4, <2>5, <3>1
    <3>2. CASE s = t
      <4>1. Len(out'[t]) = 0 /\ 1..0 = {} /\ \A x \in Objects : ~(x <= 0)
        BY <2>4, ConstantsAssumption
      <4> QED BY <2>1, <2>4, <2>5, <3>2, <4>1 DEF Gathered, Increasing
    <3> QED BY <3>1, <3>2
  <2>6. ListingInv'
    BY <1>0, <2>4, <2>5 DEF ListingInv
  <2> QED BY <2>2, <2>3, <2>6 DEF IInv
<1>2. ASSUME NEW t \in Tasks, acquire(t) PROVE IInv'
  <2>1. /\ pc[t] = "queued" /\ pc' = [pc EXCEPT ![t] = "sending"]
        /\ holders' = holders \cup {t} /\ Cardinality(holders) < Permits
        /\ UNCHANGED <<born, died, tip, op, after, out>>
    BY <1>2 DEF acquire, Goto, chain
  <2>2. TypeInv' /\ ListingInv'
    BY <1>0, <2>1, QuietStep DEF Asking
  <2>3. pc'[t] = "sending" /\ \A s \in Tasks : s # t => pc'[s] = pc[s]
    BY <1>0, <2>1 DEF TypeInv
  <2>4. IsFiniteSet(holders \cup {t}) /\ Cardinality(holders \cup {t}) <= Permits
    <3>1. IsFiniteSet(holders) /\ Cardinality(holders) \in Nat
      BY <1>0, FS_CardinalityType DEF PermitsInv
    <3>2. /\ IsFiniteSet(holders \cup {t})
          /\ Cardinality(holders \cup {t}) = IF t \in holders THEN Cardinality(holders)
                                            ELSE Cardinality(holders) + 1
      BY <3>1, FS_AddElement
    <3> QED BY <2>1, <3>1, <3>2, ConstantsAssumption
  <2>5. PermitsInv'
    BY <1>0, <2>1, <2>3, <2>4 DEF PermitsInv, PermitsConserved
  <2> QED BY <2>2, <2>5 DEF IInv
<1>3. ASSUME NEW t \in Tasks, filter_objects(t) PROVE IInv'
  <2> DEFINE p == pc'[t]
  <2>1. /\ pc[t] = "sending" /\ op[t] = "filter_objects" /\ holders' = holders \ {t}
        /\ p \in {"query", "done"} /\ pc' = [pc EXCEPT ![t] = p]
        /\ out' = [out EXCEPT ![t] = out'[t]]
        /\ after' = [after EXCEPT ![t] = after'[t]]
        /\ UNCHANGED <<born, died, tip, op>>
    BY <1>0, <1>3 DEF filter_objects, Goto, Release, chain, TypeInv
  <2>2. PermitsInv'
    <3> HIDE DEF p
    <3> QED BY <1>0, <2>1, PermitStep
  <2>3. out'[t] \in Seq(Objects) /\ after'[t] \in Nat /\ Gathered(t)'
    BY <1>0, <1>3, <2>1, NextPage DEF ListingInv, Asking
  <2>4. TypeInv'
    BY <1>0, <2>1, <2>3 DEF TypeInv
  <2>5. \A s \in Tasks : s # t => /\ pc'[s] = pc[s] /\ op'[s] = op[s]
                                 /\ after'[s] = after[s] /\ out'[s] = out[s]
    BY <1>0, <2>1 DEF TypeInv
  <2>6. ASSUME NEW s \in Tasks, op'[s] = "filter_objects", pc'[s] \in Asking \cup {"done"}
        PROVE  Gathered(s)'
    <3>1. CASE s # t
      BY <1>a, <2>1, <2>5, <2>6, <3>1
    <3> QED BY <2>3, <3>1
  <2>7. ListingInv'
    BY <1>0, <2>1, <2>5, <2>6 DEF ListingInv
  <2> QED BY <2>2, <2>4, <2>7 DEF IInv
<1>4. ASSUME NEW t \in Tasks, query_objects(t) PROVE IInv'
  <2> DEFINE all == {o \in Objects : Alive(o, Fork)}
  <2>1. /\ pc[t] = "sending" /\ op[t] = "query_objects" /\ holders' = holders \ {t}
        /\ pc' = [pc EXCEPT ![t] = "done"]
        /\ out' = [out EXCEPT ![t] = InOrder(all)]
        /\ UNCHANGED <<born, died, tip, op, after>>
    BY <1>4 DEF query_objects, Goto, Release, chain
  <2>2. PermitsInv'
    BY <1>0, <2>1, PermitStep
  <2>3. TypeInv'
    BY <1>0, <2>1, InOrderFacts DEF TypeInv
  <2>4. \A s \in Tasks : s # t => pc'[s] = pc[s] /\ out'[s] = out[s]
    BY <1>0, <2>1 DEF TypeInv
  <2>5. ASSUME NEW s \in Tasks, op'[s] = "filter_objects", pc'[s] \in Asking \cup {"done"}
        PROVE  Gathered(s)'
    BY <1>a, <2>1, <2>4, <2>5
  <2>6. pc'[t] = "done"
    BY <1>0, <2>1 DEF TypeInv
  <2>7. ListingInv'
    BY <1>0, <2>1, <2>4, <2>5, <2>6 DEF ListingInv
  <2> QED BY <2>2, <2>3, <2>7 DEF IInv
<1>5. ASSUME next_checkpoint PROVE IInv'
  <2>1. /\ tip' = tip + 1 /\ UNCHANGED <<born, died, holders, op, pc, after, out>>
    BY <1>5 DEF next_checkpoint, chain
  <2>2. TypeInv' /\ PermitsInv'
    BY <1>0, <2>1 DEF TypeInv, PermitsInv, PermitsConserved
  <2>3. ASSUME NEW s \in Tasks, op'[s] = "filter_objects", pc'[s] \in Asking \cup {"done"}
        PROVE  Gathered(s)'
    BY <1>a, <2>1, <2>3
  <2> QED BY <1>0, <2>1, <2>2, <2>3 DEF IInv, ListingInv
<1>6. ASSUME NEW t \in Tasks, NEW p, pc' = [pc EXCEPT ![t] = p],
             UNCHANGED <<born, died, tip, op, after, out>>,
             \/ holders' = holders /\ (p \in {"sending", "backoff"} <=> pc[t] \in {"sending", "backoff"})
             \/ holders' = holders \ {t} /\ p \notin {"sending", "backoff"},
             p = "polling" => op[t] = "wait_until_fork",
             p \in Asking => pc[t] \in Asking \/ op[t] # "filter_objects",
             p = "done" => op[t] # "filter_objects"
      PROVE  IInv'
  <2>1. PermitsInv'
    BY <1>0, <1>6, PermitStep
  <2>2. TypeInv' /\ ListingInv'
    BY <1>0, <1>6, QuietStep
  <2> QED BY <2>1, <2>2 DEF IInv
<1>7. ASSUME NEW t \in Tasks, acquire_wait(t) PROVE IInv'
  BY <1>7, <1>6 DEF acquire_wait, Goto, chain, Asking
<1>8. ASSUME NEW t \in Tasks, response_rejected(t) PROVE IInv'
  BY <1>8, <1>6 DEF response_rejected, Goto, Release, chain, Asking
<1>9. ASSUME NEW t \in Tasks, response_unreadable(t) PROVE IInv'
  BY <1>9, <1>6 DEF response_unreadable, Goto, chain, Asking
<1>10. ASSUME NEW t \in Tasks, backoff_over(t) PROVE IInv'
  BY <1>10, <1>6 DEF backoff_over, Goto, Release, chain, Asking
<1>11. ASSUME NEW t \in Tasks, wait_until_fork(t) PROVE IInv'
  BY <1>11, <1>6 DEF wait_until_fork, Goto, Release, chain, Asking
<1>12. ASSUME NEW t \in Tasks, poll_again(t) PROVE IInv'
  BY <1>0, <1>12, <1>6 DEF poll_again, Goto, chain, Asking, ListingInv
<1>13. ASSUME NEW t \in Tasks, return(t) PROVE IInv'
  BY <1>13, <1>6 DEF return, Goto, chain, Asking
<1>14. CASE UNCHANGED vars
  <2>1. TypeInv' /\ PermitsInv'
    BY <1>0, <1>14 DEF vars, TypeInv, PermitsInv, PermitsConserved
  <2>2. ASSUME NEW s \in Tasks, op'[s] = "filter_objects", pc'[s] \in Asking \cup {"done"}
        PROVE  Gathered(s)'
    BY <1>a, <1>14, <2>2 DEF vars
  <2> QED BY <1>0, <1>14, <2>1, <2>2 DEF IInv, ListingInv, vars
<1> QED BY <1>1, <1>2, <1>3, <1>4, <1>5, <1>7, <1>8, <1>9, <1>10, <1>11, <1>12, <1>13, <1>14
        DEF Next, Step

\* The client starts idle, with every permit in the semaphore.
LEMMA InitInv == Init => IInv
<1> SUFFICES ASSUME Init PROVE IInv
  OBVIOUS
<1>1. TypeInv
  <2>1. MaxTip \in Nat /\ 0..Fork \subseteq Nat /\ 0..MaxTip \subseteq Nat /\ 1..(MaxTip + 1) \subseteq Nat
    BY ConstantsAssumption
  <2> QED BY <2>1 DEF Init, TypeInv
<1>2. PermitsInv
  BY FS_EmptySet, ConstantsAssumption DEF Init, PermitsInv, PermitsConserved
<1>3. ListingInv
  BY DEF Init, ListingInv, Asking
<1> QED BY <1>1, <1>2, <1>3 DEF IInv

\* Every state the tasks reach satisfies the invariant.
LEMMA InvHolds == Spec => []IInv
BY InitInv, InvStep, PTL DEF Spec

-----------------------------------------------------------------------------
\* For any number of tasks and permits: never more queries on the wire than
\* permits, and none held by a task whose query is over, failed or not.
THEOREM PermitsAlwaysConserved == Spec => []PermitsConserved
<1>1. IInv => PermitsConserved
  BY DEF IInv, PermitsInv
<1> QED BY <1>1, InvHolds, PTL

\* For any page size and however the chain moves between the pages, a finished
\* listing is in order, free of repetitions and of objects the fork does not
\* have, and complete for those the chain still lists.
THEOREM ListingAlwaysFaithful == Spec => []ListingFaithful
<1>1. IInv => ListingFaithful
  <2> SUFFICES ASSUME IInv, NEW t \in Tasks, pc[t] = "done", op[t] = "filter_objects"
               PROVE  /\ \A i \in 1..(Len(out[t]) - 1) : out[t][i] < out[t][i + 1]
                      /\ \A i \in 1..Len(out[t]) : Alive(out[t][i], Fork)
                      /\ \A o \in Objects : Alive(o, Fork) /\ Alive(o, tip)
                           => \E i \in 1..Len(out[t]) : out[t][i] = o
    BY DEF ListingFaithful
  <2>1. Gathered(t) /\ Len(out[t]) \in Nat
    BY DEF IInv, ListingInv, TypeInv
  <2>2. \A i \in 1..(Len(out[t]) - 1) : out[t][i] < out[t][i + 1]
    BY <2>1 DEF Gathered, Increasing
  <2> QED BY <2>1, <2>2 DEF Gathered
<1> QED BY <1>1, InvHolds, PTL
=============================================================================
