--------------------------- MODULE BuildEnvProofs ---------------------------
(***************************************************************************)
(* Proofs that a built environment is loadable, that packages are deployed *)
(* after what they depend on and that names resolve (BuildEnv), for any    *)
(* manifests, command lines, linkages and failures.                        *)
(***************************************************************************)
EXTENDS BuildEnv, FiniteSetTheorems, WellFoundedInduction, NaturalsInduction, TLAPS

Linked(c) == \A o \in DOMAIN Linkage[c] : Present(Linkage[c][o])
FetchedLinked == \A c \in fetched : Linked(c)
DoneLoaded == pc = "done" => \A o \in objects : \A a \in o.ty : Present(a)

\* What every step but a fetch does: nothing leaves the store, nothing is fetched.
Keeps == args' = args /\ DOMAIN db \subseteq DOMAIN db' /\ fetched' = fetched

\* Present is stable: commits add to the store.
LEMMA PresentStable ==
  ASSUME args' = args, DOMAIN db \subseteq DOMAIN db', NEW id, Present(id)
  PROVE  Present(id)'
  BY DEF Present

LEMMA PutDomain ==
  ASSUME NEW d, NEW ids, NEW code
  PROVE  DOMAIN Put(d, ids, code) = DOMAIN d \cup ids
  BY DEF Put

\* A fetch only adds to the store, and one that succeeds adds all it links to.
LEMMA FetchAdds ==
  ASSUME NEW id, NEW r \in fetch_package_at_address(id)
  PROVE  /\ DOMAIN db \subseteq DOMAIN r.db
         /\ r.ok => {id} \cup missing_upgrades(id) \subseteq DOMAIN r.db
<1>1. CASE r = [ok |-> FALSE, db |-> db]
  BY <1>1
<1>2. CASE r = [ok |-> TRUE, db |-> Put(db, missing_upgrades(id) \cup {id}, {})]
  <2>1. PICK S : S = missing_upgrades(id) \cup {id}
    OBVIOUS
  <2>2. r.db = Put(db, S, {})
    BY <1>2, <2>1
  <2>3. DOMAIN r.db = DOMAIN db \cup S
    BY <2>2, PutDomain
  <2>4. QED  BY <2>1, <2>3
<1>3. ASSUME NEW S \in SUBSET missing_upgrades(id), r = [ok |-> FALSE, db |-> Put(db, S, {})]
      PROVE  DOMAIN db \subseteq DOMAIN r.db /\ ~r.ok
  <2>1. r.db = Put(db, S, {}) /\ ~r.ok
    BY <1>3
  <2>2. DOMAIN r.db = DOMAIN db \cup S
    BY <2>1, PutDomain
  <2>3. QED  BY <2>1, <2>2
<1>4. QED  BY <1>1, <1>2, <1>3 DEF fetch_package_at_address

\* After a successful fetch the package is linked.
LEMMA FetchLinks ==
  ASSUME args' = args, NEW id, NEW r \in fetch_package_at_address(id), db' = r.db, r.ok
  PROVE  Linked(id)'
<1> SUFFICES ASSUME NEW o \in DOMAIN Linkage[id] PROVE Present(Linkage[id][o])'
  BY DEF Linked
<1>1. DOMAIN db \subseteq DOMAIN db' /\ missing_upgrades(id) \subseteq DOMAIN db'
  BY FetchAdds
<1>2. CASE Present(Linkage[id][o])
  BY <1>1, <1>2, PresentStable
<1>3. CASE ~Present(Linkage[id][o])
  <2>1. Linkage[id][o] \in missing_upgrades(id)
    BY <1>3 DEF missing_upgrades
  <2>2. QED  BY <2>1, <1>1 DEF Present
<1>4. QED  BY <1>2, <1>3

LEMMA KeepsLinked ==
  ASSUME FetchedLinked, Keeps
  PROVE  FetchedLinked'
  BY PresentStable DEF FetchedLinked, Linked, Keeps

\* A fetch preserves the invariant.
LEMMA FetchKeepsLinked ==
  ASSUME FetchedLinked, args' = args, NEW id, NEW r \in fetch_package_at_address(id), db' = r.db,
         fetched' = IF r.ok THEN fetched \cup {id} ELSE fetched
  PROVE  FetchedLinked'
<1>1. DOMAIN db \subseteq DOMAIN db'
  BY FetchAdds
<1>2. \A c \in fetched : Linked(c)'
  BY <1>1, PresentStable DEF FetchedLinked, Linked
<1>3. r.ok => Linked(id)'
  BY FetchLinks
<1>4. QED  BY <1>2, <1>3 DEF FetchedLinked

\* Publishing adds to the store.
LEMMA PublishAdds ==
  ASSUME NEW id, Publish(id)
  PROVE  DOMAIN db \subseteq DOMAIN db'
<1>1. PICK at, code : db' = Put(db, {at}, code)
  BY DEF Publish
<1>2. DOMAIN db' = DOMAIN db \cup {at}
  BY <1>1, PutDomain
<1>3. QED  BY <1>2

\* All packages handed out by fetch_package_at_address are linkable, after failed
\* fetches, deployments and upgrades, and every type of an object of a finished
\* environment can be loaded (build_env, fetch_package_at_address, load_inner_types).
THEOREM AlwaysLoadable == Spec => []Loadable
<1> DEFINE IInv == FetchedLinked /\ DoneLoaded
<1>1. Init => IInv
  BY DEF Init, FetchedLinked, DoneLoaded
<1>2. IInv /\ [Next]_vars => IInv'
  <2> SUFFICES ASSUME FetchedLinked, DoneLoaded, [Next]_vars PROVE FetchedLinked' /\ DoneLoaded'
    OBVIOUS
  <2>1. CASE resolve
    BY <2>1, KeepsLinked DEF resolve, Goto, Fail, Keeps, DoneLoaded
  <2>1a. CASE locals_resolved
    BY <2>1a, KeepsLinked DEF locals_resolved, Goto, Keeps, DoneLoaded
  <2>2. CASE fetch_onchain
    <3>0. PICK id : id = args.onchains[next]
      OBVIOUS
    <3>1. PICK r \in fetch_package_at_address(id) :
            db' = r.db /\ fetched' = IF r.ok THEN fetched \cup {id} ELSE fetched
      BY <2>2, <3>0 DEF fetch_onchain
    <3>2. args' = args /\ pc' # "done"
      BY <2>2 DEF fetch_onchain, Goto, Fail
    <3>3. FetchedLinked'
      BY <3>1, <3>2, FetchKeepsLinked
    <3>4. QED  BY <3>2, <3>3 DEF DoneLoaded
  <2>3. CASE onchains_fetched
    BY <2>3, KeepsLinked DEF onchains_fetched, Goto, Keeps, DoneLoaded
  <2>4. CASE load_history
    BY <2>4, KeepsLinked DEF load_history, Goto, Fail, Keeps, DoneLoaded
  <2>5. CASE histories_loaded
    BY <2>5, KeepsLinked DEF histories_loaded, Goto, Keeps, DoneLoaded
  <2>6. CASE load_inner_types
    BY <2>6, KeepsLinked DEF load_inner_types, Goto, Fail, Keeps, DoneLoaded
  <2>7. CASE bundled_local_package_mapping
    BY <2>7, KeepsLinked DEF bundled_local_package_mapping, Keeps, DoneLoaded
  <2>8. CASE load_local
    BY <2>8, KeepsLinked DEF load_local, Goto, Fail, Keeps, DoneLoaded
  <2>9. CASE fetch_dependency
    <3>1. args' = args /\ pc' # "done"
      BY <2>9 DEF fetch_dependency
    <3>2. PICK dep \in work :
            \/ db' = db /\ fetched' = fetched
            \/ \E r \in fetch_package_at_address(dep) :
                 db' = r.db /\ fetched' = IF r.ok THEN fetched \cup {dep} ELSE fetched
      BY <2>9 DEF fetch_dependency
    <3>3. FetchedLinked'
      <4>1. CASE db' = db /\ fetched' = fetched
        BY <4>1, <3>1, KeepsLinked DEF Keeps
      <4>2. CASE \E r \in fetch_package_at_address(dep) :
                   db' = r.db /\ fetched' = IF r.ok THEN fetched \cup {dep} ELSE fetched
        BY <4>2, <3>1, FetchKeepsLinked
      <4>3. QED  BY <3>2, <4>1, <4>2
    <3>4. QED  BY <3>1, <3>3 DEF DoneLoaded
  <2>10. CASE deploy_contract
    <3>1. args' = args /\ fetched' = fetched /\ pc' # "done"
      BY <2>10 DEF deploy_contract, Goto, Fail
    <3>2. db' = db \/ \E id : Publish(id)
      BY <2>10 DEF deploy_contract
    <3>3. QED  BY <3>1, <3>2, PublishAdds, KeepsLinked DEF Keeps, DoneLoaded
  <2>11. CASE upgrade_contract
    <3>1. args' = args /\ fetched' = fetched /\ pc' # "done"
      BY <2>11 DEF upgrade_contract, Goto, Fail
    <3>2. db' = db \/ \E id : Publish(id)
      BY <2>11 DEF upgrade_contract
    <3>3. QED  BY <3>1, <3>2, PublishAdds, KeepsLinked DEF Keeps, DoneLoaded
  <2>12. CASE movy_init
    BY <2>12, KeepsLinked DEF movy_init, Goto, Fail, Keeps, DoneLoaded
  <2>13. CASE local_deployed
    BY <2>13, KeepsLinked DEF local_deployed, Goto, Keeps, DoneLoaded
  <2>14. CASE locals_deployed
    BY <2>14, KeepsLinked DEF locals_deployed, Goto, Fail, Keeps, DoneLoaded
  <2>15. CASE reload_inner_types
    <3>1. Keeps /\ objects' = objects
      BY <2>15 DEF reload_inner_types, Keeps
    <3>2. pc' = "done" => \A o \in objects : \A a \in o.ty : Present(a)
      BY <2>15 DEF reload_inner_types, Goto, Fail, loadable
    <3>3. QED  BY <3>1, <3>2, KeepsLinked, PresentStable DEF DoneLoaded, Keeps
  <2>16. CASE UNCHANGED vars
    <3>1. Keeps /\ objects' = objects /\ pc' = pc
      BY <2>16 DEF vars, Keeps
    <3>2. QED  BY <3>1, KeepsLinked, PresentStable DEF DoneLoaded, Keeps
  <2>17. QED
    BY <2>1, <2>1a, <2>2, <2>3, <2>4, <2>5, <2>6, <2>7, <2>8, <2>9, <2>10, <2>11, <2>12, <2>13, <2>14,
       <2>15, <2>16 DEF Next
<1>3. IInv => Loadable
  BY DEF FetchedLinked, Linked, DoneLoaded, Loadable
<1>4. QED  BY <1>1, <1>2, <1>3, PTL DEF Spec

-----------------------------------------------------------------------------
(* The order of deployment and what is where, for packages and pins whose    *)
(* addresses are apart.                                                      *)

Early == pc \in {"resolve", "onchains", "histories", "inner"}
Active == pc \in {"fallback", "upgrade", "init"}

\* Where the package ends up.
Home(p) == IF pinned_addresses(p) # {} THEN CHOOSE a \in pinned_addresses(p) : TRUE
           ELSE IF published(p) = Zero THEN NewId[p] ELSE published(p)

ShapeInv ==
  /\ args \in Arguments /\ order \in Seq(Locals) /\ next \in Nat \ {0}
  /\ Early => DOMAIN names = {} /\ pinned_seen = {}
  /\ pc = "inner" => next = 1

\* Dependencies come first.
DepsFirst(o) == \A i \in DOMAIN o : \A q \in Manifest[o[i]].deps : \E j \in 1..(i - 1) : o[j] = q
OrderInv == DepsFirst(order)

\* The package under way has been built without an error.
BuiltInv ==
  Active =>
    /\ next \in DOMAIN order /\ current # Movy
    /\ built.of = current /\ built.package_id = published(current)
    /\ built.names = package_names(current) /\ built.modules = modules(current, TRUE)
    /\ ~build_error(current, TRUE) /\ Cardinality(pinned_addresses(current)) <= 1

\* What is deployed and not pinned is where its dependents look for it.
Rooted(q) ==
  published(q) # Zero /\ pinned_addresses(q) = {} /\ ~LosesOwnCode(q) => HasCode(published(q), q)

DeployedInv ==
  /\ HasCode(published(Movy), Movy)
  /\ pc = "local" \/ Active =>
       \A j \in DOMAIN order : j < next /\ order[j] # Movy => order[j] \in DOMAIN deployed /\ Rooted(order[j])
  /\ pc = "init" => /\ current \in DOMAIN deployed /\ deployed[current] = Home(current)
                    /\ Home(current) \in DOMAIN db /\ db[Home(current)] = Code(modules(current, TRUE))

\* A name stands for a package that was deployed under it.
NamedBy(n) ==
  \/ n = Movy /\ names[n] = published(Movy)
  \/ \E i \in DOMAIN order : /\ i < next /\ order[i] # Movy
                             /\ n \in package_names(order[i]) /\ names[n] = Home(order[i])

Resolved(n) ==
  (args.checks \/ args.unpublished) /\ ~LosesOwnCode(n) /\ ~Displaced(n) => HasCode(names[n], n)

NamesInv == \A n \in DOMAIN names : NamedBy(n) /\ Resolved(n)

PinsInv ==
  /\ pinned_seen \subseteq DOMAIN names \cap DOMAIN pin_map
  /\ \A n \in pinned_seen : names[n] = pin_map[n]
  /\ pc \in {"reload", "done"} => DOMAIN pin_map \subseteq pinned_seen

EnvInv == ShapeInv /\ OrderInv /\ BuiltInv /\ DeployedInv /\ NamesInv /\ PinsInv

-----------------------------------------------------------------------------
\* A set of naturals that is not empty has a least element.
LEMMA LeastNat ==
  ASSUME NEW T \in SUBSET Nat, T # {}
  PROVE  \E x \in T : \A y \in T : x <= y
<1> DEFINE R == OpToRel(<, Nat)
<1>1. IsWellFoundedOn(R, Nat)
  BY NatLessThanWellFounded
<1>2. \A x, y \in Nat : x < y => <<x, y>> \in R
  BY DEF OpToRel
<1> HIDE DEF R
<1>3. PICK x \in T : \A y \in T : ~(<<y, x>> \in R)
  BY <1>1, WFMin, Zenon
<1>4. x \in Nat /\ \A y \in T : y \in Nat /\ ~(y < x)
  BY <1>2, <1>3, Zenon
<1>5. \A y \in T : x <= y
  BY <1>4
<1> QED BY <1>5

\* A set with at most one element has no two.
LEMMA AtMostOne ==
  ASSUME NEW S, IsFiniteSet(S), Cardinality(S) <= 1, NEW x \in S, NEW y \in S
  PROVE  x = y
<1>1. IsFiniteSet(S \ {x}) /\ Cardinality(S \ {x}) = Cardinality(S) - 1
  BY FS_RemoveElement
<1>2. Cardinality(S) \in Nat /\ Cardinality(S \ {x}) \in Nat
  BY <1>1, FS_CardinalityType
<1>3. Cardinality(S \ {x}) = 0
  BY <1>1, <1>2
<1>4. S \ {x} = {}
  BY <1>1, <1>3, FS_EmptySet
<1> QED BY <1>4

\* The direct dependencies of what is listed are listed before it, so all are.
LEMMA DepsBefore ==
  ASSUME ShapeInv, OrderInv, NEW i \in DOMAIN order
  PROVE  \A q \in AllDeps[order[i]] : \E j \in 1..(i - 1) : order[j] = q
<1> DEFINE S == {order[j] : j \in 1..(i - 1)}
<1>0. DOMAIN order = 1..Len(order) /\ Len(order) \in Nat /\ i \in 1..Len(order)
  BY DEF ShapeInv
<1>1. \A j \in 1..(i - 1) : j \in DOMAIN order /\ 1..(j - 1) \subseteq 1..(i - 1)
  BY <1>0
<1>2. S \in SUBSET Locals /\ order[i] \in Locals
  BY <1>0, <1>1 DEF ShapeInv
<1>3. Manifest[order[i]].deps \subseteq S
  BY DEF OrderInv, DepsFirst
<1>4. \A x \in S : Manifest[x].deps \subseteq S
  BY <1>1 DEF OrderInv, DepsFirst
<1>5. AllDeps[order[i]] \subseteq S
  BY <1>2, <1>3, <1>4 DEF AllDeps
<1> QED BY <1>5

\* Nothing that is listed depends on itself.
LEMMA NotItsOwn ==
  ASSUME ShapeInv, OrderInv, NEW i \in DOMAIN order
  PROVE  order[i] \notin AllDeps[order[i]]
<1> DEFINE T == {k \in DOMAIN order : order[k] = order[i]}
<1>0. DOMAIN order = 1..Len(order) /\ Len(order) \in Nat
  BY DEF ShapeInv
<1>1. T \in SUBSET Nat /\ T # {}
  BY <1>0
<1>2. PICK x \in T : \A y \in T : x <= y
  BY <1>1, LeastNat
<1> SUFFICES ASSUME order[x] \in AllDeps[order[x]] PROVE FALSE
  BY <1>2
<1>3. PICK j \in 1..(x - 1) : order[j] = order[x]
  BY <1>2, DepsBefore
<1>4. j \in T
  BY <1>0, <1>2, <1>3
<1> QED BY <1>0, <1>2, <1>3, <1>4

\* A dependency of a package is a package.
LEMMA DepsLocal ==
  ASSUME NEW p \in Locals
  PROVE  AllDeps[p] \subseteq Locals /\ Manifest[p].deps \subseteq AllDeps[p]
<1>1. AllDeps[p] = {q \in Locals : \A S \in SUBSET Locals :
         Manifest[p].deps \subseteq S /\ (\A x \in S : Manifest[x].deps \subseteq S) => q \in S}
  BY DEF AllDeps
<1> QED BY <1>1, ManifestAssumption

-----------------------------------------------------------------------------
(* Builds.                                                                   *)

\* A package that keeps its own modules has its own code.
LEMMA OwnCode ==
  ASSUME AddressesApart, NEW p \in Locals, p \notin AllDeps[p], ~LosesOwnCode(p)
  PROVE  p \in Code(modules(p, TRUE))
<1>0. p # "tests"
  BY ManifestAssumption
<1>1. CASE args.unpublished
  <2> DEFINE m == [Own(p) EXCEPT !.at = published(p)]
  <2>1. Own(p) \in all_compiled_units(p, TRUE) /\ Own(p).at = published(p)
    BY <1>1 DEF all_compiled_units, root_compiled_units, Own, LosesOwnCode
  <2>2. m \in modules(p, TRUE)
    BY <1>1, <2>1 DEF modules
  <2>3. m.of = p
    BY DEF Own
  <2> QED BY <1>0, <2>2, <2>3 DEF Code
<1>2. CASE ~args.unpublished
  <2>1. Own(p).at = original(p) /\ Own(p).of = p
    BY DEF Own
  <2>2. original(p) \notin dep_addresses(p)
    <3> SUFFICES ASSUME NEW q \in AllDeps[p], original(q) = original(p), original(p) # Zero PROVE FALSE
      BY DEF dep_addresses
    <3>1. q \in Locals /\ q # p
      BY DepsLocal
    <3> QED BY <3>1 DEF AddressesApart
  <2>3. Own(p) \in modules(p, TRUE)
    BY <1>2, <2>1, <2>2 DEF modules, root_compiled_units
  <2> QED BY <1>0, <2>1, <2>3 DEF Code
<1> QED BY <1>1, <1>2

\* A build has the code of every package it lends its names to.
LEMMA NameCode ==
  ASSUME AddressesApart, NEW p \in Locals, p \notin AllDeps[p], ~build_error(p, TRUE),
         args.checks \/ args.unpublished, NEW n \in package_names(p), ~LosesOwnCode(n)
  PROVE  n \in Code(modules(p, TRUE))
<1>1. CASE n = p
  BY <1>1, OwnCode
<1>2. CASE n # p
  <2>1. n \in AllDeps[p] /\ original(n) = published(p) /\ n \in Locals
    BY <1>2, DepsLocal DEF package_names
  <2>2. original(n) = Zero
    BY <1>2, <2>1 DEF AddressesApart
  <2>3. args.unpublished
    BY <2>1, <2>2 DEF build_error, unpublished_dependency
  <2> DEFINE m == [Own(n) EXCEPT !.at = published(p)]
  <2>4. Own(n) \in all_compiled_units(p, TRUE) /\ Own(n).at = Zero
    BY <2>1, <2>2 DEF all_compiled_units, Own
  <2>5. m \in modules(p, TRUE)
    BY <2>3, <2>4 DEF modules
  <2>6. m.of = n /\ n # "tests"
    BY <2>1, ManifestAssumption DEF Own
  <2> QED BY <2>5, <2>6 DEF Code
<1> QED BY <1>1, <1>2

\* Test modules at the address of a dependency are left out.
LEMMA ModuleAt ==
  ASSUME NEW p \in Locals, NEW m \in modules(p, TRUE)
  PROVE  m.at \in {original(p), published(p), Zero}
<1>1. CASE args.unpublished
  BY <1>1 DEF modules, all_compiled_units, root_compiled_units, Own
<1>2. CASE ~args.unpublished
  <2>1. m \in root_compiled_units(p, TRUE) /\ m.at \notin dep_addresses(p)
    BY <1>2 DEF modules
  <2>2. CASE m = Own(p)
    BY <2>2 DEF Own
  <2>3. ASSUME NEW d \in Manifest[p].stray, m = [of |-> "tests", at |-> original(d)] PROVE m.at = Zero
    <3>1. d \in AllDeps[p] /\ m.at = original(d)
      BY <2>3, DepsLocal, ManifestAssumption
    <3> QED BY <2>1, <3>1 DEF dep_addresses
  <2> QED BY <2>1, <2>2, <2>3 DEF root_compiled_units
<1> QED BY <1>1, <1>2

-----------------------------------------------------------------------------
(* Addresses.                                                                *)

\* What the operators show does not change while the arguments do not.
LEMMA ArgsFixed ==
  ASSUME args' = args
  PROVE  /\ pin_map' = pin_map
         /\ \A p : pinned_addresses(p)' = pinned_addresses(p) /\ Home(p)' = Home(p)
         /\ \A p : modules(p, TRUE)' = modules(p, TRUE)
         /\ \A p : LosesOwnCode(p)' <=> LosesOwnCode(p)
<1>1. pin_map' = pin_map
  BY DEF pin_map
<1>2. \A p : pinned_addresses(p)' = pinned_addresses(p)
  BY <1>1 DEF pinned_addresses
<1>3. ASSUME NEW p PROVE Home(p)' = Home(p)
  <2>1. PICK S : S = pinned_addresses(p) /\ S = pinned_addresses(p)'
    BY <1>2
  <2> QED BY <2>1 DEF Home
<1>4. \A p : modules(p, TRUE)' = modules(p, TRUE)
  BY DEF modules
<1>5. \A p : LosesOwnCode(p)' <=> LosesOwnCode(p)
  BY DEF LosesOwnCode
<1> QED BY <1>1, <1>2, <1>3, <1>4, <1>5

\* A pin is no address in use.
LEMMA PinApart ==
  ASSUME AddressesApart, ShapeInv, NEW p, NEW a \in pinned_addresses(p), NEW q \in Locals
  PROVE  a \notin {original(q), published(q), NewId[q], Zero}
<1>1. PICK n \in DOMAIN pin_map : a = pin_map[n]
  BY DEF pinned_addresses
<1>2. pin_map[n] = (CHOOSE e \in args.deploy_at : e.name = n).address /\ \E e \in args.deploy_at : e.name = n
  BY DEF pin_map
<1>3. PICK e \in args.deploy_at : a = e.address
  BY <1>1, <1>2
<1> QED BY <1>3 DEF AddressesApart, ShapeInv

\* A package is published at its home or at its original address, and only a pin
\* gives it an address another package lives at.
LEMMA AddressOwner ==
  ASSUME AddressesApart, ShapeInv, NEW p \in Locals, NEW q \in Locals, NEW at,
         at = Home(p) \/ (at = original(p) /\ original(p) # Zero)
  PROVE  /\ at = published(q) /\ published(q) # Zero => q = p
         /\ at = Home(q) => q = p \/ at \in pinned_addresses(p)
<1>1. at \in {NewId[p]} \cup ({published(p), original(p)} \ {Zero}) \/ at \in pinned_addresses(p)
  BY DEF Home
<1>2. ASSUME at = published(q), published(q) # Zero PROVE q = p
  <2>1. at \notin pinned_addresses(p)
    BY <1>2, PinApart
  <2> QED BY <1>1, <1>2, <2>1, ManifestAssumption DEF AddressesApart
<1>3. ASSUME at = Home(q), at \notin pinned_addresses(p) PROVE q = p
  <2>1. at \notin pinned_addresses(q)
    BY <1>1, <1>3, PinApart
  <2>2. pinned_addresses(q) = {}
    BY <1>3, <2>1 DEF Home
  <2>3. CASE published(q) # Zero
    BY <1>2, <1>3, <2>2, <2>3 DEF Home
  <2>4. CASE published(q) = Zero
    <3>1. at = NewId[q]
      BY <1>3, <2>2, <2>4 DEF Home
    <3> QED BY <1>1, <1>3, <3>1, ManifestAssumption
  <2> QED BY <2>3, <2>4
<1> QED BY <1>2, <1>3

\* A package has finitely many names, so finitely many pins.
LEMMA PinsFinite ==
  ASSUME NEW p \in Locals
  PROVE  IsFiniteSet(pinned_addresses(p))
<1> DEFINE N == package_names(p) \cap DOMAIN pin_map
           f == [x \in N |-> pin_map[x]]
<1>1. package_names(p) \subseteq Locals
  BY DepsLocal DEF package_names
<1>2. IsFiniteSet(N)
  BY <1>1, ManifestAssumption, FS_Subset
<1>3. f \in [N -> {pin_map[x] : x \in N}] /\ \A y \in {pin_map[x] : x \in N} : \E x \in N : f[x] = y
  OBVIOUS
<1>4. f \in Surjection(N, {pin_map[x] : x \in N})
  BY <1>3 DEF Surjection
<1>5. IsFiniteSet({pin_map[x] : x \in N})
  BY <1>2, <1>4, FS_Surjection
<1>6. pinned_addresses(p) = {pin_map[x] : x \in N}
  BY DEF pinned_addresses
<1> QED BY <1>5, <1>6

\* All pins of a package that was built agree.
LEMMA PinnedHome ==
  ASSUME Cardinality(pinned_addresses(current)) <= 1, NEW n \in package_names(current),
         n \in DOMAIN pin_map, current \in Locals
  PROVE  Home(current) = pin_map[n]
<1>1. pin_map[n] \in pinned_addresses(current)
  BY DEF pinned_addresses
<1>2. Home(current) \in pinned_addresses(current)
  BY <1>1 DEF Home
<1>3. IsFiniteSet(pinned_addresses(current))
  BY PinsFinite
<1> QED BY <1>1, <1>2, <1>3, AtMostOne

\* What publishing under way does, and where.
Publishes(at) ==
  /\ db' = Put(db, {at}, Code(modules(current, TRUE)))
  /\ deployed' = [q \in DOMAIN deployed \cup {current} |-> IF q = current THEN at ELSE deployed[q]]

LEMMA PublishAt ==
  ASSUME BuiltInv, Active, NEW id, Publish(id)
  PROVE  Publishes(IF id = Zero THEN NewId[current] ELSE id)
BY DEF BuiltInv, Publish, Publishes

LEMMA DeploymentFacts ==
  ASSUME AddressesApart, ShapeInv, BuiltInv, Active
  PROVE  LET d == deployment(built) IN
         /\ Home(current) = IF d.id = Zero THEN NewId[current] ELSE d.id
         /\ d.first # Zero => d.first = original(current)
<1> DEFINE m == CHOOSE m \in built.modules : TRUE
           pins == pinned_addresses(current)
           d == deployment(built)
<1>0. current \in Locals /\ built.of = current /\ built.package_id = published(current)
      /\ built.modules = modules(current, TRUE) /\ built.modules # {}
  <2>1. next \in DOMAIN order /\ built.of = current /\ built.package_id = published(current)
        /\ built.modules = modules(current, TRUE) /\ ~build_error(current, TRUE)
    BY DEF BuiltInv
  <2>2. current \in Locals
    BY <2>1 DEF ShapeInv, current
  <2> QED BY <2>1, <2>2 DEF build_error
<1>1. m \in modules(current, TRUE)
  BY <1>0
<1>2. m.at \in {original(current), published(current), Zero}
  BY <1>0, <1>1, ModuleAt
<1>3. CASE pins # {}
  <2>1. d = [id |-> CHOOSE a \in pins : TRUE, first |-> Zero]
    BY <1>0, <1>3 DEF deployment
  <2>2. d.id = Home(current) /\ d.first = Zero
    BY <1>3, <2>1 DEF Home
  <2>3. Home(current) # Zero
    BY <1>0, <1>3, PinApart DEF Home
  <2> QED BY <2>2, <2>3
<1>4. CASE pins = {}
  <2>1. d = [id |-> published(current),
             first |-> IF m.at \in {Zero, published(current)} THEN Zero ELSE m.at]
    BY <1>0, <1>4 DEF deployment
  <2>2. d.id = published(current) /\ d.first = IF m.at \in {Zero, published(current)} THEN Zero ELSE m.at
    BY <2>1
  <2> QED BY <1>2, <1>4, <2>2 DEF Home
<1> QED BY <1>3, <1>4

-----------------------------------------------------------------------------
(* Resolution.                                                               *)

\* The dependencies of a dependency are dependencies.
LEMMA DepsClosed ==
  ASSUME NEW p \in Locals, NEW x \in AllDeps[p] \cup {p}
  PROVE  Manifest[x].deps \subseteq AllDeps[p]
<1>1. CASE x = p
  BY <1>1, DepsLocal
<1>2. CASE x \in AllDeps[p]
  <2> SUFFICES ASSUME NEW q \in Manifest[x].deps PROVE q \in AllDeps[p]
    OBVIOUS
  <2>1. x \in Locals /\ q \in Locals
    BY <1>2, DepsLocal, ManifestAssumption
  <2>2. ASSUME NEW S \in SUBSET Locals, Manifest[p].deps \subseteq S, \A y \in S : Manifest[y].deps \subseteq S
        PROVE  q \in S
    <3>1. x \in S
      BY <1>2, <2>2 DEF AllDeps
    <3> QED BY <2>2, <3>1
  <2> QED BY <2>1, <2>2 DEF AllDeps
<1> QED BY <1>1, <1>2

\* A round of resolve_local_dependency_paths keeps dependencies first.
LEMMA ResolveKeeps ==
  ASSUME ShapeInv, OrderInv, NEW p \in Locals, NEW sorted \in sorted_packages(p),
         NEW o \in resolve_local_dependency_paths(order, sorted)
  PROVE  o \in Seq(Locals) /\ DepsFirst(o)
<1> DEFINE R == Range(sorted) \ Range(order)
           n == Len(order)
<1>1. PICK s \in Orders(R) :
        /\ o = order \o s
        /\ \A i, j \in DOMAIN s : \A k, l \in DOMAIN sorted :
             sorted[k] = s[i] /\ sorted[l] = s[j] /\ k < l => j < i
  BY DEF resolve_local_dependency_paths
<1>2. Range(sorted) = AllDeps[p] \cup {p}
  <2>1. sorted \in Orders(AllDeps[p] \cup {p})
    BY DEF sorted_packages
  <2> QED BY <2>1 DEF Orders, Surjection, Range
<1>3. R \subseteq Locals /\ IsFiniteSet(R) /\ Cardinality(R) \in Nat
  <2>1. R \subseteq Locals
    BY <1>2, DepsLocal
  <2> QED BY <2>1, ManifestAssumption, FS_Subset, FS_CardinalityType
<1>4. s \in [1..Cardinality(R) -> R] /\ \A x \in R : \E i \in 1..Cardinality(R) : s[i] = x
  BY <1>1 DEF Orders, Surjection
<1> HIDE DEF R
<1>5. s \in Seq(Locals) /\ Len(s) = Cardinality(R) /\ DOMAIN s = 1..Len(s)
  BY <1>3, <1>4
<1>6. /\ o \in Seq(Locals) /\ n \in Nat /\ Len(s) \in Nat /\ DOMAIN order = 1..n /\ DOMAIN o = 1..(n + Len(s))
      /\ \A i \in 1..n : o[i] = order[i]
      /\ \A i \in 1..Len(s) : o[n + i] = s[i]
      /\ \A i \in (n + 1)..(n + Len(s)) : o[i] = s[i - n]
  BY <1>1, <1>5 DEF ShapeInv
<1>7. ASSUME NEW i \in DOMAIN o, NEW q \in Manifest[o[i]].deps PROVE \E j \in 1..(i - 1) : o[j] = q
  <2>1. CASE i \in 1..n
    <3>1. PICK j \in 1..(i - 1) : order[j] = q
      BY <1>6, <1>7, <2>1 DEF OrderInv, DepsFirst
    <3>2. o[j] = q
      BY <1>6, <2>1, <3>1
    <3> QED BY <3>2
  <2>2. CASE i \in (n + 1)..(n + Len(s))
    <3> DEFINE x == s[i - n]
    <3>1. i - n \in 1..Len(s) /\ o[i] = x
      BY <1>6, <2>2
    <3>2. x \in R
      BY <1>4, <1>5, <3>1
    <3>3. x \in Range(sorted)
      BY <3>2 DEF R
    <3>4. q \in Range(sorted)
      BY <1>2, <1>7, <3>1, <3>3, DepsClosed
    <3>5. CASE q \in Range(order)
      <4>1. PICK j \in 1..n : order[j] = q
        BY <1>6, <3>5 DEF Range
      <4>2. j \in 1..(i - 1) /\ o[j] = q
        BY <1>6, <2>2, <4>1
      <4> QED BY <4>2
    <3>6. CASE q \notin Range(order)
      <4>1. q \in R
        BY <3>4, <3>6 DEF R
      <4>2. PICK j \in 1..Len(s) : s[j] = q
        BY <1>4, <1>5, <4>1
      <4>3. PICK k \in DOMAIN sorted, l \in DOMAIN sorted : sorted[k] = x /\ sorted[l] = q
        BY <3>3, <3>4 DEF Range
      <4>4. sorted[l] \in Manifest[sorted[k]].deps
        BY <1>7, <3>1, <4>3
      <4>5. k < l
        BY <4>4 DEF sorted_packages
      <4>6. j < i - n
        BY <1>1, <1>5, <3>1, <4>2, <4>3, <4>5
      <4>7. n + j \in 1..(i - 1) /\ o[n + j] = q
        BY <1>6, <2>2, <4>2, <4>6
      <4> QED BY <4>7
    <3> QED BY <3>5, <3>6
  <2> QED BY <1>6, <2>1, <2>2
<1> QED BY <1>6, <1>7 DEF DepsFirst

-----------------------------------------------------------------------------
(* Steps.                                                                    *)

\* What is stored stays stored as it is.
Kept == \A x \in DOMAIN db : x \in DOMAIN db' /\ db'[x] = db[x]

LEMMA KeptCode ==
  ASSUME Kept, NEW id, NEW q, HasCode(id, q)
  PROVE  HasCode(id, q)'
BY DEF Kept, HasCode

\* A fetch of what the store does not have overwrites nothing.
LEMMA FetchKeeps ==
  ASSUME NEW id, NEW r \in fetch_package_at_address(id), db' = r.db
  PROVE  \A x \in DOMAIN db : x # id \/ id \notin Chain => x \in DOMAIN db' /\ db'[x] = db[x]
<1>1. missing_upgrades(id) \cap DOMAIN db = {}
  BY DEF missing_upgrades, Present
<1>2. ASSUME NEW S, db' = Put(db, S, {}), NEW x \in DOMAIN db, x \notin S
      PROVE  x \in DOMAIN db' /\ db'[x] = db[x]
  BY <1>2 DEF Put
<1>3. \/ db' = db
      \/ id \in Chain /\ \E S \in SUBSET missing_upgrades(id) : db' = Put(db, S, {}) \/ db' = Put(db, S \cup {id}, {})
  <2>1. CASE r = [ok |-> FALSE, db |-> db]
    BY <2>1
  <2>2. CASE id \in Chain /\ r = [ok |-> TRUE, db |-> Put(db, missing_upgrades(id) \cup {id}, {})]
    BY <2>2
  <2>3. CASE id \in Chain /\ \E S \in SUBSET missing_upgrades(id) : r = [ok |-> FALSE, db |-> Put(db, S, {})]
    BY <2>3
  <2> QED BY <2>1, <2>2, <2>3 DEF fetch_package_at_address
<1>4. CASE db' = db
  BY <1>4
<1>5. ASSUME id \in Chain, NEW S \in SUBSET missing_upgrades(id),
             db' = Put(db, S, {}) \/ db' = Put(db, S \cup {id}, {}),
             NEW x \in DOMAIN db, x # id
      PROVE  x \in DOMAIN db' /\ db'[x] = db[x]
  <2>1. x \notin S \cup {id}
    BY <1>1, <1>5
  <2> QED BY <1>2, <1>5, <2>1
<1> QED BY <1>3, <1>4, <1>5

\* Before the first deployment there is only the bundled package to keep.
LEMMA EarlyStep ==
  ASSUME EnvInv, Early, names' = names, pinned_seen' = pinned_seen,
         pc' \in {"resolve", "onchains", "histories", "inner", "failed"},
         ShapeInv', OrderInv', HasCode(published(Movy), Movy)'
  PROVE  EnvInv'
<1>1. DOMAIN names' = {} /\ pinned_seen' = {}
  BY DEF EnvInv, ShapeInv
<1>2. ~Active' /\ pc' \notin {"local", "init", "reload", "done"}
  BY DEF Active
<1>3. BuiltInv' /\ DeployedInv'
  BY <1>2 DEF BuiltInv, DeployedInv
<1>4. NamesInv' /\ PinsInv'
  BY <1>1, <1>2 DEF NamesInv, PinsInv
<1> QED BY <1>3, <1>4 DEF EnvInv

\* What was built stays as it was.
LEMMA BuiltStays ==
  ASSUME BuiltInv, Active' => Active, UNCHANGED <<args, order, next>>,
         built'.of = built.of, built'.package_id = built.package_id,
         built'.names = built.names, built'.modules = built.modules
  PROVE  BuiltInv'
<1> SUFFICES ASSUME Active PROVE BuiltInv'
  BY DEF BuiltInv
<1>1. current' = current
  BY DEF current
<1>2. pinned_addresses(current)' = pinned_addresses(current) /\ modules(current, TRUE)' = modules(current, TRUE)
  BY <1>1 DEF pinned_addresses, modules, pin_map
<1>3. build_error(current, TRUE)' <=> build_error(current, TRUE)
  BY <1>1, <1>2 DEF build_error, unpublished_dependency
<1> QED BY <1>1, <1>2, <1>3 DEF BuiltInv

\* A step that neither deploys nor names anything.
LEMMA QuietStep ==
  ASSUME EnvInv, UNCHANGED <<args, order, next, names, pinned_seen, deployed>>, Kept, BuiltInv',
         pc' \in {"reload", "done"} => DOMAIN pin_map \subseteq pinned_seen,
         pc' = "local" \/ Active' => pc = "local" \/ Active \/ next = 1,
         pc' = "init" => pc = "init", Early' => Early, pc' = "inner" => pc = "inner"
  PROVE  EnvInv'
<1>0. ShapeInv /\ OrderInv /\ BuiltInv /\ DeployedInv /\ NamesInv /\ PinsInv
  BY DEF EnvInv
<1>1. /\ pin_map' = pin_map
      /\ \A p : pinned_addresses(p)' = pinned_addresses(p) /\ Home(p)' = Home(p)
      /\ \A p : modules(p, TRUE)' = modules(p, TRUE)
      /\ \A p : LosesOwnCode(p)' <=> LosesOwnCode(p)
  BY ArgsFixed
<1>2. ShapeInv' /\ OrderInv'
  BY <1>0 DEF ShapeInv, OrderInv
<1>3. DeployedInv'
  <2>1. HasCode(published(Movy), Movy)'
    BY <1>0, KeptCode DEF DeployedInv
  <2>2. ASSUME pc' = "local" \/ Active', NEW j \in DOMAIN order, j < next, order[j] # Movy
        PROVE  order[j] \in DOMAIN deployed /\ Rooted(order[j])'
    <3>1. pc = "local" \/ Active
      BY <1>0, <2>2 DEF ShapeInv
    <3>2. order[j] \in DOMAIN deployed /\ Rooted(order[j])
      BY <1>0, <2>2, <3>1 DEF DeployedInv
    <3> QED BY <1>1, <3>2, KeptCode DEF Rooted
  <2>3. ASSUME pc' = "init"
        PROVE  /\ current' \in DOMAIN deployed' /\ deployed'[current'] = Home(current)'
               /\ Home(current)' \in DOMAIN db' /\ db'[Home(current)'] = Code(modules(current, TRUE))'
    <3>1. current' = current
      BY DEF current
    <3>2. Home(current)' = Home(current) /\ modules(current, TRUE)' = modules(current, TRUE)
      BY <1>1, <3>1 DEF Home, modules, pinned_addresses, pin_map
    <3>3. Code(modules(current, TRUE))' = Code(modules(current, TRUE))
      BY <3>2 DEF Code
    <3> QED BY <1>0, <2>3, <3>1, <3>2, <3>3 DEF DeployedInv, Kept
  <2> QED BY <2>1, <2>2, <2>3 DEF DeployedInv
<1>4. NamesInv'
  <2> SUFFICES ASSUME NEW n \in DOMAIN names PROVE NamedBy(n)' /\ Resolved(n)'
    BY DEF NamesInv
  <2>1. NamedBy(n) /\ Resolved(n)
    BY <1>0 DEF NamesInv
  <2>2. NamedBy(n)'
    BY <1>1, <2>1 DEF NamedBy
  <2>3. Displaced(n)' <=> Displaced(n)
    BY <1>1 DEF Displaced
  <2> QED BY <1>1, <2>1, <2>2, <2>3, KeptCode DEF Resolved
<1>5. PinsInv'
  BY <1>0, <1>1 DEF PinsInv
<1> QED BY <1>2, <1>3, <1>4, <1>5 DEF EnvInv

\* Publishing the package under way, at its home or first at its original address.
LEMMA PublishStep ==
  ASSUME AddressesApart, EnvInv, Active, NEW at,
         at = Home(current) \/ (at = original(current) /\ original(current) # Zero),
         Publishes(at), UNCHANGED <<args, order, next, names, pinned_seen, built>>,
         (pc' = "init" /\ at = Home(current)) \/ pc' = "upgrade"
  PROVE  EnvInv'
<1> DEFINE p == current
<1>0. ShapeInv /\ OrderInv /\ BuiltInv /\ DeployedInv /\ NamesInv /\ PinsInv
  BY DEF EnvInv
<1>1. /\ pin_map' = pin_map
      /\ \A q : pinned_addresses(q)' = pinned_addresses(q) /\ Home(q)' = Home(q)
      /\ \A q : modules(q, TRUE)' = modules(q, TRUE)
      /\ \A q : LosesOwnCode(q)' <=> LosesOwnCode(q)
  BY ArgsFixed
<1>2. current' = current /\ Active' /\ ~Early' /\ pc' \notin {"inner", "local", "reload", "done"}
  BY DEF current, Active, Early
<1>3. next \in DOMAIN order /\ p \in Locals /\ p # Movy /\ p \notin AllDeps[p] /\ p = order[next]
      /\ ~build_error(p, TRUE)
  <2>1. next \in DOMAIN order /\ p # Movy /\ ~build_error(p, TRUE)
    BY <1>0 DEF BuiltInv
  <2>2. p = order[next]
    BY DEF current
  <2>3. order[next] \in Locals
    BY <1>0, <2>1 DEF ShapeInv
  <2>4. order[next] \notin AllDeps[order[next]]
    BY <1>0, <2>1, NotItsOwn
  <2> QED BY <2>1, <2>2, <2>3, <2>4
<1>4. /\ \A x \in DOMAIN db : x # at => x \in DOMAIN db' /\ db'[x] = db[x]
      /\ at \in DOMAIN db' /\ db'[at] = Code(modules(p, TRUE))
  BY DEF Publishes, Put
<1>5. ASSUME NEW x, NEW q, HasCode(x, q), x # at \/ q \in Code(modules(p, TRUE))
      PROVE  HasCode(x, q)'
  BY <1>4, <1>5 DEF HasCode
<1>6. /\ \A q \in DOMAIN deployed : q \in DOMAIN deployed'
      /\ p \in DOMAIN deployed' /\ deployed'[p] = at
  BY DEF Publishes
<1>6m. at # published(Movy)
  <2>1. Movy \in Locals /\ published(Movy) # Zero
    BY ManifestAssumption DEF published
  <2> QED BY <1>0, <1>3, <2>1, AddressOwner
<1> HIDE DEF p
<1>7. ShapeInv' /\ OrderInv'
  BY <1>0, <1>2 DEF ShapeInv, OrderInv
<1>8. BuiltInv'
  BY <1>0, BuiltStays
<1>9. DeployedInv'
  <2>1. HasCode(published(Movy), Movy)'
    BY <1>0, <1>5, <1>6m DEF DeployedInv
  <2>2. ASSUME NEW j \in DOMAIN order, j < next, order[j] # Movy
        PROVE  order[j] \in DOMAIN deployed' /\ Rooted(order[j])'
    <3>1. order[j] \in DOMAIN deployed /\ Rooted(order[j]) /\ order[j] \in Locals
      BY <1>0, <2>2 DEF DeployedInv, ShapeInv
    <3>2. ASSUME published(order[j]) # Zero, pinned_addresses(order[j]) = {}, ~LosesOwnCode(order[j])
          PROVE  HasCode(published(order[j]), order[j])'
      <4>1. HasCode(published(order[j]), order[j])
        BY <3>1, <3>2 DEF Rooted
      <4>2. CASE at = published(order[j])
        <5>1. order[j] = p
          BY <1>0, <1>3, <3>1, <3>2, <4>2, AddressOwner DEF p
        <5>2. order[j] \in Code(modules(p, TRUE))
          BY <1>3, <3>2, <5>1, OwnCode
        <5> QED BY <1>5, <4>1, <5>2
      <4>3. CASE at # published(order[j])
        BY <1>5, <4>1, <4>3
      <4> QED BY <4>2, <4>3
    <3> QED BY <1>1, <1>6, <3>1, <3>2 DEF Rooted
  <2>3. ASSUME pc' = "init"
        PROVE  /\ current' \in DOMAIN deployed' /\ deployed'[current'] = Home(current)'
               /\ Home(current)' \in DOMAIN db' /\ db'[Home(current)'] = Code(modules(current, TRUE))'
    <3>1. at = Home(current)
      BY <2>3
    <3>2. Home(current)' = Home(current) /\ modules(current, TRUE)' = modules(current, TRUE)
      BY <1>1, <1>2 DEF Home, modules, pinned_addresses, pin_map
    <3>3. Code(modules(current, TRUE))' = Code(modules(current, TRUE))
      BY <3>2 DEF Code
    <3> QED BY <1>2, <1>4, <1>6, <3>1, <3>2, <3>3 DEF p
  <2> QED BY <2>1, <2>2, <2>3 DEF DeployedInv
<1>10. NamesInv'
  <2> SUFFICES ASSUME NEW n \in DOMAIN names PROVE NamedBy(n)' /\ Resolved(n)'
    BY DEF NamesInv
  <2>1. NamedBy(n) /\ Resolved(n)
    BY <1>0 DEF NamesInv
  <2>2. NamedBy(n)'
    BY <1>1, <2>1 DEF NamedBy
  <2>3. Displaced(n)' <=> Displaced(n)
    BY <1>1 DEF Displaced
  <2>4. ASSUME args.checks \/ args.unpublished, ~LosesOwnCode(n), ~Displaced(n)
        PROVE  HasCode(names[n], n)'
    <3>1. HasCode(names[n], n)
      BY <2>1, <2>4 DEF Resolved
    <3>2. CASE names[n] # at
      BY <1>5, <3>1, <3>2
    <3>3. CASE names[n] = at
      <4>1. names[n] # published(Movy)
        BY <1>6m, <3>3
      <4>2. ASSUME NEW i \in DOMAIN order, i < next, n \in package_names(order[i]), names[n] = Home(order[i])
            PROVE  n \in package_names(p)
        <5>1. order[i] \in Locals
          BY <1>0 DEF ShapeInv
        <5>2. order[i] = p \/ at \in pinned_addresses(p)
          BY <1>0, <1>3, <3>3, <4>2, <5>1, AddressOwner DEF p
        <5>3. CASE at \in pinned_addresses(p)
          BY <1>3, <2>4, <3>3, <4>2, <5>3 DEF Displaced
        <5> QED BY <4>2, <5>2, <5>3
      <4>3. n \in package_names(p)
        BY <2>1, <4>1, <4>2 DEF NamedBy
      <4>4. n \in Code(modules(p, TRUE))
        BY <1>3, <2>4, <4>3, NameCode
      <4> QED BY <1>5, <3>1, <4>4
    <3> QED BY <3>2, <3>3
  <2> QED BY <1>1, <2>2, <2>3, <2>4 DEF Resolved
<1>11. PinsInv'
  BY <1>0, <1>1, <1>2 DEF PinsInv
<1> QED BY <1>7, <1>8, <1>9, <1>10, <1>11 DEF EnvInv

\* The bundled package is only named.
LEMMA BundledStep ==
  ASSUME EnvInv, bundled_local_package_mapping
  PROVE  EnvInv'
<1>0. ShapeInv /\ OrderInv /\ BuiltInv /\ DeployedInv /\ NamesInv /\ PinsInv
  BY DEF EnvInv
<1>1. /\ pin_map' = pin_map
      /\ \A q : pinned_addresses(q)' = pinned_addresses(q) /\ Home(q)' = Home(q)
      /\ \A q : LosesOwnCode(q)' <=> LosesOwnCode(q)
  BY ArgsFixed DEF bundled_local_package_mapping
<1>2. /\ pc = "local" /\ pc' = "local" /\ order[next] = Movy /\ next' = next + 1
      /\ UNCHANGED <<args, order, db, pinned_seen, deployed>> /\ ~Active' /\ ~Early'
  BY DEF bundled_local_package_mapping, current, Active, Early
<1>3. /\ DOMAIN names' = DOMAIN names \cup {Movy}
      /\ \A n \in DOMAIN names : names'[n] = names[n]
      /\ Movy \notin DOMAIN names => names'[Movy] = published(Movy)
  BY DEF bundled_local_package_mapping
<1>4. \A x, q : HasCode(x, q)' <=> HasCode(x, q)
  BY <1>2 DEF HasCode
<1>5. ShapeInv' /\ OrderInv' /\ BuiltInv'
  <2>1. next + 1 \in Nat \ {0} /\ pc' # "inner"
    BY <1>0, <1>2 DEF ShapeInv
  <2>2. ShapeInv'
    BY <1>0, <1>2, <2>1 DEF ShapeInv
  <2> QED BY <1>0, <1>2, <2>2 DEF OrderInv, BuiltInv
<1>6. DeployedInv'
  <2>1. \A j \in DOMAIN order : j < next + 1 /\ order[j] # Movy => j < next
    BY <1>0, <1>2 DEF ShapeInv
  <2>2. \A q : Rooted(q)' <=> Rooted(q)
    BY <1>1, <1>4 DEF Rooted
  <2> QED BY <1>0, <1>2, <1>4, <2>1, <2>2 DEF DeployedInv
<1>7. NamesInv'
  <2>1. ASSUME NEW n \in DOMAIN names PROVE NamedBy(n)' /\ Resolved(n)'
    <3>1. NamedBy(n) /\ Resolved(n) /\ names'[n] = names[n]
      BY <1>0, <1>3, <2>1 DEF NamesInv
    <3>2. Displaced(n)' <=> Displaced(n)
      BY <1>1, <1>2, <3>1 DEF Displaced
    <3>3. \A i \in DOMAIN order : i < next => i < next + 1
      BY <1>0 DEF ShapeInv
    <3>4. NamedBy(n)'
      BY <1>1, <1>2, <3>1, <3>3 DEF NamedBy
    <3> QED BY <1>1, <1>2, <1>4, <3>1, <3>2, <3>4 DEF Resolved
  <2>2. CASE Movy \notin DOMAIN names
    <3>1. NamedBy(Movy)' /\ Resolved(Movy)'
      BY <1>0, <1>3, <1>4, <2>2 DEF NamedBy, Resolved, DeployedInv
    <3> QED BY <1>3, <2>1, <3>1 DEF NamesInv
  <2>3. CASE Movy \in DOMAIN names
    BY <1>3, <2>1, <2>3 DEF NamesInv
  <2> QED BY <2>2, <2>3
<1>8. PinsInv'
  BY <1>0, <1>1, <1>2, <1>3 DEF PinsInv
<1> QED BY <1>5, <1>6, <1>7, <1>8 DEF EnvInv

\* A package that was deployed and initialised gets its names.
LEMMA NamedStep ==
  ASSUME AddressesApart, EnvInv, local_deployed
  PROVE  EnvInv'
<1>p. PICK p : p = current /\ p = order[next]
  BY DEF current
<1>0. ShapeInv /\ OrderInv /\ BuiltInv /\ DeployedInv /\ NamesInv /\ PinsInv
  BY DEF EnvInv
<1>1. /\ pin_map' = pin_map
      /\ \A q : pinned_addresses(q)' = pinned_addresses(q) /\ Home(q)' = Home(q)
      /\ \A q : LosesOwnCode(q)' <=> LosesOwnCode(q)
  BY ArgsFixed DEF local_deployed
<1>2. /\ pc = "init" /\ pc' = "local" /\ next' = next + 1 /\ Active
      /\ UNCHANGED <<args, order, db, deployed>> /\ ~Active' /\ ~Early'
  BY DEF local_deployed, Goto, Active, Early
<1>3. /\ next \in DOMAIN order /\ p # Movy /\ ~build_error(p, TRUE) /\ built.names = package_names(p)
      /\ Cardinality(pinned_addresses(p)) <= 1
  BY <1>0, <1>2, <1>p DEF BuiltInv
<1>4. p = order[next] /\ p \in Locals /\ p \notin AllDeps[p]
  <2>1. order[next] \in Locals
    BY <1>0, <1>3 DEF ShapeInv
  <2>2. order[next] \notin AllDeps[order[next]]
    BY <1>0, <1>3, NotItsOwn
  <2> QED BY <1>p, <2>1, <2>2
<1>5. /\ p \in DOMAIN deployed /\ deployed[p] = Home(p)
      /\ \A q \in Code(modules(p, TRUE)) : HasCode(Home(p), q)
  BY <1>0, <1>2, <1>p DEF DeployedInv, HasCode
<1>6. /\ DOMAIN names' = DOMAIN names \cup package_names(p)
      /\ \A n \in package_names(p) : names'[n] = Home(p)
      /\ \A n \in DOMAIN names \ package_names(p) : names'[n] = names[n]
      /\ pinned_seen' = pinned_seen \cup (package_names(p) \cap DOMAIN pin_map)
  BY <1>3, <1>5, <1>p DEF local_deployed
<1>7. \A x, q : HasCode(x, q)' <=> HasCode(x, q)
  BY <1>2 DEF HasCode
<1>8. \A n \in package_names(p) \cap DOMAIN pin_map : Home(p) = pin_map[n]
  BY <1>3, <1>4, <1>p, PinnedHome
<1>9. ShapeInv' /\ OrderInv' /\ BuiltInv'
  <2>1. next + 1 \in Nat \ {0} /\ pc' # "inner"
    BY <1>0, <1>2 DEF ShapeInv
  <2>2. ShapeInv'
    BY <1>0, <1>2, <2>1 DEF ShapeInv
  <2> QED BY <1>0, <1>2, <2>2 DEF OrderInv, BuiltInv
<1>10. DeployedInv'
  <2>1. \A q : Rooted(q)' <=> Rooted(q)
    BY <1>1, <1>7 DEF Rooted
  <2>2. Rooted(p)
    <3> SUFFICES ASSUME published(p) # Zero, pinned_addresses(p) = {}, ~LosesOwnCode(p)
                 PROVE  HasCode(published(p), p)
      BY DEF Rooted
    <3>1. Home(p) = published(p)
      BY DEF Home
    <3> QED BY <1>4, <1>5, <3>1, OwnCode
  <2>3. ASSUME NEW j \in DOMAIN order, j < next + 1, order[j] # Movy
        PROVE  order[j] \in DOMAIN deployed /\ Rooted(order[j])
    <3>1. j < next \/ j = next
      BY <1>0, <2>3 DEF ShapeInv
    <3>2. CASE j < next
      BY <1>0, <1>2, <2>3, <3>2 DEF DeployedInv
    <3>3. CASE j = next
      BY <1>4, <1>5, <2>2, <3>3
    <3> QED BY <3>1, <3>2, <3>3
  <2> QED BY <1>0, <1>2, <1>7, <2>1, <2>3 DEF DeployedInv
<1>11. NamesInv'
  <2>1. ASSUME NEW n \in DOMAIN names \ package_names(p) PROVE NamedBy(n)' /\ Resolved(n)'
    <3>1. NamedBy(n) /\ Resolved(n) /\ names'[n] = names[n]
      BY <1>0, <1>6, <2>1 DEF NamesInv
    <3>2. Displaced(n)' <=> Displaced(n)
      BY <1>1, <1>2, <3>1 DEF Displaced
    <3>3. \A i \in DOMAIN order : i < next => i < next + 1
      BY <1>0 DEF ShapeInv
    <3>4. NamedBy(n)'
      BY <1>1, <1>2, <3>1, <3>3 DEF NamedBy
    <3> QED BY <1>1, <1>2, <1>7, <3>1, <3>2, <3>4 DEF Resolved
  <2>2. ASSUME NEW n \in package_names(p) PROVE NamedBy(n)' /\ Resolved(n)'
    <3>1. names'[n] = Home(p)
      BY <1>6, <2>2
    <3>2. next < next + 1
      BY <1>0 DEF ShapeInv
    <3>3. NamedBy(n)'
      BY <1>1, <1>2, <1>3, <1>4, <2>2, <3>1, <3>2 DEF NamedBy
    <3>4. (args.checks \/ args.unpublished) /\ ~LosesOwnCode(n) => HasCode(Home(p), n)
      BY <1>3, <1>4, <1>5, <2>2, NameCode
    <3> QED BY <1>1, <1>2, <1>7, <3>1, <3>3, <3>4 DEF Resolved
  <2> QED BY <1>6, <2>1, <2>2 DEF NamesInv
<1>12. PinsInv'
  <2>1. \A n \in pinned_seen' : n \in DOMAIN names' /\ n \in DOMAIN pin_map /\ names'[n] = pin_map[n]
    BY <1>0, <1>6, <1>8 DEF PinsInv
  <2> QED BY <1>1, <1>2, <2>1 DEF PinsInv
<1> QED BY <1>9, <1>10, <1>11, <1>12 DEF EnvInv

LEMMA EnvInit == Init => EnvInv
<1> SUFFICES ASSUME Init PROVE EnvInv
  OBVIOUS
<1>1. ShapeInv /\ OrderInv /\ BuiltInv
  BY DEF Init, ShapeInv, OrderInv, DepsFirst, BuiltInv, Active
<1>2. DeployedInv
  BY DEF Init, DeployedInv, HasCode, Active
<1>3. NamesInv /\ PinsInv
  BY DEF Init, NamesInv, PinsInv
<1> QED BY <1>1, <1>2, <1>3 DEF EnvInv

LEMMA EnvStep ==
  ASSUME AddressesApart, EnvInv, [Next]_vars
  PROVE  EnvInv'
<1>0. ShapeInv /\ OrderInv /\ BuiltInv /\ DeployedInv /\ NamesInv /\ PinsInv
  BY DEF EnvInv
<1>a. ASSUME db' = db PROVE HasCode(published(Movy), Movy)' /\ Kept
  BY <1>0, <1>a DEF DeployedInv, HasCode, Kept
<1>1. CASE resolve
  <2>1. /\ pc = "resolve" /\ next <= Len(args.locals) /\ db' = db
        /\ UNCHANGED <<args, names, pinned_seen>>
        /\ \/ pc' = "failed" /\ UNCHANGED <<order, next>>
           \/ /\ pc' = "resolve" /\ next' = next + 1
              /\ \E sorted \in sorted_packages(args.locals[next]) :
                   order' \in resolve_local_dependency_paths(order, sorted)
    BY <1>1 DEF resolve, Fail, Goto
  <2>2. args.locals[next] \in Locals
    <3>1. args.locals \in Seq(Locals)
      BY <1>0, ManifestAssumption DEF ShapeInv
    <3> QED BY <1>0, <2>1, <3>1 DEF ShapeInv
  <2>3. order' \in Seq(Locals) /\ DepsFirst(order')
    BY <1>0, <2>1, <2>2, ResolveKeeps DEF ShapeInv, OrderInv
  <2>4. ShapeInv' /\ OrderInv'
    BY <1>0, <2>1, <2>3 DEF ShapeInv, OrderInv, Early
  <2> QED BY <1>a, <2>1, <2>4, EarlyStep DEF Early
<1>2. CASE locals_resolved \/ onchains_fetched \/ load_history \/ histories_loaded
  <2>1. /\ Early /\ db' = db /\ UNCHANGED <<args, order, names, pinned_seen>>
        /\ pc' \in {"resolve", "onchains", "histories", "inner", "failed"}
        /\ next' \in {1, next, next + 1} /\ (pc' = "inner" => next' = 1)
    BY <1>2 DEF locals_resolved, onchains_fetched, load_history, histories_loaded, Goto, Fail, Early
  <2>2. next' \in Nat \ {0}
    BY <1>0, <2>1 DEF ShapeInv
  <2>3. ShapeInv' /\ OrderInv'
    BY <1>0, <2>1, <2>2 DEF ShapeInv, OrderInv
  <2> QED BY <1>a, <2>1, <2>3, EarlyStep
<1>3. CASE fetch_onchain
  <2>1. PICK r \in fetch_package_at_address(args.onchains[next]) : db' = r.db
    BY <1>3 DEF fetch_onchain
  <2>2. /\ Early /\ UNCHANGED <<args, order, names, pinned_seen>>
        /\ pc' \in {"onchains", "failed"} /\ next' \in {next, next + 1}
    BY <1>3 DEF fetch_onchain, Goto, Fail, Early
  <2>3. HasCode(published(Movy), Movy)'
    <3>1. published(Movy) \in DOMAIN db /\ Movy \in db[published(Movy)]
      BY <1>0 DEF DeployedInv, HasCode
    <3>2. published(Movy) \in DOMAIN db' /\ db'[published(Movy)] = db[published(Movy)]
      BY <2>1, <3>1, FetchKeeps DEF AddressesApart
    <3> QED BY <3>1, <3>2 DEF HasCode
  <2>4. next' \in Nat \ {0}
    BY <1>0, <2>2 DEF ShapeInv
  <2>5. ShapeInv' /\ OrderInv'
    BY <1>0, <2>2, <2>4 DEF ShapeInv, OrderInv
  <2> QED BY <2>2, <2>3, <2>5, EarlyStep
<1>4. CASE load_inner_types
  <2>1. /\ pc = "inner" /\ pc' \in {"local", "failed"} /\ db' = db
        /\ UNCHANGED <<args, order, next, names, pinned_seen, deployed>>
    BY <1>4 DEF load_inner_types, Goto, Fail
  <2>2. ~Active' /\ ~Early' /\ next = 1
    BY <1>0, <2>1 DEF Active, Early, ShapeInv
  <2> QED BY <1>a, <2>1, <2>2, QuietStep DEF BuiltInv
<1>5. CASE bundled_local_package_mapping
  BY <1>5, BundledStep
<1>6. CASE load_local
  <2>1. /\ pc = "local" /\ pc' \in {"fallback", "failed"} /\ db' = db /\ current # Movy /\ next <= Len(order)
        /\ UNCHANGED <<args, order, next, names, pinned_seen, deployed>>
        /\ pc' = "fallback" => /\ built' = build_checked(current) /\ ~build_error(current, TRUE)
                               /\ ~(Cardinality(pinned_addresses(current)) > 1)
    BY <1>6 DEF load_local, Goto, Fail
  <2>2. current' = current /\ next \in DOMAIN order /\ current \in Locals
    BY <1>0, <2>1 DEF current, ShapeInv
  <2>3. BuiltInv'
    <3> SUFFICES ASSUME pc' = "fallback" PROVE BuiltInv'
      BY <2>1 DEF BuiltInv, Active
    <3>1. Cardinality(pinned_addresses(current)) <= 1
      <4>1. Cardinality(pinned_addresses(current)) \in Nat
        BY <2>2, PinsFinite, FS_CardinalityType
      <4> QED BY <2>1, <4>1
    <3>2. pinned_addresses(current)' = pinned_addresses(current) /\ modules(current, TRUE)' = modules(current, TRUE)
      BY <2>1, <2>2 DEF pinned_addresses, modules, pin_map
    <3>3. ~build_error(current, TRUE)'
      BY <2>1, <2>2, <3>2 DEF build_error, unpublished_dependency
    <3>4. /\ built'.of = current /\ built'.package_id = published(current)
          /\ built'.names = package_names(current) /\ built'.modules = modules(current, TRUE)
      <4>1. built' = build_checked(current)
        BY <2>1
      <4> QED BY <4>1 DEF build_checked
    <3> QED BY <2>1, <2>2, <3>1, <3>2, <3>3, <3>4 DEF BuiltInv
  <2>4. ~Early' /\ (Active' => pc = "local")
    BY <2>1 DEF Early
  <2> QED BY <1>a, <2>1, <2>3, <2>4, QuietStep
<1>7. CASE fetch_dependency
  <2>1. /\ pc = "fallback" /\ UNCHANGED <<args, pc, order, next, built, names, pinned_seen, deployed>>
    BY <1>7 DEF fetch_dependency
  <2>2. Kept
    <3>1. PICK dep \in work :
            db' = db \/ (~Present(dep) /\ \E r \in fetch_package_at_address(dep) : db' = r.db)
      BY <1>7 DEF fetch_dependency
    <3>2. ASSUME ~Present(dep), NEW r \in fetch_package_at_address(dep), db' = r.db PROVE Kept
      <4>1. dep \notin DOMAIN db
        BY <3>2 DEF Present
      <4> QED BY <3>2, <4>1, FetchKeeps DEF Kept
    <3> QED BY <1>a, <3>1, <3>2
  <2>3. BuiltInv'
    BY <1>0, <2>1, BuiltStays DEF Active
  <2> QED BY <2>1, <2>2, <2>3, QuietStep DEF Early, Active
<1>8. CASE deploy_contract
  <2>1. /\ pc = "fallback" /\ Active /\ UNCHANGED <<args, order, next, built, names, pinned_seen>>
        /\ \/ pc' = "failed" /\ UNCHANGED <<db, deployed>>
           \/ deployment(built).first = Zero /\ Publish(deployment(built).id) /\ pc' = "init"
           \/ deployment(built).first # Zero /\ Publish(deployment(built).first) /\ pc' = "upgrade"
    BY <1>8 DEF deploy_contract, Goto, Fail, Active
  <2>2. /\ Home(current) = IF deployment(built).id = Zero THEN NewId[current] ELSE deployment(built).id
        /\ deployment(built).first # Zero => deployment(built).first = original(current)
    BY <1>0, <2>1, DeploymentFacts
  <2>3. CASE pc' = "failed" /\ UNCHANGED <<db, deployed>>
    <3>1. ~Active' /\ ~Early'
      BY <2>3 DEF Active, Early
    <3> QED BY <1>a, <2>1, <2>3, <3>1, QuietStep DEF BuiltInv
  <2>4. CASE Publish(deployment(built).id) /\ pc' = "init"
    <3>1. Publishes(Home(current))
      BY <1>0, <2>1, <2>2, <2>4, PublishAt
    <3> QED BY <2>1, <2>4, <3>1, PublishStep
  <2>5. CASE deployment(built).first # Zero /\ Publish(deployment(built).first) /\ pc' = "upgrade"
    <3>1. Publishes(original(current)) /\ original(current) # Zero
      BY <1>0, <2>1, <2>2, <2>5, PublishAt
    <3> QED BY <2>1, <2>5, <3>1, PublishStep
  <2> QED BY <2>1, <2>3, <2>4, <2>5
<1>9. CASE upgrade_contract
  <2>1. /\ pc = "upgrade" /\ Active /\ UNCHANGED <<args, order, next, built, names, pinned_seen>>
        /\ \/ pc' = "failed" /\ UNCHANGED <<db, deployed>>
           \/ Publish(deployment(built).id) /\ pc' = "init"
    BY <1>9 DEF upgrade_contract, Goto, Fail, Active
  <2>2. Home(current) = IF deployment(built).id = Zero THEN NewId[current] ELSE deployment(built).id
    BY <1>0, <2>1, DeploymentFacts
  <2>3. CASE pc' = "failed" /\ UNCHANGED <<db, deployed>>
    <3>1. ~Active' /\ ~Early'
      BY <2>3 DEF Active, Early
    <3> QED BY <1>a, <2>1, <2>3, <3>1, QuietStep DEF BuiltInv
  <2>4. CASE Publish(deployment(built).id) /\ pc' = "init"
    <3>1. Publishes(Home(current))
      BY <1>0, <2>1, <2>2, <2>4, PublishAt
    <3> QED BY <2>1, <2>4, <3>1, PublishStep
  <2> QED BY <2>1, <2>3, <2>4
<1>10. CASE movy_init
  <2>1. /\ pc = "init" /\ db' = db /\ UNCHANGED <<args, order, next, names, pinned_seen, deployed>>
        /\ \/ pc' = "failed"
           \/ pc' = "init" /\ built' = [built EXCEPT !.inits = Tail(@)]
    BY <1>10 DEF movy_init, Goto, Fail
  <2>2. CASE pc' = "failed"
    <3>1. ~Active' /\ ~Early'
      BY <2>2 DEF Active, Early
    <3> QED BY <1>a, <2>1, <2>2, <3>1, QuietStep DEF BuiltInv
  <2>3. CASE pc' = "init" /\ built' = [built EXCEPT !.inits = Tail(@)]
    <3>1. Active /\ Active' /\ ~Early'
      BY <2>1, <2>3 DEF Active, Early
    <3>2. /\ built'.of = built.of /\ built'.package_id = built.package_id
          /\ built'.names = built.names /\ built'.modules = built.modules
      BY <2>3
    <3>3. BuiltInv'
      BY <1>0, <2>1, <3>1, <3>2, BuiltStays
    <3> QED BY <1>a, <2>1, <2>3, <3>1, <3>3, QuietStep
  <2> QED BY <2>1, <2>2, <2>3
<1>11. CASE local_deployed
  BY <1>11, NamedStep
<1>12. CASE locals_deployed \/ reload_inner_types
  <2>1. /\ pc \in {"local", "reload"} /\ pc' \in {"reload", "done", "failed"} /\ db' = db
        /\ UNCHANGED <<args, order, next, names, pinned_seen, deployed>>
        /\ pc = "local" /\ pc' \in {"reload", "done"} => DOMAIN pin_map \subseteq pinned_seen
    BY <1>12 DEF locals_deployed, reload_inner_types, Goto, Fail
  <2>2. ~Active' /\ ~Early'
    BY <2>1 DEF Active, Early
  <2>3. pc' \in {"reload", "done"} => DOMAIN pin_map \subseteq pinned_seen
    BY <1>0, <2>1 DEF PinsInv
  <2> QED BY <1>a, <2>1, <2>2, <2>3, QuietStep DEF BuiltInv
<1>13. CASE UNCHANGED vars
  <2>1. db' = db /\ UNCHANGED <<args, pc, order, next, built, names, pinned_seen, deployed>>
    BY <1>13 DEF vars
  <2>2. BuiltInv' /\ (Active' <=> Active) /\ (Early' <=> Early)
    BY <1>0, <2>1, BuiltStays DEF Active, Early
  <2>3. pc \in {"reload", "done"} => DOMAIN pin_map \subseteq pinned_seen
    BY <1>0 DEF PinsInv
  <2> QED BY <1>a, <2>1, <2>2, <2>3, QuietStep
<1> QED BY <1>1, <1>2, <1>3, <1>4, <1>5, <1>6, <1>7, <1>8, <1>9, <1>10, <1>11, <1>12, <1>13 DEF Next

\* Every state of an environment whose addresses are apart is in order.
LEMMA EnvInvHolds ==
  ASSUME AddressesApart
  PROVE  Spec => []EnvInv
BY EnvInit, EnvStep, PTL DEF Spec

\* When build_env publishes a package, whatever it depends on has been deployed
\* before it and, unless a pin moved it, has its local build at the address the
\* package links against, for any manifests, order of --locals, fetches and failures.
THEOREM DependenciesAlwaysDeployed ==
  ASSUME AddressesApart
  PROVE  Spec => []DependenciesDeployed
<1>1. EnvInv => DependenciesDeployed
  <2> SUFFICES ASSUME EnvInv, Active, NEW q \in AllDeps[built.of], q # Movy
               PROVE  /\ q \in DOMAIN deployed
                      /\ published(q) # Zero /\ pinned_addresses(q) = {} /\ ~LosesOwnCode(q) => HasCode(published(q), q)
    BY DEF DependenciesDeployed, Active
  <2>1. next \in DOMAIN order /\ built.of = order[next] /\ DOMAIN order = 1..Len(order)
    BY DEF EnvInv, BuiltInv, ShapeInv, current
  <2>2. PICK j \in 1..(next - 1) : order[j] = q
    BY <2>1, DepsBefore DEF EnvInv
  <2>3. j \in DOMAIN order /\ j < next
    BY <2>1, <2>2
  <2> QED BY <2>2, <2>3 DEF EnvInv, DeployedInv, Rooted
<1> QED BY <1>1, EnvInvHolds, PTL

\* A name in the map build_env returns stands for a stored package that has the
\* code of the package of this name, unless a shared pin displaced it, and in the
\* end for the address --deploy-at gave it.
THEOREM NamesAlwaysResolve ==
  ASSUME AddressesApart
  PROVE  Spec => []NamesResolve
<1>1. EnvInv => NamesResolve
  <2> SUFFICES ASSUME EnvInv, NEW n \in DOMAIN names
               PROVE  /\ Resolved(n)
                      /\ pc = "done" /\ n \in DOMAIN pin_map => names[n] = pin_map[n]
    BY DEF NamesResolve, Resolved
  <2> QED BY DEF EnvInv, NamesInv, PinsInv
<1> QED BY <1>1, EnvInvHolds, PTL

=============================================================================
