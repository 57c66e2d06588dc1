------------------------------ MODULE BuildEnv ------------------------------
(***************************************************************************)
(* SuiTargetArgs::build_env (movy sui/env.rs): packages are fetched from   *)
(* the chain, local packages are compiled (movy-sui compile.rs) and        *)
(* deployed in dependency order with their movy_init (movy-replay env.rs,  *)
(* exec.rs), and the result is used for selectors and coverage (lcov.rs).  *)
(*                                                                         *)
(* A package is named by its directory.  Its manifest gives an original    *)
(* and a published address, Zero when it has none.  The compiler, the      *)
(* publishing transaction and the service are external and may fail.       *)
(***************************************************************************)
EXTENDS Integers, Sequences, FiniteSets, Functions

CONSTANTS
  Locals,    \* packages whose sources are at hand, dependencies included; the system
             \* packages, installed beforehand and never deployed, are left out
  Manifest,  \* per local package: deps, uses, stray, original, published, inits
  Chain,     \* package ids the forked chain holds
  Linkage,   \* per id on the chain: original -> upgraded id of its dependencies
  History,   \* per id on the chain: shared objects of its types
  Movy,      \* the bundled package, installed beforehand
  Zero,      \* address 0x0
  NewId,     \* per local package: the id it gets when none is asked for
  Arguments  \* command lines: records like args below

published(p) == Manifest[p].published
original(p) == Manifest[p].original

ASSUME ManifestAssumption ==
  /\ IsFiniteSet(Locals) /\ "tests" \notin Locals
  /\ \A a \in Arguments : a.locals \in Seq(Locals)
  /\ Movy \in Locals /\ Manifest[Movy].deps = {} /\ Manifest[Movy].published # Zero
  /\ \A p \in Locals : /\ Manifest[p].uses \cup Manifest[p].stray \subseteq Manifest[p].deps
                       /\ Manifest[p].deps \subseteq Locals \ {p}
                       /\ Manifest[p].original = Zero <=> Manifest[p].published = Zero
  /\ \A p, q \in Locals : NewId[p] # published(q) /\ NewId[p] # original(q) /\ (p # q => NewId[p] # NewId[q])
  /\ \A c \in Chain : \A o \in DOMAIN Linkage[c] : {o, Linkage[c][o]} \subseteq Chain

\* No two packages claim an address, a pin is no address in use, and the address
\* movy is bundled under is not a package of the chain.
AddressesApart ==
  /\ \A p, q \in Locals : p # q => {original(p), published(p)} \cap {original(q), published(q)} \subseteq {Zero}
  /\ \A a \in Arguments : \A e \in a.deploy_at : \A p \in Locals :
       e.address \notin {original(p), published(p), NewId[p], Zero}
  /\ published(Movy) \notin Chain

VARIABLES
  args,      \* locals, onchains, histories, deploy_at, unpublished, checks, fallback, graphql
  pc, why,   \* where build_env is, and the error it ended with
  order,     \* resolved_locals
  next,      \* position in the list being worked on
  db,        \* packages in the store: id -> local packages whose code it has, {} if the chain's
  objects,   \* Move objects in the store
  built,     \* the package under way, as compiled_result
  work,      \* packages_to_fetch
  names,     \* local_name_map
  pinned_seen,
  targets,   \* target_packages
  deployed,  \* ghost: local package -> id of its own deployment
  fetched    \* ghost: ids passed to fetch_package_at_address that were found

vars == <<args, pc, why, order, next, db, objects, built, work, names, pinned_seen,
          targets, deployed, fetched>>

Addresses == {published(p) : p \in Locals} \cup {original(p) : p \in Locals}
NoPackage == [of |-> "none"]

\* The store, and what it reads through to.
Present(id) == id \in DOMAIN db \/ (args.graphql /\ id \in Chain)
Put(d, ids, code) == [x \in DOMAIN d \cup ids |-> IF x \in ids THEN code ELSE d[x]]

Init ==
  /\ args \in Arguments
  /\ pc = "resolve" /\ why = "none" /\ order = <<>> /\ next = 1
  /\ db = [x \in {published(Movy)} |-> {Movy}] /\ objects = {}
  /\ built = NoPackage /\ work = {} /\ names = <<>> /\ pinned_seen = {}
  /\ targets = <<>> /\ deployed = <<>> /\ fetched = {}

Fail(error) == pc' = "failed" /\ why' = error
Goto(p) == pc' = p /\ why' = why

-----------------------------------------------------------------------------
(* Order of deployment.                                                     *)

\* Transitive dependencies of a package.
AllDeps == [p \in Locals |->
  {q \in Locals : \A S \in SUBSET Locals :
     Manifest[p].deps \subseteq S /\ (\A x \in S : Manifest[x].deps \subseteq S) => q \in S}]

\* The sequences that list a set, each member once.
Orders(S) == Surjection(1..Cardinality(S), S)

\* sorted_packages of the package system: every package before its dependencies.
sorted_packages(p) ==
  {s \in Orders(AllDeps[p] \cup {p}) :
     \A i, j \in DOMAIN s : s[j] \in Manifest[s[i]].deps => i < j}

\* Mutant: dependents first.
resolve_local_dependency_paths_forward(ordered, sorted) ==
  {ordered \o s : s \in
     {s \in Orders(Range(sorted) \ Range(ordered)) :
        \A i, j \in DOMAIN s : \A k, l \in DOMAIN sorted :
          sorted[k] = s[i] /\ sorted[l] = s[j] /\ k < l => i < j}}
\* One round of the loop: the packages that were not listed yet, in reverse.
resolve_local_dependency_paths(ordered, sorted) ==
  {ordered \o s : s \in
     {s \in Orders(Range(sorted) \ Range(ordered)) :
        \A i, j \in DOMAIN s : \A k, l \in DOMAIN sorted :
          sorted[k] = s[i] /\ sorted[l] = s[j] /\ k < l => j < i}}

resolve ==
  /\ pc = "resolve" /\ next <= Len(args.locals)
  /\ \/ Fail("load") /\ UNCHANGED <<order, next>>
     \/ /\ Goto(pc) /\ next' = next + 1
        /\ \E sorted \in sorted_packages(args.locals[next]) :
             order' \in resolve_local_dependency_paths(order, sorted)
  /\ UNCHANGED <<args, db, objects, built, work, names, pinned_seen, targets, deployed, fetched>>

locals_resolved ==
  /\ pc = "resolve" /\ next > Len(args.locals) /\ next' = 1 /\ Goto("onchains")
  /\ UNCHANGED <<args, order, db, objects, built, work, names, pinned_seen, targets, deployed, fetched>>

-----------------------------------------------------------------------------
(* Fetching from the chain.                                                 *)

\* Mutant: upgraded packages are fetched although the store has them.
missing_upgrades_any(id) == {Linkage[id][o] : o \in DOMAIN Linkage[id]}
missing_upgrades(id) == {u \in {Linkage[id][o] : o \in DOMAIN Linkage[id]} : ~Present(u)}

\* Mutant: failures to fetch what the package links to are ignored.
fetch_package_at_address_lax(id) ==
  LET after(S) == Put(db, S, {})
  IN  {[ok |-> FALSE, db |-> db]}
        \cup (IF id \notin Chain THEN {}
              ELSE {[ok |-> TRUE, db |-> after(S \cup {id})] : S \in SUBSET missing_upgrades(id)})
\* The stores that can result: upgraded packages are committed one by one, the
\* package itself last, and any of the queries may fail.
fetch_package_at_address(id) ==
  LET after(S) == Put(db, S, {})
  IN  {[ok |-> FALSE, db |-> db]}
        \cup (IF id \notin Chain THEN {}
              ELSE {[ok |-> TRUE, db |-> after(missing_upgrades(id) \cup {id})]}
                     \cup {[ok |-> FALSE, db |-> after(S)] :
                             S \in SUBSET missing_upgrades(id) \ {missing_upgrades(id)}})

fetch_onchain ==
  /\ pc = "onchains" /\ next <= Len(args.onchains)
  /\ LET id == args.onchains[next]
     IN  \E r \in fetch_package_at_address(id) :
           /\ db' = r.db
           /\ IF r.ok THEN Goto(pc) /\ next' = next + 1 /\ targets' = Append(targets, id) /\ fetched' = fetched \cup {id}
              ELSE Fail("onchain") /\ UNCHANGED <<next, targets, fetched>>
  /\ UNCHANGED <<args, order, objects, built, work, names, pinned_seen, deployed>>

onchains_fetched ==
  /\ pc = "onchains" /\ next > Len(args.onchains) /\ next' = 1 /\ Goto("histories")
  /\ UNCHANGED <<args, order, db, objects, built, work, names, pinned_seen, targets, deployed, fetched>>

load_history ==
  /\ pc = "histories" /\ next <= Len(args.histories)
  /\ LET id == args.histories[next]
     IN  \/ /\ objects' = IF Present(id) THEN objects \cup History[id] ELSE objects
            /\ next' = next + 1 /\ Goto(pc)
         \/ /\ Present(id) /\ Fail("history")
            /\ \E S \in SUBSET History[id] : objects' = objects \cup S
            /\ UNCHANGED next
  /\ UNCHANGED <<args, order, db, built, work, names, pinned_seen, targets, deployed, fetched>>

histories_loaded ==
  /\ pc = "histories" /\ next > Len(args.histories) /\ next' = 1 /\ Goto("inner")
  /\ UNCHANGED <<args, order, db, objects, built, work, names, pinned_seen, targets, deployed, fetched>>

\* Every package an object's type mentions must be loadable.
loadable(o) == \A a \in o.ty : Present(a)

pin_conflict == \E e, f \in args.deploy_at : e.name = f.name /\ e.address # f.address
pin_map == [n \in {e.name : e \in args.deploy_at} |-> (CHOOSE e \in args.deploy_at : e.name = n).address]

load_inner_types ==
  /\ pc = "inner"
  /\ IF \A o \in objects : loadable(o)
     THEN IF pin_conflict THEN Fail("pins") ELSE Goto("local")
     ELSE Fail("type")
  /\ UNCHANGED <<args, order, next, db, objects, built, work, names, pinned_seen, targets, deployed, fetched>>

-----------------------------------------------------------------------------
(* Compilation.                                                             *)

\* Modules of a compilation of p, with the address the compiler gives them; tests
\* may define modules at the address of a dependency.
Own(q) == [of |-> q, at |-> original(q)]
root_compiled_units(p, test_mode) ==
  {Own(p)} \cup {[of |-> "tests", at |-> original(d)] : d \in IF test_mode THEN Manifest[p].stray ELSE {}}
all_compiled_units(p, test_mode) == root_compiled_units(p, test_mode) \cup {Own(q) : q \in AllDeps[p]}

dep_addresses(p) == {original(q) : q \in AllDeps[p]} \ {Zero}

package_names(p) == {p} \cup {q \in AllDeps[p] : original(q) = published(p)}

\* Bundling takes the modules at 0x0 in and moves all to the root's address.
modules(p, test_mode) ==
  IF args.unpublished
  THEN {[m EXCEPT !.at = published(p)] :
          m \in {m \in all_compiled_units(p, test_mode) : m.at \in {published(p), Zero}}}
  ELSE {m \in root_compiled_units(p, test_mode) : test_mode => m.at \notin dep_addresses(p)}

Code(ms) == {m.of : m \in ms} \ {"tests"}
unbundled(ms) == UNION {Manifest[q].uses : q \in Code(ms)} \ Code(ms)

unpublished_dependency(p) == ~args.unpublished /\ \E q \in AllDeps[p] : original(q) = Zero
build_error(p, test_mode) ==
  \/ args.checks /\ unpublished_dependency(p)
  \/ args.checks /\ published(p) # Zero /\ \E q \in unbundled(modules(p, test_mode)) : original(q) = Zero
  \/ modules(p, test_mode) = {}

dependencies(p) == {published(q) : q \in AllDeps[p]} \ {Zero, published(p)}

build_checked(p) ==
  [of |-> p, package_id |-> published(p), names |-> package_names(p),
   modules |-> modules(p, TRUE), dependencies |-> dependencies(p), inits |-> Manifest[p].inits]

\* Addresses --deploy-at gives for the package.
pinned_addresses(p) == {pin_map[n] : n \in package_names(p) \cap DOMAIN pin_map}

\* What a build links to; its modules may also use each other (own, in load_local).
packages_to_fetch(p) ==
  dependencies(p) \cup {original(d) : d \in unbundled(modules(p, FALSE))}

-----------------------------------------------------------------------------
(* Deploying one local package.                                             *)

current == order[next]

bundled_local_package_mapping ==
  /\ pc = "local" /\ next <= Len(order) /\ current = Movy
  /\ names' = IF Movy \in DOMAIN names THEN names
              ELSE [n \in DOMAIN names \cup {Movy} |-> IF n = Movy THEN published(Movy) ELSE names[n]]
  /\ next' = next + 1
  /\ UNCHANGED <<args, pc, why, order, db, objects, built, work, pinned_seen, targets, deployed, fetched>>

load_local ==
  /\ pc = "local" /\ next <= Len(order) /\ current # Movy
  /\ \/ Fail("build") /\ UNCHANGED <<built, work>>
     \/ /\ ~build_error(current, FALSE) /\ ~build_error(current, TRUE)
        /\ IF Cardinality(pinned_addresses(current)) > 1 THEN Fail("pins") /\ UNCHANGED <<built, work>>
           ELSE /\ built' = build_checked(current)
                /\ \E own \in SUBSET {m.at : m \in modules(current, FALSE)} :
                     work' = IF args.fallback THEN packages_to_fetch(current) \cup own ELSE {}
                /\ Goto("fallback")
  /\ UNCHANGED <<args, order, next, db, objects, names, pinned_seen, targets, deployed, fetched>>

\* One round of the loop over packages_to_fetch.
fetch_dependency ==
  /\ pc = "fallback"
  /\ \E dep \in work :
       IF dep \in {Zero, built.package_id} \/ Present(dep)
       THEN work' = work \ {dep} /\ UNCHANGED <<db, fetched>>
       ELSE \E r \in fetch_package_at_address(dep) :
              /\ db' = r.db
              /\ work' = (work \ {dep}) \cup IF r.ok THEN DOMAIN Linkage[dep] ELSE {}
              /\ fetched' = IF r.ok THEN fetched \cup {dep} ELSE fetched
  /\ UNCHANGED <<args, pc, why, order, next, objects, built, names, pinned_seen, targets, deployed>>

\* The package's modules are set to 0x0 and its id to the pinned address, if any.
deployment(p) ==
  LET at == (CHOOSE m \in p.modules : TRUE).at
      pins == pinned_addresses(p.of)
  IN  IF pins # {} THEN [id |-> CHOOSE a \in pins : TRUE, first |-> Zero]
      ELSE [id |-> p.package_id, first |-> IF at \in {Zero, p.package_id} THEN Zero ELSE at]

\* Publishing needs every dependency in the store, and every used module in the
\* package or in one of them (external).
Links(p) == p.dependencies \subseteq {a \in Addresses : Present(a)} /\ \A q \in unbundled(p.modules) : original(q) # Zero

Publish(id) ==
  LET at == IF id = Zero THEN NewId[built.of] ELSE id
  IN  /\ db' = Put(db, {at}, Code(built.modules))
      /\ deployed' = [q \in DOMAIN deployed \cup {built.of} |-> IF q = built.of THEN at ELSE deployed[q]]

deploy_contract ==
  /\ pc = "fallback" /\ work = {}
  /\ IF \E m, n \in built.modules : m.at # n.at THEN Fail("addresses") /\ UNCHANGED <<db, deployed>>
     ELSE \/ /\ Links(built)
             /\ LET d == deployment(built)
                IN  IF d.first = Zero THEN Publish(d.id) /\ Goto("init") ELSE Publish(d.first) /\ Goto("upgrade")
          \/ Fail(IF Links(built) THEN "execution" ELSE "link") /\ UNCHANGED <<db, deployed>>
  /\ UNCHANGED <<args, order, next, objects, built, work, names, pinned_seen, targets, fetched>>

upgrade_contract ==
  /\ pc = "upgrade"
  /\ \/ Publish(deployment(built).id) /\ Goto("init")
     \/ Fail("execution") /\ UNCHANGED <<db, deployed>>
  /\ UNCHANGED <<args, order, next, objects, built, work, names, pinned_seen, targets, fetched>>

\* Objects movy_init can be given for a parameter: what the deployer owns, and by
\* reference what is shared or, if not mutable, immutable.
eligible(param) ==
  {o \in objects : /\ o.of = param.of
                   /\ \/ o.owner = "deployer"
                      \/ o.owner = "shared" /\ param.mode \in {"ref", "mut"}
                      \/ o.owner = "immutable" /\ param.mode = "ref"}
build_movy_init_args(params) ==
  {a \in [DOMAIN params -> objects] :
     /\ \A i \in DOMAIN params : a[i] \in eligible(params[i])
     /\ \A i, j \in DOMAIN params : i # j => a[i] # a[j]}

\* What movy_init makes: an object of a type of the package, shared or the deployer's.
Made ==
  LET d == deployment(built)
      home == IF d.first = Zero THEN deployed[built.of] ELSE d.first
  IN  {[id |-> built.of, of |-> home, ty |-> {home}, owner |-> w] : w \in {"deployer", "shared"}}

\* No arguments, or the call reverts, or its effects are committed.
movy_init ==
  /\ pc = "init" /\ built.inits # <<>>
  /\ \/ Fail("init") /\ UNCHANGED <<objects, built>>
     \/ /\ \E a \in build_movy_init_args(Head(built.inits)), o \in Made :
             objects' = (objects \ {a[i] : i \in {i \in DOMAIN a : Head(built.inits)[i].mode = "value"}}) \cup {o}
        /\ built' = [built EXCEPT !.inits = Tail(@)] /\ Goto(pc)
  /\ UNCHANGED <<args, order, next, db, work, names, pinned_seen, targets, deployed, fetched>>

is_explicit_target == current \in Range(args.locals)

local_deployed ==
  /\ pc = "init" /\ built.inits = <<>>
  /\ names' = [n \in DOMAIN names \cup built.names |-> IF n \in built.names THEN deployed[current] ELSE names[n]]
  /\ pinned_seen' = pinned_seen \cup (built.names \cap DOMAIN pin_map)
  /\ targets' = IF is_explicit_target THEN Append(targets, deployed[current]) ELSE targets
  /\ built' = NoPackage /\ next' = next + 1 /\ Goto("local")
  /\ UNCHANGED <<args, order, db, objects, work, deployed, fetched>>

locals_deployed ==
  /\ pc = "local" /\ next > Len(order)
  /\ IF DOMAIN pin_map \subseteq pinned_seen THEN Goto("reload") ELSE Fail("unmatched")
  /\ UNCHANGED <<args, order, next, db, objects, built, work, names, pinned_seen, targets, deployed, fetched>>

reload_inner_types ==
  /\ pc = "reload"
  /\ IF \A o \in objects : loadable(o) THEN Goto("done") ELSE Fail("type")
  /\ UNCHANGED <<args, order, next, db, objects, built, work, names, pinned_seen, targets, deployed, fetched>>

Next ==
  \/ resolve \/ locals_resolved \/ fetch_onchain \/ onchains_fetched \/ load_history \/ histories_loaded \/ load_inner_types
  \/ bundled_local_package_mapping \/ load_local \/ fetch_dependency
  \/ deploy_contract \/ upgrade_contract \/ movy_init \/ local_deployed
  \/ locals_deployed \/ reload_inner_types

Spec == Init /\ [][Next]_vars

-----------------------------------------------------------------------------
(* Properties.                                                              *)

HasCode(id, p) == id \in DOMAIN db /\ p \in db[id]

\* The bundling build takes modules at the published address, which an upgraded
\* package's own modules do not have, and leaves them out.
LosesOwnCode(p) == args.unpublished /\ original(p) # published(p)

\* When a package is published, its dependencies have been deployed before it, and
\* at the address it links against there is the local build and not the chain's,
\* for every command line and order of --locals.  A pin moves a dependency away.
DependenciesDeployed ==
  pc \in {"fallback", "upgrade"} =>
    \A q \in AllDeps[built.of] \ {Movy} :
      /\ q \in DOMAIN deployed
      /\ published(q) # Zero /\ pinned_addresses(q) = {} /\ ~LosesOwnCode(q) => HasCode(published(q), q)

\* A package that does not go by the name n is pinned to the address n has, and
\* is deployed after one that does: --deploy-at names a package they both bundle.
Displaced(n) ==
  \E i, j \in DOMAIN order :
    /\ i < j /\ n \in package_names(order[i]) /\ n \notin package_names(order[j])
    /\ names[n] \in pinned_addresses(order[j])

\* A package name resolves to a stored package that has the code of the package of
\* this name, and in the end at the address it is pinned to, whatever is bundled,
\* deployed or fetched later.  Without checks and bundling a dependency at 0x0 that
\* is not used lends its name to its dependent.
NamesResolve ==
  \A n \in DOMAIN names :
    /\ (args.checks \/ args.unpublished) /\ ~LosesOwnCode(n) /\ ~Displaced(n) => HasCode(names[n], n)
    /\ pc = "done" /\ n \in DOMAIN pin_map => names[n] = pin_map[n]

\* Whatever was fetched as a package can be executed, all it links to is loadable,
\* although fetches fail half way; and in the end so are the packages of the types
\* of all objects.
Loadable ==
  /\ \A c \in fetched : \A o \in DOMAIN Linkage[c] : Present(Linkage[c][o])
  /\ pc = "done" => \A o \in objects : \A a \in o.ty : Present(a)
=============================================================================
