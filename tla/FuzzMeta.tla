------------------------------ MODULE FuzzMeta ------------------------------
(***************************************************************************)
(* The metadata a fuzzing or testing run is driven by: what is read from   *)
(* the packages and objects of the environment (movy-replay, meta.rs), the *)
(* graph of producers and consumers of types (movy-analysis,               *)
(* type_graph.rs) and the target functions and hooks chosen from them      *)
(* (movy-fuzz, meta.rs).                                                   *)
(*                                                                         *)
(* A world is what the run finds: packages fetched from the chain, locally *)
(* deployed packages (their plain and their test build, compiled at        *)
(* address 0), the targets and filters of the command line, and objects.   *)
(* A function is the triple of the address it is called at, its module and *)
(* its name.  A TxContext parameter is always the last and is left out.    *)
(* A function's kind stands for its name's prefix (movy_pre_, movy_post_,  *)
(* movy_validate, test_), and of for the rest of the name; a module's      *)
(* tests is m if the module is called movy_m.                              *)
(***************************************************************************)
EXTENDS AbiTypes

CONSTANTS
  Worlds,
  PrimTags,              \* the type tags with the abilities of primitives
  INIT_FUNCTION_SCORE

VARIABLES
  world,
  base,    \* Metadata
  meta,    \* the fields of FuzzMetadata derived from it
  pc

metaVars == <<world, base, meta, pc>>

Nothing == <<>>

\* The packages of the environment: a locally deployed package is stored in its
\* test build, with its modules at the address it was first published at.
Published(modules, addr) ==
  LET move(ts) == [i \in DOMAIN ts |-> published_at(ts[i], 0, addr)] IN
  [i \in DOMAIN modules |->
     [modules[i] EXCEPT !.addr = addr,
        !.fns = [j \in DOMAIN @ |-> [@[j] EXCEPT !.params = move(@), !.rets = move(@)]]]]

export_abi(w) ==
  [id \in DOMAIN w.chain |-> w.chain[id].modules]
    @@ [id \in DOMAIN w.local |-> Published(w.local[id].test, w.local[id].home)]

get_version(w, id) == IF id \in DOMAIN w.local THEN w.local[id].version ELSE w.chain[id].version

local_abis(w) == [id \in DOMAIN w.local |-> Published(w.local[id].plain, id)]
local_testing_abis(w) == [id \in DOMAIN w.local |-> Published(w.local[id].test, id)]

Elements(s) == {s[i] : i \in DOMAIN s}
Keeps(include, exclude, x) == (\A S \in include : x \in S) /\ (\A S \in exclude : x \notin S)

-----------------------------------------------------------------------------
(* Metadata::from_env_filtered.                                             *)

\* The newest of several versions of a package, the first of equal ones.
Newest(w, ids) ==
  CHOOSE id \in ids : \A o \in ids :
    \/ get_version(w, o) < get_version(w, id)
    \/ get_version(w, o) = get_version(w, id) /\ id <= o

module_address_to_package(w, abis) ==
  LET at(addr) == {id \in DOMAIN abis : \E m \in Elements(abis[id]) : m.addr = addr}
      addrs == {m.addr : m \in UNION {Elements(abis[id]) : id \in DOMAIN abis}}
  IN  [addr \in addrs |-> Newest(w, at(addr))]

\* Concrete types by the exact set of their abilities.
ability_to_type_tag(abis) ==
  LET plain == {<<m, s>> \in UNION {{<<m, s>> : s \in Elements(m.structs)} :
                   m \in UNION {Elements(abis[id]) : id \in DOMAIN abis}} : s.ar = 0}
  IN  [ab \in {PRIMITIVES, {"drop"}} \cup {p[2].ab : p \in plain} |->
         {StructTag(<<p[1].addr, p[2].name>>, <<>>) : p \in {q \in plain : q[2].ab = ab}}
           \cup (IF ab = PRIMITIVES THEN PrimTags ELSE {})
           \cup (IF ab = {"drop"} THEN {PrimTag("signer")} ELSE {})]

\* Every function of that name, once for every package that has it.
function_name_to_idents(abis) ==
  LET byId == SetToSortSeq(DOMAIN abis, <)
      idents(m) == [j \in DOMAIN m.fns |-> <<m.addr, m.name, m.fns[j].name>>]
      modules == FlattenSeq([i \in DOMAIN byId |-> abis[byId[i]]])
      all == FlattenSeq([i \in DOMAIN modules |-> idents(modules[i])])
  IN  [n \in {f[3] : f \in Elements(all)} |-> SelectSeq(all, LAMBDA f : f[3] = n)]

filter_types_pool(w) ==
  {o \in DOMAIN w.objects : Keeps(w.filters.inTys, w.filters.exTys, w.objects[o].ty)}

\* MoveTypeGraph::add_package: a module is analyzed in the first package, in
\* address order, that has it.
add_package(abis) ==
  UNION {UNION {{[addr |-> m.addr, module |-> m.name, f |-> f] : f \in Elements(m.fns)} :
           m \in {m \in Elements(abis[id]) :
                    \A o \in DOMAIN abis : o < id =>
                      \A n \in Elements(abis[o]) : <<n.addr, n.name>> # <<m.addr, m.name>>}} :
         id \in DOMAIN abis}

from_env_filtered ==
  /\ pc = "boot" /\ pc' = "base"
  /\ LET abis == local_abis(world) @@ export_abi(world) IN
     base' = [abis |-> abis,
              testing |-> export_abi(world),
              home |-> module_address_to_package(world, abis),
              byAbility |-> ability_to_type_tag(abis),
              idents |-> function_name_to_idents(export_abi(world)),
              pool |-> filter_types_pool(world),
              graph |-> add_package(abis)]
  /\ UNCHANGED <<world, meta>>

-----------------------------------------------------------------------------
(* Lookups.                                                                 *)

HomeOf(addr) == IF addr \in DOMAIN base.home THEN base.home[addr] ELSE addr

\* Mutant: the plain build is searched.
get_package_metadata_plain(id) == If(HomeOf(id) \in DOMAIN base.abis, Some(base.abis[HomeOf(id)]))

get_package_metadata(id) == If(HomeOf(id) \in DOMAIN base.testing, Some(base.testing[HomeOf(id)]))
get_original_package_metadata(id) == If(HomeOf(id) \in DOMAIN base.abis, Some(base.abis[HomeOf(id)]))

get_function(ident) ==
  UNION {{f \in UNION {Elements(m.fns) : m \in {m \in Elements(p) : m.name = ident[2]}} :
            f.name = ident[3]} : p \in get_package_metadata(ident[1])}

get_abilities(n) ==
  {s.ab : s \in UNION {{s \in UNION {Elements(m.structs) : m \in Elements(p)} : s.name = n[2]} :
                         p \in get_package_metadata(n[1])}}

find_consumers(ty) ==
  {g \in base.graph : /\ g.f.vis = "public"
                      /\ \E p \in Elements(g.f.params) :
                           partial_extract_ty_args(dereference(p), ty) # None}

\* Of the framework only a few functions may produce arguments.
producer_allowed(g) ==
  \/ g.addr \notin {1, 2, 3, 13}
  \/ <<g.addr, g.module, g.f.name>> \in
       {<<2, "coin", "into_balance">>, <<1, "ascii", "string">>, <<1, "string", "utf8">>,
        <<1, "uq32_32", "from_quotient">>, <<1, "uq64_64", "from_quotient">>}

find_producers(ty, caller) ==
  {g \in base.graph : /\ g.f.vis = "public" /\ producer_allowed(g)
                      /\ <<g.addr, g.module, g.f.name>> # caller
                      /\ \E r \in Elements(g.f.rets) :
                           partial_extract_ty_args(dereference(r), dereference(ty)) # None}

-----------------------------------------------------------------------------
(* FuzzMetadata::from_metadata.                                             *)

normalize_packages(w) ==
  {p \in w.targets : Keeps(w.filters.inPkgs, w.filters.exPkgs, p)}

Droppable(t) == \E ab \in ability(t) : "drop" \in ab
ReadOnly(f) ==
  /\ \A t \in Elements(f.params) : Droppable(t) \/ t.k = "ref"
  /\ \A t \in Elements(f.rets) : is_mutable(t) \/ Droppable(t)

skip_function_reason(f) ==
  \/ f.vis # "public" \/ ReadOnly(f)
  \/ \E r \in Elements(f.rets) : IsRef(r) \/ (is_hot_potato(r) /\ find_consumers(r) = {})

FunctionsOf(id, modules, Wanted(_)) ==
  UNION {{<<id, m.name, f.name>> : f \in {f \in Elements(m.fns) : Wanted(f)}} : m \in Elements(modules)}

collect_target_functions(ids) ==
  UNION {UNION {FunctionsOf(id, p, LAMBDA f : ~skip_function_reason(f)) :
                  p \in get_original_package_metadata(id)} : id \in ids}

collect_testing_target_functions(ids) ==
  UNION {UNION {FunctionsOf(id, p, LAMBDA f : ~skip_function_reason(f)) :
                  p \in get_package_metadata(id)} : id \in ids}

collect_validation_target_functions(ids) ==
  UNION {UNION {FunctionsOf(id, p, LAMBDA f : f.vis = "public" /\ f.kind = "validate") :
                  p \in get_package_metadata(id)} : id \in ids}

fallback_target_functions(ids) ==
  UNION {FunctionsOf(id, base.abis[id], LAMBDA f : TRUE) : id \in ids \cap DOMAIN base.abis}
    \cup UNION {FunctionsOf(id, base.testing[id], LAMBDA f : TRUE) : id \in ids \cap DOMAIN base.testing}

apply_function_filters(fns, fl) ==
  {f \in fns : /\ Keeps(fl.inPkgs, fl.exPkgs, f[1])
               /\ Keeps(fl.inFns, fl.exFns, f)
               /\ Keeps(fl.inMods, fl.exMods, <<f[1], f[2]>>)}

\* The first of three collections that is not empty.
TargetFunctions ==
  LET ids == normalize_packages(world)
      kept(fns) == apply_function_filters(fns, world.filters)
      plain == kept(collect_target_functions(ids) \cup collect_validation_target_functions(ids))
      testing == kept(collect_testing_target_functions(ids)
                        \cup collect_validation_target_functions(ids))
  IN  IF plain # {} THEN plain
      ELSE IF testing # {} THEN testing
      ELSE kept(fallback_target_functions(ids))

derive_function_scores(fns) ==
  [f \in fns |-> IF f \in DOMAIN world.scores THEN world.scores[f] ELSE INIT_FUNCTION_SCORE]

collect_target_packages_from_functions(fns) == {f[1] : f \in fns}

\* The hooks of the test packages, with the module they are written in.
HookFunctions(kind) ==
  LET tests == local_testing_abis(world) IN
  UNION {UNION {{[pkg |-> id, module |-> m, f |-> f] :
                   f \in {f \in Elements(m.fns) : f.kind = kind}} : m \in Elements(tests[id])} :
         id \in DOMAIN tests}
IdentOf(h) == <<h.pkg, h.module.name, h.f.name>>
IsSequenceHook(h) == h.f.of = "ptb"

\* Mutant: of several functions of that name the first is hooked.
HookTarget_first(h, module) == If(h.f.of \in DOMAIN base.idents, Some(base.idents[h.f.of][1]))

\* A hook belongs to the only function of that name; of several, to the one of
\* its own package in the given module.
HookTarget(h, module) ==
  IF h.f.of \notin DOMAIN base.idents THEN None
  ELSE LET named == base.idents[h.f.of]
           own == SelectSeq(named, LAMBDA f : f[1] = h.pkg /\ f[2] = module)
       IN  IF Len(named) = 1 THEN Some(named[1]) ELSE If(own # <<>>, Some(Head(own)))

\* Pre hooks of module m are looked for in movy_m, post hooks in m itself.
Hooks(kind) ==
  {[hook |-> IdentOf(h),
    target |-> HookTarget(h, IF kind = "pre" THEN h.module.tests ELSE h.module.name)] :
     h \in {h \in HookFunctions(kind) : ~IsSequenceHook(h)}}

derive_function_hooks ==
  [kind \in {"pre", "post"} |-> {[hook |-> h.hook, target |-> Get(h.target)] : h \in Hooks(kind)}]
derive_sequence_hooks ==
  [kind \in {"pre", "post"} |-> {IdentOf(h) : h \in {h \in HookFunctions(kind) : IsSequenceHook(h)}}]

HookMissing == \E kind \in {"pre", "post"} : \E h \in Hooks(kind) : h.target = None

from_metadata ==
  /\ pc = "base" /\ ~HookMissing /\ pc' = "ready"
  /\ meta' = [targets |-> TargetFunctions,
              packages |-> collect_target_packages_from_functions(TargetFunctions),
              scores |-> derive_function_scores(TargetFunctions),
              hooks |-> derive_function_hooks,
              seqHooks |-> derive_sequence_hooks]
  /\ UNCHANGED <<world, base>>

\* "can not find movy_pre function", or no function of the wanted module.
hook_panics ==
  /\ pc = "base" /\ HookMissing /\ pc' = "panic"
  /\ UNCHANGED <<world, base, meta>>

\* The test command runs the test functions of the target packages instead.
select_test_functions ==
  /\ pc = "ready" /\ pc' = "testing"
  /\ meta' = [meta EXCEPT !.targets =
                UNION {FunctionsOf(id, base.testing[id], LAMBDA f : f.kind = "test") :
                         id \in meta.packages \cap DOMAIN base.testing}]
  /\ UNCHANGED <<world, base>>

MetaInit == world \in Worlds /\ base = Nothing /\ meta = Nothing /\ pc = "boot"
MetaNext == from_env_filtered \/ from_metadata \/ hook_panics \/ select_test_functions

-----------------------------------------------------------------------------
\* A package another one in the store has replaced.
Superseded(id) ==
  \E o \in DOMAIN base.testing :
    /\ get_version(world, o) > get_version(world, id)
    /\ \E m \in Elements(base.testing[id]), n \in Elements(base.testing[o]) : m.addr = n.addr

\* Every target the run may draw can be called: looking it up with get_function
\* finds it (append_function panics otherwise), and the package at the address
\* the call names has that function with that signature.  Packages that a newer
\* version in the store has replaced are looked up in the newer one, so their
\* removed or added functions are excepted.
TargetsResolve ==
  pc \in {"ready", "testing"} =>
    \A t \in meta.targets : ~Superseded(t[1]) =>
      \E f \in get_function(t) :
        \E m \in Elements(base.testing[t[1]]) : m.name = t[2] /\ f \in Elements(m.fns)

\* A hook movy_m::movy_pre_f or movy_post_f of a locally deployed package is
\* run around the calls of m::f: it is filed under the very function the
\* sequence calls, whatever other packages define functions of that name.  A
\* post hook of a name that is defined twice is excepted: it is looked for in
\* its own module.
HooksReachTargets ==
  pc = "ready" =>
    \A kind \in {"pre", "post"} : \A h \in HookFunctions(kind) :
      LET target == <<h.pkg, h.module.tests, h.f.of>> IN
      /\ ~IsSequenceHook(h) /\ target \in meta.targets
      /\ world.local[h.pkg].home = h.pkg
      /\ kind = "post" => Len(base.idents[h.f.of]) = 1
      => [hook |-> IdentOf(h), target |-> target] \in meta.hooks[kind]

\* Matching types means what it should: extract_ty_args finds exactly the type
\* arguments that turn a parameter's type into an object's type, and a match of
\* a parameter with a producer's return type is their most general unifier.
MatchingExact ==
  pc = "base" =>
    LET tokens == UNION {Elements(g.f.params) \cup Elements(g.f.rets) : g \in base.graph}
        tags == {world.objects[o].ty : o \in DOMAIN world.objects} \cup PrimTags
        instances == UNION {UNION {subst(t, m) : m \in [ParamsOf(t) -> tags]} : t \in tokens}
    IN  /\ \A t \in tokens, g \in tags \cup instances : extract_ty_args(t, g) = Solutions(t, g)
        /\ \A t \in tokens, o \in tokens : \A match \in partial_extract_ty_args(t, o) :
             Unifies(t, o, match, tags)
=============================================================================
