---------------------------- MODULE GenericCalls ----------------------------
(***************************************************************************)
(* How the type arguments of appended calls are chosen (append_function    *)
(* and try_construct_args): arguments are sampled from the results of the  *)
(* sequence and from the store, what is missing is produced by further     *)
(* calls found in the type graph, and each of them may bind some of the    *)
(* type parameters of the call that needs it.                              *)
(*                                                                         *)
(* SequenceEdits models the bookkeeping of inputs, splits, hot potatoes    *)
(* and removals for types that are not generic.  Here an argument is the   *)
(* object or the result it refers to instead of its index, with the        *)
(* concrete type it really has, and no target is removed again.  There are *)
(* no coins in the worlds, so nothing is split.                            *)
(***************************************************************************)
EXTENDS FuzzMeta

CONSTANTS
  MaxDepth,   \* recursion_depth; 10 in the code
  MaxCalls    \* bound: longer sequences are not extended

ASSUME GenericCallsAssumption == MaxDepth \in Nat /\ MaxCalls \in Nat

VARIABLES
  calls,   \* ptb.commands: [ident, tys, args, rebound]
  saved,   \* ptb_snapshot
  stack    \* activations of append_function, the innermost last

vars == <<world, base, meta, pc, calls, saved, stack>>

Object(o) == [kind |-> "object", i |-> o, j |-> 0, ty |-> world.objects[o].ty]
Result(c, j, ty) == [kind |-> "result", i |-> c, j |-> j, ty |-> ty]
Pure == [kind |-> "pure", i |-> 0, j |-> 0, ty |-> <<>>]
Hole == [kind |-> "hole", i |-> 0, j |-> 0, ty |-> <<>>]

Abi(ident) == Get(get_function(ident))
ByValue(p) == needs_sample(p) /\ ~IsRef(p)
AsTag(t, tys) == Get(subst(t, tys))

-----------------------------------------------------------------------------
(* ObjectData::from_ptb.                                                    *)

InputObjects(s) ==
  {s[c].args[k].i : <<c, k>> \in {<<c, k>> \in UNION {{c} \X DOMAIN s[c].args : c \in DOMAIN s} :
                                    s[c].args[k].kind = "object"}}
OwnerGate(o) == world.objects[o].owner

Consume(d, a, want) ==
  IF d.panic \/ \A e \in d.objects : e.ty # want THEN [d EXCEPT !.panic = TRUE]
  ELSE [d EXCEPT !.objects = {e \in @ : e.ty # want \/ e.arg # a}]

AfterCall(d, s, c) ==
  LET f == Abi(s[c].ident)
      taken == FoldLeftDomain(
                 LAMBDA acc, k : IF ByValue(f.params[k])
                                 THEN Consume(acc, s[c].args[k], AsTag(f.params[k], s[c].tys))
                                 ELSE acc,
                 d, f.params)
      made == {[ty |-> AsTag(f.rets[j], s[c].tys), gate |-> "owned",
                arg |-> Result(c, j, AsTag(f.rets[j], s[c].tys))] : j \in DOMAIN f.rets}
  IN  [taken EXCEPT !.objects = @ \cup {e \in made : e.ty.k = "struct"}]

from_ptb(s) ==
  FoldLeftDomain(LAMBDA d, c : AfterCall(d, s, c),
                 [objects |-> {[ty |-> world.objects[o].ty, gate |-> OwnerGate(o), arg |-> Object(o)] :
                                 o \in InputObjects(s)},
                  panic |-> FALSE], s)

-----------------------------------------------------------------------------
(* try_construct_args.                                                      *)

Solvable(p) == IsStruct(dereference(p))

get_type_tag_ability(g) ==
  IF g.k = "struct" THEN Get(get_abilities(g.n))
  ELSE IF g = PrimTag("signer") THEN {"drop"} ELSE PRIMITIVES

\* The type arguments under which an object of type g can be passed for p.
Extracted(p, g, bounds) ==
  {m \in extract_ty_args(p, g) :
     \A i \in DOMAIN m : bounds[i] \subseteq get_type_tag_ability(m[i])}

GateFits(p, gate) == p.k = "ref" \/ gate # "immutable"

try_sample_object_from_cache(objs, p, bounds) ==
  UNION {Extracted(p, e.ty, bounds) :
           e \in {e \in objs : IF IsRef(p) THEN GateFits(p, e.gate) ELSE e.gate = "owned"}}

try_sample_object_from_db(p, bounds) ==
  IF "key" \notin dereference(p).ab THEN {}
  ELSE UNION {Extracted(p, world.objects[o].ty, bounds) :
                o \in {o \in base.pool : GateFits(p, OwnerGate(o))}}

\* One candidate of every row, as far as they agree (intersect_generics).
get_ty_args_candidates(rows) ==
  FoldLeft(LAMBDA acc, row : UNION {Merge(a, b) : <<a, b>> \in acc \X row}, {<<>>}, rows)

\* The arguments for a parameter of type ty: what is cached of that type, and
\* otherwise an object of the store; by-value picks are not used twice.
ArgChoices(objs, s, p, ty, earlier) ==
  LET cached == {e \in objs : e.ty = ty}
      mine == {e.arg : e \in {e \in cached : GateFits(p, e.gate) /\ e.arg \notin earlier.taken}}
      stored == {Object(o) : o \in {o \in base.pool :
                   /\ world.objects[o].ty = ty /\ GateFits(p, OwnerGate(o))
                   /\ o \notin InputObjects(s) /\ Object(o) \notin Elements(earlier.args)}}
      found == IF cached # {} THEN mine ELSE stored
  IN  IF found = {} THEN {Hole} ELSE found

gen_type_tag_by_abilities(ab) ==
  IF ab \in DOMAIN base.byAbility THEN base.byAbility[ab] ELSE {PrimTag("u64")}

\* The results of sampling: bindings m, and an argument or a hole for every
\* parameter.  No result means Unsolvable.
try_construct_args(f, fixed, s, used) ==
  LET objs == {e \in from_ptb(s).objects : e.arg \notin used}
      params == [k \in DOMAIN f.params |-> partial_subst(f.params[k], fixed)]
      sampled == {k \in DOMAIN params : needs_sample(f.params[k])}
      cands(k) == try_sample_object_from_cache(objs, params[k], f.tys)
                    \cup try_sample_object_from_db(params[k], f.tys)
      rows == SelectSeq([k \in DOMAIN params |-> IF k \in sampled THEN cands(k) ELSE {}],
                        LAMBDA row : row # {})
      pick(acc, k, a) ==
        [args |-> Append(acc.args, a),
         taken |-> IF IsRef(params[k]) \/ a = Hole THEN acc.taken ELSE acc.taken \cup {a}]
      choices(m, k, acc) ==
        IF k \notin sampled THEN {Pure}
        ELSE IF cands(k) = {} THEN {Hole}
        ELSE ArgChoices(objs, s, params[k], AsTag(params[k], m), acc)
      picks(m) == FoldLeftDomain(
                    LAMBDA accs, k : UNION {{pick(acc, k, a) : a \in choices(m, k, acc)} : acc \in accs},
                    {[args |-> <<>>, taken |-> {}]}, params)
  IN  IF \E k \in sampled : ~Solvable(f.params[k]) THEN {}
      ELSE UNION {{[m |-> m, args |-> p.args, taken |-> p.taken] : p \in picks(m)} :
                    m \in get_ty_args_candidates(rows)}

-----------------------------------------------------------------------------
(* append_function.                                                         *)

Top == Last(stack)
Holes(fr) == {k \in DOMAIN fr.args : fr.args[k] = Hole}
FirstHole(fr) == CHOOSE k \in Holes(fr) : \A q \in Holes(fr) : k <= q

\* The type arguments of a call: bound ones, fixed ones and made up ones.
TyArgs(f, bound) ==
  {tys \in [DOMAIN f.tys -> UNION {gen_type_tag_by_abilities(f.tys[i]) : i \in DOMAIN f.tys}
                              \cup {bound[i] : i \in DOMAIN bound}] :
     \A i \in DOMAIN tys : IF i \in DOMAIN bound THEN tys[i] = bound[i]
                           ELSE tys[i] \in gen_type_tag_by_abilities(f.tys[i])}

Frame(ident, fixed, used, r) ==
  [ident |-> ident, args |-> r.args, used |-> used \cup r.taken,
   fresh |-> {r.args[k].i : k \in {k \in DOMAIN r.args : r.args[k].kind = "object"}} \ InputObjects(calls),
   ty |-> fixed @@ r.m,                       \* ty_args of PartialFound
   tyargs |-> IF \A k \in DOMAIN r.args : r.args[k] # Hole THEN r.m @@ fixed ELSE <<>>,
   want |-> <<>>,                             \* the match with the producer under way
   rebound |-> FALSE]

\* None: the caller gives up as well, up to mutate_sequence, which goes back to
\* its snapshot.
Fail(s) == calls' = s /\ stack' = <<>> /\ pc' = "ready"
Panic == pc' = "panic" /\ UNCHANGED <<calls, stack>>

Enter(ident, fixed, used, frames, s) ==
  \/ from_ptb(calls).panic /\ Panic
  \/ ~from_ptb(calls).panic /\ get_function(ident) = None /\ Panic
  \/ /\ ~from_ptb(calls).panic /\ get_function(ident) # None
     /\ LET found == try_construct_args(Abi(ident), fixed, calls, used) IN
        \/ found = {} /\ Fail(s)
        \/ /\ \E r \in found : stack' = Append(frames, Frame(ident, fixed, used, r))
           /\ pc' = "append" /\ UNCHANGED calls

\* mutate_sequence draws a target.
select_function(ident) ==
  /\ pc = "ready" /\ ident \in meta.targets /\ Len(calls) < MaxCalls
  /\ saved' = calls
  /\ Enter(ident, <<>>, {}, <<>>, calls)
  /\ UNCHANGED <<world, base, meta>>

\* Mutant: what the caller has bound already is forgotten.
Producing_unbound(fr, match) == Some(match.theirs)

\* The type arguments a producer must have: what the match says and what the
\* caller has bound already.
Producing(fr, match) ==
  FoldLeft(LAMBDA acc, p :
             IF acc = None \/ p[1] \notin DOMAIN fr.tyargs THEN acc
             ELSE Merge(Get(acc), p[2] :> fr.tyargs[p[1]]),
           Some(match.theirs), match.pairs)

HoleType(fr) == partial_subst(Abi(fr.ident).params[FirstHole(fr)], fr.ty)

\* The returns of a producer that match, the first of them is taken.
Matching(fr, g) ==
  {j \in DOMAIN g.f.rets : partial_extract_ty_args(HoleType(fr), g.f.rets[j]) # None}

append_producer(g) ==
  /\ pc = "append" /\ Holes(Top) # {} /\ g \in find_producers(HoleType(Top), Top.ident)
  /\ IF Matching(Top, g) = {} THEN Fail(saved)
     ELSE LET j == CHOOSE j \in Matching(Top, g) : \A q \in Matching(Top, g) : j <= q
              match == Get(partial_extract_ty_args(HoleType(Top), g.f.rets[j]))
              waiting == [Top EXCEPT !.want = [match |-> match, j |-> j]]
          IN  IF Producing(Top, match) = None \/ Len(stack) > MaxDepth THEN Fail(saved)
              ELSE Enter(<<g.addr, g.module, g.f.name>>, Get(Producing(Top, match)), Top.used,
                         Append(Front(stack), waiting), saved)
  /\ UNCHANGED <<world, base, meta, saved>>

no_producer ==
  /\ pc = "append" /\ Holes(Top) # {} /\ find_producers(HoleType(Top), Top.ident) = {}
  /\ Fail(saved)
  /\ UNCHANGED <<world, base, meta, saved>>

\* An object that a producer made an input in the meantime cannot be moved.
Clash(fr) ==
  \E k \in DOMAIN fr.args : /\ fr.args[k].kind = "object" /\ ByValue(Abi(fr.ident).params[k])
                            /\ fr.args[k].i \in fr.fresh \cap InputObjects(calls)

argument_taken ==
  /\ pc = "append" /\ Holes(Top) = {} /\ Clash(Top)
  /\ Fail(saved)
  /\ UNCHANGED <<world, base, meta, saved>>

\* What the producer's call binds of its caller's type parameters.
Bound(match, tys) ==
  FoldLeft(LAMBDA m, p : (p[1] :> tys[p[2]]) @@ m, match.mine, match.pairs)

\* Two of the bindings of a type parameter differ; the code keeps the last.
Rebinds(fr, match, tys) ==
  \/ \E p, q \in Elements(match.pairs) : p[1] = q[1] /\ tys[p[2]] # tys[q[2]]
  \/ ~ Extends(Bound(match, tys), match.mine)
  \/ \E i \in DOMAIN fr.tyargs \cap DOMAIN match.mine : fr.tyargs[i] # match.mine[i]

\* The caller takes its first missing argument from the producer's call.
Filled(fr, callee, c, tys) ==
  LET k == FirstHole(fr)
      a == Result(c, fr.want.j, AsTag(Abi(callee.ident).rets[fr.want.j], tys))
  IN  [fr EXCEPT !.args = [@ EXCEPT ![k] = a],
                 !.tyargs = (Bound(fr.want.match, tys) @@ fr.ty) @@ @,
                 !.used = IF ByValue(Abi(fr.ident).params[k]) THEN @ \cup {a} ELSE @,
                 !.want = <<>>,
                 !.rebound = @ \/ callee.rebound \/ Rebinds(fr, fr.want.match, tys)]

call_appended ==
  /\ pc = "append" /\ Holes(Top) = {} /\ ~Clash(Top)
  /\ \E tys \in TyArgs(Abi(Top.ident), Top.tyargs) :
       /\ calls' = Append(calls, [ident |-> Top.ident, tys |-> tys, args |-> Top.args,
                                  rebound |-> Top.rebound])
       /\ stack' = LET rest == Front(stack) IN
                   IF rest = <<>> THEN rest
                   ELSE Append(Front(rest), Filled(Last(rest), Top, Len(calls) + 1, tys))
  /\ pc' = IF Len(stack) = 1 THEN "ready" ELSE "append"
  /\ UNCHANGED <<world, base, meta, saved>>

Init == MetaInit /\ calls = <<>> /\ saved = <<>> /\ stack = <<>>

Next ==
  \/ calls = <<>> /\ MetaNext /\ UNCHANGED <<calls, saved, stack>>
  \/ pc = "ready" /\ \E ident \in meta.targets : select_function(ident)
  \/ pc = "append" /\ \E g \in base.graph : append_producer(g)
  \/ no_producer \/ argument_taken \/ call_appended

Spec == Init /\ [][Next]_vars

-----------------------------------------------------------------------------
\* Every appended call is well typed: each object or result it is given has the
\* type its parameter has under the call's type arguments, through any chain of
\* producers.  Only a call for which two producers bound one type parameter
\* differently is excepted, and only then can rereading the sequence panic.
ArgumentsFit ==
  /\ \A c \in DOMAIN calls : ~calls[c].rebound =>
       \A k \in DOMAIN calls[c].args : calls[c].args[k] # Pure =>
         subst(Abi(calls[c].ident).params[k], calls[c].tys) = {calls[c].args[k].ty}
  /\ pc = "panic" /\ calls # <<>> /\ from_ptb(calls).panic =>
       \E c \in DOMAIN calls : calls[c].rebound
=============================================================================
