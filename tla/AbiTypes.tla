------------------------------ MODULE AbiTypes ------------------------------
(***************************************************************************)
(* Signature tokens, type tags and how they are matched (movy-types,       *)
(* abi.rs).  A token is a type in a signature and may hold type            *)
(* parameters and references; a tag is a concrete type.  An Option is a    *)
(* set of at most one element, a BTreeMap from type parameters to tags is  *)
(* a function, and type parameters count from 1.  A struct is named by its *)
(* package address and its name; the module is part of the name.           *)
(***************************************************************************)
EXTENDS Integers, Sequences, FiniteSets, SequencesExt, TLC

PRIMITIVES == {"copy", "drop", "store"}

Token(k, n, ab, ar, i, args) ==
  [k |-> k, n |-> n, ab |-> ab, ar |-> ar, i |-> i, args |-> args]
Prim(name) == Token("prim", <<0, name>>, {}, 0, 0, <<>>)
VectorOf(t) == Token("vector", <<>>, {}, 0, 0, <<t>>)
Struct(n, ab) == Token("struct", n, ab, 0, 0, <<>>)
StructInstantiation(n, ab, args) == Token("inst", n, ab, Len(args), 0, args)
TypeParameter(i, ab) == Token("param", <<>>, ab, 0, i, <<>>)
Reference(t) == Token("ref", <<>>, {}, 0, 0, <<t>>)
MutableReference(t) == Token("mut", <<>>, {}, 0, 0, <<t>>)

Tag(k, n, args) == [k |-> k, n |-> n, args |-> args]
PrimTag(name) == Tag("prim", <<0, name>>, <<>>)
StructTag(n, args) == Tag("struct", n, args)

\* Options.
None == {}
Some(x) == {x}
Get(o) == CHOOSE x \in o : TRUE
If(c, o) == IF c THEN o ELSE None
Collect(os) == If(\A i \in DOMAIN os : os[i] # None, Some([i \in DOMAIN os |-> Get(os[i])]))

\* Mutant: the later binding of a type parameter wins.
Merge_overwriting(a, b) == Some(b @@ a)

\* Two bindings of the same parameters must agree.
Merge(a, b) == If(\A i \in DOMAIN a \cap DOMAIN b : a[i] = b[i], Some(a @@ b))
MergeOptions(o, q) == If(o # None /\ q # None, Merge(Get(o), Get(q)))

-----------------------------------------------------------------------------
(* Predicates on tokens.                                                    *)

IsRef(t) == t.k \in {"ref", "mut"}
IsStruct(t) == t.k \in {"struct", "inst"}
dereference(t) == IF IsRef(t) THEN t.args[1] ELSE t

RECURSIVE is_mutable(_)
is_mutable(t) ==
  \/ t.k = "prim" /\ t.n # <<0, "signer">>
  \/ t.k = "vector" /\ is_mutable(t.args[1])

is_balance(t) == t.k = "inst" /\ t.n = <<2, "Balance">>

RECURSIVE is_hot_potato(_)
is_hot_potato(t) ==
  \/ IsStruct(t) /\ ~is_balance(t) /\ t.ab \cap {"drop", "store"} = {}
  \/ t.k = "vector" /\ is_hot_potato(t.args[1])

RECURSIVE needs_sample(_)
needs_sample(t) ==
  \/ IsStruct(t) \/ t.k = "param"
  \/ (IsRef(t) \/ t.k = "vector") /\ needs_sample(t.args[1])

ability(t) ==
  CASE t.k = "prim" -> Some(IF t.n = <<0, "signer">> THEN {"drop"} ELSE PRIMITIVES)
    [] t.k = "vector" -> Some(PRIMITIVES)
    [] IsStruct(t) -> Some(t.ab)
    [] OTHER -> None

-----------------------------------------------------------------------------
(* Substitution and matching.                                               *)

RECURSIVE subst(_, _)
subst(t, m) ==
  LET inner == Collect([i \in DOMAIN t.args |-> subst(t.args[i], m)]) IN
  CASE t.k = "prim" -> Some(Tag("prim", t.n, <<>>))
    [] t.k = "param" -> If(t.i \in DOMAIN m, Some(m[t.i]))
    [] t.k = "struct" -> If(t.ar = 0, Some(Tag("struct", t.n, <<>>)))
    [] t.k = "inst" -> {Tag("struct", t.n, tys) : tys \in inner}
    [] t.k = "vector" -> {Tag("vector", <<>>, tys) : tys \in inner}
    [] IsRef(t) -> {tys[1] : tys \in inner}

\* The abilities and the arity of a struct are not known from a tag.
RECURSIVE from_type_tag_lossy(_)
from_type_tag_lossy(g) ==
  LET inner == [i \in DOMAIN g.args |-> from_type_tag_lossy(g.args[i])] IN
  CASE g.k = "prim" -> Token("prim", g.n, {}, 0, 0, <<>>)
    [] g.k = "vector" -> VectorOf(inner[1])
    [] g.k = "struct" -> Token(IF g.args = <<>> THEN "struct" ELSE "inst", g.n, {}, 0, 0, inner)

RECURSIVE partial_subst(_, _)
partial_subst(t, m) ==
  IF t.k = "param" /\ t.i \in DOMAIN m THEN from_type_tag_lossy(m[t.i])
  ELSE [t EXCEPT !.args = [i \in DOMAIN @ |-> partial_subst(@[i], m)]]

\* The type arguments under which a token is the tag.
RECURSIVE extract_ty_args(_, _)
extract_ty_args(t, g) ==
  LET sub(i) == extract_ty_args(t.args[i], g.args[i])
      all == FoldLeftDomain(LAMBDA acc, i : MergeOptions(acc, sub(i)), Some(<<>>), t.args)
  IN  CASE IsRef(t) -> extract_ty_args(t.args[1], g)
        [] t.k = "param" -> Some(t.i :> g)
        [] t.k = "vector" -> If(g.k = "vector", all)
        [] t.k = "inst" -> If(g.k = "struct" /\ g.n = t.n, all)
        [] OTHER -> If(g.k = t.k /\ g.n = t.n /\ t.ar = 0, Some(<<>>))

\* A match of a consumer's type with a producer's: what it binds of each side
\* and which parameters it equates.
Match(mine, theirs, pairs) == [mine |-> mine, theirs |-> theirs, pairs |-> pairs]
MergeMatches(a, b) ==
  {Match(mine, theirs, a.pairs \o b.pairs) :
     mine \in Merge(a.mine, b.mine), theirs \in Merge(a.theirs, b.theirs)}

\* A mutable reference can be passed for an immutable one.
SameShape(t, o) ==
  \/ t.k = o.k /\ t.k \in {"vector", "ref", "mut"}
  \/ t.k = "ref" /\ o.k = "mut"

RECURSIVE partial_extract_ty_args(_, _)
partial_extract_ty_args(t, o) ==
  LET sub(i) == partial_extract_ty_args(t.args[i], o.args[i])
      all == FoldLeftDomain(
               LAMBDA acc, i : If(acc # None, UNION {MergeMatches(Get(acc), b) : b \in sub(i)}),
               Some(Match(<<>>, <<>>, <<>>)), t.args)
  IN  CASE t.k = "param" /\ o.k = "param" -> Some(Match(<<>>, <<>>, <<<<t.i, o.i>>>>))
        [] t.k = "param" /\ o.k # "param" ->
             {Match(t.i :> g, <<>>, <<>>) : g \in subst(o, <<>>)}
        [] t.k # "param" /\ o.k = "param" ->
             {Match(<<>>, o.i :> g, <<>>) : g \in subst(t, <<>>)}
        [] t.k = "struct" /\ o.k = "struct" ->
             If(t.n = o.n /\ t.ar = o.ar, Some(Match(<<>>, <<>>, <<>>)))
        [] t.k = "inst" /\ o.k = "inst" ->
             If(t.n = o.n /\ Len(t.args) = Len(o.args), all)
        [] SameShape(t, o) -> sub(1)
        [] IsRef(t) /\ o.k # "param" /\ ~SameShape(t, o) -> partial_extract_ty_args(t.args[1], o)
        [] OTHER -> If(t = o, Some(Match(<<>>, <<>>, <<>>)))

\* A struct compiled at address prev is published at another one.
RECURSIVE published_at(_, _, _)
published_at(t, prev, addr) ==
  [t EXCEPT !.n = IF IsStruct(t) /\ t.n[1] = prev THEN <<addr, t.n[2]>> ELSE @,
            !.args = [i \in DOMAIN @ |-> published_at(@[i], prev, addr)]]

-----------------------------------------------------------------------------
(* Reference definitions, for the properties.                               *)

RECURSIVE ParamsOf(_)
ParamsOf(t) ==
  IF t.k = "param" THEN {t.i} ELSE UNION {ParamsOf(t.args[i]) : i \in DOMAIN t.args}

RECURSIVE SubTags(_)
SubTags(g) == {g} \cup UNION {SubTags(g.args[i]) : i \in DOMAIN g.args}

\* Every assignment that makes the token the tag.
Solutions(t, g) == {m \in [ParamsOf(t) -> SubTags(g)] : subst(t, m) = {g}}

Extends(m, part) == \A i \in DOMAIN part : i \in DOMAIN m /\ m[i] = part[i]

\* The assignments over the tags U that make a consumer's and a producer's type
\* equal are exactly those that agree with the match.
Unifies(t, o, match, U) ==
  \A mt \in [ParamsOf(t) -> U], mo \in [ParamsOf(o) -> U] :
    subst(t, mt) = subst(o, mo)
      <=> /\ Extends(mt, match.mine) /\ Extends(mo, match.theirs)
          /\ \A i \in DOMAIN match.pairs : mt[match.pairs[i][1]] = mo[match.pairs[i][2]]
=============================================================================
