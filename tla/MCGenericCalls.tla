--------------------------- MODULE MCGenericCalls ---------------------------
(* An exchange with generic types, and packages in several versions with    *)
(* hooks, validation wrappers and tests.                                    *)
EXTENDS GenericCalls

Fun(name, kind, of, vis, tys, params, rets) ==
  [name |-> name, kind |-> kind, of |-> of, vis |-> vis, tys |-> tys, params |-> params, rets |-> rets]
Public(name, tys, params, rets) == Fun(name, "fun", "", "public", tys, params, rets)
Module(addr, name, tests, fns, structs) ==
  [addr |-> addr, name |-> name, tests |-> tests, fns |-> fns, structs |-> structs]
Datatype(name, ab, ar) == [name |-> name, ab |-> ab, ar |-> ar]
NoFilters ==
  [inPkgs |-> {}, exPkgs |-> {}, inMods |-> {}, exMods |-> {}, inFns |-> {}, exFns |-> {},
   inTys |-> {}, exTys |-> {}]

MCPrimTags == {PrimTag("u64")}
T(i) == TypeParameter(i, {})
Num == Prim("u64")

\* The exchange, at address 10.
KeyStore == {"key", "store"}
Box(t) == StructInstantiation(<<10, "Box">>, KeyStore, <<t>>)
Ticket(t) == StructInstantiation(<<10, "Ticket">>, {}, <<t>>)
Slip(t) == StructInstantiation(<<10, "Slip">>, {"drop"}, <<t>>)
Pair(t, u) == StructInstantiation(<<10, "Pair">>, {"drop"}, <<t, u>>)
X == Struct(<<10, "X">>, {"drop", "store"})
Cap == Struct(<<10, "Cap">>, {"key"})
BoxOf(g) == StructTag(<<10, "Box">>, <<g>>)
XTag == StructTag(<<10, "X">>, <<>>)
CapTag == StructTag(<<10, "Cap">>, <<>>)

Datatypes ==
  <<Datatype("Box", KeyStore, 1), Datatype("Ticket", {}, 1), Datatype("Slip", {"drop"}, 1),
    Datatype("Pair", {"drop"}, 2), Datatype("X", {"drop", "store"}, 0), Datatype("Cap", {"key"}, 0)>>

Exchange(fns, objects) ==
  [chain |-> [id \in {10} |-> [version |-> 1, modules |-> <<Module(10, "m", "", fns, Datatypes)>>]],
   local |-> <<>>, targets |-> {10}, filters |-> NoFilters, scores |-> <<>>, objects |-> objects]

Obj(ty, owner) == [ty |-> ty, owner |-> owner]
open == Public("open", <<{"store"}>>, <<Box(T(1))>>, <<Ticket(T(1))>>)
close == Public("close", <<{}>>, <<Ticket(T(1)), Num>>, <<>>)
swap == Public("swap", <<{}, {}>>, <<MutableReference(Box(T(1))), Box(T(2))>>, <<Pair(T(2), T(1))>>)
keep == Public("keep", <<{}>>, <<Reference(Cap), Pair(T(1), X), Slip(T(1))>>, <<>>)
join == Public("join", <<{}>>, <<Ticket(T(1)), Slip(T(1))>>, <<>>)
twin == Public("twin", <<{}>>, <<Pair(T(1), T(1))>>, <<Cap>>)
grant == Public("grant", <<>>, <<Num>>, <<Slip(X)>>)
slip == Public("slip", <<{}>>, <<Reference(Box(T(1)))>>, <<Slip(T(1)), VectorOf(Num)>>)
lend == Public("lend", <<{}>>, <<Reference(Ticket(T(1)))>>, <<Reference(Slip(T(1)))>>)
seal == Public("seal", <<{"store"}>>, <<Box(T(1)), Ticket(T(1))>>, <<>>)
redeem == Public("redeem", <<{}, {}>>, <<Pair(T(1), T(2)), Slip(T(2))>>, <<Ticket(T(1))>>)
wrap == Public("wrap", <<{"store"}>>, <<T(1)>>, <<Box(T(1))>>)

\* Parameters that share a type parameter, one of them borrowed.
Sampling == Exchange(<<open, close, swap, keep>>,
                     <<Obj(BoxOf(XTag), "owned"), Obj(BoxOf(PrimTag("u64")), "shared"),
                       Obj(CapTag, "immutable")>>)
\* Missing arguments that share a type parameter, with one generic and one
\* concrete producer.
Sharing == Exchange(<<open, join, slip, grant, seal>>, <<Obj(BoxOf(PrimTag("u64")), "owned"), Obj(BoxOf(XTag), "owned")>>)
\* Producers that need producers.
Chains == Exchange(<<swap, join, slip, redeem>>,
                   <<Obj(BoxOf(PrimTag("u64")), "owned"), Obj(BoxOf(XTag), "shared")>>)
\* A type parameter used twice in one missing argument.
Twins == Exchange(<<swap, twin, wrap>>, <<Obj(BoxOf(XTag), "shared"), Obj(BoxOf(PrimTag("u64")), "shared")>>)
\* Producers that return references or need what nobody makes.
Borrowing == Exchange(<<join, lend, wrap, open>>, <<Obj(CapTag, "owned")>>)

\* A package at 20 that was upgraded to 15, and a local one at 30 whose tests
\* hook a name the upgraded package has too.
Item(a) == Struct(<<a, "Item">>, {"key"})
Items == <<Datatype("Item", {"key"}, 0)>>
make(a) == Public("make", <<>>, <<MutableReference(Item(a))>>, <<>>)
fix(a) == Public("fix", <<>>, <<MutableReference(Item(a)), Num>>, <<>>)
peek(a) == Public("peek", <<>>, <<Reference(Item(a))>>, <<Num>>)
old(a) == Fun("old", "fun", "", "private", <<>>, <<MutableReference(Item(a))>>, <<>>)
Hook(kind, of, name) == Fun(name, kind, of, "public", <<>>, <<>>, <<>>)
Tests(hooks) ==
  <<Module(0, "shop", "", <<make(0), peek(0)>>, Items),
    Module(0, "movy_shop", "shop", hooks \o
           <<Fun("movy_validate", "validate", "", "public", <<>>, <<MutableReference(Item(0))>>, <<>>),
             Fun("test_make", "test", "", "public", <<>>, <<>>, <<>>),
             Hook("pre", "ptb", "movy_pre_ptb"), Hook("post", "ptb", "movy_post_ptb")>>, <<>>)>>
Versions(hooks, home) ==
  [chain |-> [id \in {15, 20} |->
                [version |-> IF id = 15 THEN 2 ELSE 1,
                 modules |-> <<Module(20, "shop", "",
                                      IF id = 15 THEN <<make(20), fix(20)>> ELSE <<make(20), old(20)>>,
                                      Items)>>]],
   local |-> [id \in {30} |-> [version |-> 3, home |-> home,
                               plain |-> <<Module(0, "shop", "", <<make(0), peek(0)>>, Items)>>,
                               test |-> Tests(hooks)]],
   targets |-> {15, 30}, filters |-> NoFilters, scores |-> [f \in {<<30, "shop", "make">>} |-> 5],
   objects |-> <<Obj(StructTag(<<30, "Item">>, <<>>), "shared"),
                 Obj(StructTag(<<20, "Item">>, <<>>), "shared")>>]

Hooked == Versions(<<Hook("pre", "make", "movy_pre_make"), Hook("post", "peek", "movy_post_peek")>>, 30)
\* A post hook of a name that two packages have.
Ambiguous == Versions(<<Hook("post", "make", "movy_post_make")>>, 30)
\* The local package upgrades the one on the chain.
Upgrading == [Versions(<<Hook("post", "peek", "movy_post_peek")>>, 20) EXCEPT !.objects = <<@[2]>>]

MCWorlds ==
  {Sampling, Sharing, Chains, Twins, Borrowing, Hooked, Ambiguous, Upgrading,
   [Hooked EXCEPT !.filters.exPkgs = {{15}}, !.filters.exFns = {{<<30, "shop", "make">>}}],
   [Hooked EXCEPT !.filters.inMods = {{<<30, "movy_shop">>}},
                  !.filters.exTys = {{StructTag(<<20, "Item">>, <<>>)}}],
   [Hooked EXCEPT !.filters.inFns = {{<<30, "shop", "peek">>}}],
   [Hooked EXCEPT !.targets = {20}, !.filters.inFns = {{<<20, "shop", "old">>}}],
   [Hooked EXCEPT !.targets = {20}]}
=============================================================================
