----------------------------- MODULE MCBuildEnv -----------------------------
(* lib is an upgraded package (a1, now a2) and core (c1) uses it; both are on *)
(* the chain too.  util, app, game and demo are not published.  app adds test *)
(* modules to core and depends on movy; game needs util bundled, demo does    *)
(* not use it, mini does, and tool is upgraded and needs util bundled.        *)
EXTENDS BuildEnv

P(deps, uses, stray, orig, pub, inits) ==
  [deps |-> deps, uses |-> uses, stray |-> stray, original |-> orig, published |-> pub, inits |-> inits]
Ref(addr, mode) == [of |-> addr, mode |-> mode]

MCLocals == {"lib", "core", "util", "app", "game", "demo", "tool", "mini", "movy"}
MCManifest ==
  [lib  |-> P({}, {}, {}, "a1", "a2", <<<<>>>>),
   core |-> P({"lib"}, {"lib"}, {}, "c1", "c1", <<>>),
   util |-> P({}, {}, {}, "0", "0", <<>>),
   app  |-> P({"core", "movy"}, {"core"}, {"core"}, "0", "0", <<<<Ref("a1", "mut")>>>>),
   game |-> P({"util", "lib"}, {"util", "lib"}, {}, "0", "0", <<<<Ref("a1", "value")>>, <<>>>>),
   demo |-> P({"util"}, {}, {"util"}, "0", "0", <<>>),
   tool |-> P({"util"}, {"util"}, {"util"}, "t1", "t2", <<>>),
   mini |-> P({"util"}, {"util"}, {}, "0", "0", <<>>),
   movy |-> P({}, {}, {}, "dead", "dead", <<>>)]
MCNewId == [lib |-> "n1", core |-> "n2", util |-> "n3", app |-> "n4", game |-> "n5", demo |-> "n7", tool |-> "n8", mini |-> "n9", movy |-> "n6"]
MCChain == {"a1", "a2", "c1", "d1", "d2"}
MCLinkage == [a1 |-> <<>>, a2 |-> [d1 |-> "d2"], c1 |-> [a1 |-> "a2", d1 |-> "d2"], d1 |-> <<>>, d2 |-> <<>>]
MCHistory == [c \in MCChain |->
  CASE c = "c1" -> {[id |-> "pool", of |-> "c1", ty |-> {"c1", "a1"}, owner |-> "shared"]}
    [] c = "a2" -> {[id |-> "coin", of |-> "a1", ty |-> {"a1"}, owner |-> "shared"]}
    [] OTHER -> {}]

Pin(n, a) == [name |-> n, address |-> a]
MCArguments ==
  [locals : {<<"app">>, <<"game">>, <<"core", "lib">>, <<"lib", "game">>, <<"util", "app">>, <<"demo">>, <<"tool">>, <<"demo", "mini">>},
   onchains : {<<>>, <<"c1">>}, histories : {<<>>, <<"c1">>},
   deploy_at : {{}, {Pin("core", "p1")}, {Pin("util", "p1")}, {Pin("util", "p1"), Pin("game", "p2")},
                {Pin("game", "p1"), Pin("game", "p2")}, {Pin("movy", "p1")}},
   unpublished : BOOLEAN, checks : BOOLEAN, fallback : BOOLEAN, graphql : BOOLEAN]

\* The instance meets the hypothesis of the theorems.
ASSUME InstanceApart == AddressesApart
=============================================================================
