------------------------- MODULE MCRocksCachedStore -------------------------
(* Two processes over one directory, with one root and its dynamic field.   *)
EXTENDS RocksCachedStore, TLC

CONSTANTS r1, c1

MCRoots == {r1}
MCChildren == {c1}
MCParent == [c \in MCChildren |-> r1]
Symmetry == Permutations(Handles)
=============================================================================
