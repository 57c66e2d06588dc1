--------------------------- MODULE MCCachedStore ---------------------------
(* A small instance of CachedStore: one root with one child.                     *)
EXTENDS CachedStore

CONSTANTS r1, c1

MCOneRoot == {r1}
MCChildren == {c1}
MCParent == [c \in MCChildren |-> r1]
=============================================================================
