--------------------------- MODULE MCGraphQlClient ---------------------------
(* Two tasks over one permit, two objects and pages of one.                 *)
EXTENDS GraphQlClient

MCTwoObjects == 1..2
=============================================================================
