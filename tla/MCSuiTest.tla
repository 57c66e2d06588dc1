------------------------------ MODULE MCSuiTest ------------------------------
(* Two test functions; two mapped objects of type T, one of type U, and one more. *)
EXTENDS SuiTest

CONSTANTS f1, f2, o1, o2, o3, o4

MCTargets == <<f1, f2>>
MCObjectTypes == {"T", "U"}
MCParamLists == {<<"other">>, <<"U", "T">>, <<"T", "T", "T">>}
MCMapped == [T |-> <<o1, o2>>, U |-> <<o3>>]
=============================================================================
