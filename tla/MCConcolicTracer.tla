-------------------------- MODULE MCConcolicTracer --------------------------
(***************************************************************************)
(* Small instances of ConcolicTracer: deposit takes an object, a vector    *)
(* and a number, fee a number, set a number and a reference to write it to *)
(* and to return; hash is native.                                          *)
(***************************************************************************)
EXTENDS ConcolicTracer, TLC

CONSTANTS deposit, fee, set, hash

MCFuns == {deposit, fee, set, hash}
MCNative == {hash}
MCParams == (deposit :> <<Val("obj"), Val("vec"), Val("u8")>>) @@ (fee :> <<Val("u16")>>)
         @@ (set :> <<Val("u8"), Ref("u8")>>) @@ (hash :> <<Val("u8")>>)
MCLocals == (deposit :> <<>>) @@ (fee :> <<Val("u16")>>) @@ (set :> <<>>) @@ (hash :> <<>>)
MCReturns == (deposit :> <<>>) @@ (fee :> <<Val("u16")>>) @@ (set :> <<Ref("u8")>>) @@ (hash :> <<Val("bool")>>)
MCBits == [bool |-> 1, u8 |-> 2, u16 |-> 3]
MCLiterals == {1, 5}

MCPrograms == {<<deposit, Other>>, <<hash, fee>>, <<fee, deposit>>}
MCParents == {<<fee, deposit>>, <<deposit, fee, deposit>>}

\* The mask arithmetic is right at these widths.
ASSUME MasksAssumption == \A bits \in 1..6 : MasksExact(bits)
=============================================================================
