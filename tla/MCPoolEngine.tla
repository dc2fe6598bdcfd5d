---------------------------- MODULE MCPoolEngine ----------------------------
(* Small instances of PoolEngine for TLC. *)
EXTENDS PoolEngine, TLC

CONSTANTS f1, f2, low, high

\* Two funding outputs, and two rates one of whose fees exceeds the second.
MCFundings == {f1, f2}
MCAmount   == (f1 :> 3) @@ (f2 :> 1)
MCRates    == {low, high}
MCFee      == (low :> 1) @@ (high :> 2)
=============================================================================
