---------------------------- MODULE MCPoolOpening ----------------------------
(* Small instances of PoolOpening for TLC. *)
EXTENDS PoolOpening, TLC

CONSTANTS f1, f2

\* Two funding transactions with different amounts.
MCFundings == {f1, f2}
MCAmount   == (f1 :> 2) @@ (f2 :> 3)
=============================================================================
