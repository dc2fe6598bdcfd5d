------------------------------ MODULE MCFeePool ------------------------------
(* Small instances of FeePool for TLC. *)
EXTENDS FeePool, TLC

CONSTANTS b1, b2

\* Two batches at different prices, so that a mixed-up base shows in the amount.
MCBatches == {b1, b2}
MCPrice   == (b1 :> 1) @@ (b2 :> 2)
=============================================================================
