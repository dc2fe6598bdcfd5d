------------------------- MODULE MCContentRetrieval -------------------------
(* Small instances of ContentRetrieval for TLC. *)
EXTENDS ContentRetrieval, TLC

CONSTANTS b1, b2

\* Two batches, so that a record mixed up with another shows in the content.
MCBatches == {b1, b2}
MCPrice   == (b1 :> 1) @@ (b2 :> 2)
=============================================================================
