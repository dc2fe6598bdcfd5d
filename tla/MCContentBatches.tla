-------------------------- MODULE MCContentBatches --------------------------
(* Small instances of ContentBatches for TLC. *)
EXTENDS ContentBatches, TLC

CONSTANTS full, other, tail, seed

\* Two full blocks and a short one, with blocks of three bytes.
MCDigests == {full, other, tail}
MCLength  == (full :> 3) @@ (other :> 3) @@ (tail :> 1)

\* Every list of up to three digests, a file's or not.
MCSeeds      == UNION {[1..n -> MCDigests] : n \in 0..3}
MCOtherSeeds == {<<other>>, <<other, full>>, <<tail, full>>, <<full, tail, full>>}

\* No file, a tail, exact multiples, one byte over, and more blocks than a seed may have.
MCQuoteTerms == [size : {0, 1, 3, 4, 6, 7, 10}, seedPrice : {2}, blockPrice : {7},
                 maxBlocks : {1, 2}]

MCBatches == {batch \in UNION {[1..n -> MCDigests \cup {seed}] : n \in 1..2} :
                \A i, j \in DOMAIN batch : batch[i] = batch[j] => i = j}
               \cup {<<full, full>>, <<seed, full, tail>>, <<full, other, tail>>}
=============================================================================
