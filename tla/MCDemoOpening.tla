---------------------------- MODULE MCDemoOpening ----------------------------
(* An address that was paid twice, spent the first payment in the block that made it,       *)
(* and has a payment in no block; the indexer has seen the spender in the block, without a  *)
(* block, or not yet.                                                                       *)
EXTENDS DemoOpening
CONSTANTS o1, o2

Paid     == [id |-> 2, spends |-> {}, pays |-> <<6, 0>>]
Spender  == [id |-> 1, spends |-> {[tx |-> 2, vout |-> 1]}, pays |-> <<0, 5>>]
PaidLate == [id |-> 3, spends |-> {[tx |-> 9, vout |-> 1]}, pays |-> <<7, 30>>]

MCTransactions == {Paid, Spender, PaidLate}

At(height, index) == [height |-> height, index |-> index]

MCAnswers ==
  {[history |-> [id \in {2, 1} |-> IF id = 2 THEN At(1, 1) ELSE At(1, 2)], confirmed |-> {1, 2}],
   [history |-> [id \in {1, 2, 3} |-> CASE id = 1 -> At(1, 2) [] id = 2 -> At(1, 1) [] id = 3 -> At(0, 0)],
    confirmed |-> {1, 2}],
   [history |-> [id \in {2, 3} |-> IF id = 2 THEN At(1, 1) ELSE At(0, 0)], confirmed |-> {2, 3}],
   [history |-> [id \in {2, 1} |-> IF id = 2 THEN At(2, 1) ELSE At(0, 0)], confirmed |-> {2}]}

\* 3 bytes without change, 4 with it.  The change settles after some attempts, or is not
\* worth its output; or it is for ever one satoshi too much or one too little, as the
\* signature with 19 is longer and leaves 18, with which it is not and leaves 19.
MCTerms ==
  {[pool |-> 2, rate |-> 500, long |-> {4}], [pool |-> 3, rate |-> 1000, long |-> {}],
   [pool |-> 7, rate |-> 1000, long |-> {19}]}
=============================================================================
