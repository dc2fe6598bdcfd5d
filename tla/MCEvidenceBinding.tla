-------------------------- MODULE MCEvidenceBinding --------------------------
(* alice buys from bob with carol as arbiter, over one output with two openings, a          *)
(* height-locked one and a time-locked one; and from carol with bob as arbiter.  Both       *)
(* sellers sign the same terms, which do not name the seller; bob quotes another price too.  *)
(* A third output is too small to pay for its own refund.                                   *)
EXTENDS EvidenceBinding
CONSTANTS alice, bob, carol, b

F1 == [id |-> 1, buyer |-> alice, seller |-> bob, arbiter |-> carol, amount |-> 3]
F2 == [id |-> 2, buyer |-> alice, seller |-> carol, arbiter |-> bob, amount |-> 3]
F3 == [id |-> 3, buyer |-> alice, seller |-> bob, arbiter |-> carol, amount |-> 0]
MCOpenings ==
  {[funding |-> F1, lock |-> 2], [funding |-> F1, lock |-> 4], [funding |-> F2, lock |-> 4],
   [funding |-> F3, lock |-> 4]}
Terms(price, expiry) ==
  [buyer |-> alice, arbiters |-> {bob, carol}, price |-> [batch \in Batches |-> price],
   expiry |-> expiry]
MCQuotes ==
  {[seller |-> bob, terms |-> Terms(1, 4)], [seller |-> carol, terms |-> Terms(1, 4)],
   [seller |-> bob, terms |-> Terms(2, 5)]}
=============================================================================
