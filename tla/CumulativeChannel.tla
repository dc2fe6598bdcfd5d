-------------------------- MODULE CumulativeChannel --------------------------
(***************************************************************************)
(* What the payment pool promises its buyer and its seller, without          *)
(* messages, signatures, clocks or stale evidence: content is offered on a   *)
(* state the chain has held, a payment extends the state the chain holds by  *)
(* the price of something delivered on it, an arbitrated payment is the      *)
(* last, both may agree to close at any amount, and the output is spent.     *)
(***************************************************************************)
EXTENDS Naturals

CONSTANTS Batches, Price, FinalSequence, Spendable, ArbiterFees, Refund

VARIABLES
  offers,   \* what was delivered: the batch and the state that pays for it
  held,     \* every state the chain has held
  head,     \* the state it holds
  status    \* "open" until the pool output is spent

vars == <<offers, held, head, status>>

Init == offers = {} /\ held = {Refund} /\ head = Refund /\ status = "open"

Deliver ==
  \E state \in held, batch \in Batches :
    /\ state.arbiter = 0
    /\ offers' = offers \cup {[seq   |-> state.seq + 1,
                               after |-> state.seller + Price[batch],
                               batch |-> batch]}
    /\ UNCHANGED <<held, head, status>>

Hold(state) ==
  /\ status = "open"
  /\ head' = state /\ held' = held \cup {state}
  /\ UNCHANGED <<offers, status>>

Pay ==
  \E offer \in offers, fee \in {0} \cup ArbiterFees :
    /\ head.arbiter = 0
    /\ offer.seq = head.seq + 1 /\ offer.seq # FinalSequence
    /\ offer.after = head.seller + Price[offer.batch]
    /\ offer.after + fee =< Spendable
    /\ Hold([seq |-> offer.seq, seller |-> offer.after, arbiter |-> fee])

Close ==
  /\ head.seq # FinalSequence
  /\ \E target \in 0..Spendable :
        Hold([seq |-> FinalSequence, seller |-> target, arbiter |-> 0])

Settle ==
  status = "open" /\ status' = "settled" /\ UNCHANGED <<offers, held, head>>

Next == Deliver \/ Pay \/ Close \/ Settle

Spec == Init /\ [][Next]_vars
=============================================================================
