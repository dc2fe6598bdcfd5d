------------------------------- MODULE FeePool -------------------------------
(***************************************************************************)
(* The cumulative payment pool of go-bitfs: one opened pool between one     *)
(* buyer, one seller and one arbiter, from its refund state to settlement.  *)
(*                                                                          *)
(* The SDK keeps no state.  Each call receives signed evidence and facts    *)
(* and returns a signed message or a fully signed transaction.  What the    *)
(* variables below hold is therefore the evidence that exists: the sets of  *)
(* messages only grow, so a message can be lost (never used), duplicated,   *)
(* reordered or replayed long after it was made, and a crash between two    *)
(* calls is a call that is never made or made again.                        *)
(*                                                                          *)
(* The hashes and signatures are abstracted to membership: a verified       *)
(* message is one that was produced.  A pool transaction is determined by   *)
(* its sequence and its seller and arbiter outputs (miner fee and locktime  *)
(* are fixed, the buyer takes the rest); it does not commit to the          *)
(* authorization it pays.                                                   *)
(***************************************************************************)
EXTENDS Naturals, FiniteSets

CONSTANTS
  Batches,        \* the ordered content-hash batches the buyer may ask for
  Price,          \* [Batches -> Nat]: ContentHashesPriceSatoshis of a batch
  PoolOutput,     \* satoshis in the pool output
  Fee,            \* miner fee of a pool state, fixed by its size and the rate
  FinalSequence,  \* stands for 2^32 - 1
  ArbiterFees,    \* the fees the arbiter may decide on
  CloseTargets,   \* the seller amounts the buyer may close with
  Deadlines,      \* the delivery deadlines the buyer may set
  QuoteExpiry,    \* quote_expires_at_unix_seconds
  RefundLock,     \* nLockTime of the refund template
  MaxTime,        \* bound of the clock
  MaxRequests     \* bound on the authorizations signed

ASSUME BatchAssumption == Price \in [Batches -> Nat]
ASSUME AmountAssumption ==
  /\ PoolOutput \in Nat /\ Fee \in Nat /\ Fee =< PoolOutput
  /\ ArbiterFees \subseteq Nat /\ CloseTargets \subseteq Nat
ASSUME SequenceAssumption == FinalSequence \in Nat /\ FinalSequence > 2
ASSUME TimeAssumption ==
  /\ Deadlines \subseteq Nat /\ QuoteExpiry \in Nat /\ RefundLock \in Nat
  /\ MaxTime \in Nat /\ MaxTime >= RefundLock /\ MaxRequests \in Nat

VARIABLES
  now,        \* Facts.Now / Facts.BlockHeight, one clock for both
  requests,   \* Kind 5: the authorizations the buyer signed
  deliveries, \* Kind 6: the authorizations the seller delivered under
  updates,    \* Kind 7: the authorizations whose state the buyer signed
  claims,     \* Kind 8: the authorizations the seller took to arbitration
  prepared,   \* the arbiter's persisted [auth, fee] evidence
  receipts,   \* Kind 9: the [auth, fee] the arbiter signed
  closes,     \* Kind 12: the final states the buyer signed
  complete,   \* the transactions that carry two signatures and were released
  accepted,   \* every pool state the node has held for this pool
  head,       \* the state the node holds now
  status      \* "open" until the pool output is spent in a block

messages == <<requests, deliveries, updates, claims, prepared, receipts, closes>>
chain    == <<accepted, head, status>>
vars     == <<now, messages, complete, chain>>

-----------------------------------------------------------------------------
(* Data *)

RefundSequence == 2
Refund == [seq |-> RefundSequence, seller |-> 0, arbiter |-> 0]

Authorization == [seq : Nat, after : Nat, batch : Batches, deadline : Deadlines]
State         == [seq : Nat, seller : Nat, arbiter : Nat]

PaymentState(a)    == [seq |-> a.seq, seller |-> a.after, arbiter |-> 0]
ArbitratedState(w) == [seq |-> w.auth.seq, seller |-> w.auth.after, arbiter |-> w.fee]
FinalState(target) == [seq |-> FinalSequence, seller |-> target, arbiter |-> 0]

\* What the pool output can pay out: the rest is the miner's.
Spendable == PoolOutput - Fee

RefundExpired == now >= RefundLock

-----------------------------------------------------------------------------
(* The checks of the pool engine *)

\* Arithmetic only, and against the whole output: the miner fee is not taken off.
CheckPaymentCapacity(previous, seq, after) ==
  /\ after >= previous.seller
  /\ after =< PoolOutput
  /\ seq > previous.seq
  /\ seq # FinalSequence

\* Faulty form: takes an arbitrated state for an accepted one.
VerifyAcceptedPayment_IgnoresArbiter(state) == state.arbiter >= 0

VerifyAcceptedPayment(state)   == state.arbiter = 0
VerifyArbitratedPayment(state) == state.arbiter > 0

\* Faulty form: leaves the miner fee to the caller.
BuildPaymentUpdate_NoFee(previous, a) ==
  /\ previous.seq # FinalSequence
  /\ a.seq = previous.seq + 1
  /\ CheckPaymentCapacity(previous, a.seq, a.after)

\* The canonical builder rejects a state whose buyer cannot pay the miner fee.
BuildPaymentUpdate(previous, a) ==
  /\ VerifyAcceptedPayment(previous) \/ VerifyArbitratedPayment(previous)
  /\ previous.seq # FinalSequence
  /\ a.seq = previous.seq + 1
  /\ CheckPaymentCapacity(previous, a.seq, a.after)
  /\ a.after =< Spendable

\* The Claim alone: no previous state, no chain, no clock.
ValidateClaimStructure(a) ==
  /\ a.seq # FinalSequence
  /\ a.seq > RefundSequence
  /\ a.after =< Spendable

BuildArbitrationPayment(a, fee) ==
  /\ ValidateClaimStructure(a)
  /\ fee > 0
  /\ fee =< Spendable - a.after

\* Faulty form: bounds the close by the whole output.
BuildImmediateClose_NoFee(base, target) ==
  base.seq < FinalSequence /\ target =< PoolOutput

BuildImmediateClose(base, target) ==
  /\ VerifyAcceptedPayment(base) \/ VerifyArbitratedPayment(base)
  /\ base.seq < FinalSequence
  /\ target + base.arbiter =< PoolOutput
  /\ target =< Spendable

CheckContentRequestTiming(a) ==
  now < QuoteExpiry /\ now < a.deadline /\ a.deadline =< QuoteExpiry

-----------------------------------------------------------------------------
(* LatestPaymentRawTx, the one piece of evidence that says how far the pool  *)
(* has got, is chosen by the application and verified by the SDK.  The buyer *)
(* must take it from the chain, but may be any number of states behind; the  *)
(* seller may also carry on from the evidence CompletePayment hands back for *)
(* a transaction nobody has broadcast, or from any it has completed before.  *)

\* Faulty form: the buyer carries on from a candidate that is not on the chain.
BuyerView_LocalCandidate == accepted \cup complete

BuyerView  == accepted
SellerView == accepted \cup complete

-----------------------------------------------------------------------------
Init ==
  /\ now = 0
  /\ requests = {} /\ deliveries = {} /\ updates = {}
  /\ claims = {} /\ prepared = {} /\ receipts = {} /\ closes = {}
  /\ complete = {}
  /\ accepted = {Refund} /\ head = Refund /\ status = "open"

(* Buyer *)

RequestContent(previous, batch, deadline) ==
  LET a == [seq      |-> previous.seq + 1,
            after    |-> previous.seller + Price[batch],
            batch    |-> batch,
            deadline |-> deadline]
  IN /\ Cardinality(requests) < MaxRequests
     /\ ~RefundExpired
     /\ CheckContentRequestTiming(a)
     /\ previous.seq < FinalSequence - 1
     /\ VerifyAcceptedPayment(previous)
     /\ CheckPaymentCapacity(previous, a.seq, a.after)
     /\ requests' = requests \cup {a}
     /\ UNCHANGED <<now, deliveries, updates, claims, prepared, receipts,
                    closes, complete, chain>>

VerifyDeliveryAndPreparePayment(a, previous) ==
  /\ a \in deliveries
  /\ ~RefundExpired
  /\ CheckContentRequestTiming(a)
  /\ previous.seq + 1 = a.seq
  /\ VerifyAcceptedPayment(previous)
  /\ previous.seq < FinalSequence - 1
  /\ a.after = previous.seller + Price[a.batch]
  /\ BuildPaymentUpdate(previous, a)
  /\ updates' = updates \cup {a}
  /\ UNCHANGED <<now, requests, deliveries, claims, prepared, receipts,
                 closes, complete, chain>>

PrepareClose(base, target) ==
  /\ ~RefundExpired
  /\ BuildImmediateClose(base, target)
  /\ closes' = closes \cup {FinalState(target)}
  /\ UNCHANGED <<now, requests, deliveries, updates, claims, prepared,
                 receipts, complete, chain>>

\* Faulty form: takes the gate of the cooperative calls.
BuildMaturedRefund_WrongGate ==
  /\ ~RefundExpired
  /\ complete' = complete \cup {Refund}
  /\ UNCHANGED <<now, messages, chain>>

BuildMaturedRefund ==
  /\ RefundExpired
  /\ complete' = complete \cup {Refund}
  /\ UNCHANGED <<now, messages, chain>>

(* Seller *)

DeliverContent(a, previous) ==
  /\ a \in requests
  /\ ~RefundExpired
  /\ CheckContentRequestTiming(a)
  /\ previous.seq + 1 = a.seq
  /\ VerifyAcceptedPayment(previous)
  /\ CheckPaymentCapacity(previous, a.seq, a.after)
  /\ a.after = previous.seller + Price[a.batch]
  /\ deliveries' = deliveries \cup {a}
  /\ UNCHANGED <<now, requests, updates, claims, prepared, receipts, closes,
                 complete, chain>>

\* No clock but the refund's, and no price: the buyer has checked both.
CompletePayment(a, previous) ==
  /\ a \in updates \cap deliveries
  /\ ~RefundExpired
  /\ BuildPaymentUpdate(previous, a)
  /\ complete' = complete \cup {PaymentState(a)}
  /\ UNCHANGED <<now, messages, chain>>

\* A pool that is already final hands back its own close and nothing else.
CompleteClose(final, own) ==
  /\ final \in closes
  /\ IF own.seq = FinalSequence
       THEN final = own
       ELSE ~RefundExpired /\ final.seller + final.arbiter =< PoolOutput
  /\ complete' = complete \cup {final}
  /\ UNCHANGED <<now, messages, chain>>

\* Faulty form: does not ask for the seller's own delivery.
SellerPrepareArbitration_Undelivered(a) ==
  /\ ~RefundExpired
  /\ ValidateClaimStructure(a)
  /\ now < a.deadline
  /\ claims' = claims \cup {a}
  /\ UNCHANGED <<now, requests, deliveries, updates, prepared, receipts,
                 closes, complete, chain>>

\* Looks at the authorization and the delivery, never at the pool's state.
SellerPrepareArbitration(a) ==
  /\ a \in deliveries
  /\ ~RefundExpired
  /\ ValidateClaimStructure(a)
  /\ now < a.deadline
  /\ claims' = claims \cup {a}
  /\ UNCHANGED <<now, requests, deliveries, updates, prepared, receipts,
                 closes, complete, chain>>

\* Faulty forms: the arbiter's signature is not verified; no refund gate.
CompleteArbitratedPayment_NoReceipt(award) ==
  /\ BuildArbitrationPayment(award.auth, award.fee)
  /\ ~RefundExpired
  /\ complete' = complete \cup {ArbitratedState(award)}
  /\ UNCHANGED <<now, messages, chain>>

CompleteArbitratedPayment_NoRefundGate(award) ==
  /\ award \in receipts
  /\ BuildArbitrationPayment(award.auth, award.fee)
  /\ complete' = complete \cup {ArbitratedState(award)}
  /\ UNCHANGED <<now, messages, chain>>

CompleteArbitratedPayment(award) ==
  /\ award \in receipts
  /\ BuildArbitrationPayment(award.auth, award.fee)
  /\ ~RefundExpired
  /\ complete' = complete \cup {ArbitratedState(award)}
  /\ UNCHANGED <<now, messages, chain>>

(* Arbiter: offline, it reads neither the clock nor the chain *)

ArbiterPrepareArbitration(a, fee) ==
  /\ a \in claims
  /\ BuildArbitrationPayment(a, fee)
  /\ prepared' = prepared \cup {[auth |-> a, fee |-> fee]}
  /\ UNCHANGED <<now, requests, deliveries, updates, claims, receipts,
                 closes, complete, chain>>

\* Faulty form: charges more than the fee frozen in the prepared evidence.
SignPreparedArbitration_NewFee(award) ==
  /\ receipts' = receipts \cup {[award EXCEPT !.fee = award.fee + 1]}
  /\ UNCHANGED <<now, requests, deliveries, updates, claims, prepared,
                 closes, complete, chain>>

SignPreparedArbitration(award) ==
  /\ award \in prepared
  /\ BuildArbitrationPayment(award.auth, award.fee)
  /\ receipts' = receipts \cup {award}
  /\ UNCHANGED <<now, requests, deliveries, updates, claims, prepared,
                 closes, complete, chain>>

(* The node's finality-deferred pool and the clock *)

NodeAccepts(state) ==
  /\ state \in complete
  /\ status = "open"
  /\ state.seq > head.seq
  /\ accepted' = accepted \cup {state}
  /\ head' = state
  /\ UNCHANGED <<now, messages, complete, status>>

NodeMines ==
  /\ status = "open"
  /\ head \in complete
  /\ RefundExpired \/ head.seq = FinalSequence
  /\ status' = "settled"
  /\ UNCHANGED <<now, messages, complete, accepted, head>>

Tick ==
  /\ now < MaxTime
  /\ now' = now + 1
  /\ UNCHANGED <<messages, complete, chain>>

\* Nothing is left to happen: the only state in which the system may stop.
Settled == status = "settled" /\ now = MaxTime /\ UNCHANGED vars

Buyer ==
  \/ \E previous \in BuyerView, batch \in Batches, deadline \in Deadlines :
        RequestContent(previous, batch, deadline)
  \/ \E a \in requests, previous \in BuyerView :
        VerifyDeliveryAndPreparePayment(a, previous)
  \/ \E base \in BuyerView, target \in CloseTargets : PrepareClose(base, target)
  \/ BuildMaturedRefund

Seller ==
  \/ \E a \in requests, previous \in SellerView :
        DeliverContent(a, previous) \/ CompletePayment(a, previous)
  \/ \E a \in requests : SellerPrepareArbitration(a)
  \/ \E award \in prepared : CompleteArbitratedPayment(award)
  \/ \E final \in closes, own \in SellerView : CompleteClose(final, own)

Arbiter ==
  \/ \E a \in requests, fee \in ArbiterFees : ArbiterPrepareArbitration(a, fee)
  \/ \E award \in prepared : SignPreparedArbitration(award)

Node ==
  \/ \E state \in complete : NodeAccepts(state)
  \/ NodeMines

Next == Buyer \/ Seller \/ Arbiter \/ Node \/ Tick \/ Settled

Spec == Init /\ [][Next]_vars

\* The buyer's application watches for maturity, the network mines, time passes.
\* Nothing else has to happen: any party may stop answering at any point.
FairSpec ==
  Spec /\ WF_vars(Tick) /\ WF_vars(BuildMaturedRefund) /\ WF_vars(NodeMines)

-----------------------------------------------------------------------------
(* Properties *)

\* Every variable keeps its type: receipts are for prepared evidence, messages for
\* authorizations, and a settled pool was spent by a released transaction.
TypeOK ==
  /\ now \in 0..MaxTime
  /\ requests \subseteq Authorization
  /\ deliveries \subseteq requests
  /\ updates \subseteq requests
  /\ claims \subseteq requests
  /\ prepared \subseteq [auth : requests, fee : ArbiterFees]
  /\ receipts \subseteq prepared
  /\ closes \subseteq State
  /\ complete \subseteq State
  /\ accepted \subseteq State
  /\ head \in accepted
  /\ status \in {"open", "settled"}
  /\ status = "settled" => head \in complete

\* How the evidence hangs together (the inductive invariant of the proofs).

\* An authorization extends by one batch a state the node has held.
RequestsExtendTheChain ==
  \A a \in requests :
    /\ a.seq < FinalSequence
    /\ \E p \in accepted :
          /\ VerifyAcceptedPayment(p)
          /\ a.seq = p.seq + 1
          /\ a.after = p.seller + Price[a.batch]

\* Each message answers one that was made before it.
MessagesFollow ==
  /\ updates \subseteq deliveries
  /\ claims \subseteq deliveries
  /\ \A award \in prepared : award.auth \in claims
  /\ \A final \in closes : final = FinalState(final.seller) /\ final.seller =< Spendable

\* A transaction has two signatures for one of four reasons.
CompleteFollows ==
  \A state \in complete :
    \/ state = Refund
    \/ state \in closes
    \/ \E a \in updates : state = PaymentState(a) /\ a.after =< Spendable
    \/ \E award \in receipts :
          /\ state = ArbitratedState(award)
          /\ BuildArbitrationPayment(award.auth, award.fee)

\* State t is the one after s, at the price of a batch delivered on s.
PaidNext(s, t) ==
  /\ VerifyAcceptedPayment(s)
  /\ t.seq = s.seq + 1
  /\ \E a \in deliveries :
        a.seq = t.seq /\ a.after = t.seller /\ a.after = s.seller + Price[a.batch]

\* The node's states lead up to its head, each paid for one by one.
ChainLeadsToHead ==
  /\ Refund \in accepted
  /\ accepted \subseteq complete \cup {Refund}
  /\ \A s \in accepted : s.seq \in RefundSequence..head.seq
  /\ head.seq =< FinalSequence
  /\ \A s, t \in accepted : s.seq = t.seq => s = t
  /\ \A t \in accepted :
        t.seq \in {RefundSequence, FinalSequence} \/ \E s \in accepted : PaidNext(s, t)

EvidenceInv ==
  /\ RequestsExtendTheChain
  /\ MessagesFollow
  /\ CompleteFollows
  /\ ChainLeadsToHead

\* A state that can still displace the node's is one payment ahead of it, for
\* one delivered batch at its quoted price: whatever the buyer and the seller
\* signed on stale views, the buyer's exposure beyond the chain is one batch.
BoundedExposure ==
  \A state \in complete :
    state.seq > head.seq /\ state.seq # FinalSequence =>
      /\ VerifyAcceptedPayment(head)
      /\ \E a \in deliveries :
            /\ a.seq = state.seq /\ a.after = state.seller
            /\ a.seq = head.seq + 1
            /\ a.after = head.seller + Price[a.batch]

\* The states the node has held are the ledger of the pool: one per sequence, none
\* skipped from the refund up, each at the price of a delivery on the state below
\* it that no arbiter has had a share of; whatever was signed twice for the same
\* sequence.
ChainIsLedger ==
  /\ \A s, t \in accepted : s.seq = t.seq => s = t
  /\ \A t \in accepted :
        t.seq \in {RefundSequence, FinalSequence} \/ \E s \in accepted : PaidNext(s, t)

\* Once the node holds an arbitrated state only a close follows: RequestContent
\* and VerifyDeliveryAndPreparePayment refuse to build on it, although
\* CompletePayment would, so the arbiter's fee is not paid out a second time.
ArbitratedEndsPayments ==
  [][head' # head /\ VerifyArbitratedPayment(head) => head'.seq = FinalSequence]_vars

\* Every transaction that carries two signatures leaves the miner its fee.
CompleteIsPayable ==
  \A state \in complete : state.seller + state.arbiter =< Spendable

\* An arbitrated transaction spends only what the arbiter had persisted for a
\* claim the seller made on an authorization it had delivered under.
AwardFollowsCustody ==
  \A state \in complete : state.arbiter > 0 =>
    \E award \in receipts \cap prepared :
      /\ state = ArbitratedState(award)
      /\ award.auth \in claims \cap deliveries

\* Once the refund may be mined nothing new competes with it: a call on evidence
\* from before, a late answer or a repeated one, completes no other transaction.
NothingCompletedAfterExpiry ==
  [][RefundExpired => complete' \subseteq complete \cup {Refund}]_vars

\* What the miners take is what is owed: a close the buyer signed, or, after the
\* lock, a state under which every sequence was paid for by a delivery, and which
\* leaves the seller no less than any state before it; whatever transactions were
\* completed on stale views and never reached the chain.
SettledAsOwed ==
  status = "settled" =>
    \/ head \in closes
    \/ /\ RefundExpired
       /\ \A k \in RefundSequence + 1..head.seq :
             \E s, t \in accepted : t.seq = k /\ PaidNext(s, t)
       /\ \A s \in accepted : s.seller =< head.seller

\* The pool output is spent in the end, even if every party stops answering.
PoolIsSettled == <>(status = "settled")

\* The evidence, messages and views refine to the channel they implement.
Offers == {[seq |-> a.seq, after |-> a.after, batch |-> a.batch] : a \in deliveries}
Channel == INSTANCE CumulativeChannel WITH offers <- Offers, held <- accepted

\* Every step of the protocol is a step of the channel or changes nothing of it.
ImplementsChannel == Channel!Spec

(* What the repository says of the program, and the code does not do *)

\* "... insufficient capacity fails the whole construction before any signature
\* exists": an authorization under which content was delivered can be paid.
DeliveredIsPayable == \A a \in deliveries : a.after =< Spendable

\* The delivery deadline is checked again when the receipt is signed.
ReceiptBeforeDeadline ==
  [][\A award \in receipts' \ receipts : now < award.auth.deadline]_vars

=============================================================================
