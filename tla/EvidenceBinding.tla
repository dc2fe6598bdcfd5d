--------------------------- MODULE EvidenceBinding ---------------------------
(***************************************************************************)
(* The exported calls of buyer, seller and arbiter, given evidence of more    *)
(* than one pool and more than one quote.  A call takes no handle: it is      *)
(* passed the raw messages an application has saved, a signer, and the facts  *)
(* of the moment, and has to find out by itself whether they belong together. *)
(* Here every call may be given any message anybody has signed, any opening,  *)
(* any state of it, and any key.                                              *)
(*                                                                          *)
(* A key may be the buyer's of one pool and the seller's of another, and one  *)
(* funding output may carry several openings.  Locktimes are heights or       *)
(* times, which advance apart; an application may leave either fact out.      *)
(* FeePool has the node and the order of one pool's states, ContentRetrieval  *)
(* the calls of Kinds 10 and 11.                                              *)
(***************************************************************************)
EXTENDS Naturals, FiniteSets

CONSTANTS
  Keys,
  Openings,      \* [funding, lock]: the pools that may be asked for; funding, from the
                 \* script, is [id, buyer, seller, arbiter, amount]
  Quotes,        \* Kind 1: [seller, terms], terms = [buyer, arbiters, price, expiry]
  Batches,
  Threshold,     \* TimestampThreshold: locktimes below it are heights
  FinalSequence,
  Fee,           \* miner fee of a pool state
  MaxSatoshis,   \* math.MaxUint64
  ArbiterFees,
  CloseTargets,  \* seller amounts a buyer asks a pool to be closed at
  Deadlines,
  StartNow, MaxNow, MaxHeight, \* bounds on the two clocks
  MaxEvidence    \* bound on the number of messages and signatures

RefundSequence == 2

ASSUME ClockAssumption ==
  /\ StartNow \in Nat \ {0} /\ MaxNow \in Nat /\ MaxHeight \in Nat
  /\ Threshold \in Nat /\ Deadlines \subseteq Nat
ASSUME PoolAssumption ==
  /\ FinalSequence \in Nat /\ FinalSequence > RefundSequence
  /\ MaxSatoshis \in Nat /\ Fee \in 0..MaxSatoshis /\ MaxEvidence \in Nat
  /\ ArbiterFees \subseteq Nat \ {0} /\ CloseTargets \subseteq Nat
  /\ \A opening \in Openings :
       /\ opening.lock \in Nat \ {0} /\ opening.funding.amount \in 0..MaxSatoshis
       /\ {opening.funding.buyer, opening.funding.seller, opening.funding.arbiter} \subseteq Keys
       /\ opening.funding.buyer # opening.funding.seller
       /\ opening.funding.arbiter \notin {opening.funding.buyer, opening.funding.seller}
ASSUME QuoteAssumption ==
  \A quote \in Quotes :
    quote.terms.expiry \in Nat /\ \A batch \in Batches : quote.terms.price[batch] \in Nat

VARIABLES
  now, height, \* the two clocks of the world
  signatures,  \* [tx, by]: signatures over pool transactions
  requests,    \* Kind 5: [terms, opening, seq, after, batch, deadline, by]
  deliveries,  \* Kind 6: [auth, by]; the payloads are those the authorization hashes
  updates,     \* Kind 7: [auth, tx], with the buyer's signature over tx
  claims,      \* Kind 8: [opening, auth, by]
  receipts,    \* Kind 9: [claim, tx, by], with the arbiter's signature over tx
  closes       \* Kind 12: [opening, tx], with the buyer's signature over tx

clocks == <<now, height>>
vars   == <<clocks, signatures, requests, deliveries, updates, claims, receipts, closes>>

-----------------------------------------------------------------------------
(* Facts *)

\* What an application passes of the moment; zero is a fact left out.
Facts == [now : {0, now}, height : {0, height}]

UsesBlockHeight(lock) == lock < Threshold

\* Faulty form: compares every lock with the time.
RefundMatured_ByTime(facts, lock) == facts.now >= lock

RefundMatured(facts, lock) ==
  IF UsesBlockHeight(lock) THEN facts.height >= lock ELSE facts.now >= lock

FactGiven(facts, lock) == IF UsesBlockHeight(lock) THEN facts.height # 0 ELSE facts.now # 0

CheckRefundNotExpired(facts, lock) == FactGiven(facts, lock) /\ ~RefundMatured(facts, lock)

\* RequireNow with CheckContentRequestTiming.
InTime(facts, terms, deadline) ==
  /\ facts.now # 0
  /\ facts.now < terms.expiry /\ facts.now < deadline /\ deadline =< terms.expiry

-----------------------------------------------------------------------------
(* Transactions and pool evidence *)

State(funding, seq, lock, seller, arbiter) ==
  [funding |-> funding, seq |-> seq, lock |-> lock, seller |-> seller, arbiter |-> arbiter]

Refund(opening) == State(opening.funding, RefundSequence, opening.lock, 0, 0)

Signed(tx, key) == [tx |-> tx, by |-> key] \in signatures

VerifyOpening(opening) ==
  /\ Signed(Refund(opening), opening.funding.buyer)
  /\ Signed(Refund(opening), opening.funding.seller)

VerifyAcceptedPayment(tx) ==
  tx.arbiter = 0 /\ Signed(tx, tx.funding.buyer) /\ Signed(tx, tx.funding.seller)

VerifyArbitratedPayment(tx) ==
  tx.arbiter > 0 /\ Signed(tx, tx.funding.seller) /\ Signed(tx, tx.funding.arbiter)

Transactions == {signature.tx : signature \in signatures}

\* What passes internalPoolCheckpoint: an opening proof with, as LatestPaymentRawTx, any
\* complete transaction that spends its output; with none given, the refund.
PoolEvidence(opening) ==
  {tx \in Transactions :
     /\ VerifyOpening(opening) /\ tx.funding = opening.funding
     /\ VerifyAcceptedPayment(tx) \/ VerifyArbitratedPayment(tx)}

\* The canonical builder; the locktime is that of the state paid on.
BuildPaymentUpdate(previous, after) ==
  State(previous.funding, previous.seq + 1, previous.lock, after, 0)

CheckPaymentCapacity(previous, after) ==
  /\ previous.seq + 1 < FinalSequence
  /\ previous.seller =< after /\ after =< previous.funding.amount

Affordable(previous, after) ==
  CheckPaymentCapacity(previous, after) /\ after + Fee =< previous.funding.amount

BuildImmediateClose(base, target) == State(base.funding, FinalSequence, FinalSequence, target, 0)

-----------------------------------------------------------------------------
(* What belongs together *)

\* The digest of the terms.  They name no seller: two sellers' quotes may share an id.
FileQuoteTermsID(quote) == quote.terms

\* A quote names one buyer; a time left out is no time before its expiry.
VerifyQuoteForBuyer(quote, facts, key) ==
  facts.now # 0 /\ facts.now < quote.terms.expiry /\ quote.terms.buyer = key

\* The quote's seller and buyer are the pool's, and it allows the pool's arbiter.
QuoteFits(quote, funding) ==
  /\ quote.terms.buyer = funding.buyer /\ quote.seller = funding.seller
  /\ funding.arbiter \in quote.terms.arbiters

\* Faulty form: any opening the authorizing key is the buyer of.
VerifySignedContentRequestForOpening_AnyPool(auth, opening) == auth.by = opening.funding.buyer

VerifySignedContentRequestForOpening(auth, opening) ==
  auth.opening = opening /\ auth.by = opening.funding.buyer

VerifyContentRequestEvidence(auth, quote, opening) ==
  /\ VerifySignedContentRequestForOpening(auth, opening)
  /\ auth.terms = FileQuoteTermsID(quote)
  /\ QuoteFits(quote, opening.funding)

\* preflightDeliveryRequest, which InspectDeliveryRequest returns the result of.
InspectDeliveryRequest(auth, quote, opening, previous, facts) ==
  /\ CheckRefundNotExpired(facts, opening.lock)
  /\ VerifyContentRequestEvidence(auth, quote, opening)
  /\ InTime(facts, quote.terms, auth.deadline)
  /\ VerifyAcceptedPayment(previous) /\ previous.seq + 1 = auth.seq
  /\ CheckPaymentCapacity(previous, auth.after)

\* Both sides compare the amount with the one before and the quoted price.
PricedExactly(auth, quote, previous) ==
  auth.after = previous.seller + quote.terms.price[auth.batch]

\* Faulty form: any delivery the seller has signed.
StoredDelivery_AnyAuthorization(delivery, auth, opening) == delivery.by = opening.funding.seller

\* verifyStoredDelivery
StoredDelivery(delivery, auth, opening) ==
  delivery.auth = auth /\ delivery.by = opening.funding.seller

ValidateRequestEvidence(claim) ==
  /\ VerifySignedContentRequestForOpening(claim.auth, claim.opening)
  /\ claim.by = claim.opening.funding.seller
  /\ claim.auth.seq > RefundSequence /\ claim.auth.seq < FinalSequence

BuildArbitrationPayment(claim, fee) ==
  State(claim.opening.funding, claim.auth.seq, claim.opening.lock, claim.auth.after, fee)

\* What buyer and seller restore after a restart, from the exact messages they saved.
RestoreAuthorization(auth, quote) ==
  VerifyOpening(auth.opening) /\ VerifyContentRequestEvidence(auth, quote, auth.opening)

\* Faulty form: also asks that the delivery could still be made.
RestoreDelivery_InTime(delivery, quote) ==
  /\ RestoreAuthorization(delivery.auth, quote)
  /\ StoredDelivery(delivery, delivery.auth, delivery.auth.opening)
  /\ InTime([now |-> now, height |-> height], quote.terms, delivery.auth.deadline)

RestoreDelivery(delivery, quote) ==
  /\ RestoreAuthorization(delivery.auth, quote)
  /\ StoredDelivery(delivery, delivery.auth, delivery.auth.opening)

-----------------------------------------------------------------------------
(* The calls.  signer is whichever key the application passes. *)

Init ==
  /\ now = StartNow /\ height = 1
  /\ signatures = {} /\ requests = {} /\ deliveries = {} /\ updates = {}
  /\ claims = {} /\ receipts = {} /\ closes = {}

Room ==
  Cardinality(signatures) + Cardinality(requests) + Cardinality(deliveries) +
    Cardinality(claims) < MaxEvidence

Sign(tx, key) == signatures' = signatures \cup {[tx |-> tx, by |-> key]}

\* Faulty form: leaves it to the miners whether the output covers the fee.
PrepareOpening_NoFeeCheck(opening, quote, signer) ==
  /\ Room
  /\ quote.terms.buyer = signer
  /\ QuoteFits(quote, opening.funding)
  /\ Sign(Refund(opening), signer)
  /\ UNCHANGED <<clocks, requests, deliveries, updates, claims, receipts, closes>>

\* buyer.PrepareOpening: bound to the quote, whether it has expired or not; a refund that
\* the output cannot pay for is not built.
PrepareOpening(opening, quote, signer) ==
  /\ Room
  /\ quote.terms.buyer = signer
  /\ QuoteFits(quote, opening.funding)
  /\ opening.funding.amount > 0 /\ Fee =< opening.funding.amount
  /\ Sign(Refund(opening), signer)
  /\ UNCHANGED <<clocks, requests, deliveries, updates, claims, receipts, closes>>

\* Faulty form: any key counts as the pool's seller.
PreparePresign_AnySigner(opening, signer) ==
  /\ Room
  /\ Signed(Refund(opening), opening.funding.buyer)
  /\ Sign(Refund(opening), signer)
  /\ UNCHANGED <<clocks, requests, deliveries, updates, claims, receipts, closes>>

\* seller.PreparePresign: any request with the buyer's signature, whatever was quoted.
PreparePresign(opening, signer) ==
  /\ Room
  /\ opening.funding.seller = signer
  /\ Signed(Refund(opening), opening.funding.buyer)
  /\ Sign(Refund(opening), signer)
  /\ UNCHANGED <<clocks, requests, deliveries, updates, claims, receipts, closes>>

PrepareContentRequest(opening, quote, previous, batch, deadline, facts, signer) ==
  LET after == previous.seller + quote.terms.price[batch]
      auth  == [terms |-> FileQuoteTermsID(quote), opening |-> opening,
                seq |-> previous.seq + 1, after |-> after, batch |-> batch,
                deadline |-> deadline, by |-> signer]
  IN /\ Room
     /\ opening.funding.buyer = signer
     /\ CheckRefundNotExpired(facts, opening.lock)
     /\ VerifyQuoteForBuyer(quote, facts, signer)
     /\ facts.now < deadline /\ deadline =< quote.terms.expiry
     /\ QuoteFits(quote, opening.funding)
     /\ VerifyAcceptedPayment(previous)
     /\ CheckPaymentCapacity(previous, after)
     /\ requests' = requests \cup {auth}
     /\ UNCHANGED <<clocks, signatures, deliveries, updates, claims, receipts, closes>>

PrepareDelivery(auth, quote, opening, previous, facts, signer) ==
  /\ Room
  /\ opening.funding.seller = signer
  /\ InspectDeliveryRequest(auth, quote, opening, previous, facts)
  /\ PricedExactly(auth, quote, previous)
  /\ deliveries' = deliveries \cup {[auth |-> auth, by |-> signer]}
  /\ UNCHANGED <<clocks, signatures, requests, updates, claims, receipts, closes>>

\* The signature on the delivery is the one thing the buyer does not check.
VerifyDelivery(auth, delivery, quote, opening, previous, facts, signer) ==
  LET tx == BuildPaymentUpdate(previous, auth.after)
  IN /\ Room
     /\ opening.funding.buyer = signer
     /\ CheckRefundNotExpired(facts, opening.lock)
     /\ VerifyQuoteForBuyer(quote, facts, signer)
     /\ VerifyContentRequestEvidence(auth, quote, opening)
     /\ InTime(facts, quote.terms, auth.deadline)
     /\ delivery.auth = auth
     /\ VerifyAcceptedPayment(previous) /\ previous.seq + 1 = auth.seq
     /\ PricedExactly(auth, quote, previous)
     /\ Affordable(previous, auth.after)
     /\ Sign(tx, signer)
     /\ updates' = updates \cup {[auth |-> auth, tx |-> tx]}
     /\ UNCHANGED <<clocks, requests, deliveries, claims, receipts, closes>>

\* The quote is not asked for again; the transaction is rebuilt.
CompletePayment(update, auth, delivery, opening, previous, facts, signer) ==
  LET tx == BuildPaymentUpdate(previous, auth.after)
  IN /\ Room
     /\ opening.funding.seller = signer
     /\ StoredDelivery(delivery, auth, opening)
     /\ update.auth = auth
     /\ VerifySignedContentRequestForOpening(auth, opening)
     /\ CheckRefundNotExpired(facts, opening.lock)
     /\ previous.seq + 1 = auth.seq
     /\ Affordable(previous, auth.after)
     /\ update.tx = tx
     /\ Sign(tx, signer)
     /\ UNCHANGED <<clocks, requests, deliveries, updates, claims, receipts, closes>>

PrepareCloseArtifact(opening, base, target, facts, signer) ==
  LET tx == BuildImmediateClose(base, target)
  IN /\ Room
     /\ opening.funding.buyer = signer
     /\ CheckRefundNotExpired(facts, opening.lock)
     /\ base.seq < FinalSequence
     /\ target + base.arbiter =< base.funding.amount /\ target + Fee =< base.funding.amount
     /\ Sign(tx, signer)
     /\ closes' = closes \cup {[opening |-> opening, tx |-> tx]}
     /\ UNCHANGED <<clocks, requests, deliveries, updates, claims, receipts>>

\* With a final state as evidence the call returns that state and signs nothing.
CompleteCloseArtifact(close, opening, view, facts, signer) ==
  /\ Room
  /\ opening.funding.seller = signer
  /\ view.seq # FinalSequence
  /\ close.opening = opening
  /\ CheckRefundNotExpired(facts, opening.lock)
  /\ Signed(close.tx, opening.funding.buyer)
  /\ Sign(close.tx, signer)
  /\ UNCHANGED <<clocks, requests, deliveries, updates, claims, receipts, closes>>

SellerPrepareArbitration(auth, delivery, opening, facts, signer) ==
  /\ Room
  /\ PoolEvidence(opening) # {}
  /\ opening.funding.seller = signer
  /\ CheckRefundNotExpired(facts, opening.lock)
  /\ VerifySignedContentRequestForOpening(auth, opening)
  /\ facts.now # 0 /\ facts.now < auth.deadline
  /\ StoredDelivery(delivery, auth, opening)
  /\ claims' = claims \cup {[opening |-> opening, auth |-> auth, by |-> signer]}
  /\ UNCHANGED <<clocks, signatures, requests, deliveries, updates, receipts, closes>>

\* arbiter.PrepareArbitration only computes: what it hands to this call is a function of
\* the claim and the fee, and is computed again here.
SignPreparedArbitration(claim, fee, signer) ==
  LET tx == BuildArbitrationPayment(claim, fee)
  IN /\ Room
     /\ ValidateRequestEvidence(claim)
     /\ claim.opening.funding.arbiter = signer
     /\ claim.auth.after + fee + Fee =< claim.opening.funding.amount
     /\ Sign(tx, signer)
     /\ receipts' = receipts \cup {[claim |-> claim, tx |-> tx, by |-> signer]}
     /\ UNCHANGED <<clocks, requests, deliveries, updates, claims, closes>>

\* No pool evidence is asked for: everything is in Kinds 8 and 9.  That the claim's
\* template is the authorization's was compared when the claim was built, and by the
\* arbiter, not here.
CompleteArbitratedPayment(claim, receipt, facts, signer) ==
  LET tx == BuildArbitrationPayment(claim, receipt.tx.arbiter)
  IN /\ Room
     /\ claim.opening.funding.seller = signer
     /\ claim.auth.by = claim.opening.funding.buyer /\ claim.by = signer
     /\ receipt.claim = claim
     /\ receipt.by = claim.opening.funding.arbiter
     /\ CheckRefundNotExpired(facts, claim.opening.lock)
     /\ receipt.tx = tx
     /\ Sign(tx, signer)
     /\ UNCHANGED <<clocks, requests, deliveries, updates, claims, receipts, closes>>

TimePasses ==
  /\ now < MaxNow /\ now' = now + 1
  /\ UNCHANGED <<height, signatures, requests, deliveries, updates, claims, receipts, closes>>

BlockIsMined ==
  /\ height < MaxHeight /\ height' = height + 1
  /\ UNCHANGED <<now, signatures, requests, deliveries, updates, claims, receipts, closes>>

OpeningStep ==
  \E opening \in Openings, signer \in Keys :
    \/ \E quote \in Quotes : PrepareOpening(opening, quote, signer)
    \/ PreparePresign(opening, signer)

\* previous, or view: the state the application passes as the pool's.
PaymentStep ==
  \E opening \in Openings, facts \in Facts, signer \in Keys : \E previous \in PoolEvidence(opening) :
    \/ \E quote \in Quotes, batch \in Batches, deadline \in Deadlines :
         PrepareContentRequest(opening, quote, previous, batch, deadline, facts, signer)
    \/ \E auth \in requests, quote \in Quotes :
         PrepareDelivery(auth, quote, opening, previous, facts, signer)
    \/ \E auth \in requests, quote \in Quotes, delivery \in deliveries :
         VerifyDelivery(auth, delivery, quote, opening, previous, facts, signer)
    \/ \E update \in updates, auth \in requests, delivery \in deliveries :
         CompletePayment(update, auth, delivery, opening, previous, facts, signer)

CloseStep ==
  \E opening \in Openings, facts \in Facts, signer \in Keys : \E view \in PoolEvidence(opening) :
    \/ \E target \in CloseTargets : PrepareCloseArtifact(opening, view, target, facts, signer)
    \/ \E close \in closes : CompleteCloseArtifact(close, opening, view, facts, signer)

\* SellerPrepareArbitration asks of the pool's state only that it is one.
ArbitrationStep ==
  \E signer \in Keys :
    \/ \E opening \in Openings, facts \in Facts, auth \in requests, delivery \in deliveries :
         SellerPrepareArbitration(auth, delivery, opening, facts, signer)
    \/ \E claim \in claims, fee \in ArbiterFees : SignPreparedArbitration(claim, fee, signer)
    \/ \E claim \in claims, receipt \in receipts, facts \in Facts :
         CompleteArbitratedPayment(claim, receipt, facts, signer)

Next == OpeningStep \/ PaymentStep \/ CloseStep \/ ArbitrationStep \/ TimePasses \/ BlockIsMined

Spec == Init /\ [][Next]_vars

-----------------------------------------------------------------------------
(* Properties *)

\* Every message is signed by the key whose role it is, over evidence that was there.
TypeOK ==
  /\ now \in Nat /\ height \in Nat
  /\ \A signature \in signatures :
       \/ signature.by = signature.tx.funding.seller
       \/ signature.by = signature.tx.funding.buyer /\ signature.tx.arbiter = 0
       \/ signature.by = signature.tx.funding.arbiter /\ signature.tx.arbiter > 0
  /\ \A auth \in requests : auth.opening \in Openings /\ auth.by = auth.opening.funding.buyer
  /\ \A delivery \in deliveries :
       delivery.auth \in requests /\ delivery.by = delivery.auth.opening.funding.seller
  /\ \A update \in updates :
       update.auth \in requests /\ Signed(update.tx, update.auth.by)
  /\ \A claim \in claims : claim.auth \in requests /\ claim.by = claim.opening.funding.seller
  /\ \A receipt \in receipts : receipt.claim \in claims /\ Signed(receipt.tx, receipt.by)
  /\ \A close \in closes : Signed(close.tx, close.opening.funding.buyer)

Delivered(auth) == \E delivery \in deliveries : delivery.auth = auth

\* A buyer never signs a payment that was not delivered, or at another price than that of
\* the quote it authorized, or for another pool: whatever quotes, openings and states are
\* mixed up in the calls, the new state adds to one completed state of the same output
\* exactly what the seller of that pool quoted to its buyer.
PaymentsAreQuoted ==
  \A update \in updates :
    \E quote \in Quotes, previous \in Transactions :
      /\ update.auth.terms = FileQuoteTermsID(quote) /\ QuoteFits(quote, update.tx.funding)
      /\ update.tx.funding = update.auth.opening.funding
      /\ VerifyAcceptedPayment(previous)
      /\ previous.funding = update.tx.funding /\ update.tx.seq = previous.seq + 1
      /\ update.tx.seller = previous.seller + quote.terms.price[update.auth.batch]
      /\ Delivered(update.auth)

\* What an arbiter awards is what the buyer of that pool authorized for that opening, at
\* its sequence, after the pool's seller delivered it and claimed it: a claim cannot be
\* made of one opening's authorization and another's refund template.
AwardsAreClaimed ==
  \A receipt \in receipts :
    LET auth == receipt.claim.auth
    IN /\ receipt.tx = State(auth.opening.funding, auth.seq, auth.opening.lock, auth.after,
                             receipt.tx.arbiter)
       /\ receipt.claim.by = auth.opening.funding.seller
       /\ receipt.by = auth.opening.funding.arbiter
       /\ Delivered(auth)

\* Restarting is always possible: with the exact messages that were saved, both sides can
\* restore their authorizations and deliveries, however much has expired since.
SavedIsRestorable ==
  /\ \A auth \in requests : \E quote \in Quotes : RestoreAuthorization(auth, quote)
  /\ \A delivery \in deliveries : \E quote \in Quotes : RestoreDelivery(delivery, quote)

\* By its own clock, the one its locktime is read on.
Refundable(opening) ==
  IF UsesBlockHeight(opening.lock) THEN height >= opening.lock ELSE now >= opening.lock

\* Everything buyer and seller sign on behalf of an opening after it is funded.
SignedFor(opening) ==
  <<{auth \in requests : auth.opening = opening},
    {delivery \in deliveries : delivery.auth.opening = opening},
    {update \in updates : update.auth.opening = opening},
    {claim \in claims : claim.opening = opening},
    {close \in closes : close.opening = opening}>>

\* The seller's signatures that complete a state of an output.
CompletedOf(funding) ==
  {signature \in signatures : /\ signature.tx.funding = funding
                              /\ signature.tx.seq > RefundSequence
                              /\ signature.by = funding.seller}

\* Once an opening's refund can be mined, by height or by time, neither party signs anything
\* more for it, and no state of an output is completed once all its refunds can be: leaving
\* out a fact, or the other clock being behind, opens no gate.
FrozenOnceRefundable ==
  [][\A opening \in Openings :
       /\ Refundable(opening) => UNCHANGED SignedFor(opening)
       /\ (\A other \in Openings : other.funding = opening.funding => Refundable(other)) =>
            UNCHANGED CompletedOf(opening.funding)]_vars

(* What the pool engine promises of any evidence it is given *)

RoleOf(funding, key) ==
  CASE key = funding.buyer -> "buyer" [] key = funding.seller -> "seller" [] OTHER -> "arbiter"

\* A transaction with what it leaves the buyer, and a signature with the amount it covers.
EngineTx(tx) ==
  [funding |-> tx.funding, sequence |-> tx.seq, lock |-> tx.lock,
   buyer |-> tx.funding.amount - tx.seller - tx.arbiter - Fee,
   seller |-> tx.seller, arbiter |-> tx.arbiter]

EngineSignature(signature) ==
  [role |-> RoleOf(signature.tx.funding, signature.by), tx |-> EngineTx(signature.tx),
   amount |-> signature.tx.funding.amount]

EngineSignatures == {EngineSignature(signature) : signature \in signatures}

Pools == {opening.funding : opening \in Openings}

Engine == INSTANCE PoolEngine WITH
  Fundings <- Pools, Amount <- [funding \in Pools |-> funding.amount],
  Locks <- {opening.lock : opening \in Openings}, Rates <- {Fee}, Fee <- [rate \in {Fee} |-> rate],
  Payments <- 0..MaxSatoshis, Awards <- ArbiterFees, MaxSignatures <- MaxEvidence,
  signatures <- EngineSignatures

\* Buyer, seller and arbiter sign a pool transaction only where the engine would: whatever
\* their calls are given, each signature is one the engine makes for that role on the
\* pool states it verifies, and none is made that the engine refuses.
ImplementsEngine == Engine!Spec
=============================================================================
