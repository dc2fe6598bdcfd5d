----------------------- MODULE EvidenceBinding_proofs -----------------------
(***************************************************************************)
(* Proofs about mixed-up evidence, for any keys, openings, quotes and clocks. *)
(* Nothing signed is ever taken back, so what a call established when it      *)
(* signed stays true: the invariant says of each message what its call had    *)
(* compared, and the properties follow from following the messages back.      *)
(***************************************************************************)
EXTENDS EvidenceBinding, FiniteSetTheorems, TLAPS

USE DEF RefundSequence

\* A Kind 5: for a verified opening of the buyer's, under a quote that fits it.
RequestOK(auth) ==
  /\ auth.opening \in Openings /\ auth.by = auth.opening.funding.buyer
  /\ VerifyOpening(auth.opening)
  /\ \E quote \in Quotes : auth.terms = FileQuoteTermsID(quote) /\ QuoteFits(quote, auth.opening.funding)

\* A Kind 6: by the seller of the pool the authorization is for.
DeliveryOK(delivery) ==
  delivery.auth \in requests /\ delivery.by = delivery.auth.opening.funding.seller

\* A Kind 7: a delivered payment at a quoted price on a completed state.
UpdateOK(update) ==
  /\ update.auth \in requests /\ Signed(update.tx, update.auth.by)
  /\ \E quote \in Quotes, previous \in Transactions :
       /\ update.auth.terms = FileQuoteTermsID(quote) /\ QuoteFits(quote, update.tx.funding)
       /\ update.tx.funding = update.auth.opening.funding
       /\ VerifyAcceptedPayment(previous)
       /\ previous.funding = update.tx.funding /\ update.tx.seq = previous.seq + 1
       /\ update.tx.seller = previous.seller + quote.terms.price[update.auth.batch]
       /\ Delivered(update.auth)

\* A Kind 8: of a delivered authorization, for its own opening, by that opening's seller.
ClaimOK(claim) ==
  /\ claim.auth \in requests /\ claim.opening = claim.auth.opening
  /\ claim.by = claim.opening.funding.seller /\ Delivered(claim.auth)

\* A Kind 9: over the transaction its claim and its fee determine, by the pool's arbiter.
ReceiptOK(receipt) ==
  /\ receipt.claim \in claims /\ receipt.by = receipt.claim.opening.funding.arbiter
  /\ receipt.tx = BuildArbitrationPayment(receipt.claim, receipt.tx.arbiter)
  /\ Signed(receipt.tx, receipt.by)

CloseOK(close) ==
  close.tx.funding = close.opening.funding /\ Signed(close.tx, close.opening.funding.buyer)

\* A pool signature: by a party of the pool, in its role.
SignatureOK(signature) ==
  \/ signature.by = signature.tx.funding.seller
  \/ signature.by = signature.tx.funding.buyer /\ signature.tx.arbiter = 0
  \/ signature.by = signature.tx.funding.arbiter /\ signature.tx.arbiter > 0

Inv ==
  /\ now \in Nat /\ height \in Nat
  /\ \A signature \in signatures : SignatureOK(signature)
  /\ \A auth \in requests : RequestOK(auth)
  /\ \A delivery \in deliveries : DeliveryOK(delivery)
  /\ \A update \in updates : UpdateOK(update)
  /\ \A claim \in claims : ClaimOK(claim)
  /\ \A receipt \in receipts : ReceiptOK(receipt)
  /\ \A close \in closes : CloseOK(close)

\* Nothing signed is taken back.
Grows ==
  /\ signatures \subseteq signatures' /\ requests \subseteq requests'
  /\ deliveries \subseteq deliveries' /\ claims \subseteq claims'

LEMMA Monotone == Next => Grows
<1>1. OpeningStep => Grows
  BY DEF OpeningStep, PrepareOpening, PreparePresign, Sign, Grows
<1>2. PaymentStep => Grows
  BY DEF PaymentStep, PrepareContentRequest, PrepareDelivery, VerifyDelivery, CompletePayment,
         Sign, Grows
<1>3. CloseStep => Grows
  BY DEF CloseStep, PrepareCloseArtifact, CompleteCloseArtifact, Sign, Grows
<1>4. ArbitrationStep => Grows
  BY DEF ArbitrationStep, SellerPrepareArbitration, SignPreparedArbitration,
         CompleteArbitratedPayment, Sign, Grows
<1>5. TimePasses \/ BlockIsMined => Grows
  BY DEF TimePasses, BlockIsMined, Grows
<1> QED
  BY <1>1, <1>2, <1>3, <1>4, <1>5 DEF Next

\* What was established stays established.
LEMMA Lasts ==
  ASSUME Grows
  PROVE  /\ \A auth : RequestOK(auth) => RequestOK(auth)'
         /\ \A delivery : DeliveryOK(delivery) => DeliveryOK(delivery)'
         /\ \A update : UpdateOK(update) => UpdateOK(update)'
         /\ \A claim : ClaimOK(claim) => ClaimOK(claim)'
         /\ \A receipt : ReceiptOK(receipt) => ReceiptOK(receipt)'
         /\ \A close : CloseOK(close) => CloseOK(close)'
<1>1. \A tx, key : Signed(tx, key) => Signed(tx, key)'
  BY DEF Grows, Signed
<1>2. \A opening : VerifyOpening(opening) => VerifyOpening(opening)'
  BY <1>1 DEF VerifyOpening, Refund
<1>3. \A tx : VerifyAcceptedPayment(tx) => VerifyAcceptedPayment(tx)'
  BY <1>1 DEF VerifyAcceptedPayment
<1>4. \A auth : Delivered(auth) => Delivered(auth)'
  BY DEF Grows, Delivered
<1>5. Transactions \subseteq Transactions'
  BY DEF Grows, Transactions
<1>6. ASSUME NEW auth, RequestOK(auth) PROVE RequestOK(auth)'
  BY <1>2, <1>6 DEF RequestOK, QuoteFits
<1>7. ASSUME NEW update, UpdateOK(update) PROVE UpdateOK(update)'
  <2>1. update.auth \in requests' /\ Signed(update.tx, update.auth.by)'
    BY <1>1, <1>7 DEF UpdateOK, Grows
  <2>2. PICK quote \in Quotes, previous \in Transactions :
          /\ update.auth.terms = FileQuoteTermsID(quote) /\ QuoteFits(quote, update.tx.funding)
          /\ update.tx.funding = update.auth.opening.funding
          /\ VerifyAcceptedPayment(previous)
          /\ previous.funding = update.tx.funding /\ update.tx.seq = previous.seq + 1
          /\ update.tx.seller = previous.seller + quote.terms.price[update.auth.batch]
          /\ Delivered(update.auth)
    BY <1>7 DEF UpdateOK
  <2>3. VerifyAcceptedPayment(previous)' /\ Delivered(update.auth)' /\ previous \in Transactions'
    BY <1>3, <1>4, <1>5, <2>2
  <2> QED
    BY <2>1, <2>2, <2>3 DEF UpdateOK, QuoteFits
<1>8. ASSUME NEW delivery, DeliveryOK(delivery) PROVE DeliveryOK(delivery)'
  BY <1>8 DEF DeliveryOK, Grows
<1>9. ASSUME NEW claim, ClaimOK(claim) PROVE ClaimOK(claim)'
  BY <1>4, <1>9 DEF ClaimOK, Grows
<1>10. ASSUME NEW receipt, ReceiptOK(receipt) PROVE ReceiptOK(receipt)'
  BY <1>1, <1>10 DEF ReceiptOK, Grows, BuildArbitrationPayment, State
<1>11. ASSUME NEW close, CloseOK(close) PROVE CloseOK(close)'
  BY <1>1, <1>11 DEF CloseOK
<1> QED
  BY <1>6, <1>7, <1>8, <1>9, <1>10, <1>11

\* A gate that is passed is really open, whichever fact was given or left out.
LEMMA GateIsOpen ==
  ASSUME NEW opening \in Openings, NEW facts \in Facts, CheckRefundNotExpired(facts, opening.lock)
  PROVE  ~Refundable(opening)
  BY DEF Facts, CheckRefundNotExpired, FactGiven, RefundMatured, Refundable

\* A new authorization is for an opening and under a quote that the call compared.
LEMMA NewRequest ==
  ASSUME Inv, Next, NEW auth \in requests' \ requests
  PROVE  RequestOK(auth) /\ ~Refundable(auth.opening)
<1>1. ~(OpeningStep \/ CloseStep \/ ArbitrationStep \/ TimePasses \/ BlockIsMined)
  BY DEF OpeningStep, PrepareOpening, PreparePresign, CloseStep, PrepareCloseArtifact,
         CompleteCloseArtifact, ArbitrationStep, SellerPrepareArbitration,
         SignPreparedArbitration, CompleteArbitratedPayment, TimePasses, BlockIsMined
<1>2. PICK opening \in Openings, facts \in Facts, signer \in Keys :
        \E previous \in PoolEvidence(opening) :
          \E quote \in Quotes, batch \in Batches, deadline \in Deadlines :
            PrepareContentRequest(opening, quote, previous, batch, deadline, facts, signer)
  BY <1>1 DEF Next, PaymentStep, PrepareDelivery, VerifyDelivery, CompletePayment
<1>3. PICK previous \in PoolEvidence(opening) :
        \E quote \in Quotes, batch \in Batches, deadline \in Deadlines :
          PrepareContentRequest(opening, quote, previous, batch, deadline, facts, signer)
  BY <1>2
<1>4. PICK quote \in Quotes, batch \in Batches, deadline \in Deadlines :
        PrepareContentRequest(opening, quote, previous, batch, deadline, facts, signer)
  BY <1>3
<1>5. VerifyOpening(opening)
  BY <1>3 DEF PoolEvidence
<1>6. /\ auth.terms = FileQuoteTermsID(quote) /\ auth.opening = opening /\ auth.by = signer
      /\ opening.funding.buyer = signer /\ QuoteFits(quote, opening.funding)
      /\ CheckRefundNotExpired(facts, opening.lock)
  BY <1>4 DEF PrepareContentRequest
<1> QED
  BY <1>5, <1>6, GateIsOpen DEF RequestOK

\* A new delivery answers an authorization for a pool of the signer's.
LEMMA NewDelivery ==
  ASSUME Inv, Next, NEW delivery \in deliveries' \ deliveries
  PROVE  DeliveryOK(delivery) /\ ~Refundable(delivery.auth.opening)
<1>1. ~(OpeningStep \/ CloseStep \/ ArbitrationStep \/ TimePasses \/ BlockIsMined)
  BY DEF OpeningStep, PrepareOpening, PreparePresign, CloseStep, PrepareCloseArtifact,
         CompleteCloseArtifact, ArbitrationStep, SellerPrepareArbitration,
         SignPreparedArbitration, CompleteArbitratedPayment, TimePasses, BlockIsMined
<1>2. PICK opening \in Openings, facts \in Facts, signer \in Keys :
        \E previous \in PoolEvidence(opening) : \E auth \in requests, quote \in Quotes :
          PrepareDelivery(auth, quote, opening, previous, facts, signer)
  BY <1>1 DEF Next, PaymentStep, PrepareContentRequest, VerifyDelivery, CompletePayment
<1>3. PICK previous \in PoolEvidence(opening) : \E auth \in requests, quote \in Quotes :
        PrepareDelivery(auth, quote, opening, previous, facts, signer)
  BY <1>2
<1>4. PICK auth \in requests, quote \in Quotes :
        PrepareDelivery(auth, quote, opening, previous, facts, signer)
  BY <1>3
<1>5. /\ delivery.auth = auth /\ delivery.by = signer
      /\ auth.opening = opening /\ opening.funding.seller = signer
      /\ CheckRefundNotExpired(facts, opening.lock)
  BY <1>4 DEF PrepareDelivery, InspectDeliveryRequest, VerifyContentRequestEvidence,
              VerifySignedContentRequestForOpening
<1> QED
  BY <1>5, GateIsOpen DEF DeliveryOK

\* A new payment is delivered, priced by the quote it was authorized under, and extends a
\* completed state of the authorization's own output.
LEMMA NewUpdate ==
  ASSUME Inv, Next, NEW update \in updates' \ updates
  PROVE  UpdateOK(update)' /\ ~Refundable(update.auth.opening)
<1>1. ~(OpeningStep \/ CloseStep \/ ArbitrationStep \/ TimePasses \/ BlockIsMined)
  BY DEF OpeningStep, PrepareOpening, PreparePresign, CloseStep, PrepareCloseArtifact,
         CompleteCloseArtifact, ArbitrationStep, SellerPrepareArbitration,
         SignPreparedArbitration, CompleteArbitratedPayment, TimePasses, BlockIsMined
<1>2. PICK opening \in Openings, facts \in Facts, signer \in Keys :
        \E previous \in PoolEvidence(opening) :
          \E auth \in requests, quote \in Quotes, delivery \in deliveries :
            VerifyDelivery(auth, delivery, quote, opening, previous, facts, signer)
  BY <1>1 DEF Next, PaymentStep, PrepareContentRequest, PrepareDelivery, CompletePayment
<1>3. PICK previous \in PoolEvidence(opening) :
        \E auth \in requests, quote \in Quotes, delivery \in deliveries :
          VerifyDelivery(auth, delivery, quote, opening, previous, facts, signer)
  BY <1>2
<1>4. PICK auth \in requests, quote \in Quotes, delivery \in deliveries :
        VerifyDelivery(auth, delivery, quote, opening, previous, facts, signer)
  BY <1>3
<1>5. previous \in Transactions /\ previous.funding = opening.funding
  BY <1>3 DEF PoolEvidence
<1>6. /\ update.auth = auth /\ update.tx = BuildPaymentUpdate(previous, auth.after)
      /\ Sign(BuildPaymentUpdate(previous, auth.after), signer)
      /\ opening.funding.buyer = signer /\ delivery.auth = auth
      /\ VerifyAcceptedPayment(previous) /\ CheckRefundNotExpired(facts, opening.lock)
      /\ VerifyContentRequestEvidence(auth, quote, opening) /\ PricedExactly(auth, quote, previous)
  BY <1>4 DEF VerifyDelivery
<1>7. /\ auth.opening = opening /\ auth.by = signer /\ auth.terms = FileQuoteTermsID(quote)
      /\ QuoteFits(quote, opening.funding)
  BY <1>6 DEF VerifyContentRequestEvidence, VerifySignedContentRequestForOpening
<1>8. /\ update.tx.funding = opening.funding /\ update.tx.seq = previous.seq + 1
      /\ update.tx.seller = previous.seller + quote.terms.price[auth.batch]
  BY <1>5, <1>6 DEF BuildPaymentUpdate, State, PricedExactly
<1>9. Signed(update.tx, auth.by)'
  BY <1>6, <1>7 DEF Sign, Signed
<1>10. Grows /\ Delivered(auth)
  BY <1>6, Monotone DEF Delivered
<1>11. auth \in requests' /\ previous \in Transactions' /\ Delivered(auth)'
       /\ VerifyAcceptedPayment(previous)'
  BY <1>5, <1>6, <1>10 DEF Grows, Transactions, Delivered, VerifyAcceptedPayment, Signed
<1> QED
  BY <1>5, <1>6, <1>7, <1>8, <1>9, <1>11, GateIsOpen DEF UpdateOK, QuoteFits

\* A new claim is made of an authorization for the opening it was delivered under.
LEMMA NewClaim ==
  ASSUME Inv, Next, NEW claim \in claims' \ claims
  PROVE  ClaimOK(claim) /\ ~Refundable(claim.opening)
<1>1. ~(OpeningStep \/ PaymentStep \/ CloseStep \/ TimePasses \/ BlockIsMined)
  BY DEF OpeningStep, PrepareOpening, PreparePresign, CloseStep, PrepareCloseArtifact,
         CompleteCloseArtifact, PaymentStep, PrepareContentRequest, PrepareDelivery,
         VerifyDelivery, CompletePayment, TimePasses, BlockIsMined
<1>2. PICK signer \in Keys, opening \in Openings, facts \in Facts, auth \in requests,
           delivery \in deliveries :
        SellerPrepareArbitration(auth, delivery, opening, facts, signer)
  BY <1>1 DEF Next, ArbitrationStep, SignPreparedArbitration, CompleteArbitratedPayment
<1>3. /\ claim.opening = opening /\ claim.auth = auth /\ claim.by = signer
      /\ opening.funding.seller = signer /\ auth.opening = opening /\ delivery.auth = auth
      /\ CheckRefundNotExpired(facts, opening.lock)
  BY <1>2 DEF SellerPrepareArbitration, VerifySignedContentRequestForOpening, StoredDelivery
<1> QED
  BY <1>3, GateIsOpen DEF ClaimOK, Delivered

\* A new receipt is signed by the claim's arbiter over what the claim and the fee determine.
LEMMA NewReceipt ==
  ASSUME Inv, Next, NEW receipt \in receipts' \ receipts
  PROVE  ReceiptOK(receipt)'
<1>1. ~(OpeningStep \/ PaymentStep \/ CloseStep \/ TimePasses \/ BlockIsMined)
  BY DEF OpeningStep, PrepareOpening, PreparePresign, CloseStep, PrepareCloseArtifact,
         CompleteCloseArtifact, PaymentStep, PrepareContentRequest, PrepareDelivery,
         VerifyDelivery, CompletePayment, TimePasses, BlockIsMined
<1>2. PICK signer \in Keys, claim \in claims, fee \in ArbiterFees :
        SignPreparedArbitration(claim, fee, signer)
  BY <1>1 DEF Next, ArbitrationStep, SellerPrepareArbitration, CompleteArbitratedPayment
<1>3. /\ receipt.claim = claim /\ receipt.by = signer
      /\ receipt.tx = BuildArbitrationPayment(claim, fee)
      /\ Sign(BuildArbitrationPayment(claim, fee), signer)
      /\ claim.opening.funding.arbiter = signer /\ claims' = claims
  BY <1>2 DEF SignPreparedArbitration
<1>4. receipt.tx.arbiter = fee
  BY <1>3 DEF BuildArbitrationPayment, State
<1>5. Signed(receipt.tx, receipt.by)'
  BY <1>3 DEF Sign, Signed
<1> QED
  BY <1>3, <1>4, <1>5 DEF ReceiptOK, BuildArbitrationPayment

\* A new close is signed by the opening's buyer.
LEMMA NewClose ==
  ASSUME Inv, Next, NEW close \in closes' \ closes
  PROVE  CloseOK(close)' /\ ~Refundable(close.opening)
<1>1. ~(OpeningStep \/ PaymentStep \/ ArbitrationStep \/ TimePasses \/ BlockIsMined)
  BY DEF OpeningStep, PrepareOpening, PreparePresign, ArbitrationStep, SellerPrepareArbitration,
         SignPreparedArbitration, CompleteArbitratedPayment, PaymentStep, PrepareContentRequest,
         PrepareDelivery, VerifyDelivery, CompletePayment, TimePasses, BlockIsMined
<1>2. PICK opening \in Openings, facts \in Facts, signer \in Keys :
        \E view \in PoolEvidence(opening) : \E target \in CloseTargets :
          PrepareCloseArtifact(opening, view, target, facts, signer)
  BY <1>1 DEF Next, CloseStep, CompleteCloseArtifact
<1>3. PICK view \in PoolEvidence(opening) : \E target \in CloseTargets :
        PrepareCloseArtifact(opening, view, target, facts, signer)
  BY <1>2
<1>4. PICK target \in CloseTargets : PrepareCloseArtifact(opening, view, target, facts, signer)
  BY <1>3
<1>5. /\ close.opening = opening /\ close.tx = BuildImmediateClose(view, target)
      /\ Sign(BuildImmediateClose(view, target), signer) /\ opening.funding.buyer = signer
      /\ CheckRefundNotExpired(facts, opening.lock)
  BY <1>4 DEF PrepareCloseArtifact
<1> QED
  BY <1>5, GateIsOpen DEF CloseOK, Sign, Signed, BuildImmediateClose, State, PoolEvidence

\* A new signature is put by a party of the pool, in its role.
LEMMA NewSignature ==
  ASSUME Inv, Next, NEW signature \in signatures' \ signatures
  PROVE  SignatureOK(signature)
<1>1. CASE OpeningStep
  BY <1>1 DEF OpeningStep, PrepareOpening, PreparePresign, QuoteFits, Sign, Refund, State,
              SignatureOK
<1>2. CASE PaymentStep
  <2>1. PICK opening \in Openings, facts \in Facts, signer \in Keys :
          \E previous \in PoolEvidence(opening), auth \in requests, delivery \in deliveries :
            \/ \E quote \in Quotes :
                 VerifyDelivery(auth, delivery, quote, opening, previous, facts, signer)
            \/ \E update \in updates :
                 CompletePayment(update, auth, delivery, opening, previous, facts, signer)
    BY <1>2 DEF PaymentStep, PrepareContentRequest, PrepareDelivery
  <2>2. PICK previous \in PoolEvidence(opening), auth \in requests :
          /\ Sign(BuildPaymentUpdate(previous, auth.after), signer)
          /\ signer \in {opening.funding.buyer, opening.funding.seller}
    BY <2>1 DEF VerifyDelivery, CompletePayment
  <2>3. previous.funding = opening.funding
    BY DEF PoolEvidence
  <2> QED
    BY <2>2, <2>3 DEF Sign, BuildPaymentUpdate, State, SignatureOK
<1>3. CASE CloseStep
  <2>1. PICK opening \in Openings, facts \in Facts, signer \in Keys :
          \E view \in PoolEvidence(opening) :
            \/ \E target \in CloseTargets :
                 PrepareCloseArtifact(opening, view, target, facts, signer)
            \/ \E close \in closes : CompleteCloseArtifact(close, opening, view, facts, signer)
    BY <1>3 DEF CloseStep
  <2>2. PICK view \in PoolEvidence(opening) :
          \/ \E target \in CloseTargets :
               PrepareCloseArtifact(opening, view, target, facts, signer)
          \/ \E close \in closes : CompleteCloseArtifact(close, opening, view, facts, signer)
    BY <2>1
  <2>3. ASSUME NEW target \in CloseTargets,
               PrepareCloseArtifact(opening, view, target, facts, signer)
        PROVE  SignatureOK(signature)
    BY <2>3 DEF PoolEvidence, PrepareCloseArtifact, Sign, BuildImmediateClose, State, SignatureOK
  <2>4. ASSUME NEW close \in closes, CompleteCloseArtifact(close, opening, view, facts, signer)
        PROVE  SignatureOK(signature)
    <3>1. /\ signature.tx = close.tx /\ signature.by = opening.funding.seller
          /\ close.opening = opening /\ Signed(close.tx, opening.funding.buyer)
      BY <2>4 DEF CompleteCloseArtifact, Sign
    <3>2. close.tx.funding = opening.funding
      BY <3>1 DEF Inv, CloseOK
    <3> QED
      BY <3>1, <3>2 DEF SignatureOK
  <2> QED
    BY <2>2, <2>3, <2>4
<1>4. CASE ArbitrationStep
  <2>1. \A claim, fee : BuildArbitrationPayment(claim, fee).funding = claim.opening.funding
                       /\ BuildArbitrationPayment(claim, fee).arbiter = fee
    BY DEF BuildArbitrationPayment, State
  <2>2. PICK signer \in Keys, claim \in claims :
          \/ \E fee \in ArbiterFees : SignPreparedArbitration(claim, fee, signer)
          \/ \E receipt \in receipts, facts \in Facts :
               CompleteArbitratedPayment(claim, receipt, facts, signer)
    BY <1>4 DEF ArbitrationStep, SellerPrepareArbitration
  <2>3. ASSUME NEW fee \in ArbiterFees, SignPreparedArbitration(claim, fee, signer)
        PROVE  SignatureOK(signature)
    <3>1. /\ signature.tx = BuildArbitrationPayment(claim, fee) /\ signature.by = signer
          /\ claim.opening.funding.arbiter = signer
      BY <2>3 DEF SignPreparedArbitration, Sign
    <3>2. fee > 0
      BY PoolAssumption
    <3> QED
      BY <2>1, <3>1, <3>2 DEF SignatureOK
  <2>4. ASSUME NEW receipt \in receipts, NEW facts \in Facts,
               CompleteArbitratedPayment(claim, receipt, facts, signer)
        PROVE  SignatureOK(signature)
    <3>1. /\ signature.tx = BuildArbitrationPayment(claim, receipt.tx.arbiter)
          /\ signature.by = claim.opening.funding.seller
      BY <2>4 DEF CompleteArbitratedPayment, Sign
    <3> QED
      BY <2>1, <3>1 DEF SignatureOK
  <2> QED
    BY <2>2, <2>3, <2>4
<1>5. CASE TimePasses \/ BlockIsMined
  BY <1>5 DEF TimePasses, BlockIsMined
<1> QED
  BY <1>1, <1>2, <1>3, <1>4, <1>5 DEF Next

\* The invariant is inductive.
LEMMA Invariance == Spec => []Inv
<1>1. Init => Inv
  BY ClockAssumption DEF Init, Inv
<1>2. Inv /\ [Next]_vars => Inv'
  <2>1. CASE UNCHANGED vars
    BY <2>1, Lasts DEF vars, clocks, Inv, Grows, SignatureOK
  <2>2. ASSUME Inv, Next PROVE Inv'
    <3>1. Grows
      BY <2>2, Monotone
    <3>2. now' \in Nat /\ height' \in Nat
      <4>1. now' \in {now, now + 1} /\ height' \in {height, height + 1}
        BY <2>2 DEF Next, OpeningStep, PrepareOpening, PreparePresign, PaymentStep,
                    PrepareContentRequest, PrepareDelivery, VerifyDelivery, CompletePayment,
                    CloseStep, PrepareCloseArtifact, CompleteCloseArtifact, ArbitrationStep,
                    SellerPrepareArbitration, SignPreparedArbitration,
                    CompleteArbitratedPayment, TimePasses, BlockIsMined, clocks
      <4> QED
        BY <2>2, <4>1 DEF Inv
    <3>3. \A signature \in signatures' : SignatureOK(signature)
      BY <2>2, NewSignature DEF Inv
    <3>4. \A auth \in requests' : RequestOK(auth)'
      BY <2>2, <3>1, NewRequest, Lasts DEF Inv
    <3>5. \A delivery \in deliveries' : DeliveryOK(delivery)'
      BY <2>2, <3>1, NewDelivery, Lasts DEF Inv
    <3>6. \A update \in updates' : UpdateOK(update)'
      BY <2>2, <3>1, NewUpdate, Lasts DEF Inv
    <3>7. \A claim \in claims' : ClaimOK(claim)'
      BY <2>2, <3>1, NewClaim, Lasts DEF Inv
    <3>8. \A receipt \in receipts' : ReceiptOK(receipt)'
      BY <2>2, <3>1, NewReceipt, Lasts DEF Inv
    <3>9. \A close \in closes' : CloseOK(close)'
      BY <2>2, <3>1, NewClose, Lasts DEF Inv
    <3> QED
      BY <3>2, <3>3, <3>4, <3>5, <3>6, <3>7, <3>8, <3>9 DEF Inv, SignatureOK
  <2> QED
    BY <2>1, <2>2
<1> QED
  BY <1>1, <1>2, PTL DEF Spec

\* Every message is signed by the key whose role it is, over evidence that was there.
THEOREM TypeCorrect == Spec => []TypeOK
<1>1. Inv => TypeOK
  BY DEF Inv, TypeOK, SignatureOK, RequestOK, DeliveryOK, UpdateOK, ClaimOK, ReceiptOK, CloseOK
<1> QED
  BY <1>1, Invariance, PTL

\* Whatever quotes, openings and states are mixed up in the calls, a payment the buyer signs
\* adds to a completed state of the authorization's own output exactly what the seller of
\* that pool quoted to its buyer, after delivery.
THEOREM QuotedPayments == Spec => []PaymentsAreQuoted
<1>1. Inv => PaymentsAreQuoted
  BY DEF Inv, UpdateOK, PaymentsAreQuoted
<1> QED
  BY <1>1, Invariance, PTL

\* What an arbiter awards is what the pool's buyer authorized for that very opening, after
\* the pool's seller delivered and claimed it.
THEOREM ClaimedAwards == Spec => []AwardsAreClaimed
<1>1. ASSUME Inv, NEW receipt \in receipts
      PROVE  LET auth == receipt.claim.auth
             IN /\ receipt.tx = State(auth.opening.funding, auth.seq, auth.opening.lock,
                                      auth.after, receipt.tx.arbiter)
                /\ receipt.claim.by = auth.opening.funding.seller
                /\ receipt.by = auth.opening.funding.arbiter
                /\ Delivered(auth)
  <2>1. ReceiptOK(receipt) /\ ClaimOK(receipt.claim)
    BY <1>1 DEF Inv, ReceiptOK
  <2> QED
    BY <2>1 DEF ReceiptOK, ClaimOK, BuildArbitrationPayment
<1>2. Inv => AwardsAreClaimed
  BY <1>1 DEF AwardsAreClaimed
<1> QED
  BY <1>2, Invariance, PTL

\* Both sides can restore what they saved, whatever has expired since.
THEOREM RestorableEvidence == Spec => []SavedIsRestorable
<1>1. ASSUME Inv, NEW auth \in requests
      PROVE  \E quote \in Quotes : RestoreAuthorization(auth, quote)
  BY <1>1 DEF Inv, RequestOK, RestoreAuthorization, VerifyContentRequestEvidence,
              VerifySignedContentRequestForOpening
<1>2. ASSUME Inv, NEW delivery \in deliveries
      PROVE  \E quote \in Quotes : RestoreDelivery(delivery, quote)
  BY <1>1, <1>2 DEF Inv, DeliveryOK, RestoreDelivery, StoredDelivery
<1>3. Inv => SavedIsRestorable
  BY <1>1, <1>2 DEF SavedIsRestorable
<1> QED
  BY <1>3, Invariance, PTL
\* The seller completes a state of an output only while one of its openings is not
\* refundable.
LEMMA NewCompletion ==
  ASSUME Inv, Next, NEW signature \in signatures' \ signatures,
         signature.tx.seq > 2, NEW opening \in Openings,
         signature.tx.funding = opening.funding, signature.by = opening.funding.seller
  PROVE  \E other \in Openings : other.funding = opening.funding /\ ~Refundable(other)
<1>1. CASE OpeningStep
  BY <1>1 DEF OpeningStep, PrepareOpening, PreparePresign, Sign, Refund, State
<1>2. CASE PaymentStep
  <2>1. PICK other \in Openings, facts \in Facts, signer \in Keys :
          \E previous \in PoolEvidence(other), auth \in requests, delivery \in deliveries :
            \/ \E quote \in Quotes :
                 VerifyDelivery(auth, delivery, quote, other, previous, facts, signer)
            \/ \E update \in updates :
                 CompletePayment(update, auth, delivery, other, previous, facts, signer)
    BY <1>2 DEF PaymentStep, PrepareContentRequest, PrepareDelivery
  <2>2. PICK previous \in PoolEvidence(other), auth \in requests :
          /\ Sign(BuildPaymentUpdate(previous, auth.after), signer)
          /\ CheckRefundNotExpired(facts, other.lock)
    BY <2>1 DEF VerifyDelivery, CompletePayment
  <2>3. signature.tx.funding = other.funding
    BY <2>2 DEF PoolEvidence, Sign, BuildPaymentUpdate, State
  <2> QED
    BY <2>2, <2>3, GateIsOpen
<1>3. CASE CloseStep
  <2>1. PICK other \in Openings, facts \in Facts, signer \in Keys :
          \E view \in PoolEvidence(other) :
            \/ \E target \in CloseTargets : PrepareCloseArtifact(other, view, target, facts, signer)
            \/ \E close \in closes : CompleteCloseArtifact(close, other, view, facts, signer)
    BY <1>3 DEF CloseStep
  <2>2. PICK view \in PoolEvidence(other) :
          \/ \E target \in CloseTargets : PrepareCloseArtifact(other, view, target, facts, signer)
          \/ \E close \in closes : CompleteCloseArtifact(close, other, view, facts, signer)
    BY <2>1
  <2>3. CheckRefundNotExpired(facts, other.lock)
    BY <2>2 DEF PrepareCloseArtifact, CompleteCloseArtifact
  <2>4. ASSUME NEW target \in CloseTargets,
               PrepareCloseArtifact(other, view, target, facts, signer)
        PROVE  signature.tx.funding = other.funding
    BY <2>4 DEF PoolEvidence, PrepareCloseArtifact, Sign, BuildImmediateClose, State
  <2>5. ASSUME NEW close \in closes, CompleteCloseArtifact(close, other, view, facts, signer)
        PROVE  signature.tx.funding = other.funding
    <3>1. signature.tx = close.tx /\ close.opening = other
      BY <2>5 DEF CompleteCloseArtifact, Sign
    <3> QED
      BY <3>1 DEF Inv, CloseOK
  <2> QED
    BY <2>2, <2>3, <2>4, <2>5, GateIsOpen
<1>4. CASE ArbitrationStep
  <2>1. \A claim, fee : BuildArbitrationPayment(claim, fee).funding = claim.opening.funding
    BY DEF BuildArbitrationPayment, State
  <2>2. PICK signer \in Keys, claim \in claims :
          \/ \E fee \in ArbiterFees : SignPreparedArbitration(claim, fee, signer)
          \/ \E receipt \in receipts, facts \in Facts :
               CompleteArbitratedPayment(claim, receipt, facts, signer)
    BY <1>4 DEF ArbitrationStep, SellerPrepareArbitration
  <2>3. claim.opening \in Openings
    BY DEF Inv, ClaimOK, RequestOK
  <2>4. ASSUME NEW fee \in ArbiterFees, SignPreparedArbitration(claim, fee, signer)
        PROVE  FALSE
    <3>1. /\ signature.tx = BuildArbitrationPayment(claim, fee)
          /\ signature.by = claim.opening.funding.arbiter
      BY <2>4 DEF SignPreparedArbitration, Sign
    <3>2. claim.opening.funding = opening.funding
      BY <2>1, <3>1
    <3> QED
      BY <3>1, <3>2, PoolAssumption
  <2>5. ASSUME NEW receipt \in receipts, NEW facts \in Facts,
               CompleteArbitratedPayment(claim, receipt, facts, signer)
        PROVE  claim.opening.funding = opening.funding /\ ~Refundable(claim.opening)
    <3>1. /\ signature.tx = BuildArbitrationPayment(claim, receipt.tx.arbiter)
          /\ CheckRefundNotExpired(facts, claim.opening.lock)
      BY <2>5 DEF CompleteArbitratedPayment, Sign
    <3> QED
      BY <2>1, <2>3, <3>1, GateIsOpen
  <2> QED
    BY <2>2, <2>3, <2>4, <2>5
<1>5. CASE TimePasses \/ BlockIsMined
  BY <1>5 DEF TimePasses, BlockIsMined
<1> QED
  BY <1>1, <1>2, <1>3, <1>4, <1>5 DEF Next

\* Once an opening's refund can be mined, by height or by time, neither party signs anything
\* more for it, and no state of an output is completed once all its refunds can be.
THEOREM FrozenEvidence == Spec => FrozenOnceRefundable
<1>1. ASSUME Inv, [Next]_vars, NEW opening \in Openings, Refundable(opening)
      PROVE  UNCHANGED SignedFor(opening)
  <2>1. CASE UNCHANGED vars
    BY <2>1 DEF vars, clocks, SignedFor
  <2>2. CASE Next
    <3>1. updates \subseteq updates' /\ closes \subseteq closes'
      BY <2>2 DEF Next, OpeningStep, PrepareOpening, PreparePresign, PaymentStep,
                  PrepareContentRequest, PrepareDelivery, VerifyDelivery, CompletePayment,
                  CloseStep, PrepareCloseArtifact, CompleteCloseArtifact, ArbitrationStep,
                  SellerPrepareArbitration, SignPreparedArbitration, CompleteArbitratedPayment,
                  TimePasses, BlockIsMined
    <3>2. Grows
      BY <2>2, Monotone
    <3>3. {auth \in requests : auth.opening = opening}
            = {auth \in requests' : auth.opening = opening}
      BY <1>1, <2>2, <3>2, NewRequest DEF Grows
    <3>4. {delivery \in deliveries : delivery.auth.opening = opening}
            = {delivery \in deliveries' : delivery.auth.opening = opening}
      BY <1>1, <2>2, <3>2, NewDelivery DEF Grows
    <3>5. {update \in updates : update.auth.opening = opening}
            = {update \in updates' : update.auth.opening = opening}
      BY <1>1, <2>2, <3>1, NewUpdate
    <3>6. {claim \in claims : claim.opening = opening}
            = {claim \in claims' : claim.opening = opening}
      BY <1>1, <2>2, <3>2, NewClaim DEF Grows
    <3>7. {close \in closes : close.opening = opening}
            = {close \in closes' : close.opening = opening}
      BY <1>1, <2>2, <3>1, NewClose
    <3> QED
      BY <3>3, <3>4, <3>5, <3>6, <3>7 DEF SignedFor
  <2> QED
    BY <1>1, <2>1, <2>2
<1>2. ASSUME Inv, [Next]_vars, NEW opening \in Openings,
             \A other \in Openings : other.funding = opening.funding => Refundable(other)
      PROVE  UNCHANGED CompletedOf(opening.funding)
  <2>1. CASE UNCHANGED vars
    BY <2>1 DEF vars, clocks, CompletedOf
  <2>2. CASE Next
    <3>1. Grows
      BY <2>2, Monotone
    <3>2. ASSUME NEW signature \in signatures' \ signatures,
                 signature \in CompletedOf(opening.funding)'
          PROVE  FALSE
      BY <1>2, <2>2, <3>2, NewCompletion DEF CompletedOf
    <3> QED
      BY <3>1, <3>2 DEF CompletedOf, Grows
  <2> QED
    BY <1>2, <2>1, <2>2
<1>3. Inv /\ [Next]_vars =>
        [\A opening \in Openings :
           /\ Refundable(opening) => UNCHANGED SignedFor(opening)
           /\ (\A other \in Openings : other.funding = opening.funding => Refundable(other)) =>
                UNCHANGED CompletedOf(opening.funding)]_vars
  BY <1>1, <1>2
<1> QED
  BY <1>3, Invariance, PTL DEF Spec, FrozenOnceRefundable

-----------------------------------------------------------------------------
(* The engine under the calls.  Its model says for which transactions a role's signature is *)
(* made; the invariant below says of each transaction here what the engine would have       *)
(* checked when it built it, and of each message what it was built from.                    *)

\* A transaction of a pool that pays out no more than the output holds, final as a close.
WithinPool(tx) ==
  /\ tx.funding \in Pools /\ tx.funding.amount > 0
  /\ tx.seq \in 2..FinalSequence /\ tx.seller \in Nat /\ tx.arbiter \in Nat
  /\ tx.seller + tx.arbiter + Fee =< tx.funding.amount
  /\ tx.seq = FinalSequence => tx.lock = FinalSequence

\* What a buyer may ask a pool to be closed at, given its present state.
Closable(base, target) ==
  /\ base.seq < FinalSequence /\ target \in Nat
  /\ target + base.arbiter =< base.funding.amount /\ target + Fee =< base.funding.amount

CloseBuilt(close) ==
  /\ close.opening \in Openings
  /\ \E base \in PoolEvidence(close.opening), target \in CloseTargets :
       Closable(base, target) /\ close.tx = BuildImmediateClose(base, target)

\* What a claim lets an arbiter be paid.
Awardable(claim, fee) ==
  /\ fee \in ArbiterFees /\ claim.auth.seq \in 3..(FinalSequence - 1)
  /\ claim.auth.after + fee + Fee =< claim.opening.funding.amount

FewMessages ==
  /\ IsFiniteSet(signatures) /\ IsFiniteSet(requests)
  /\ IsFiniteSet(deliveries) /\ IsFiniteSet(claims)

BuiltInv ==
  /\ FewMessages
  /\ \A signature \in signatures : WithinPool(signature.tx)
  /\ \A auth \in requests : auth.seq \in Nat /\ auth.after \in Nat
  /\ \A close \in closes : CloseBuilt(close)
  /\ \A receipt \in receipts : Awardable(receipt.claim, receipt.tx.arbiter)

LEMMA OpeningTypes ==
  ASSUME NEW opening \in Openings
  PROVE  /\ opening.funding \in Pools /\ opening.funding.amount \in 0..MaxSatoshis
         /\ opening.lock \in Nat \ {0}
         /\ RoleOf(opening.funding, opening.funding.buyer) = "buyer"
         /\ RoleOf(opening.funding, opening.funding.seller) = "seller"
         /\ RoleOf(opening.funding, opening.funding.arbiter) = "arbiter"
  BY PoolAssumption DEF Pools, RoleOf

\* What an application can pass as a pool's state stays one.
LEMMA EvidenceLasts ==
  ASSUME Grows, NEW opening
  PROVE  PoolEvidence(opening) \subseteq PoolEvidence(opening)'
<1>1. \A tx, key : Signed(tx, key) => Signed(tx, key)'
  BY DEF Grows, Signed
<1>2. VerifyOpening(opening) => VerifyOpening(opening)'
  BY <1>1 DEF VerifyOpening, Refund
<1>3. Transactions \subseteq Transactions'
  BY DEF Grows, Transactions
<1>4. \A tx : /\ VerifyAcceptedPayment(tx) => VerifyAcceptedPayment(tx)'
              /\ VerifyArbitratedPayment(tx) => VerifyArbitratedPayment(tx)'
  BY <1>1 DEF VerifyAcceptedPayment, VerifyArbitratedPayment
<1> QED
  BY <1>2, <1>3, <1>4 DEF PoolEvidence

\* A state an application can pass is within the pool.
LEMMA EvidenceWithin ==
  ASSUME BuiltInv, NEW opening \in Openings, NEW tx \in PoolEvidence(opening)
  PROVE  WithinPool(tx) /\ tx.funding = opening.funding /\ VerifyOpening(opening)
  BY DEF BuiltInv, PoolEvidence, Transactions

\* An update of such a state that its pool can pay for is within the pool.
LEMMA UpdateWithin ==
  ASSUME NEW previous, WithinPool(previous), NEW after \in Nat, Affordable(previous, after)
  PROVE  /\ WithinPool(BuildPaymentUpdate(previous, after))
         /\ BuildPaymentUpdate(previous, after).seq = previous.seq + 1
         /\ BuildPaymentUpdate(previous, after).seq # FinalSequence
<1>1. PICK opening \in Openings : opening.funding = previous.funding
  BY DEF WithinPool, Pools
<1> QED
  BY <1>1, PoolAssumption
     DEF WithinPool, Affordable, CheckPaymentCapacity, BuildPaymentUpdate, State

\* A close of such a state is within the pool.
LEMMA CloseWithin ==
  ASSUME NEW base, WithinPool(base), NEW target, Closable(base, target)
  PROVE  WithinPool(BuildImmediateClose(base, target))
  BY PoolAssumption DEF WithinPool, Closable, BuildImmediateClose, State

\* An award that was prepared for a claim is within the pool.
LEMMA AwardWithin ==
  ASSUME Inv, BuiltInv, NEW claim \in claims, NEW fee, Awardable(claim, fee)
  PROVE  WithinPool(BuildArbitrationPayment(claim, fee))
<1>1. claim.opening \in Openings /\ claim.auth \in requests
  BY DEF Inv, ClaimOK, RequestOK
<1>2. claim.auth.after \in Nat /\ claim.auth.seq \in Nat
  BY <1>1 DEF BuiltInv
<1>3. fee \in Nat \ {0}
  BY PoolAssumption DEF Awardable
<1> QED
  BY <1>1, <1>2, <1>3, OpeningTypes, PoolAssumption
     DEF WithinPool, Awardable, BuildArbitrationPayment, State

\* A new close is built on a state of its opening's pool, as far as that allows.
LEMMA NewCloseBuilt ==
  ASSUME Inv, BuiltInv, Next, NEW close \in closes' \ closes
  PROVE  CloseBuilt(close)
<1>1. ~(OpeningStep \/ PaymentStep \/ ArbitrationStep \/ TimePasses \/ BlockIsMined)
  BY DEF OpeningStep, PrepareOpening, PreparePresign, ArbitrationStep, SellerPrepareArbitration,
         SignPreparedArbitration, CompleteArbitratedPayment, PaymentStep, PrepareContentRequest,
         PrepareDelivery, VerifyDelivery, CompletePayment, TimePasses, BlockIsMined
<1>2. PICK opening \in Openings, facts \in Facts, signer \in Keys :
        \E view \in PoolEvidence(opening) : \E target \in CloseTargets :
          PrepareCloseArtifact(opening, view, target, facts, signer)
  BY <1>1 DEF Next, CloseStep, CompleteCloseArtifact
<1>3. PICK view \in PoolEvidence(opening) : \E target \in CloseTargets :
        PrepareCloseArtifact(opening, view, target, facts, signer)
  BY <1>2
<1>4. PICK target \in CloseTargets : PrepareCloseArtifact(opening, view, target, facts, signer)
  BY <1>3
<1>5. /\ close.opening = opening /\ close.tx = BuildImmediateClose(view, target)
      /\ Closable(view, target)
  BY <1>4, PoolAssumption DEF PrepareCloseArtifact, Closable
<1> QED
  BY <1>3, <1>4, <1>5 DEF CloseBuilt

\* A new receipt is for a sequence and a fee its claim allows.
LEMMA NewAwardable ==
  ASSUME Inv, BuiltInv, Next, NEW receipt \in receipts' \ receipts
  PROVE  Awardable(receipt.claim, receipt.tx.arbiter)
<1>1. ~(OpeningStep \/ PaymentStep \/ CloseStep \/ TimePasses \/ BlockIsMined)
  BY DEF OpeningStep, PrepareOpening, PreparePresign, CloseStep, PrepareCloseArtifact,
         CompleteCloseArtifact, PaymentStep, PrepareContentRequest, PrepareDelivery,
         VerifyDelivery, CompletePayment, TimePasses, BlockIsMined
<1>2. PICK signer \in Keys, claim \in claims, fee \in ArbiterFees :
        SignPreparedArbitration(claim, fee, signer)
  BY <1>1 DEF Next, ArbitrationStep, SellerPrepareArbitration, CompleteArbitratedPayment
<1>3. receipt.claim = claim /\ receipt.tx = BuildArbitrationPayment(claim, fee)
  BY <1>2 DEF SignPreparedArbitration
<1>4. receipt.tx.arbiter = fee
  BY <1>3 DEF BuildArbitrationPayment, State
<1>5. claim.auth.seq \in Nat
  BY DEF Inv, ClaimOK, BuiltInv
<1>6. /\ claim.auth.seq > 2 /\ claim.auth.seq < FinalSequence
      /\ claim.auth.after + fee + Fee =< claim.opening.funding.amount
  BY <1>2 DEF SignPreparedArbitration, ValidateRequestEvidence
<1> QED
  BY <1>3, <1>4, <1>5, <1>6, PoolAssumption DEF Awardable

\* A new authorization counts up from the state it was made on, in sequence and in amount.
LEMMA NewRequestCounts ==
  ASSUME BuiltInv, Next, NEW auth \in requests' \ requests
  PROVE  auth.seq \in Nat /\ auth.after \in Nat
<1>1. ~(OpeningStep \/ CloseStep \/ ArbitrationStep \/ TimePasses \/ BlockIsMined)
  BY DEF OpeningStep, PrepareOpening, PreparePresign, CloseStep, PrepareCloseArtifact,
         CompleteCloseArtifact, ArbitrationStep, SellerPrepareArbitration,
         SignPreparedArbitration, CompleteArbitratedPayment, TimePasses, BlockIsMined
<1>2. PICK opening \in Openings, facts \in Facts, signer \in Keys :
        \E previous \in PoolEvidence(opening) :
          \E quote \in Quotes, batch \in Batches, deadline \in Deadlines :
            PrepareContentRequest(opening, quote, previous, batch, deadline, facts, signer)
  BY <1>1 DEF Next, PaymentStep, PrepareDelivery, VerifyDelivery, CompletePayment
<1>3. PICK previous \in PoolEvidence(opening) :
        \E quote \in Quotes, batch \in Batches, deadline \in Deadlines :
          PrepareContentRequest(opening, quote, previous, batch, deadline, facts, signer)
  BY <1>2
<1>4. PICK quote \in Quotes, batch \in Batches, deadline \in Deadlines :
        PrepareContentRequest(opening, quote, previous, batch, deadline, facts, signer)
  BY <1>3
<1>5. auth.seq = previous.seq + 1 /\ auth.after = previous.seller + quote.terms.price[batch]
  BY <1>4 DEF PrepareContentRequest
<1>6. previous.seq \in Nat /\ previous.seller \in Nat
  BY EvidenceWithin DEF WithinPool
<1>7. quote.terms.price[batch] \in Nat
  BY QuoteAssumption
<1> QED
  BY <1>5, <1>6, <1>7

\* Whatever is signed is within its pool.
LEMMA NewWithin ==
  ASSUME Inv, BuiltInv, Next, NEW signature \in signatures' \ signatures
  PROVE  WithinPool(signature.tx)
<1>1. CASE OpeningStep
  <2>1. PICK opening \in Openings, signer \in Keys :
          \/ \E quote \in Quotes : PrepareOpening(opening, quote, signer)
          \/ PreparePresign(opening, signer)
    BY <1>1 DEF OpeningStep
  <2>2. CASE \E quote \in Quotes : PrepareOpening(opening, quote, signer)
    <3>1. /\ signature.tx = Refund(opening)
          /\ opening.funding.amount > 0 /\ Fee =< opening.funding.amount
      BY <2>2 DEF PrepareOpening, Sign
    <3> QED
      BY <3>1, OpeningTypes, PoolAssumption DEF WithinPool, Refund, State
  <2>3. CASE PreparePresign(opening, signer)
    BY <2>3 DEF PreparePresign, Sign, Signed, BuiltInv
  <2> QED
    BY <2>1, <2>2, <2>3
<1>2. CASE PaymentStep
  <2>1. PICK opening \in Openings, facts \in Facts, signer \in Keys :
          \E previous \in PoolEvidence(opening), auth \in requests, delivery \in deliveries :
            \/ \E quote \in Quotes :
                 VerifyDelivery(auth, delivery, quote, opening, previous, facts, signer)
            \/ \E update \in updates :
                 CompletePayment(update, auth, delivery, opening, previous, facts, signer)
    BY <1>2 DEF PaymentStep, PrepareContentRequest, PrepareDelivery
  <2>2. PICK previous \in PoolEvidence(opening), auth \in requests :
          /\ Sign(BuildPaymentUpdate(previous, auth.after), signer)
          /\ Affordable(previous, auth.after)
    BY <2>1 DEF VerifyDelivery, CompletePayment
  <2> QED
    BY <2>2, EvidenceWithin, UpdateWithin DEF BuiltInv, Sign
<1>3. CASE CloseStep
  <2>1. PICK opening \in Openings, facts \in Facts, signer \in Keys :
          \E view \in PoolEvidence(opening) :
            \/ \E target \in CloseTargets :
                 PrepareCloseArtifact(opening, view, target, facts, signer)
            \/ \E close \in closes : CompleteCloseArtifact(close, opening, view, facts, signer)
    BY <1>3 DEF CloseStep
  <2>2. \E close \in closes' : signature.tx = close.tx
    <3>1. PICK view \in PoolEvidence(opening) :
            \/ \E target \in CloseTargets :
                 PrepareCloseArtifact(opening, view, target, facts, signer)
            \/ \E close \in closes : CompleteCloseArtifact(close, opening, view, facts, signer)
      BY <2>1
    <3>2. ASSUME NEW target \in CloseTargets,
                 PrepareCloseArtifact(opening, view, target, facts, signer)
          PROVE  \E close \in closes' : signature.tx = close.tx
      <4> DEFINE close == [opening |-> opening, tx |-> BuildImmediateClose(view, target)]
      <4>1. close \in closes' /\ signature.tx = close.tx
        BY <3>2 DEF PrepareCloseArtifact, Sign
      <4> QED
        BY <4>1
    <3>3. ASSUME NEW close \in closes, CompleteCloseArtifact(close, opening, view, facts, signer)
          PROVE  close \in closes' /\ signature.tx = close.tx
      BY <3>3 DEF CompleteCloseArtifact, Sign
    <3> QED
      BY <3>1, <3>2, <3>3
  <2>3. PICK close \in closes' : signature.tx = close.tx
    BY <2>2
  <2>4. CloseBuilt(close)
    BY NewCloseBuilt DEF BuiltInv
  <2>5. PICK base \in PoolEvidence(close.opening), target \in CloseTargets :
          Closable(base, target) /\ close.tx = BuildImmediateClose(base, target)
    BY <2>4 DEF CloseBuilt
  <2> QED
    BY <2>3, <2>4, <2>5, EvidenceWithin, CloseWithin DEF CloseBuilt
<1>4. CASE ArbitrationStep
  <2>1. PICK signer \in Keys, claim \in claims :
          \/ \E fee \in ArbiterFees : SignPreparedArbitration(claim, fee, signer)
          \/ \E receipt \in receipts, facts \in Facts :
               CompleteArbitratedPayment(claim, receipt, facts, signer)
    BY <1>4 DEF ArbitrationStep, SellerPrepareArbitration
  <2>2. ASSUME NEW fee \in ArbiterFees, SignPreparedArbitration(claim, fee, signer)
        PROVE  WithinPool(signature.tx)
    <3>1. signature.tx = BuildArbitrationPayment(claim, fee)
      BY <2>2 DEF SignPreparedArbitration, Sign
    <3>2. claim.auth.seq \in Nat
      BY DEF Inv, ClaimOK, BuiltInv
    <3>3. Awardable(claim, fee)
      BY <2>2, <3>2, PoolAssumption DEF SignPreparedArbitration, ValidateRequestEvidence, Awardable
    <3> QED
      BY <3>1, <3>3, AwardWithin
  <2>3. ASSUME NEW receipt \in receipts, NEW facts \in Facts,
               CompleteArbitratedPayment(claim, receipt, facts, signer)
        PROVE  WithinPool(signature.tx)
    <3>1. signature.tx = BuildArbitrationPayment(claim, receipt.tx.arbiter)
          /\ receipt.claim = claim
      BY <2>3 DEF CompleteArbitratedPayment, Sign
    <3> QED
      BY <3>1, AwardWithin DEF BuiltInv
  <2> QED
    BY <2>1, <2>2, <2>3
<1>5. CASE TimePasses \/ BlockIsMined
  BY <1>5 DEF TimePasses, BlockIsMined
<1> QED
  BY <1>1, <1>2, <1>3, <1>4, <1>5 DEF Next

\* A call adds at most one of each.
LEMMA FewStayFew ==
  ASSUME FewMessages, Next
  PROVE  FewMessages'
<1> DEFINE OneMore(S, T) == S \subseteq T /\ \A x, y \in T \ S : x = y
<1>1. ASSUME NEW S, NEW T, IsFiniteSet(S), OneMore(S, T) PROVE IsFiniteSet(T)
  <2>1. CASE T \ S = {}
    <3>1. T = S
      BY <1>1, <2>1
    <3> QED
      BY <1>1, <3>1
  <2>2. ASSUME NEW x \in T \ S PROVE IsFiniteSet(T)
    <3>1. T = S \cup {x}
      BY <1>1, <2>2
    <3> QED
      BY <1>1, <3>1, FS_AddElement
  <2> QED
    BY <2>1, <2>2
<1>2. OneMore(signatures, signatures')
  <2>1. \A tx, key : Sign(tx, key) => OneMore(signatures, signatures')
    BY DEF Sign
  <2> HIDE DEF OneMore
  <2>2. signatures' = signatures \/ \E tx, key : Sign(tx, key)
    <3>1. OpeningStep => \E tx, key : Sign(tx, key)
      BY DEF OpeningStep, PrepareOpening, PreparePresign
    <3>2. PaymentStep => signatures' = signatures \/ \E tx, key : Sign(tx, key)
      BY DEF PaymentStep, PrepareContentRequest, PrepareDelivery, VerifyDelivery, CompletePayment
    <3>3. CloseStep => \E tx, key : Sign(tx, key)
      BY DEF CloseStep, PrepareCloseArtifact, CompleteCloseArtifact
    <3>4. ArbitrationStep => signatures' = signatures \/ \E tx, key : Sign(tx, key)
      BY DEF ArbitrationStep, SellerPrepareArbitration, SignPreparedArbitration,
             CompleteArbitratedPayment
    <3>5. TimePasses \/ BlockIsMined => signatures' = signatures
      BY DEF TimePasses, BlockIsMined
    <3> QED
      BY <3>1, <3>2, <3>3, <3>4, <3>5 DEF Next
  <2>3. OneMore(signatures, signatures)
    BY DEF OneMore
  <2> QED
    BY <2>1, <2>2, <2>3
<1>3. OneMore(requests, requests') /\ OneMore(deliveries, deliveries') /\ OneMore(claims, claims')
  <2>1. OpeningStep \/ CloseStep \/ TimePasses \/ BlockIsMined =>
          UNCHANGED <<requests, deliveries, claims>>
    BY DEF OpeningStep, PrepareOpening, PreparePresign, CloseStep, PrepareCloseArtifact,
           CompleteCloseArtifact, TimePasses, BlockIsMined
  <2>2. ArbitrationStep =>
          UNCHANGED <<requests, deliveries>> /\ OneMore(claims, claims')
    BY DEF ArbitrationStep, SellerPrepareArbitration, SignPreparedArbitration,
           CompleteArbitratedPayment
  <2>3. PaymentStep =>
          UNCHANGED claims /\ OneMore(requests, requests') /\ OneMore(deliveries, deliveries')
    BY DEF PaymentStep, PrepareContentRequest, PrepareDelivery, VerifyDelivery, CompletePayment
  <2> QED
    BY <2>1, <2>2, <2>3 DEF Next
<1> HIDE DEF OneMore
<1> QED
  BY <1>1, <1>2, <1>3 DEF FewMessages

\* What was signed is within the pools and was built from evidence that was there.
LEMMA BuiltInvariance == Spec => []BuiltInv
<1>1. Init => BuiltInv
  BY FS_EmptySet DEF Init, BuiltInv, FewMessages
<1>2. Inv /\ BuiltInv /\ [Next]_vars => BuiltInv'
  <2>1. CASE UNCHANGED vars /\ BuiltInv
    <3>1. Grows
      BY <2>1 DEF vars, Grows
    <3>2. \A close \in closes : CloseBuilt(close)'
      BY <2>1, <3>1, EvidenceLasts DEF BuiltInv, CloseBuilt, Closable, BuildImmediateClose, State
    <3> QED
      BY <2>1, <3>2 DEF vars, BuiltInv, FewMessages, WithinPool, Awardable
  <2>2. ASSUME Inv, BuiltInv, Next PROVE BuiltInv'
    <3>1. Grows
      BY <2>2, Monotone
    <3>2. FewMessages'
      BY <2>2, FewStayFew DEF BuiltInv
    <3>3. \A signature \in signatures' : WithinPool(signature.tx)
      BY <2>2, NewWithin DEF BuiltInv
    <3>4. \A auth \in requests' : auth.seq \in Nat /\ auth.after \in Nat
      BY <2>2, NewRequestCounts DEF BuiltInv
    <3>5. \A close \in closes' : CloseBuilt(close)
      BY <2>2, NewCloseBuilt DEF BuiltInv
    <3>6. \A close \in closes' : CloseBuilt(close)'
      BY <3>1, <3>5, EvidenceLasts DEF CloseBuilt
    <3>7. \A receipt \in receipts' : Awardable(receipt.claim, receipt.tx.arbiter)
      BY <2>2, NewAwardable DEF BuiltInv
    <3> QED
      BY <3>2, <3>3, <3>4, <3>6, <3>7 DEF BuiltInv
  <2> QED
    BY <2>1, <2>2
<1> QED
  BY <1>1, <1>2, Invariance, PTL DEF Spec

\* The opening as the engine is given it.
EngineProof(opening) ==
  [template |-> EngineTx(Refund(opening)), rate |-> Fee, funding |-> opening.funding]

\* Each signature is one of the engine's.
LEMMA SignedByEngine ==
  ASSUME NEW tx, NEW key, Signed(tx, key)
  PROVE  Engine!Signed(RoleOf(tx.funding, key), EngineTx(tx), tx.funding.amount)
<1>1. EngineSignature([tx |-> tx, by |-> key]) \in EngineSignatures
  BY DEF EngineSignatures, Signed
<1> QED
  BY <1>1 DEF EngineSignature, Engine!Signed

\* The engine has room for a signature whenever the bound on all messages has.
LEMMA EngineHasRoom ==
  ASSUME FewMessages, Room
  PROVE  Cardinality(EngineSignatures) < MaxEvidence
<1> DEFINE f == [signature \in signatures |-> EngineSignature(signature)]
<1>1. f \in Surjection(signatures, EngineSignatures)
  BY DEF Surjection, EngineSignatures
<1>2. /\ IsFiniteSet(EngineSignatures)
      /\ Cardinality(EngineSignatures) =< Cardinality(signatures)
  <2> HIDE DEF f
  <2> QED
    BY <1>1, FS_Surjection DEF FewMessages
<1>3. /\ Cardinality(signatures) \in Nat /\ Cardinality(requests) \in Nat
      /\ Cardinality(deliveries) \in Nat /\ Cardinality(claims) \in Nat
      /\ Cardinality(EngineSignatures) \in Nat
  BY <1>2, FS_CardinalityType DEF FewMessages
<1> QED
  BY <1>2, <1>3, PoolAssumption DEF Room

\* A call that signs makes one signature of the engine's.
LEMMA SignsForEngine ==
  ASSUME FewMessages, Room, NEW tx, NEW key, Sign(tx, key)
  PROVE  Engine!Sign(RoleOf(tx.funding, key), EngineTx(tx), tx.funding.amount)
<1>1. EngineSignatures' = EngineSignatures \cup {EngineSignature([tx |-> tx, by |-> key])}
  BY DEF Sign, EngineSignatures, EngineSignature, EngineTx, RoleOf
<1>2. Engine!Cardinality(EngineSignatures) = Cardinality(EngineSignatures)
  BY DEF Engine!Cardinality, Cardinality
<1> QED
  BY <1>1, <1>2, EngineHasRoom DEF Engine!Sign, EngineSignature

\* The fields of a transaction in the engine's form.
LEMMA EngineFields ==
  ASSUME NEW tx, WithinPool(tx)
  PROVE  /\ EngineTx(tx).funding = tx.funding /\ EngineTx(tx).sequence = tx.seq
         /\ EngineTx(tx).lock = tx.lock /\ EngineTx(tx).seller = tx.seller
         /\ EngineTx(tx).arbiter = tx.arbiter
         /\ EngineTx(tx).buyer = tx.funding.amount - tx.seller - tx.arbiter - Fee
         /\ EngineTx(tx).buyer \in Nat /\ EngineTx(tx).buyer + Fee =< tx.funding.amount
         /\ tx.funding.amount \in 0..MaxSatoshis /\ Fee \in Nat
         /\ EngineTx(tx) = Engine!State(tx.funding, tx.seq, tx.lock, tx.funding.amount, Fee,
                                        tx.seller, tx.arbiter)
         /\ Engine!Allocates(tx.funding.amount, Fee, tx.seller, tx.arbiter)
<1>1. /\ tx.funding.amount \in 0..MaxSatoshis /\ tx.funding.amount > 0
      /\ tx.seller \in Nat /\ tx.arbiter \in Nat /\ Fee \in Nat /\ MaxSatoshis \in Nat
      /\ tx.seller + tx.arbiter + Fee =< tx.funding.amount
  BY PoolAssumption DEF WithinPool, Pools
<1> QED
  BY <1>1 DEF EngineTx, Engine!State, Engine!Allocates

\* The engine verifies an opening both parties have signed.
LEMMA OpeningOfEngine ==
  ASSUME BuiltInv, NEW opening \in Openings, VerifyOpening(opening)
  PROVE  /\ EngineProof(opening) \in Engine!VerifiedOpenings
         /\ Engine!PoolOutput(EngineProof(opening)) = opening.funding.amount
         /\ WithinPool(Refund(opening))
<1> DEFINE refund == Refund(opening)
           template == EngineTx(refund)
<1>1. /\ refund.funding = opening.funding /\ refund.seq = 2 /\ refund.lock = opening.lock
      /\ refund.seller = 0 /\ refund.arbiter = 0
  BY DEF Refund, State
<1>2. WithinPool(refund)
  BY DEF VerifyOpening, Signed, BuiltInv
<1>3. /\ Engine!Signed("buyer", template, opening.funding.amount)
      /\ Engine!Signed("seller", template, opening.funding.amount)
  BY <1>1, SignedByEngine, OpeningTypes DEF VerifyOpening
<1> HIDE DEF refund, template
<1>4. /\ template.funding = opening.funding /\ template.sequence = 2
      /\ template.lock = opening.lock /\ template.seller = 0 /\ template.arbiter = 0
      /\ template.buyer = opening.funding.amount - Fee /\ template.buyer \in Nat
      /\ opening.funding.amount \in 0..MaxSatoshis /\ Fee \in Nat
      /\ template = Engine!State(opening.funding, 2, opening.lock, opening.funding.amount, Fee, 0, 0)
      /\ opening.funding.amount > 0
  BY <1>1, <1>2, EngineFields DEF template, WithinPool
<1>5. Engine!PoolAmount(template, Fee) = opening.funding.amount
  BY <1>4 DEF Engine!PoolAmount
<1>6. template \in Engine!Templates
  BY <1>3, <1>4 DEF Engine!Templates, Engine!Signed, Engine!RefundSequence
<1>7. Engine!DerivesTerms(template, Fee)
  BY <1>4, <1>5, PoolAssumption DEF Engine!DerivesTerms, Engine!RefundSequence
<1>8. opening.funding \in Pools
  BY OpeningTypes
<1>9. EngineProof(opening) = [template |-> template, rate |-> Fee, funding |-> opening.funding]
  BY DEF EngineProof, template, refund
<1>10. EngineProof(opening) \in Engine!Proof
  BY <1>6, <1>8, <1>9 DEF Engine!Proof
<1>11. Engine!PoolOutput(EngineProof(opening)) = opening.funding.amount
  BY <1>5, <1>9 DEF Engine!PoolOutput
<1>12. Engine!VerifyOpening(EngineProof(opening))
  BY <1>3, <1>4, <1>5, <1>7, <1>8, <1>9, <1>11
     DEF Engine!VerifyOpening, Engine!VerifyRefundPresignRequest, Engine!VerifyFundingTx
<1> QED
  BY <1>2, <1>10, <1>11, <1>12 DEF Engine!VerifiedOpenings, refund

\* A transaction within the pool of a verified opening is canonical to the engine.
LEMMA CanonicalForEngine ==
  ASSUME BuiltInv, NEW opening \in Openings, VerifyOpening(opening),
         NEW tx, WithinPool(tx), tx.funding = opening.funding
  PROVE  Engine!Canonical(EngineTx(tx), EngineProof(opening))
<1> DEFINE etx == EngineTx(tx)
           proof == EngineProof(opening)
<1>1. /\ etx.funding = tx.funding /\ etx.sequence = tx.seq /\ etx.lock = tx.lock
      /\ etx.seller = tx.seller /\ etx.arbiter = tx.arbiter
      /\ etx = Engine!State(tx.funding, tx.seq, tx.lock, tx.funding.amount, Fee,
                            tx.seller, tx.arbiter)
      /\ Engine!Allocates(tx.funding.amount, Fee, tx.seller, tx.arbiter)
  BY EngineFields
<1>2. Engine!PoolOutput(proof) = tx.funding.amount
  BY OpeningOfEngine
<1>3. proof.rate = Fee /\ proof.funding = tx.funding
  BY DEF EngineProof
<1>4. tx.seq # 0 /\ (tx.seq = FinalSequence => tx.lock = FinalSequence)
  BY DEF WithinPool
<1>5. [rate \in {Fee} |-> rate][proof.rate] = Fee
  BY <1>3
<1> HIDE DEF etx, proof
<1>6. Engine!Canonical(etx, proof)
  BY <1>1, <1>2, <1>3, <1>4, <1>5 DEF Engine!Canonical
<1> QED
  BY <1>6 DEF etx, proof

\* What an application can pass as a pool's state, the engine restores as one.
LEMMA StateOfEngine ==
  ASSUME BuiltInv, NEW opening \in Openings, NEW tx \in PoolEvidence(opening)
  PROVE  EngineTx(tx) \in Engine!States(EngineProof(opening))
<1> DEFINE etx == EngineTx(tx)
           proof == EngineProof(opening)
<1>1. WithinPool(tx) /\ tx.funding = opening.funding /\ VerifyOpening(opening)
  BY EvidenceWithin
<1>2. Engine!Canonical(etx, proof)
  BY <1>1, CanonicalForEngine
<1>3. Engine!PoolOutput(proof) = tx.funding.amount
  BY <1>1, OpeningOfEngine
<1>4. etx.arbiter = tx.arbiter
  BY <1>1, EngineFields
<1>5. \A key : Signed(tx, key) =>
        Engine!Signed(RoleOf(opening.funding, key), etx, tx.funding.amount)
  BY <1>1, SignedByEngine
<1> HIDE DEF etx, proof
<1>6. VerifyAcceptedPayment(tx) => Engine!VerifyAcceptedPayment(etx, proof)
  BY <1>1, <1>2, <1>3, <1>4, <1>5, OpeningTypes
     DEF VerifyAcceptedPayment, Engine!VerifyAcceptedPayment
<1>7. VerifyArbitratedPayment(tx) => Engine!VerifyArbitratedPayment(etx, proof)
  BY <1>1, <1>2, <1>3, <1>4, <1>5, OpeningTypes
     DEF VerifyArbitratedPayment, Engine!VerifyArbitratedPayment
<1>8. Engine!VerifyPaymentState(etx, proof)
  BY <1>6, <1>7 DEF PoolEvidence, Engine!VerifyPaymentState
<1>9. etx \in {s.tx : s \in EngineSignatures}
  <2>1. \E role, amount : [role |-> role, tx |-> etx, amount |-> amount] \in EngineSignatures
    BY <1>5 DEF PoolEvidence, VerifyAcceptedPayment, VerifyArbitratedPayment, Engine!Signed
  <2> QED
    BY <2>1
<1>10. etx \in Engine!States(proof)
  BY <1>8, <1>9 DEF Engine!States
<1> QED
  BY <1>10 DEF etx, proof

\* A party's signature over what the engine built for an opening is an engine step.
LEMMA PaymentForEngine ==
  ASSUME BuiltInv, NEW opening \in Openings, VerifyOpening(opening), Room,
         NEW tx, WithinPool(tx), tx.funding = opening.funding, tx.arbiter = 0,
         NEW key \in {opening.funding.buyer, opening.funding.seller}, Sign(tx, key),
         Engine!Unsigned(EngineTx(tx), EngineProof(opening)) \in
           Engine!BuildPaymentUpdate(EngineProof(opening))
             \cup Engine!BuildImmediateClose(EngineProof(opening))
  PROVE  Engine!Next
<1> DEFINE proof == EngineProof(opening)
           unsigned == Engine!Unsigned(EngineTx(tx), proof)
<1>1. proof \in Engine!VerifiedOpenings /\ Engine!PoolOutput(proof) = opening.funding.amount
  BY OpeningOfEngine
<1>2. PICK role \in {"buyer", "seller"} : RoleOf(opening.funding, key) = role
  BY OpeningTypes
<1>3. Engine!Sign(role, EngineTx(tx), opening.funding.amount)
  BY <1>2, SignsForEngine DEF BuiltInv
<1>4. /\ unsigned.tx = EngineTx(tx) /\ unsigned.id = proof.template
      /\ EngineTx(tx).arbiter = 0
  BY EngineFields DEF Engine!Unsigned
<1>5. Engine!Canonical(EngineTx(tx), proof)
  BY CanonicalForEngine
<1>6. unsigned \in Engine!BuildPaymentUpdate(proof) \cup Engine!BuildImmediateClose(proof)
  OBVIOUS
<1> HIDE DEF proof, unsigned
<1>7. Engine!SignPayment(role, unsigned, proof)
  BY <1>1, <1>3, <1>4, <1>5 DEF Engine!SignPayment, Engine!ValidateUnsignedPayment
<1> QED
  BY <1>1, <1>6, <1>7 DEF Engine!Next

\* An affordable update is one the engine builds on the state paid on.
LEMMA UpdateForEngine ==
  ASSUME BuiltInv, Room, NEW opening \in Openings, NEW previous \in PoolEvidence(opening),
         NEW after \in Nat, Affordable(previous, after),
         NEW key \in {opening.funding.buyer, opening.funding.seller},
         Sign(BuildPaymentUpdate(previous, after), key)
  PROVE  Engine!Next
<1> DEFINE proof == EngineProof(opening)
           base == EngineTx(previous)
           tx == BuildPaymentUpdate(previous, after)
           amount == opening.funding.amount
<1>1. WithinPool(previous) /\ previous.funding = opening.funding /\ VerifyOpening(opening)
  BY EvidenceWithin
<1>2. WithinPool(tx) /\ tx.seq # FinalSequence
  BY <1>1, UpdateWithin
<1>3. /\ tx.funding = opening.funding /\ tx.seq = previous.seq + 1 /\ tx.lock = previous.lock
      /\ tx.seller = after /\ tx.arbiter = 0
  BY <1>1 DEF BuildPaymentUpdate, State
<1>4. base \in Engine!States(proof) /\ Engine!PoolOutput(proof) = amount
  BY <1>1, StateOfEngine, OpeningOfEngine
<1>5. /\ base.funding = opening.funding /\ base.sequence = previous.seq
      /\ base.lock = previous.lock /\ base.seller = previous.seller
  BY <1>1, EngineFields
<1> HIDE DEF tx
<1>6. /\ EngineTx(tx) = Engine!State(opening.funding, previous.seq + 1, previous.lock, amount,
                                     Fee, after, 0)
      /\ Engine!Allocates(amount, Fee, after, 0) /\ amount \in 0..MaxSatoshis
  BY <1>2, <1>3, EngineFields
<1>7. /\ previous.seq \in Nat /\ previous.seq + 1 # FinalSequence /\ previous.seq # FinalSequence
      /\ previous.seller =< after /\ after =< amount
  BY <1>1, PoolAssumption DEF WithinPool, Affordable, CheckPaymentCapacity
<1>8. after \in 0..MaxSatoshis
  BY <1>6, <1>7, PoolAssumption
<1>9. proof.rate = Fee /\ [rate \in {Fee} |-> rate][proof.rate] = Fee
  BY DEF EngineProof
<1> DEFINE c == [base |-> base, seller |-> after]
<1> HIDE DEF proof, base, amount
<1>10. c \in Engine!Choices(proof)
  BY <1>4, <1>8 DEF Engine!Choices
<1>11. Engine!CheckPaymentCapacity(proof, c.base, c.base.sequence + 1, c.seller)
  BY <1>4, <1>5, <1>7 DEF Engine!CheckPaymentCapacity
<1>12. Engine!Unsigned(EngineTx(tx), proof) \in Engine!BuildPaymentUpdate(proof)
  BY <1>4, <1>5, <1>6, <1>7, <1>9, <1>10, <1>11 DEF Engine!BuildPaymentUpdate
<1> QED
  BY <1>1, <1>2, <1>3, <1>12, PaymentForEngine DEF proof, tx

\* A close that was built is one the engine builds on the state it was built on.
LEMMA CloseForEngine ==
  ASSUME BuiltInv, Room, NEW opening \in Openings, NEW view \in PoolEvidence(opening),
         NEW target, Closable(view, target),
         NEW key \in {opening.funding.buyer, opening.funding.seller},
         Sign(BuildImmediateClose(view, target), key)
  PROVE  Engine!Next
<1> DEFINE proof == EngineProof(opening)
           base == EngineTx(view)
           tx == BuildImmediateClose(view, target)
           amount == opening.funding.amount
<1>1. WithinPool(view) /\ view.funding = opening.funding /\ VerifyOpening(opening)
  BY EvidenceWithin
<1>2. WithinPool(tx)
  BY <1>1, CloseWithin
<1>3. /\ tx.funding = opening.funding /\ tx.seq = FinalSequence /\ tx.lock = FinalSequence
      /\ tx.seller = target /\ tx.arbiter = 0
  BY <1>1 DEF BuildImmediateClose, State
<1>4. base \in Engine!States(proof) /\ Engine!PoolOutput(proof) = amount
  BY <1>1, StateOfEngine, OpeningOfEngine
<1>5. /\ base.funding = opening.funding /\ base.sequence = view.seq /\ base.arbiter = view.arbiter
  BY <1>1, EngineFields
<1> HIDE DEF tx
<1>6. /\ EngineTx(tx) = Engine!State(opening.funding, FinalSequence, FinalSequence, amount,
                                     Fee, target, 0)
      /\ Engine!Allocates(amount, Fee, target, 0) /\ amount \in 0..MaxSatoshis
  BY <1>2, <1>3, EngineFields
<1>7. /\ view.seq < FinalSequence /\ target \in Nat /\ target =< amount
      /\ view.arbiter \in Nat /\ target =< amount - view.arbiter
  <2>1. /\ view.seq < FinalSequence /\ target \in Nat /\ view.arbiter \in Nat
        /\ target + view.arbiter =< amount
    BY <1>1 DEF WithinPool, Closable
  <2> HIDE DEF amount
  <2> QED
    BY <1>6, <2>1
<1>8. target \in 0..MaxSatoshis
  BY <1>6, <1>7, PoolAssumption
<1>9. proof.rate = Fee /\ [rate \in {Fee} |-> rate][proof.rate] = Fee
  BY DEF EngineProof
<1> DEFINE c == [base |-> base, seller |-> target]
<1> HIDE DEF proof, base, amount
<1>10. c \in Engine!Choices(proof)
  BY <1>4, <1>8 DEF Engine!Choices
<1>11. Engine!Unsigned(EngineTx(tx), proof) \in Engine!BuildImmediateClose(proof)
  BY <1>4, <1>5, <1>6, <1>7, <1>9, <1>10 DEF Engine!BuildImmediateClose
<1> QED
  BY <1>1, <1>2, <1>3, <1>11, PaymentForEngine DEF proof, tx

\* An award is what the engine builds from the claim.
LEMMA AwardForEngine ==
  ASSUME Inv, BuiltInv, Room, NEW claim \in claims, NEW fee, Awardable(claim, fee),
         NEW key \in {claim.opening.funding.seller, claim.opening.funding.arbiter},
         Sign(BuildArbitrationPayment(claim, fee), key)
  PROVE  Engine!Next
<1> DEFINE opening == claim.opening
           proof == EngineProof(opening)
           tx == BuildArbitrationPayment(claim, fee)
           amount == opening.funding.amount
           template == EngineTx(Refund(opening))
           terms == [sequence |-> claim.auth.seq, seller |-> claim.auth.after, arbiter |-> fee]
<1>1. opening \in Openings /\ VerifyOpening(opening)
  BY DEF Inv, ClaimOK, RequestOK
<1>2. claim.auth.after \in Nat
  BY DEF Inv, ClaimOK, BuiltInv
<1>3. /\ fee \in ArbiterFees /\ claim.auth.seq \in 3..(FinalSequence - 1)
      /\ claim.auth.after + fee + Fee =< amount
  BY DEF Awardable
<1>4. fee \in Nat \ {0} /\ FinalSequence \in Nat /\ FinalSequence > 2 /\ MaxSatoshis \in Nat
  BY <1>3, PoolAssumption
<1>5. WithinPool(tx) /\ WithinPool(Refund(opening))
  BY <1>1, AwardWithin, OpeningOfEngine
<1>6. /\ tx.funding = opening.funding /\ tx.seq = claim.auth.seq /\ tx.lock = opening.lock
      /\ tx.seller = claim.auth.after /\ tx.arbiter = fee
  BY DEF BuildArbitrationPayment, State
<1>7. /\ template.funding = opening.funding /\ template.sequence = 2
      /\ template.lock = opening.lock /\ template.seller = 0 /\ template.arbiter = 0
      /\ template.buyer = amount - Fee
      /\ amount \in 0..MaxSatoshis /\ Fee \in Nat
  BY <1>5, EngineFields DEF Refund, State
<1>8. proof \in Engine!VerifiedOpenings /\ Engine!PoolOutput(proof) = amount
  BY <1>1, OpeningOfEngine
<1>9. PICK role \in {"seller", "arbiter"} : RoleOf(opening.funding, key) = role
  BY <1>1, OpeningTypes
<1>10. Engine!Sign(role, EngineTx(tx), amount)
  BY <1>6, <1>9, SignsForEngine DEF BuiltInv
<1>11. Engine!Claim(proof) = [amount |-> amount, template |-> template]
  BY <1>8 DEF Engine!Claim, EngineProof
<1> DEFINE eclaim == [amount |-> amount, template |-> template]
<1>12. EngineTx(tx) = [funding |-> opening.funding, sequence |-> claim.auth.seq,
                       lock |-> opening.lock,
                       buyer |-> amount - claim.auth.after - fee - Fee,
                       seller |-> claim.auth.after, arbiter |-> fee]
  BY <1>6 DEF EngineTx
<1> HIDE DEF tx, template, proof, amount
<1>13. terms \in Engine!Terms
  BY <1>2, <1>3, <1>4, <1>7 DEF Engine!Terms
<1>14. Engine!ArbitrationPayment(eclaim, terms) = EngineTx(tx)
  <2>1. template.buyer - claim.auth.after - fee = amount - claim.auth.after - fee - Fee
    BY <1>2, <1>4, <1>7
  <2> QED
    BY <1>7, <1>12, <2>1 DEF Engine!ArbitrationPayment
<1>15. /\ Engine!ValidateClaim(eclaim, terms)
       /\ terms.arbiter > 0 /\ terms.arbiter =< eclaim.template.buyer - terms.seller
  BY <1>2, <1>3, <1>4, <1>7 DEF Engine!ValidateClaim
<1>16. EngineTx(tx) \in Engine!BuildArbitrationPayment(eclaim)
  BY <1>13, <1>14, <1>15 DEF Engine!BuildArbitrationPayment
<1>17. Engine!SignArbitrationPayment(role, proof)
  BY <1>10, <1>11, <1>16 DEF Engine!SignArbitrationPayment
<1> QED
  BY <1>8, <1>17 DEF Engine!Next

\* Every call is a step of the engine's, or leaves it alone.
LEMMA CallIsEngineStep ==
  ASSUME Inv, BuiltInv, Next
  PROVE  Engine!Next \/ UNCHANGED EngineSignatures
<1>0. signatures' = signatures => UNCHANGED EngineSignatures
  BY DEF EngineSignatures, EngineSignature, EngineTx, RoleOf
<1>1. CASE OpeningStep
  <2>1. PICK opening \in Openings, signer \in Keys :
          \/ \E quote \in Quotes : PrepareOpening(opening, quote, signer)
          \/ PreparePresign(opening, signer)
    BY <1>1 DEF OpeningStep
  <2>2. /\ Room /\ Sign(Refund(opening), signer)
        /\ Refund(opening).funding = opening.funding
    BY <2>1 DEF PrepareOpening, PreparePresign, Refund, State
  <2>3. /\ opening.funding \in Pools /\ opening.lock \in Nat \ {0}
        /\ opening.funding.amount \in 0..MaxSatoshis
    BY OpeningTypes
  <2>4. Engine!Sign(RoleOf(opening.funding, signer), EngineTx(Refund(opening)),
                    opening.funding.amount)
    BY <2>2, SignsForEngine DEF BuiltInv
  <2>5. CASE \E quote \in Quotes : PrepareOpening(opening, quote, signer)
    <3>1. /\ signer = opening.funding.buyer
          /\ opening.funding.amount > 0 /\ Fee =< opening.funding.amount
      BY <2>5 DEF PrepareOpening, QuoteFits
    <3>2. WithinPool(Refund(opening))
      BY <2>3, <3>1, PoolAssumption DEF WithinPool, Refund, State
    <3>3. /\ EngineTx(Refund(opening)) = Engine!State(opening.funding, 2, opening.lock,
                                                     opening.funding.amount, Fee, 0, 0)
          /\ Engine!Allocates(opening.funding.amount, Fee, 0, 0)
      BY <3>2, EngineFields DEF Refund, State
    <3>4. RoleOf(opening.funding, signer) = "buyer"
      BY <3>1, OpeningTypes
    <3>5. Engine!BuildRefundPresignRequest(opening.funding, opening.lock, Fee)
      BY <2>3, <2>4, <3>3, <3>4 DEF Engine!BuildRefundPresignRequest, Engine!RefundSequence
    <3> QED
      BY <2>3, <3>5 DEF Engine!Next
  <2>6. CASE PreparePresign(opening, signer)
    <3>1. signer = opening.funding.seller /\ Signed(Refund(opening), opening.funding.buyer)
      BY <2>6 DEF PreparePresign
    <3> DEFINE template == EngineTx(Refund(opening))
    <3>2. WithinPool(Refund(opening))
      BY <3>1 DEF Signed, BuiltInv
    <3>3. /\ template.funding = opening.funding /\ template.sequence = 2
          /\ template.lock = opening.lock
          /\ template.buyer = opening.funding.amount - Fee /\ template.buyer \in Nat
          /\ Fee \in Nat
          /\ template = Engine!State(opening.funding, 2, opening.lock,
                                     opening.funding.amount, Fee, 0, 0)
          /\ opening.funding.amount > 0
      BY <3>2, EngineFields DEF Refund, State, WithinPool
    <3>4. /\ Engine!Signed("buyer", template, opening.funding.amount)
          /\ RoleOf(opening.funding, signer) = "seller"
      BY <2>2, <3>1, SignedByEngine, OpeningTypes
    <3> HIDE DEF template
    <3>5. Engine!PoolAmount(template, Fee) = opening.funding.amount
      BY <2>3, <3>3 DEF Engine!PoolAmount
    <3>6. Engine!DerivesTerms(template, Fee)
      BY <2>3, <3>3, <3>5, PoolAssumption DEF Engine!DerivesTerms, Engine!RefundSequence
    <3>7. Engine!SignSellerRefund(template, Fee)
      BY <2>4, <3>4, <3>5, <3>6
         DEF Engine!SignSellerRefund, Engine!VerifyRefundPresignRequest, template
    <3>8. template \in Engine!Templates
      BY <3>3, <3>4 DEF Engine!Templates, Engine!Signed, Engine!RefundSequence
    <3> QED
      BY <3>7, <3>8 DEF Engine!Next
  <2> QED
    BY <2>1, <2>5, <2>6
<1>2. CASE PaymentStep
  <2>1. CASE signatures' = signatures
    BY <1>0, <2>1
  <2>2. CASE signatures' # signatures
    <3>1. PICK opening \in Openings, facts \in Facts, signer \in Keys :
            \E previous \in PoolEvidence(opening), auth \in requests, delivery \in deliveries :
              \/ \E quote \in Quotes :
                   VerifyDelivery(auth, delivery, quote, opening, previous, facts, signer)
              \/ \E update \in updates :
                   CompletePayment(update, auth, delivery, opening, previous, facts, signer)
      BY <1>2, <2>2 DEF PaymentStep, PrepareContentRequest, PrepareDelivery
    <3>2. PICK previous \in PoolEvidence(opening), auth \in requests :
            /\ Room /\ Sign(BuildPaymentUpdate(previous, auth.after), signer)
            /\ Affordable(previous, auth.after)
            /\ signer \in {opening.funding.buyer, opening.funding.seller}
      BY <3>1 DEF VerifyDelivery, CompletePayment
    <3>3. auth.after \in Nat
      BY DEF BuiltInv
    <3> QED
      BY <3>2, <3>3, UpdateForEngine
  <2> QED
    BY <2>1, <2>2
<1>3. CASE CloseStep
  <2>1. PICK opening \in Openings, facts \in Facts, signer \in Keys :
          \E view \in PoolEvidence(opening) :
            \/ \E target \in CloseTargets :
                 PrepareCloseArtifact(opening, view, target, facts, signer)
            \/ \E close \in closes : CompleteCloseArtifact(close, opening, view, facts, signer)
    BY <1>3 DEF CloseStep
  <2>2. PICK view \in PoolEvidence(opening) :
          \/ \E target \in CloseTargets :
               PrepareCloseArtifact(opening, view, target, facts, signer)
          \/ \E close \in closes : CompleteCloseArtifact(close, opening, view, facts, signer)
    BY <2>1
  <2>3. ASSUME NEW target \in CloseTargets,
               PrepareCloseArtifact(opening, view, target, facts, signer)
        PROVE  Engine!Next
    <3>1. /\ Room /\ Sign(BuildImmediateClose(view, target), signer)
          /\ Closable(view, target) /\ signer = opening.funding.buyer
      BY <2>3, PoolAssumption DEF PrepareCloseArtifact, Closable
    <3> QED
      BY <3>1, CloseForEngine
  <2>4. ASSUME NEW close \in closes, CompleteCloseArtifact(close, opening, view, facts, signer)
        PROVE  Engine!Next
    <3>1. /\ Room /\ Sign(close.tx, signer)
          /\ close.opening = opening /\ signer = opening.funding.seller
      BY <2>4 DEF CompleteCloseArtifact
    <3>2. PICK base \in PoolEvidence(opening), target \in CloseTargets :
            Closable(base, target) /\ close.tx = BuildImmediateClose(base, target)
      BY <3>1 DEF BuiltInv, CloseBuilt
    <3> QED
      BY <3>1, <3>2, CloseForEngine
  <2> QED
    BY <2>2, <2>3, <2>4
<1>4. CASE ArbitrationStep
  <2>1. CASE signatures' = signatures
    BY <1>0, <2>1
  <2>2. CASE signatures' # signatures
    <3>1. PICK signer \in Keys, claim \in claims :
            \/ \E fee \in ArbiterFees : SignPreparedArbitration(claim, fee, signer)
            \/ \E receipt \in receipts, facts \in Facts :
                 CompleteArbitratedPayment(claim, receipt, facts, signer)
      BY <1>4, <2>2 DEF ArbitrationStep, SellerPrepareArbitration
    <3>2. ASSUME NEW fee \in ArbiterFees, SignPreparedArbitration(claim, fee, signer)
          PROVE  Engine!Next
      <4>1. /\ Room /\ Sign(BuildArbitrationPayment(claim, fee), signer)
            /\ signer = claim.opening.funding.arbiter
        BY <3>2 DEF SignPreparedArbitration
      <4>2. claim.auth.seq \in Nat
        BY DEF Inv, ClaimOK, BuiltInv
      <4>3. Awardable(claim, fee)
        BY <3>2, <4>2, PoolAssumption
           DEF SignPreparedArbitration, ValidateRequestEvidence, Awardable
      <4> QED
        BY <4>1, <4>3, AwardForEngine
    <3>3. ASSUME NEW receipt \in receipts, NEW facts \in Facts,
                 CompleteArbitratedPayment(claim, receipt, facts, signer)
          PROVE  Engine!Next
      <4>1. /\ Room /\ Sign(BuildArbitrationPayment(claim, receipt.tx.arbiter), signer)
            /\ receipt.claim = claim /\ signer = claim.opening.funding.seller
        BY <3>3 DEF CompleteArbitratedPayment
      <4>2. Awardable(claim, receipt.tx.arbiter)
        BY <4>1 DEF BuiltInv
      <4> QED
        BY <4>1, <4>2, AwardForEngine
    <3> QED
      BY <3>1, <3>2, <3>3
  <2> QED
    BY <2>1, <2>2
<1>5. CASE TimePasses \/ BlockIsMined
  BY <1>0, <1>5 DEF TimePasses, BlockIsMined
<1> QED
  BY <1>1, <1>2, <1>3, <1>4, <1>5 DEF Next

\* Whatever the calls are given, buyer, seller and arbiter sign only what the engine would,
\* over the pool states it verifies: the refinement of the engine by the calls.
THEOREM CallsImplementEngine == Spec => ImplementsEngine
<1>1. Init => Engine!Init
  BY DEF Init, Engine!Init, EngineSignatures
<1>2. Inv /\ BuiltInv /\ [Next]_vars => [Engine!Next]_EngineSignatures
  <2>1. UNCHANGED vars => UNCHANGED EngineSignatures
    BY DEF vars, EngineSignatures, EngineSignature, EngineTx, RoleOf
  <2> QED
    BY <2>1, CallIsEngineStep
<1> QED
  BY <1>1, <1>2, Invariance, BuiltInvariance, PTL DEF Spec, ImplementsEngine, Engine!Spec
-----------------------------------------------------------------------------
(* What is proved of the engine holds of the calls, under the mapping.                      *)

Proved == INSTANCE PoolEngine_proofs WITH
  Fundings <- Pools, Amount <- [funding \in Pools |-> funding.amount],
  Locks <- {opening.lock : opening \in Openings}, Rates <- {Fee}, Fee <- [rate \in {Fee} |-> rate],
  Payments <- 0..MaxSatoshis, Awards <- ArbiterFees, MaxSignatures <- MaxEvidence,
  signatures <- EngineSignatures

\* The engine assumes of its constants no more than the calls do of theirs.
LEMMA EngineAssumptions ==
  Proved!AmountAssumption /\ Proved!ChoiceAssumption /\ Proved!SequenceAssumption
BY PoolAssumption DEF Proved!AmountAssumption, Proved!ChoiceAssumption,
   Proved!SequenceAssumption, Proved!RefundSequence, Pools

\* The engine that is implemented and the one with the theorems are two instances of one
\* module, whose definitions have to be unfolded to be seen to be the same.
LEMMA SameEngine == Engine!Spec => Proved!Spec
<1>1. Engine!Init => Proved!Init
  BY DEF Engine!Init, Proved!Init
<1>2. Engine!Next => Proved!Next
  BY DEF Proved!RefundSequence, Engine!RefundSequence, Proved!State, Engine!State, Proved!Allocates,
         Engine!Allocates, Proved!Signed, Engine!Signed, Proved!Templates, Engine!Templates,
         Proved!PoolAmount, Engine!PoolAmount, Proved!DerivesTerms, Engine!DerivesTerms,
         Proved!Proof, Engine!Proof, Proved!PoolOutput, Engine!PoolOutput,
         Proved!VerifyFundingTx, Engine!VerifyFundingTx, Proved!VerifyRefundPresignRequest,
         Engine!VerifyRefundPresignRequest, Proved!VerifyOpening, Engine!VerifyOpening,
         Proved!VerifiedOpenings, Engine!VerifiedOpenings, Proved!Canonical, Engine!Canonical,
         Proved!VerifyAcceptedPayment, Engine!VerifyAcceptedPayment,
         Proved!VerifyArbitratedPayment, Engine!VerifyArbitratedPayment,
         Proved!VerifyPaymentState, Engine!VerifyPaymentState, Proved!States, Engine!States,
         Proved!Unsigned, Engine!Unsigned, Proved!CheckPaymentCapacity,
         Engine!CheckPaymentCapacity, Proved!Choices, Engine!Choices,
         Proved!BuildPaymentUpdate, Engine!BuildPaymentUpdate, Proved!BuildImmediateClose,
         Engine!BuildImmediateClose, Proved!ValidateUnsignedPayment,
         Engine!ValidateUnsignedPayment, Proved!Claim, Engine!Claim, Proved!Terms,
         Engine!Terms, Proved!ValidateClaim, Engine!ValidateClaim, Proved!ArbitrationPayment,
         Engine!ArbitrationPayment, Proved!BuildArbitrationPayment,
         Engine!BuildArbitrationPayment, Proved!MergeArbitrationPayment,
         Engine!MergeArbitrationPayment, Proved!Sign, Engine!Sign,
         Proved!BuildRefundPresignRequest, Engine!BuildRefundPresignRequest,
         Proved!SignSellerRefund, Engine!SignSellerRefund, Proved!SignPayment,
         Engine!SignPayment, Proved!SignArbiterPayment, Engine!SignArbiterPayment,
         Proved!SignArbitrationPayment, Engine!SignArbitrationPayment, Proved!Roles,
         Engine!Roles, Proved!Cardinality, Engine!Cardinality, Proved!Next, Engine!Next
<1>3. [Engine!Next]_EngineSignatures => [Proved!Next]_EngineSignatures
  BY <1>2
<1> QED
  BY <1>1, <1>3, PTL DEF Engine!Spec, Proved!Spec

\* Amounts, final sequences and the states under payments are as the engine's theorems say,
\* and what an arbiter signs for a claim can be restored under its opening: also where the
\* engine is only ever used through the calls of the three roles.
THEOREM CallsInheritEngine ==
  Spec => [](/\ Proved!TypeOK /\ Proved!AmountsAreReal /\ Proved!OnlyCloseIsFinal
             /\ Proved!PaymentsExtendCompleted /\ Proved!ArbitratedIsRestorable)
<1>1. Spec => Proved!Spec
  BY CallsImplementEngine, SameEngine DEF ImplementsEngine
<1>2. Proved!Spec => []Proved!TypeOK
  BY EngineAssumptions, Proved!EngineTypeCorrect
<1>3. Proved!Spec => []Proved!AmountsAreReal
  BY EngineAssumptions, Proved!AmountsReal
<1>4. Proved!Spec => []Proved!OnlyCloseIsFinal
  BY EngineAssumptions, Proved!OnlyClosesAreFinal
<1>5. Proved!Spec => []Proved!PaymentsExtendCompleted
  BY EngineAssumptions, Proved!PaymentsAreChained
<1>6. Proved!Spec => []Proved!ArbitratedIsRestorable
  BY EngineAssumptions, Proved!ArbitratedStatesRestore
<1> QED
  BY <1>1, <1>2, <1>3, <1>4, <1>5, <1>6, PTL

\* A signature has these two fields, a transaction its five, so that the mapping loses
\* nothing of either.
WellFormed(signature) ==
  LET tx == signature.tx
  IN  signature = [tx |-> State(tx.funding, tx.seq, tx.lock, tx.seller, tx.arbiter),
                   by |-> signature.by]

AllWellFormed == \A signature \in signatures : WellFormed(signature)

LEMMA NewWellFormed ==
  ASSUME Inv, AllWellFormed, Next, NEW signature \in signatures' \ signatures
  PROVE  WellFormed(signature)
<1> DEFINE Built(key) == \E funding, seq, lock, seller, arbiter :
                           Sign(State(funding, seq, lock, seller, arbiter), key)
<1>0. ASSUME NEW key, Built(key)
      PROVE  WellFormed(signature)
  BY <1>0 DEF Sign, State, WellFormed
<1> HIDE DEF Built
<1>1. CASE OpeningStep
  BY <1>0, <1>1 DEF OpeningStep, PrepareOpening, PreparePresign, Refund, Built
<1>2. CASE PaymentStep
  BY <1>0, <1>2 DEF PaymentStep, PrepareContentRequest, PrepareDelivery, VerifyDelivery,
                    CompletePayment, BuildPaymentUpdate, Built
<1>3. CASE CloseStep
  <2>1. PICK opening \in Openings, facts \in Facts, signer \in Keys :
          \E view \in PoolEvidence(opening) :
            \/ \E target \in CloseTargets :
                 PrepareCloseArtifact(opening, view, target, facts, signer)
            \/ \E close \in closes : CompleteCloseArtifact(close, opening, view, facts, signer)
    BY <1>3 DEF CloseStep
  <2>2. PICK view \in PoolEvidence(opening) :
          \/ \E target \in CloseTargets :
               PrepareCloseArtifact(opening, view, target, facts, signer)
          \/ \E close \in closes : CompleteCloseArtifact(close, opening, view, facts, signer)
    BY <2>1
  <2>3. ASSUME NEW target \in CloseTargets,
               PrepareCloseArtifact(opening, view, target, facts, signer)
        PROVE  WellFormed(signature)
    BY <1>0, <2>3 DEF PrepareCloseArtifact, BuildImmediateClose, Built
  <2>4. ASSUME NEW close \in closes, CompleteCloseArtifact(close, opening, view, facts, signer)
        PROVE  WellFormed(signature)
    <3>1. Sign(close.tx, signer) /\ [tx |-> close.tx, by |-> opening.funding.buyer] \in signatures
      BY <2>4 DEF CompleteCloseArtifact, Signed
    <3>2. WellFormed([tx |-> close.tx, by |-> opening.funding.buyer])
      BY <3>1 DEF AllWellFormed
    <3> QED
      BY <1>0, <3>1, <3>2 DEF WellFormed, Built
  <2> QED
    BY <2>2, <2>3, <2>4
<1>4. CASE ArbitrationStep
  BY <1>0, <1>4 DEF ArbitrationStep, SellerPrepareArbitration, SignPreparedArbitration,
                    CompleteArbitratedPayment, BuildArbitrationPayment, Built
<1>5. CASE TimePasses \/ BlockIsMined
  BY <1>5 DEF TimePasses, BlockIsMined
<1> QED
  BY <1>1, <1>2, <1>3, <1>4, <1>5 DEF Next

LEMMA WellFormedInvariance == Spec => []AllWellFormed
<1>1. Init => AllWellFormed
  BY DEF Init, AllWellFormed
<1>2. Inv /\ AllWellFormed /\ [Next]_vars => AllWellFormed'
  <2> SUFFICES ASSUME Inv, AllWellFormed, [Next]_vars, NEW signature \in signatures'
               PROVE  WellFormed(signature)
    BY DEF AllWellFormed, WellFormed, State
  <2>1. signature \in signatures => WellFormed(signature)
    BY DEF AllWellFormed
  <2>2. UNCHANGED vars => signature \in signatures
    BY DEF vars
  <2> QED
    BY <2>1, <2>2, NewWellFormed
<1> QED
  BY <1>1, <1>2, Invariance, PTL DEF Spec

\* In the calls' own terms: a payment that is signed by anybody is for a state of that very
\* output which buyer and seller, or seller and arbiter, have both signed, and which pays
\* the seller no more.
SignedOnCompleted ==
  \A signature \in signatures :
    signature.tx.seq \in (RefundSequence + 1)..(FinalSequence - 1) /\ signature.tx.arbiter = 0 =>
      \E previous \in Transactions :
        /\ previous.funding = signature.tx.funding /\ previous.seq = signature.tx.seq - 1
        /\ previous.seller =< signature.tx.seller
        /\ VerifyAcceptedPayment(previous) \/ VerifyArbitratedPayment(previous)

LEMMA SignedInEngine ==
  ASSUME Inv, BuiltInv, AllWellFormed, NEW signature \in signatures, NEW role, NEW amount,
         Proved!Signed(role, EngineTx(signature.tx), amount)
  PROVE  \E key : Signed(signature.tx, key) /\ RoleOf(signature.tx.funding, key) = role
                    /\ SignatureOK([tx |-> signature.tx, by |-> key])
<1>1. PICK other \in signatures :
        EngineSignature(other) = [role |-> role, tx |-> EngineTx(signature.tx), amount |-> amount]
  BY DEF Proved!Signed, EngineSignatures
<1>2. EngineTx(other.tx) = EngineTx(signature.tx) /\ RoleOf(other.tx.funding, other.by) = role
  BY <1>1 DEF EngineSignature
<1>3. /\ other.tx.funding = signature.tx.funding /\ other.tx.seq = signature.tx.seq
      /\ other.tx.lock = signature.tx.lock /\ other.tx.seller = signature.tx.seller
      /\ other.tx.arbiter = signature.tx.arbiter
  BY <1>2 DEF EngineTx
<1>4. WellFormed(other) /\ WellFormed(signature) /\ SignatureOK(other)
  BY DEF AllWellFormed, Inv
<1>5. other.tx = signature.tx /\ other = [tx |-> signature.tx, by |-> other.by]
  BY <1>3, <1>4 DEF WellFormed
<1> QED
  BY <1>2, <1>4, <1>5 DEF Signed

\* Whatever was mixed up, retried or arbitrated before.
THEOREM PaymentsAreOnCompletedStates == Spec => []SignedOnCompleted
<1>1. ASSUME Inv, BuiltInv, AllWellFormed, Proved!PaymentsExtendCompleted
      PROVE  SignedOnCompleted
  <2> SUFFICES ASSUME NEW signature \in signatures,
                      signature.tx.seq \in (RefundSequence + 1)..(FinalSequence - 1),
                      signature.tx.arbiter = 0
               PROVE  \E previous \in Transactions :
                        /\ previous.funding = signature.tx.funding
                        /\ previous.seq = signature.tx.seq - 1
                        /\ previous.seller =< signature.tx.seller
                        /\ VerifyAcceptedPayment(previous) \/ VerifyArbitratedPayment(previous)
    BY DEF SignedOnCompleted
  <2>1. PICK below \in {s.tx : s \in EngineSignatures} :
          /\ below.funding = signature.tx.funding /\ below.sequence = signature.tx.seq - 1
          /\ below.seller =< signature.tx.seller
          /\ Proved!Completed(below)
    <3>1. EngineSignature(signature) \in EngineSignatures
      BY DEF EngineSignatures
    <3>2. /\ EngineSignature(signature).tx.sequence = signature.tx.seq
          /\ EngineSignature(signature).tx.arbiter = signature.tx.arbiter
          /\ EngineSignature(signature).tx.funding = signature.tx.funding
          /\ EngineSignature(signature).tx.seller = signature.tx.seller
      BY DEF EngineSignature, EngineTx
    <3> QED
      BY <1>1, <3>1, <3>2 DEF Proved!PaymentsExtendCompleted, Proved!RefundSequence
  <2>2. PICK under \in signatures : below = EngineTx(under.tx)
    BY DEF EngineSignatures, EngineSignature
  <2> DEFINE previous == under.tx
             pool     == [funding \in Pools |-> funding.amount]
  <2>3. /\ previous.funding = signature.tx.funding /\ previous.seq = signature.tx.seq - 1
        /\ previous.seller =< signature.tx.seller /\ previous \in Transactions
    BY <2>1, <2>2 DEF EngineTx, Transactions
  <2>4. /\ Proved!Signed("seller", EngineTx(previous), pool[EngineTx(previous).funding])
        /\ \/ Proved!Signed("buyer", EngineTx(previous), pool[EngineTx(previous).funding])
           \/ Proved!Signed("arbiter", EngineTx(previous), pool[EngineTx(previous).funding])
    BY <2>1, <2>2 DEF Proved!Completed
  <2>5. PICK opening \in Openings : previous.funding = opening.funding
    BY <1>1 DEF BuiltInv, WithinPool, Pools
  <2>6. /\ previous.funding.buyer # previous.funding.seller
        /\ previous.funding.arbiter \notin {previous.funding.buyer, previous.funding.seller}
        /\ previous.arbiter \in Nat
    BY <1>1, <2>5, PoolAssumption DEF BuiltInv, WithinPool
  <2>7. Signed(previous, previous.funding.seller)
    <3>1. PICK key : Signed(previous, key) /\ RoleOf(previous.funding, key) = "seller"
      BY <1>1, <2>4, SignedInEngine
    <3> QED
      BY <2>6, <3>1 DEF RoleOf
  <2>8. \/ Signed(previous, previous.funding.buyer) /\ previous.arbiter = 0
        \/ Signed(previous, previous.funding.arbiter) /\ previous.arbiter > 0
    <3>1. PICK key : /\ Signed(previous, key)
                     /\ RoleOf(previous.funding, key) \in {"buyer", "arbiter"}
                     /\ SignatureOK([tx |-> previous, by |-> key])
      BY <1>1, <2>4, SignedInEngine
    <3>2. key # previous.funding.seller
      BY <2>6, <3>1 DEF RoleOf
    <3> QED
      BY <3>1, <3>2 DEF SignatureOK
  <2> QED
    BY <2>3, <2>7, <2>8 DEF VerifyAcceptedPayment, VerifyArbitratedPayment
<1> QED
  BY <1>1, Invariance, BuiltInvariance, WellFormedInvariance, CallsInheritEngine, PTL
=============================================================================
