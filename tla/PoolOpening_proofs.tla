-------------------------- MODULE PoolOpening_proofs --------------------------
(***************************************************************************)
(* The theorems of PoolOpening.  OpeningInv says what each message and proof *)
(* was made from; with the types it is inductive, and everything the buyer   *)
(* is promised follows from it.                                              *)
(***************************************************************************)
EXTENDS PoolOpening, TLAPS

USE FundingAssumption, LockAssumption DEF messages, FundingAssumption, LockAssumption

\* A step keeps the types.
LEMMA TypeStep == TypeOK /\ [Next]_vars => TypeOK'
<1> SUFFICES ASSUME TypeOK, [Next]_vars PROVE TypeOK'
  OBVIOUS
<1> USE DEF TypeOK
<1>1. ASSUME NEW funding \in Fundings, NEW lock \in Locks, NEW fee \in Fees,
             PrepareOpening(funding, lock, fee)
      PROVE  TypeOK'
  BY <1>1 DEF PrepareOpening, Request, Template
<1>2. ASSUME NEW request \in requests, NEW funding \in Fundings,
             NEW response \in responses, CompleteOpening(request, funding, response)
      PROVE  TypeOK'
  BY <1>2 DEF CompleteOpening, Proof, Request
<1>3. CASE PrepareFundingDelivery
  BY <1>3 DEF PrepareFundingDelivery
<1>4. ASSUME NEW proof \in buyerPools, BuildMaturedRefund(proof)
      PROVE  TypeOK'
  BY <1>4 DEF BuildMaturedRefund
<1>5. ASSUME NEW request \in requests, PreparePresign(request)
      PROVE  TypeOK'
  <2>1. /\ request.template \in Template /\ request.template.out \in Nat
        /\ request.fee \in Nat
    BY DEF Request, Template
  <2>2. PoolAmount(request) \in Nat
    BY <2>1 DEF PoolAmount
  <2>3. [id |-> request.template, amount |-> PoolAmount(request)]
          \in [id : Template, amount : Nat]
    BY <2>1, <2>2
  <2> QED
    BY <1>5, <2>3 DEF PreparePresign
<1>6. ASSUME NEW request \in requests, NEW response \in responses,
             NEW delivery \in deliveries, VerifyFunding(request, response, delivery)
      PROVE  TypeOK'
  BY <1>6 DEF VerifyFunding, Proof, Request
<1>7. ASSUME NEW proof \in sellerPools, NodeFunds(proof)
      PROVE  TypeOK'
  BY <1>7 DEF NodeFunds
<1>8. ASSUME NEW template \in refunds, NodeMinesRefund(template)
      PROVE  TypeOK'
  BY <1>8 DEF NodeMinesRefund, Template
<1>9. CASE Tick
  BY <1>9 DEF Tick
<1>10. CASE UNCHANGED vars
  BY <1>10 DEF vars
<1> QED
  BY <1>1, <1>2, <1>3, <1>4, <1>5, <1>6, <1>7, <1>8, <1>9, <1>10 DEF Next

\* Every variable keeps its type for all fundings, locktimes and fee rates.
THEOREM OpeningTypeCorrect == Spec => []TypeOK
<1>1. Init => TypeOK
  BY DEF Init, TypeOK
<1>2. TypeOK /\ [Next]_vars => TypeOK'
  BY TypeStep
<1> QED
  BY <1>1, <1>2, PTL DEF Spec

\* A step keeps what each message and proof was made from.
LEMMA OpeningStep == TypeOK /\ OpeningInv /\ [Next]_vars => OpeningInv'
<1> SUFFICES ASSUME TypeOK, OpeningInv, [Next]_vars PROVE OpeningInv'
  OBVIOUS
<1> USE DEF OpeningInv, ProofsAreComplete, DeliveriesFollowProofs,
            SellerPoolsWereDelivered, PoolsAgree
<1>1. ASSUME NEW funding \in Fundings, NEW lock \in Locks, NEW fee \in Fees,
             PrepareOpening(funding, lock, fee)
      PROVE  OpeningInv'
  BY <1>1 DEF PrepareOpening
<1>2. ASSUME NEW request \in requests, NEW funding \in Fundings,
             NEW response \in responses, CompleteOpening(request, funding, response)
      PROVE  OpeningInv'
  <2>1. /\ response = [id |-> request.template, amount |-> Amount[funding]]
        /\ request.template.funding = funding
        /\ request.template.out + request.fee = Amount[funding]
    BY <1>2 DEF CompleteOpening, BuildOpeningProof, VerifyFundingTx, PoolAmount,
                TypeOK
  <2>2. ProofsAreComplete'
    BY <1>2, <2>1 DEF CompleteOpening, Proof
  <2> QED
    BY <1>2, <2>2 DEF CompleteOpening
<1>3. CASE PrepareFundingDelivery
  BY <1>3 DEF PrepareFundingDelivery
<1>4. ASSUME NEW proof \in buyerPools, BuildMaturedRefund(proof)
      PROVE  OpeningInv'
  BY <1>4 DEF BuildMaturedRefund
<1>5. ASSUME NEW request \in requests, PreparePresign(request)
      PROVE  OpeningInv'
  BY <1>5 DEF PreparePresign
<1>6. ASSUME NEW request \in requests, NEW response \in responses,
             NEW delivery \in deliveries, VerifyFunding(request, response, delivery)
      PROVE  OpeningInv'
  <2>1. PICK proof \in buyerPools :
           proof.template = delivery.id /\ proof.funding = delivery.funding
    OBVIOUS
  <2>2. proof = Proof(request, delivery.funding)
    \* The correlation id fixes the template, and the amount fixes the fee.
    <3>1. proof.template = request.template
      BY <1>6, <2>1 DEF VerifyFunding
    <3>2. /\ request.template.out + request.fee = Amount[delivery.funding]
          /\ proof.template.out + proof.fee = Amount[delivery.funding]
      BY <1>6, <2>1 DEF VerifyFunding, VerifyFundingTx, PoolAmount
    <3>3. proof.fee = request.fee
      <4>1. request.template.out \in Nat /\ request.fee \in Nat /\ proof.fee \in Nat
        BY DEF TypeOK, Request, Template
      <4> QED
        BY <3>1, <3>2, <4>1
    <3> QED
      BY <2>1, <3>1, <3>3 DEF Proof, TypeOK
  <2>3. Proof(request, delivery.funding).funding = delivery.funding
    BY DEF Proof
  <2> QED
    BY <1>6, <2>2, <2>3 DEF VerifyFunding
<1>7. ASSUME NEW proof \in sellerPools, NodeFunds(proof)
      PROVE  OpeningInv'
  BY <1>7 DEF NodeFunds
<1>8. ASSUME NEW template \in refunds, NodeMinesRefund(template)
      PROVE  OpeningInv'
  BY <1>8 DEF NodeMinesRefund
<1>9. CASE Tick
  BY <1>9 DEF Tick
<1>10. CASE UNCHANGED vars
  BY <1>10 DEF vars
<1> QED
  BY <1>1, <1>2, <1>3, <1>4, <1>5, <1>6, <1>7, <1>8, <1>9, <1>10 DEF Next

\* Each proof carries both signatures over its own template and amount, each
\* delivery comes from a proof of the buyer's, and each seller pool is one.
THEOREM OpeningsHangTogether == Spec => []OpeningInv
<1>1. Init => OpeningInv
  BY DEF Init, OpeningInv, ProofsAreComplete, DeliveriesFollowProofs,
         SellerPoolsWereDelivered, PoolsAgree
<1>2. TypeOK /\ OpeningInv /\ [Next]_vars => OpeningInv'
  BY OpeningStep
<1> QED
  BY <1>1, <1>2, OpeningTypeCorrect, PTL DEF Spec

\* However often an opening is retried, the seller's pool is one of the buyer's.
THEOREM PoolsAreShared == Spec => []PoolsAgree
<1>1. OpeningInv => PoolsAgree
  BY DEF OpeningInv
<1> QED
  BY <1>1, OpeningsHangTogether, PTL

\* The funding transaction leaves the buyer only once it holds its refund.
THEOREM HandOverIsSafe == Spec => []HandedOverIsRefundable
<1>1. OpeningInv => HandedOverIsRefundable
  BY DEF OpeningInv, ProofsAreComplete, DeliveriesFollowProofs,
         HandedOverIsRefundable, Refundable
<1> QED
  BY <1>1, OpeningsHangTogether, PTL

\* The exchange of messages refines the promise made to the buyer.
THEOREM OpeningImplementsPromise == Spec => ImplementsPromise
<1>1. Init => Promise!Init
  BY DEF Init, Promise!Init, Secured, HandedOver, Refundable
<1>2. TypeOK /\ OpeningInv /\ [Next]_vars => [Promise!Next]_(Promise!vars)
  <2> SUFFICES ASSUME TypeOK, OpeningInv, [Next]_vars
               PROVE  Promise!Next \/ UNCHANGED <<Secured, HandedOver, funded, spent>>
    BY DEF Promise!vars
  <2> USE DEF Promise!Next, Promise!Secure, Promise!HandOver, Promise!Fund, Promise!Spend
  \* Every proof the buyer holds is whole, so it has secured what it has proofs of.
  <2>1. Secured = {proof.funding : proof \in buyerPools}
    BY DEF OpeningInv, ProofsAreComplete, Secured, Refundable, TypeOK
  <2>2. OpeningInv' /\ TypeOK'
    BY TypeStep, OpeningStep
  <2>3. Secured' = {proof.funding : proof \in buyerPools'}
    BY <2>2 DEF OpeningInv, ProofsAreComplete, Secured, Refundable, TypeOK
  <2>4. ASSUME NEW funding \in Fundings, NEW lock \in Locks, NEW fee \in Fees,
               PrepareOpening(funding, lock, fee)
        PROVE  UNCHANGED <<Secured, HandedOver, funded, spent>>
    BY <2>4, <2>1, <2>3 DEF PrepareOpening, HandedOver
  <2>5. ASSUME NEW request \in requests, NEW funding \in Fundings,
               NEW response \in responses, CompleteOpening(request, funding, response)
        PROVE  Promise!Secure(funding)
    <3>1. PICK proof : proof.funding = funding /\ buyerPools' = buyerPools \cup {proof}
      BY <2>5 DEF CompleteOpening, Proof
    <3>2. Secured' = Secured \cup {funding}
      BY <3>1, <2>1, <2>3
    <3>3. UNCHANGED <<HandedOver, funded, spent>>
      BY <2>5 DEF CompleteOpening, HandedOver
    <3> QED
      BY <3>2, <3>3
  <2>6. CASE PrepareFundingDelivery
    <3>1. PICK proof \in buyerPools :
             /\ deliveries' = deliveries \cup
                  {[id |-> proof.template, funding |-> proof.funding]}
             /\ UNCHANGED <<buyerPools, funded, spent>>
      BY <2>6 DEF PrepareFundingDelivery
    <3>2. HandedOver' = HandedOver \cup {proof.funding}
      <4>1. PICK delivery :
               /\ delivery.funding = proof.funding
               /\ deliveries' = deliveries \cup {delivery}
        BY <3>1
      <4> QED
        BY <4>1 DEF HandedOver
    <3>3. proof.funding \in Secured
      BY <2>1
    <3>4. UNCHANGED <<Secured, funded, spent>>
      BY <3>1, <2>1, <2>3
    <3>5. Promise!HandOver(proof.funding) /\ proof.funding \in Fundings
      BY <3>2, <3>3, <3>4 DEF TypeOK
    <3> QED
      BY <3>5
  <2>7. ASSUME NEW proof \in buyerPools, BuildMaturedRefund(proof)
        PROVE  UNCHANGED <<Secured, HandedOver, funded, spent>>
    BY <2>7, <2>1, <2>3 DEF BuildMaturedRefund, HandedOver
  <2>8. ASSUME NEW request \in requests, PreparePresign(request)
        PROVE  UNCHANGED <<Secured, HandedOver, funded, spent>>
    BY <2>8, <2>1, <2>3 DEF PreparePresign, HandedOver
  <2>9. ASSUME NEW request \in requests, NEW response \in responses,
               NEW delivery \in deliveries, VerifyFunding(request, response, delivery)
        PROVE  UNCHANGED <<Secured, HandedOver, funded, spent>>
    BY <2>9, <2>1, <2>3 DEF VerifyFunding, HandedOver
  <2>10. ASSUME NEW proof \in sellerPools, NodeFunds(proof)
         PROVE  Promise!Fund(proof.funding) /\ proof.funding \in Fundings
    <3>1. proof.funding \in HandedOver
      BY DEF OpeningInv, SellerPoolsWereDelivered, HandedOver
    <3> QED
      BY <3>1, <2>10, <2>1, <2>3 DEF NodeFunds, TypeOK, HandedOver
  <2>11. ASSUME NEW template \in refunds, NodeMinesRefund(template)
         PROVE  Promise!Spend(template.funding) /\ template.funding \in Fundings
    BY <2>11, <2>1, <2>3 DEF NodeMinesRefund, TypeOK, Template, HandedOver
  <2>12. CASE Tick
    BY <2>12, <2>1, <2>3 DEF Tick, HandedOver
  <2>13. CASE UNCHANGED vars
    BY <2>13, <2>1, <2>3 DEF vars, HandedOver
  <2> QED
    BY <2>4, <2>5, <2>6, <2>7, <2>8, <2>9, <2>10, <2>11, <2>12, <2>13 DEF Next
<1> QED
  BY <1>1, <1>2, OpeningTypeCorrect, OpeningsHangTogether, PTL DEF Spec, ImplementsPromise, Promise!Spec

-----------------------------------------------------------------------------
(* No opening is a dead end: what the fairness of FundedIsSpent rests on *)

\* What is on the chain was handed over before.
FundedWasHandedOver == \A funding \in funded : \E delivery \in deliveries : delivery.funding = funding

\* Only a delivery that was made is ever broadcast.
LEMMA HandedOverFirst == Spec => []FundedWasHandedOver
<1>1. Init => FundedWasHandedOver
  BY DEF Init, FundedWasHandedOver
<1>2. OpeningInv /\ FundedWasHandedOver /\ [Next]_vars => FundedWasHandedOver'
  <2> SUFFICES ASSUME OpeningInv, FundedWasHandedOver, [Next]_vars PROVE FundedWasHandedOver'
    OBVIOUS
  <2>1. deliveries \subseteq deliveries'
    BY DEF Next, PrepareOpening, CompleteOpening, PrepareFundingDelivery, BuildMaturedRefund,
           PreparePresign, VerifyFunding, NodeFunds, NodeMinesRefund, Tick, vars
  <2>2. \/ funded' = funded
        \/ \E proof \in sellerPools : funded' = funded \cup {proof.funding}
    BY DEF Next, PrepareOpening, CompleteOpening, PrepareFundingDelivery, BuildMaturedRefund,
           PreparePresign, VerifyFunding, NodeFunds, NodeMinesRefund, Tick, vars
  <2> QED
    BY <2>1, <2>2 DEF FundedWasHandedOver, OpeningInv, SellerPoolsWereDelivered
<1> QED
  BY <1>1, <1>2, OpeningsHangTogether, PTL DEF Spec

\* While a funded output is unspent the clock can still go on, or a refund of it can be
\* completed that was not, or one that was can be mined: no seller's answer is needed, and
\* no locktime lies beyond reach.
RefundIsOpen ==
  \A funding \in funded \ spent :
    \/ now < MaxTime
    \/ \E proof \in buyerPools :
         /\ proof.template.funding = funding /\ proof.template \notin refunds
         /\ VerifyOpening(proof) /\ now >= proof.template.lock
    \/ \E template \in refunds : template.funding = funding /\ now >= template.lock

\* No opening ends where the buyer's money stays in the pool (buyer.BuildMaturedRefund on the
\* proof that PrepareFundingDelivery asked for).
THEOREM RefundStaysOpen == Spec => []RefundIsOpen
<1>1. ASSUME TypeOK, OpeningInv, FundedWasHandedOver, NEW funding \in funded, now = MaxTime
      PROVE  \E proof \in buyerPools :
               /\ proof.template.funding = funding
               /\ VerifyOpening(proof) /\ now >= proof.template.lock
  <2>1. PICK delivery \in deliveries : delivery.funding = funding
    BY <1>1 DEF FundedWasHandedOver
  <2>2. PICK proof \in buyerPools : proof.funding = funding
    BY <1>1, <2>1 DEF OpeningInv, DeliveriesFollowProofs
  <2>3. /\ proof.template.funding = proof.funding
        /\ proof.template.out + proof.fee = Amount[proof.funding]
        /\ [id |-> proof.template, amount |-> Amount[proof.funding]] \in responses
    BY <1>1 DEF OpeningInv, ProofsAreComplete
  <2>4. VerifyOpening(proof)
    BY <2>3 DEF VerifyOpening, VerifyFundingTx, BuildOpeningProof, PoolAmount
  <2>5. proof.template.lock \in Locks
    BY <1>1 DEF TypeOK, Template
  <2> QED
    BY <1>1, <2>2, <2>3, <2>4, <2>5
<1>2. ASSUME TypeOK, OpeningInv, FundedWasHandedOver
      PROVE  RefundIsOpen
  <2> SUFFICES ASSUME NEW funding \in funded, ~(now < MaxTime)
               PROVE  \/ \E proof \in buyerPools :
                           /\ proof.template.funding = funding /\ proof.template \notin refunds
                           /\ VerifyOpening(proof) /\ now >= proof.template.lock
                      \/ \E template \in refunds : template.funding = funding /\ now >= template.lock
    BY DEF RefundIsOpen
  <2>1. now = MaxTime
    BY <1>2 DEF TypeOK
  <2>2. PICK proof \in buyerPools :
          /\ proof.template.funding = funding
          /\ VerifyOpening(proof) /\ now >= proof.template.lock
    BY <1>1, <1>2, <2>1
  <2> QED
    BY <2>2
<1> QED
  BY <1>2, OpeningTypeCorrect, OpeningsHangTogether, HandedOverFirst, PTL

=============================================================================
