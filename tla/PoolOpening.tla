----------------------------- MODULE PoolOpening -----------------------------
(***************************************************************************)
(* Opening a fee pool (Kinds 2, 3 and 4): the buyer signs a refund template  *)
(* and keeps the funding transaction, the seller signs the same template,    *)
(* and only then does the buyer hand the funding transaction over, for the   *)
(* seller to verify and its application to broadcast.                        *)
(*                                                                          *)
(* As in FeePool the variables are the evidence that exists, and it only     *)
(* grows: messages are lost, repeated and reordered freely, each call may    *)
(* be made again after a crash, with any evidence saved before, and an       *)
(* opening may be retried with another locktime or fee rate for the same     *)
(* funding transaction.  The role keys are fixed by the funding output.      *)
(***************************************************************************)
EXTENDS Naturals, FiniteSets

CONSTANTS
  Fundings,     \* the funding transactions of the buyer, by id
  Amount,       \* [Fundings -> Nat]: satoshis in output 0
  Locks,        \* the locktimes the buyer may choose
  Fees,         \* the refund's miner fee, under each rate the buyer may choose
  MaxTime,      \* bound of the clock
  MaxOpenings   \* bound on the openings prepared

ASSUME FundingAssumption == Amount \in [Fundings -> Nat] /\ Fees \subseteq Nat
ASSUME LockAssumption ==
  /\ Locks \subseteq Nat /\ MaxTime \in Nat /\ MaxOpenings \in Nat
  /\ \A lock \in Locks : lock =< MaxTime

VARIABLES
  now,         \* Facts.Now / Facts.BlockHeight, one clock for both
  requests,    \* Kind 2: [template, fee], signed by the buyer
  responses,   \* Kind 3: [id, amount], what the seller's signature covers
  buyerPools,  \* the proofs CompleteOpening returned to the buyer
  deliveries,  \* Kind 4: [id, funding]
  sellerPools, \* the proofs VerifyFunding returned to the seller
  refunds,     \* the refund templates completed for the chain
  funded,      \* the funding transactions on the chain
  spent        \* those whose pool output a refund has spent

messages == <<requests, responses, deliveries>>
vars == <<now, messages, buyerPools, sellerPools, refunds, funded, spent>>

-----------------------------------------------------------------------------
(* Data and checks *)

\* The unsigned refund: its id is RefundTemplateTxID.  The fee rate is not in it.
Template == [funding : Fundings, lock : Locks, out : Nat]
Request  == [template : Template, fee : Fees]

\* The pool amount is derived from the refund's buyer output and the fee.
PoolAmount(request) == request.template.out + request.fee

VerifyFundingTx(funding, request) ==
  /\ funding = request.template.funding
  /\ Amount[funding] = PoolAmount(request)

\* Faulty form: takes any signature of the seller for the pool's.
BuildOpeningProof_AnySignature(request, response) == response.amount = PoolAmount(request)

\* The two signatures cover one template and one amount.
BuildOpeningProof(request, response) ==
  /\ response.id = request.template
  /\ response.amount = PoolAmount(request)

Proof(request, funding) ==
  [template |-> request.template, fee |-> request.fee, funding |-> funding]

VerifyOpening(proof) ==
  /\ VerifyFundingTx(proof.funding, proof)
  /\ \E response \in responses : BuildOpeningProof(proof, response)

-----------------------------------------------------------------------------
Init ==
  /\ now = 0
  /\ requests = {} /\ responses = {} /\ deliveries = {}
  /\ buyerPools = {} /\ sellerPools = {}
  /\ refunds = {} /\ funded = {} /\ spent = {}

(* Buyer *)

\* Faulty form: leaves the refund's fee to be found out later.
PrepareOpening_NoFeeCheck(funding, lock, fee) ==
  /\ Cardinality(requests) < MaxOpenings
  /\ lock # 0
  /\ requests' = requests \cup
       {[template |-> [funding |-> funding, lock |-> lock, out |-> Amount[funding] - fee],
         fee      |-> fee]}
  /\ UNCHANGED <<now, responses, deliveries, buyerPools, sellerPools, refunds,
                 funded, spent>>

PrepareOpening(funding, lock, fee) ==
  /\ Cardinality(requests) < MaxOpenings
  /\ lock # 0
  /\ Amount[funding] > 0 /\ fee =< Amount[funding]
  /\ requests' = requests \cup
       {[template |-> [funding |-> funding, lock |-> lock, out |-> Amount[funding] - fee],
         fee      |-> fee]}
  /\ UNCHANGED <<now, responses, deliveries, buyerPools, sellerPools, refunds,
                 funded, spent>>

CompleteOpening(request, funding, response) ==
  /\ VerifyFundingTx(funding, request)
  /\ BuildOpeningProof(request, response)
  /\ buyerPools' = buyerPools \cup {Proof(request, funding)}
  /\ UNCHANGED <<now, messages, sellerPools, refunds, funded, spent>>

\* Faulty form: packs the funding transaction the buyer saved with its Kind 2.
PrepareFundingDelivery_Unsecured ==
  \E request \in requests :
    /\ deliveries' = deliveries \cup
         {[id |-> request.template, funding |-> request.template.funding]}
    /\ UNCHANGED <<now, requests, responses, buyerPools, sellerPools, refunds,
                   funded, spent>>

PrepareFundingDelivery ==
  \E proof \in buyerPools :
    /\ VerifyOpening(proof)
    /\ deliveries' = deliveries \cup {[id |-> proof.template, funding |-> proof.funding]}
    /\ UNCHANGED <<now, requests, responses, buyerPools, sellerPools, refunds,
                   funded, spent>>

\* Faulty form: refuses the refund at its locktime and after.
BuildMaturedRefund_WrongGate(proof) ==
  /\ VerifyOpening(proof)
  /\ now < proof.template.lock
  /\ refunds' = refunds \cup {proof.template}
  /\ UNCHANGED <<now, messages, buyerPools, sellerPools, funded, spent>>

BuildMaturedRefund(proof) ==
  /\ VerifyOpening(proof)
  /\ now >= proof.template.lock
  /\ refunds' = refunds \cup {proof.template}
  /\ UNCHANGED <<now, messages, buyerPools, sellerPools, funded, spent>>

(* Seller *)

\* No clock, no price and no funding transaction: only the template's own terms.
PreparePresign(request) ==
  /\ responses' = responses \cup
       {[id |-> request.template, amount |-> PoolAmount(request)]}
  /\ UNCHANGED <<now, requests, deliveries, buyerPools, sellerPools, refunds,
                 funded, spent>>

\* Faulty form: does not ask which pool the delivery is for.
VerifyFunding_NoCorrelation(request, response, delivery) ==
  /\ BuildOpeningProof(request, response)
  /\ VerifyFundingTx(delivery.funding, request)
  /\ sellerPools' = sellerPools \cup {Proof(request, delivery.funding)}
  /\ UNCHANGED <<now, messages, buyerPools, refunds, funded, spent>>

\* The request and the response are the pair the seller saved in PreparePresign,
\* in the way its application stored it: the SDK checks that they belong together.
VerifyFunding(request, response, delivery) ==
  /\ BuildOpeningProof(request, response)
  /\ delivery.id = request.template
  /\ VerifyFundingTx(delivery.funding, request)
  /\ sellerPools' = sellerPools \cup {Proof(request, delivery.funding)}
  /\ UNCHANGED <<now, messages, buyerPools, refunds, funded, spent>>

(* The node and the clock *)

\* The seller's application broadcasts what VerifyFunding returned.
NodeFunds(proof) ==
  /\ funded' = funded \cup {proof.funding}
  /\ UNCHANGED <<now, messages, buyerPools, sellerPools, refunds, spent>>

NodeMinesRefund(template) ==
  /\ template.funding \in funded \ spent
  /\ now >= template.lock
  /\ spent' = spent \cup {template.funding}
  /\ UNCHANGED <<now, messages, buyerPools, sellerPools, refunds, funded>>

Tick ==
  /\ now < MaxTime
  /\ now' = now + 1
  /\ UNCHANGED <<messages, buyerPools, sellerPools, refunds, funded, spent>>

Next ==
  \/ \E funding \in Fundings, lock \in Locks, fee \in Fees :
        PrepareOpening(funding, lock, fee)
  \/ \E request \in requests, funding \in Fundings, response \in responses :
        CompleteOpening(request, funding, response)
  \/ PrepareFundingDelivery
  \/ \E proof \in buyerPools : BuildMaturedRefund(proof)
  \/ \E request \in requests : PreparePresign(request)
  \/ \E request \in requests, response \in responses, delivery \in deliveries :
        VerifyFunding(request, response, delivery)
  \/ \E proof \in sellerPools : NodeFunds(proof)
  \/ \E template \in refunds : NodeMinesRefund(template)
  \/ Tick

Spec == Init /\ [][Next]_vars

\* Time passes, the buyer's application submits every refund that matures, and
\* miners mine.  The seller, and the opening itself, may stop at any point.
FairSpec ==
  /\ Spec
  /\ WF_vars(Tick)
  /\ WF_vars(\E proof \in buyerPools : BuildMaturedRefund(proof))
  /\ WF_vars(\E template \in refunds : NodeMinesRefund(template))

-----------------------------------------------------------------------------
(* Properties *)

\* Every variable keeps its type; only what is on the chain can be spent.
TypeOK ==
  /\ now \in 0..MaxTime
  /\ requests \subseteq Request
  /\ responses \subseteq [id : Template, amount : Nat]
  /\ deliveries \subseteq [id : Template, funding : Fundings]
  /\ buyerPools \subseteq [template : Template, fee : Fees, funding : Fundings]
  /\ sellerPools \subseteq [template : Template, fee : Fees, funding : Fundings]
  /\ refunds \subseteq Template
  /\ funded \subseteq Fundings
  /\ spent \subseteq funded

\* The buyer holds a refund of this funding transaction, whole, signed by both.
Refundable(funding) ==
  \E proof \in buyerPools :
    /\ proof.funding = funding /\ proof.template.funding = funding
    /\ proof.template.out + proof.fee = Amount[funding]
    /\ [id |-> proof.template, amount |-> Amount[funding]] \in responses

\* The buyer's funding transaction leaves it only with a refund in its hands:
\* "buyer obtains refund guarantee, then hands over funding transaction".
HandedOverIsRefundable ==
  \A delivery \in deliveries : Refundable(delivery.funding)

\* A pool the seller takes for opened is one the buyer has opened: the same
\* template, funding transaction and fee rate, although an opening may have been
\* prepared several times for one funding transaction and the seller answers each.
PoolsAgree == sellerPools \subseteq buyerPools

\* Money that goes into a pool comes out of it again, although the seller may
\* never answer after the funding transaction is on the chain.
FundedIsSpent == \A funding \in Fundings : funding \in funded ~> funding \in spent

\* How the openings hang together (the inductive invariant of the proofs).
ProofsAreComplete ==
  \A proof \in buyerPools :
    /\ proof.template.funding = proof.funding
    /\ proof.template.out + proof.fee = Amount[proof.funding]
    /\ [id |-> proof.template, amount |-> Amount[proof.funding]] \in responses

DeliveriesFollowProofs ==
  \A delivery \in deliveries :
    \E proof \in buyerPools :
      proof.template = delivery.id /\ proof.funding = delivery.funding

SellerPoolsWereDelivered ==
  \A proof \in sellerPools : \E delivery \in deliveries : delivery.funding = proof.funding

OpeningInv ==
  /\ ProofsAreComplete
  /\ DeliveriesFollowProofs
  /\ SellerPoolsWereDelivered
  /\ PoolsAgree

\* What the exchange promises the buyer, without messages.
Secured    == {funding \in Fundings : Refundable(funding)}
HandedOver == {delivery.funding : delivery \in deliveries}
Promise == INSTANCE RefundBeforeFunding WITH secured <- Secured, handed <- HandedOver

\* Refund first, then hand-over, then the chain, in that order for each funding
\* transaction and under every interleaving of the three messages.
ImplementsPromise == Promise!Spec
=============================================================================
