---------------------------- MODULE FeePool_proofs ----------------------------
(* Theorems about FeePool for every value of its constants. *)
EXTENDS FeePool, NaturalLemmas, TLAPS

LEMMA SpendableNat == Spendable \in Nat /\ Spendable =< PoolOutput
BY AmountAssumption DEF Spendable

\* Type correctness: whatever call is made on whatever evidence.
THEOREM TypeCorrect == Spec => []TypeOK
<1> USE BatchAssumption, AmountAssumption, SequenceAssumption, TimeAssumption
<1>1. Init => TypeOK
  BY DEF Init, TypeOK, State, Refund, RefundSequence
<1>2. ASSUME TypeOK, [Next]_vars PROVE TypeOK'
  <2> USE <1>2 DEF TypeOK
  <2>1. ASSUME NEW previous \in BuyerView, NEW batch \in Batches,
               NEW deadline \in Deadlines, RequestContent(previous, batch, deadline)
        PROVE  TypeOK'
    BY <2>1 DEF RequestContent, BuyerView, Authorization, State, chain
  <2>2. ASSUME NEW a \in requests, NEW previous \in BuyerView,
               VerifyDeliveryAndPreparePayment(a, previous)
        PROVE  TypeOK'
    BY <2>2 DEF VerifyDeliveryAndPreparePayment, chain
  <2>3. ASSUME NEW base \in BuyerView, NEW target \in CloseTargets,
               PrepareClose(base, target)
        PROVE  TypeOK'
    BY <2>3 DEF PrepareClose, FinalState, State, chain
  <2>4. CASE BuildMaturedRefund
    BY <2>4 DEF BuildMaturedRefund, Refund, RefundSequence, State, chain, messages
  <2>5. ASSUME NEW a \in requests, NEW previous \in SellerView, DeliverContent(a, previous)
        PROVE  TypeOK'
    BY <2>5 DEF DeliverContent, chain
  <2>6. ASSUME NEW a \in requests, NEW previous \in SellerView, CompletePayment(a, previous)
        PROVE  TypeOK'
    BY <2>6 DEF CompletePayment, PaymentState, Authorization, State, chain, messages
  <2>7. ASSUME NEW a \in requests, SellerPrepareArbitration(a)
        PROVE  TypeOK'
    BY <2>7 DEF SellerPrepareArbitration, chain
  <2>8. ASSUME NEW award \in prepared, CompleteArbitratedPayment(award)
        PROVE  TypeOK'
    <3>1. award.auth \in Authorization /\ award.fee \in Nat
      BY AmountAssumption
    <3>2. ArbitratedState(award) \in State
      BY <3>1 DEF ArbitratedState, Authorization, State
    <3> QED
      BY <2>8, <3>2 DEF CompleteArbitratedPayment, chain, messages
  <2>9. ASSUME NEW final \in closes, NEW own \in SellerView, CompleteClose(final, own)
        PROVE  TypeOK'
    BY <2>9 DEF CompleteClose, chain, messages
  <2>10. ASSUME NEW a \in requests, NEW fee \in ArbiterFees, ArbiterPrepareArbitration(a, fee)
         PROVE  TypeOK'
    BY <2>10 DEF ArbiterPrepareArbitration, chain
  <2>11. ASSUME NEW award \in prepared, SignPreparedArbitration(award)
         PROVE  TypeOK'
    BY <2>11 DEF SignPreparedArbitration, chain
  <2>12. ASSUME NEW state \in complete, NodeAccepts(state)
         PROVE  TypeOK'
    BY <2>12 DEF NodeAccepts, messages
  <2>13. CASE NodeMines
    BY <2>13 DEF NodeMines, messages
  <2>14. CASE Tick
    BY <2>14 DEF Tick, messages, chain
  <2>15. CASE Settled \/ UNCHANGED vars
    BY <2>15 DEF Settled, vars, messages, chain
  <2> QED
    BY <1>2, <2>1, <2>2, <2>3, <2>4, <2>5, <2>6, <2>7, <2>8, <2>9, <2>10,
       <2>11, <2>12, <2>13, <2>14, <2>15 DEF Next, Buyer, Seller, Arbiter, Node
<1> QED
  BY <1>1, <1>2, PTL DEF Spec

\* A completed state that is neither the refund nor a close pays a delivered
\* authorization, which extends by one batch a state the node has held.
LEMMA OriginOfComplete ==
  ASSUME TypeOK, EvidenceInv, NEW state \in complete,
         state.seq # RefundSequence, state.seq # FinalSequence
  PROVE  \E a \in deliveries, p \in accepted :
           /\ a.seq = state.seq /\ a.after = state.seller
           /\ VerifyAcceptedPayment(p)
           /\ a.seq = p.seq + 1 /\ a.after = p.seller + Price[a.batch]
<1> USE DEF EvidenceInv
<1>1. \E a \in deliveries : a.seq = state.seq /\ a.after = state.seller
  <2>1. state # Refund /\ state \notin closes
    BY DEF Refund, MessagesFollow, FinalState
  <2>2. CASE \E a \in updates : state = PaymentState(a)
    BY <2>2 DEF PaymentState, MessagesFollow
  <2>3. CASE \E award \in receipts : state = ArbitratedState(award)
    BY <2>3 DEF ArbitratedState, MessagesFollow, TypeOK
  <2> QED BY <2>1, <2>2, <2>3 DEF CompleteFollows
<1> QED BY <1>1 DEF RequestsExtendTheChain, TypeOK

\* A completed state at the final sequence is a close the buyer signed.
LEMMA FinalIsClose ==
  ASSUME TypeOK, EvidenceInv, NEW t \in complete, t.seq = FinalSequence
  PROVE  t \in closes
<1>1. t # Refund
  BY SequenceAssumption DEF Refund, RefundSequence
<1>2. \A a \in updates : t # PaymentState(a)
  BY SequenceAssumption DEF EvidenceInv, RequestsExtendTheChain, PaymentState, TypeOK
<1>3. \A award \in receipts : t # ArbitratedState(award)
  BY SequenceAssumption DEF EvidenceInv, RequestsExtendTheChain, ArbitratedState, TypeOK
<1> QED BY <1>1, <1>2, <1>3 DEF EvidenceInv, CompleteFollows

\* Only the node moves the head, to a completed state above it.
LEMMA HeadMoves ==
  ASSUME [Next]_vars, head' # head
  PROVE  /\ head' \in complete /\ head'.seq > head.seq /\ status = "open"
         /\ accepted' = accepted \cup {head'}
         /\ UNCHANGED <<now, messages, complete, status>>
BY DEF Next, Buyer, Seller, Arbiter, Node, RequestContent,
   VerifyDeliveryAndPreparePayment, PrepareClose, BuildMaturedRefund, DeliverContent,
   CompletePayment, SellerPrepareArbitration, CompleteArbitratedPayment, CompleteClose,
   ArbiterPrepareArbitration, SignPreparedArbitration, NodeAccepts, NodeMines, Tick,
   Settled, vars, messages, chain

\* Messages and completed transactions are never taken back.
LEMMA MessagesGrow ==
  ASSUME [Next]_vars
  PROVE  /\ requests \subseteq requests'
         /\ deliveries \subseteq deliveries'
         /\ claims \subseteq claims'
         /\ receipts \subseteq receipts'
         /\ complete \subseteq complete'
<1>1. CASE Buyer
  BY <1>1 DEF Buyer, RequestContent, VerifyDeliveryAndPreparePayment, PrepareClose,
              BuildMaturedRefund, messages
<1>2. CASE Seller
  BY <1>2 DEF Seller, DeliverContent, CompletePayment, SellerPrepareArbitration,
              CompleteArbitratedPayment, CompleteClose, messages
<1>3. CASE Arbiter
  BY <1>3 DEF Arbiter, ArbiterPrepareArbitration, SignPreparedArbitration
<1>4. CASE Node \/ Tick
  BY <1>4 DEF Node, NodeAccepts, NodeMines, Tick, messages
<1>5. CASE Settled \/ UNCHANGED vars
  BY <1>5 DEF Settled, vars, messages
<1> QED BY <1>1, <1>2, <1>3, <1>4, <1>5 DEF Next

\* What leaves the node's states alone leaves the ledger as it is: deliveries stay.
LEMMA ChainIsKept ==
  ASSUME ChainLeadsToHead, [Next]_vars, UNCHANGED <<accepted, head>>
  PROVE  ChainLeadsToHead'
<1>1. ASSUME NEW s, NEW t, PaidNext(s, t)
      PROVE  PaidNext(s, t)'
  BY <1>1, MessagesGrow DEF PaidNext, VerifyAcceptedPayment
<1> QED BY <1>1, MessagesGrow DEF ChainLeadsToHead

\* A state the node takes is the next of the ledger, or the final one.
LEMMA ChainStep ==
  ASSUME TypeOK, EvidenceInv, [Next]_vars
  PROVE  ChainLeadsToHead'
<1> USE DEF EvidenceInv
<1>1. CASE head' = head
  <2>1. accepted' = accepted
    BY <1>1 DEF Next, Buyer, Seller, Arbiter, Node, RequestContent,
       VerifyDeliveryAndPreparePayment, PrepareClose, BuildMaturedRefund, DeliverContent,
       CompletePayment, SellerPrepareArbitration, CompleteArbitratedPayment, CompleteClose,
       ArbiterPrepareArbitration, SignPreparedArbitration, NodeAccepts, NodeMines, Tick,
       Settled, vars, messages, chain, TypeOK, State
  <2> QED BY <1>1, <2>1, ChainIsKept
<1>2. CASE head' # head
  <2>1. /\ head' \in complete /\ head'.seq > head.seq
        /\ accepted' = accepted \cup {head'} /\ deliveries' = deliveries
        /\ complete' = complete
    BY <1>2, HeadMoves DEF messages
  <2>2. head.seq \in RefundSequence..FinalSequence /\ head'.seq \in Nat /\ head' # Refund
    BY <2>1, SequenceAssumption DEF ChainLeadsToHead, TypeOK, State, Refund, RefundSequence
  <2>3. ASSUME NEW s, NEW t, PaidNext(s, t)
        PROVE  PaidNext(s, t)'
    BY <2>1, <2>3 DEF PaidNext, VerifyAcceptedPayment
  <2>4. /\ head'.seq =< FinalSequence
        /\ head'.seq = FinalSequence \/ \E p \in accepted : PaidNext(p, head')
    <3>1. CASE head'.seq = FinalSequence
      BY <3>1, SequenceAssumption
    <3>2. CASE head'.seq # FinalSequence
      <4>1. PICK a \in deliveries, p \in accepted :
              /\ a.seq = head'.seq /\ a.after = head'.seller
              /\ VerifyAcceptedPayment(p)
              /\ a.seq = p.seq + 1 /\ a.after = p.seller + Price[a.batch]
        BY <2>1, <2>2, <3>2, OriginOfComplete DEF RefundSequence
      <4>2. a.seq < FinalSequence
        BY DEF TypeOK, RequestsExtendTheChain
      <4> QED BY <2>2, <4>1, <4>2, SequenceAssumption DEF PaidNext
    <3> QED BY <3>1, <3>2
  <2>5. \A s \in accepted' : s.seq \in RefundSequence..head'.seq
    BY <2>1, <2>2 DEF ChainLeadsToHead, RefundSequence
  <2>6. \A s, t \in accepted' : s.seq = t.seq => s = t
    BY <2>1, <2>2 DEF ChainLeadsToHead, RefundSequence
  <2>7. \A t \in accepted' : \/ t.seq \in {RefundSequence, FinalSequence}
                            \/ \E s \in accepted' : PaidNext(s, t)'
    BY <2>1, <2>3, <2>4 DEF ChainLeadsToHead
  <2> QED BY <2>1, <2>4, <2>5, <2>6, <2>7 DEF ChainLeadsToHead
<1> QED BY <1>1, <1>2

\* Every message and every transaction has the origin the protocol gives it, and
\* the node's states form one chain: the invariant the other theorems rest on.
THEOREM EvidenceHangsTogether == Spec => []EvidenceInv
<1> USE BatchAssumption, AmountAssumption, SequenceAssumption, TimeAssumption
<1>1. Init => EvidenceInv
  BY DEF Init, EvidenceInv, RequestsExtendTheChain, MessagesFollow,
         CompleteFollows, ChainLeadsToHead, Refund, RefundSequence
<1>2. ASSUME TypeOK, EvidenceInv, [Next]_vars PROVE EvidenceInv'
  <2> USE <1>2 DEF EvidenceInv
  <2>0. ChainLeadsToHead'
    BY ChainStep
  <2>1. ASSUME NEW previous \in BuyerView, NEW batch \in Batches,
               NEW deadline \in Deadlines, RequestContent(previous, batch, deadline)
        PROVE  EvidenceInv'
    <3>1. RequestsExtendTheChain'
      BY <2>1 DEF RequestContent, RequestsExtendTheChain, BuyerView, chain,
                  CheckPaymentCapacity, VerifyAcceptedPayment, TypeOK, State
    <3>2. MessagesFollow' /\ CompleteFollows'
      BY <2>1 DEF RequestContent, MessagesFollow, CompleteFollows, chain
    <3> QED BY <2>0, <3>1, <3>2
  <2>2. ASSUME NEW a \in requests, NEW previous \in BuyerView,
               VerifyDeliveryAndPreparePayment(a, previous)
        PROVE  EvidenceInv'
    <3>1. MessagesFollow' /\ CompleteFollows'
      BY <2>2 DEF VerifyDeliveryAndPreparePayment, MessagesFollow, CompleteFollows
    <3>2. RequestsExtendTheChain'
      BY <2>2 DEF VerifyDeliveryAndPreparePayment, RequestsExtendTheChain, chain
    <3> QED BY <2>0, <3>1, <3>2
  <2>3. ASSUME NEW base \in BuyerView, NEW target \in CloseTargets,
               PrepareClose(base, target)
        PROVE  EvidenceInv'
    <3>1. MessagesFollow' /\ CompleteFollows'
      BY <2>3 DEF PrepareClose, BuildImmediateClose, FinalState, MessagesFollow,
                  CompleteFollows
    <3>2. RequestsExtendTheChain'
      BY <2>3 DEF PrepareClose, RequestsExtendTheChain, chain
    <3> QED BY <2>0, <3>1, <3>2
  <2>4. CASE BuildMaturedRefund
    <3>1. CompleteFollows'
      BY <2>4 DEF BuildMaturedRefund, CompleteFollows, chain, messages
    <3>2. RequestsExtendTheChain' /\ MessagesFollow'
      BY <2>4 DEF BuildMaturedRefund, RequestsExtendTheChain, MessagesFollow, chain, messages
    <3> QED BY <2>0, <3>1, <3>2
  <2>5. ASSUME NEW a \in requests, NEW previous \in SellerView, DeliverContent(a, previous)
        PROVE  EvidenceInv'
    <3>1. RequestsExtendTheChain' /\ MessagesFollow' /\ CompleteFollows'
      BY <2>5 DEF DeliverContent, RequestsExtendTheChain, MessagesFollow, CompleteFollows,
                  chain
    <3> QED BY <2>0, <3>1
  <2>6. ASSUME NEW a \in requests, NEW previous \in SellerView, CompletePayment(a, previous)
        PROVE  EvidenceInv'
    <3>1. CompleteFollows'
      BY <2>6 DEF CompletePayment, BuildPaymentUpdate, CompleteFollows,
                  chain, messages
    <3>2. RequestsExtendTheChain' /\ MessagesFollow'
      BY <2>6 DEF CompletePayment, RequestsExtendTheChain, MessagesFollow, chain, messages
    <3> QED BY <2>0, <3>1, <3>2
  <2>7. ASSUME NEW a \in requests, SellerPrepareArbitration(a)
        PROVE  EvidenceInv'
    BY <2>0, <2>7 DEF SellerPrepareArbitration, RequestsExtendTheChain, MessagesFollow,
                CompleteFollows, chain
  <2>8. ASSUME NEW award \in prepared, CompleteArbitratedPayment(award)
        PROVE  EvidenceInv'
    <3>1. CompleteFollows'
      BY <2>8 DEF CompleteArbitratedPayment, CompleteFollows,
                  chain, messages
    <3>2. RequestsExtendTheChain' /\ MessagesFollow'
      BY <2>8 DEF CompleteArbitratedPayment, RequestsExtendTheChain, MessagesFollow,
                  chain, messages
    <3> QED BY <2>0, <3>1, <3>2
  <2>9. ASSUME NEW final \in closes, NEW own \in SellerView, CompleteClose(final, own)
        PROVE  EvidenceInv'
    <3>1. CompleteFollows'
      BY <2>9 DEF CompleteClose, CompleteFollows, chain, messages
    <3>2. RequestsExtendTheChain' /\ MessagesFollow'
      BY <2>9 DEF CompleteClose, RequestsExtendTheChain, MessagesFollow, chain, messages
    <3> QED BY <2>0, <3>1, <3>2
  <2>10. ASSUME NEW a \in requests, NEW fee \in ArbiterFees, ArbiterPrepareArbitration(a, fee)
         PROVE  EvidenceInv'
    BY <2>0, <2>10 DEF ArbiterPrepareArbitration, RequestsExtendTheChain, MessagesFollow,
                 CompleteFollows, chain
  <2>11. ASSUME NEW award \in prepared, SignPreparedArbitration(award)
         PROVE  EvidenceInv'
    BY <2>0, <2>11 DEF SignPreparedArbitration, RequestsExtendTheChain, MessagesFollow,
                 CompleteFollows, chain
  <2>12. ASSUME NEW state \in complete, NodeAccepts(state)
         PROVE  EvidenceInv'
    <3>1. RequestsExtendTheChain' /\ MessagesFollow' /\ CompleteFollows'
      BY <2>12 DEF NodeAccepts, RequestsExtendTheChain, MessagesFollow, CompleteFollows,
                   messages
    <3> QED BY <2>0, <3>1
  <2>13. CASE NodeMines
    BY <2>0, <2>13 DEF NodeMines, RequestsExtendTheChain, MessagesFollow, CompleteFollows, messages
  <2>14. CASE Tick
    BY <2>0, <2>14 DEF Tick, RequestsExtendTheChain, MessagesFollow, CompleteFollows, messages, chain
  <2>15. CASE Settled \/ UNCHANGED vars
    BY <2>0, <2>15 DEF Settled, RequestsExtendTheChain, MessagesFollow, CompleteFollows, vars, messages, chain
  <2> QED
    BY <1>2, <2>0, <2>1, <2>2, <2>3, <2>4, <2>5, <2>6, <2>7, <2>8, <2>9, <2>10,
       <2>11, <2>12, <2>13, <2>14, <2>15 DEF Next, Buyer, Seller, Arbiter, Node
<1> QED
  BY <1>1, <1>2, TypeCorrect, PTL DEF Spec

\* The states the node has held are one per sequence and leave no gap.
THEOREM StatesFormOneChain == Spec => []ChainIsLedger
<1>1. EvidenceInv => ChainIsLedger
  BY DEF EvidenceInv, ChainLeadsToHead, ChainIsLedger
<1> QED BY <1>1, EvidenceHangsTogether, PTL

\* A state ahead of the node's extends the node's own state: the authorization
\* it pays was built on a state the node has held at the sequence before, and
\* that can only be the head.
LEMMA ExposureIsBounded ==
  ASSUME TypeOK, EvidenceInv PROVE BoundedExposure
<1> USE DEF EvidenceInv, TypeOK
<1> SUFFICES ASSUME NEW state \in complete,
                    state.seq > head.seq, state.seq # FinalSequence
             PROVE  /\ VerifyAcceptedPayment(head)
                    /\ \E a \in deliveries :
                          /\ a.seq = state.seq /\ a.after = state.seller
                          /\ a.seq = head.seq + 1
                          /\ a.after = head.seller + Price[a.batch]
  BY DEF BoundedExposure
<1>1. state.seq # RefundSequence
  BY DEF ChainLeadsToHead, Refund, State
<1>2. PICK a \in deliveries, p \in accepted :
        /\ a.seq = state.seq /\ a.after = state.seller
        /\ VerifyAcceptedPayment(p)
        /\ a.seq = p.seq + 1 /\ a.after = p.seller + Price[a.batch]
  BY <1>1, OriginOfComplete
<1>3. p = head
  BY <1>2 DEF ChainLeadsToHead, State
<1> QED BY <1>2, <1>3

\* The buyer's exposure beyond the chain is one delivered batch.
THEOREM BuyerExposure == Spec => []BoundedExposure
BY ExposureIsBounded, TypeCorrect, EvidenceHangsTogether, PTL

\* No transaction is completed that the pool output cannot pay for.
THEOREM CompletePayable == Spec => []CompleteIsPayable
<1>1. TypeOK /\ EvidenceInv => CompleteIsPayable
  <2> SUFFICES ASSUME TypeOK, EvidenceInv, NEW state \in complete
               PROVE  state.seller + state.arbiter =< Spendable
    BY DEF CompleteIsPayable
  <2> USE SpendableNat
  <2>1. CASE state = Refund
    BY <2>1 DEF Refund
  <2>2. CASE state \in closes
    BY <2>2 DEF EvidenceInv, MessagesFollow, FinalState, TypeOK, State
  <2>3. CASE \E a \in updates : state = PaymentState(a) /\ a.after =< Spendable
    BY <2>3 DEF PaymentState, TypeOK, Authorization
  <2>4. ASSUME NEW award \in receipts, state = ArbitratedState(award),
               BuildArbitrationPayment(award.auth, award.fee)
        PROVE  state.seller + state.arbiter =< Spendable
    <3>1. award.auth.after \in Nat /\ award.fee \in Nat
      BY AmountAssumption DEF TypeOK, Authorization
    <3>2. award.auth.after =< Spendable /\ award.fee =< Spendable - award.auth.after
      BY <2>4 DEF BuildArbitrationPayment, ValidateClaimStructure
    <3> QED BY <2>4, <3>1, <3>2 DEF ArbitratedState
  <2> QED BY <2>1, <2>2, <2>3, <2>4 DEF EvidenceInv, CompleteFollows
<1> QED BY <1>1, TypeCorrect, EvidenceHangsTogether, PTL

\* An arbitrated transaction follows from custody of what it pays for.
THEOREM AwardsFollowCustody == Spec => []AwardFollowsCustody
<1>1. TypeOK /\ EvidenceInv => AwardFollowsCustody
  BY DEF TypeOK, EvidenceInv, CompleteFollows, MessagesFollow, AwardFollowsCustody,
         Refund, FinalState, PaymentState
<1> QED BY <1>1, TypeCorrect, EvidenceHangsTogether, PTL

\* A payment into the pool extends the state before it by exactly the quoted
\* price of a batch the seller delivered: no charge without a delivery, and no
\* delivery charged at another amount (RequestContent, DeliverContent,
\* VerifyDeliveryAndPreparePayment and the arbitration path all have a part).
PaidForDelivered ==
  [][head' # head /\ head'.seq # FinalSequence =>
       \E a \in deliveries :
         /\ head'.seq = a.seq
         /\ head'.seller = a.after
         /\ head'.seller = head.seller + Price[a.batch]]_vars

\* The node is only ever given payments for what was delivered.
THEOREM PaymentsAreForDeliveries == Spec => PaidForDelivered
<1>1. TypeOK /\ EvidenceInv /\ [Next]_vars =>
        [head' # head /\ head'.seq # FinalSequence =>
           \E a \in deliveries :
             /\ head'.seq = a.seq
             /\ head'.seller = a.after
             /\ head'.seller = head.seller + Price[a.batch]]_vars
  BY ExposureIsBounded, HeadMoves DEF BoundedExposure
<1> QED BY <1>1, TypeCorrect, EvidenceHangsTogether, PTL DEF Spec, PaidForDelivered

\* No payment follows an arbitrated one.
THEOREM ArbitrationIsLast == Spec => ArbitratedEndsPayments
<1>1. TypeOK /\ EvidenceInv /\ [Next]_vars =>
        [head' # head /\ VerifyArbitratedPayment(head) => head'.seq = FinalSequence]_vars
  BY ExposureIsBounded, HeadMoves
     DEF BoundedExposure, VerifyArbitratedPayment, VerifyAcceptedPayment
<1> QED BY <1>1, TypeCorrect, EvidenceHangsTogether, PTL DEF Spec, ArbitratedEndsPayments

\* After expiry only the refund is new: every completion is behind the refund
\* gate but the answer to a repeated close, which the seller already holds.
THEOREM ExpiryIsRespected == Spec => NothingCompletedAfterExpiry
<1>1. TypeOK /\ EvidenceInv /\ [Next]_vars =>
        [RefundExpired => complete' \subseteq complete \cup {Refund}]_vars
  <2> SUFFICES ASSUME TypeOK, EvidenceInv, [Next]_vars, RefundExpired
               PROVE  complete' \subseteq complete \cup {Refund}
    OBVIOUS
  <2>1. ASSUME NEW final \in closes, NEW own \in SellerView, CompleteClose(final, own)
        PROVE  complete' \subseteq complete \cup {Refund}
    BY <2>1 DEF CompleteClose, SellerView, EvidenceInv, ChainLeadsToHead
  <2>2. CASE ~\E final \in closes, own \in SellerView : CompleteClose(final, own)
    BY <2>2 DEF Next, Buyer, Seller, Arbiter, Node, RequestContent,
       VerifyDeliveryAndPreparePayment, PrepareClose, BuildMaturedRefund, DeliverContent,
       CompletePayment, SellerPrepareArbitration, CompleteArbitratedPayment,
       ArbiterPrepareArbitration, SignPreparedArbitration, NodeAccepts, NodeMines, Tick,
       Settled, vars, messages
  <2> QED BY <2>1, <2>2
<1> QED BY <1>1, TypeCorrect, EvidenceHangsTogether, PTL DEF Spec, NothingCompletedAfterExpiry

-----------------------------------------------------------------------------
(* The ledger, read as a whole *)

\* Between the refund and a state the node has held no sequence is missing: the
\* greatest that were would be below one that is there, which was paid on it.
LEMMA NoSequenceIsSkipped ==
  ASSUME TypeOK, EvidenceInv, NEW t \in accepted, t.seq # FinalSequence,
         NEW k \in RefundSequence..t.seq
  PROVE  \E s \in accepted : s.seq = k
<1> DEFINE missing == {i \in RefundSequence..t.seq : \A s \in accepted : s.seq # i}
<1>0. /\ t.seq \in Nat /\ t.seq < FinalSequence /\ \A s \in accepted : s.seq \in Nat
      /\ missing \in SUBSET Nat /\ \A i \in missing : i =< t.seq
  BY SequenceAssumption DEF TypeOK, State, EvidenceInv, ChainLeadsToHead, RefundSequence
<1> SUFFICES ASSUME k \in missing PROVE FALSE
  OBVIOUS
<1>1. PICK i \in missing : \A j \in missing : j =< i
  <2> HIDE DEF missing
  <2> QED BY <1>0, GreatestNatural
<1>2. i \in Nat /\ i >= RefundSequence /\ i < t.seq
  BY <1>0 DEF RefundSequence
<1>3. i + 1 \in RefundSequence..t.seq /\ i + 1 \notin missing
  <2>1. ~ (i + 1 =< i)
    BY <1>2
  <2> HIDE DEF missing
  <2> QED BY <1>0, <1>1, <1>2, <2>1 DEF RefundSequence
<1>4. PICK s \in accepted : s.seq = i + 1
  BY <1>3
<1>5. s.seq \notin {RefundSequence, FinalSequence}
  BY <1>0, <1>2, <1>4, SequenceAssumption DEF RefundSequence
<1>6. PICK p \in accepted : PaidNext(p, s)
  BY <1>5 DEF EvidenceInv, ChainLeadsToHead
<1>7. p.seq = i
  BY <1>0, <1>2, <1>4, <1>6 DEF PaidNext
<1> QED BY <1>7

\* Two states held at successive sequences, neither of them final: the later was
\* paid on the earlier.
LEMMA NextIsPaidOnThis ==
  ASSUME TypeOK, EvidenceInv, NEW s \in accepted, NEW t \in accepted,
         t.seq = s.seq + 1, t.seq # FinalSequence
  PROVE  PaidNext(s, t)
<1> USE DEF EvidenceInv, ChainLeadsToHead
<1>1. s.seq \in Nat /\ s.seq >= RefundSequence /\ \A p \in accepted : p.seq \in Nat
  BY DEF TypeOK, State, RefundSequence
<1>2. PICK p \in accepted : PaidNext(p, t)
  BY <1>1 DEF RefundSequence
<1>3. p.seq = s.seq
  BY <1>1, <1>2 DEF PaidNext
<1> QED BY <1>2, <1>3

\* What the seller has been paid on the chain is the sum of the prices of one
\* delivery per sequence: from the refund up there is an amount for every sequence,
\* each more than the one below by the price of the batch delivered for it.
SellerLedger ==
  \A t \in accepted : t.seq # FinalSequence =>
    \E amount \in [RefundSequence..t.seq -> Nat] :
      /\ amount[RefundSequence] = 0 /\ amount[t.seq] = t.seller
      /\ \A k \in RefundSequence + 1..t.seq : \E a \in deliveries :
            a.seq = k /\ a.after = amount[k] /\ a.after = amount[k - 1] + Price[a.batch]

\* ... for every history of the pool (buyer/workflow.go RequestContent and
\* VerifyDeliveryAndPreparePayment, seller/workflow.go DeliverContent): a payment
\* signed twice, on a stale view or replayed is never in the sum a second time.
THEOREM LedgerIsOfDeliveries == Spec => []SellerLedger
<1>1. TypeOK /\ EvidenceInv => SellerLedger
  <2> SUFFICES ASSUME TypeOK, EvidenceInv, NEW t \in accepted, t.seq # FinalSequence
               PROVE  \E amount \in [RefundSequence..t.seq -> Nat] :
                        /\ amount[RefundSequence] = 0 /\ amount[t.seq] = t.seller
                        /\ \A k \in RefundSequence + 1..t.seq : \E a \in deliveries :
                              /\ a.seq = k /\ a.after = amount[k]
                              /\ a.after = amount[k - 1] + Price[a.batch]
    BY DEF SellerLedger
  <2> DEFINE at(k)  == CHOOSE s \in accepted : s.seq = k
             amount == [k \in RefundSequence..t.seq |-> at(k).seller]
  <2>1. /\ t.seq \in Nat /\ t.seq >= RefundSequence /\ t.seq < FinalSequence
        /\ \A s, u \in accepted : s.seq = u.seq => s = u
        /\ Refund \in accepted /\ accepted \subseteq State
    BY SequenceAssumption DEF TypeOK, State, EvidenceInv, ChainLeadsToHead, RefundSequence
  <2>2. ASSUME NEW k \in RefundSequence..t.seq
        PROVE  at(k) \in accepted /\ at(k).seq = k /\ at(k).seller \in Nat
    <3>1. PICK s \in accepted : s.seq = k
      BY NoSequenceIsSkipped
    <3>2. at(k) \in accepted /\ at(k).seq = k
      BY <3>1
    <3> HIDE DEF at
    <3> QED BY <2>1, <3>2 DEF State
  <2>3. amount \in [RefundSequence..t.seq -> Nat]
    <3> HIDE DEF at
    <3> QED BY <2>2
  <2>4. RefundSequence \in RefundSequence..t.seq /\ t.seq \in RefundSequence..t.seq
    BY <2>1 DEF RefundSequence
  <2>5. amount[RefundSequence] = 0 /\ amount[t.seq] = t.seller
    <3>1. at(RefundSequence) = Refund /\ at(t.seq) = t
      <4> HIDE DEF at
      <4> QED BY <2>1, <2>2, <2>4 DEF Refund
    <3> HIDE DEF at
    <3> QED BY <2>4, <3>1 DEF Refund
  <2>6. ASSUME NEW k \in RefundSequence + 1..t.seq
        PROVE  \E a \in deliveries : /\ a.seq = k /\ a.after = amount[k]
                                     /\ a.after = amount[k - 1] + Price[a.batch]
    <3>1. k \in RefundSequence..t.seq /\ k - 1 \in RefundSequence..t.seq /\ k - 1 + 1 = k
          /\ k # FinalSequence
      BY <2>1, SequenceAssumption DEF RefundSequence
    <3> HIDE DEF at
    <3>2. PaidNext(at(k - 1), at(k))
      BY <2>2, <3>1, NextIsPaidOnThis
    <3> QED BY <2>2, <3>1, <3>2 DEF PaidNext
  <2> HIDE DEF amount
  <2> QED BY <2>3, <2>5, <2>6
<1> QED BY <1>1, TypeCorrect, EvidenceHangsTogether, PTL

\* Before a close the seller's amount never falls from one state to a later one,
\* however far apart, and at most one state the node has held pays an arbiter.
SellerNeverLoses ==
  /\ \A s, t \in accepted :
        s.seq =< t.seq /\ t.seq # FinalSequence => s.seller =< t.seller
  /\ \A s, t \in accepted : s.arbiter > 0 /\ t.arbiter > 0 => s = t

LEMMA AmountsNeverFall ==
  ASSUME TypeOK, EvidenceInv, NEW s \in accepted, NEW t \in accepted,
         s.seq =< t.seq, t.seq # FinalSequence
  PROVE  s.seller =< t.seller
<1> DEFINE above == {i \in RefundSequence..t.seq :
                       \E u \in accepted : u.seq = i /\ u.seller > t.seller}
<1>0. /\ t.seq \in Nat /\ t.seq < FinalSequence /\ accepted \subseteq State
      /\ \A u \in accepted : u.seq \in Nat /\ u.seller \in Nat /\ u.seq >= RefundSequence
      /\ \A u, v \in accepted : u.seq = v.seq => u = v
      /\ above \in SUBSET Nat /\ \A i \in above : i =< t.seq
  BY SequenceAssumption DEF TypeOK, State, EvidenceInv, ChainLeadsToHead, RefundSequence
<1> SUFFICES ASSUME s.seller > t.seller PROVE FALSE
  BY <1>0
<1>1. s.seq \in above
  BY <1>0 DEF RefundSequence
<1>2. PICK i \in above : \A j \in above : j =< i
  <2> HIDE DEF above
  <2> QED BY <1>0, <1>1, GreatestNatural
<1>3. PICK u \in accepted : u.seq = i /\ u.seller > t.seller
  BY <1>2
<1>4. i \in Nat /\ i >= RefundSequence /\ i < t.seq
  BY <1>0, <1>3 DEF RefundSequence
<1>5. PICK v \in accepted : v.seq = i + 1
  BY <1>0, <1>4, NoSequenceIsSkipped DEF RefundSequence
<1>6. PaidNext(u, v)
  BY <1>0, <1>3, <1>4, <1>5, NextIsPaidOnThis, SequenceAssumption
<1>7. v.seller >= u.seller
  <2>1. PICK a \in deliveries : v.seller = u.seller + Price[a.batch]
    BY <1>6 DEF PaidNext
  <2>2. Price[a.batch] \in Nat
    BY BatchAssumption DEF TypeOK, Authorization
  <2> QED BY <1>0, <2>1, <2>2
<1>8. i + 1 \in above
  BY <1>0, <1>3, <1>4, <1>5, <1>7 DEF RefundSequence
<1>9. i + 1 =< i
  BY <1>2, <1>8
<1> QED BY <1>4, <1>9

\* What the seller has on the chain it keeps until a close, and the arbiter is paid
\* once (pool/multisigpool_engine.go CheckPaymentCapacity, VerifyAcceptedPayment).
THEOREM SellerKeepsWhatItHas == Spec => []SellerNeverLoses
<1>1. TypeOK /\ EvidenceInv => SellerNeverLoses
  <2> SUFFICES ASSUME TypeOK, EvidenceInv PROVE SellerNeverLoses
    OBVIOUS
  <2>1. \A s, t \in accepted :
          s.seq =< t.seq /\ t.seq # FinalSequence => s.seller =< t.seller
    BY AmountsNeverFall
  <2>2. ASSUME NEW s \in accepted, NEW t \in accepted, s.seq < t.seq, s.arbiter > 0
        PROVE  t.arbiter = 0
    <3>1. CASE t.seq = FinalSequence
      <4>1. t \in closes
        <5>1. t \in complete
          BY <3>1, SequenceAssumption
             DEF Refund, RefundSequence, EvidenceInv, ChainLeadsToHead
        <5> QED BY <3>1, <5>1, FinalIsClose
      <4> QED BY <4>1 DEF EvidenceInv, MessagesFollow, FinalState
    <3>2. CASE t.seq # FinalSequence
      <4>1. /\ s.seq \in Nat /\ t.seq \in Nat /\ s.seq >= RefundSequence
            /\ t.seq < FinalSequence
        BY <3>2, SequenceAssumption
           DEF TypeOK, State, EvidenceInv, ChainLeadsToHead, RefundSequence
      <4>2. PICK v \in accepted : v.seq = s.seq + 1
        BY <2>2, <3>2, <4>1, NoSequenceIsSkipped DEF RefundSequence
      <4>3. PaidNext(s, v)
        BY <2>2, <4>1, <4>2, NextIsPaidOnThis, SequenceAssumption
      <4> QED BY <2>2, <4>3 DEF PaidNext, VerifyAcceptedPayment
    <3> QED BY <3>1, <3>2
  <2>3. \A s, t \in accepted : s.arbiter > 0 /\ t.arbiter > 0 => s = t
    BY <2>2 DEF TypeOK, State, EvidenceInv, ChainLeadsToHead
  <2> QED BY <2>1, <2>3 DEF SellerNeverLoses
<1> QED BY <1>1, TypeCorrect, EvidenceHangsTogether, PTL

-----------------------------------------------------------------------------
(* What the pool is settled by *)

\* The miners took a state they may take.
MinedByRule == status = "settled" => RefundExpired \/ head.seq = FinalSequence

LEMMA MinersFollowTheirRule == Spec => []MinedByRule
<1>1. Init => MinedByRule
  BY DEF Init, MinedByRule
<1>2. TypeOK /\ MinedByRule /\ [Next]_vars => MinedByRule'
  <2> SUFFICES ASSUME TypeOK, MinedByRule, [Next]_vars, status' = "settled"
               PROVE  RefundExpired' \/ head'.seq = FinalSequence
    BY DEF MinedByRule
  <2>1. RefundExpired => RefundExpired'
    <3>1. now' = now \/ now' = now + 1
      BY DEF Next, Buyer, Seller, Arbiter, Node, RequestContent,
         VerifyDeliveryAndPreparePayment, PrepareClose, BuildMaturedRefund, DeliverContent,
         CompletePayment, SellerPrepareArbitration, CompleteArbitratedPayment,
         CompleteClose, ArbiterPrepareArbitration, SignPreparedArbitration, NodeAccepts,
         NodeMines, Tick, Settled, vars, messages, chain
    <3> QED BY <3>1, TimeAssumption DEF RefundExpired, TypeOK
  <2>2. head' = head
    BY HeadMoves
  <2>3. CASE NodeMines
    BY <2>1, <2>2, <2>3 DEF NodeMines
  <2>4. CASE ~NodeMines
    <3>1. status = "settled"
      BY <2>4 DEF Next, Buyer, Seller, Arbiter, Node, RequestContent,
         VerifyDeliveryAndPreparePayment, PrepareClose, BuildMaturedRefund, DeliverContent,
         CompletePayment, SellerPrepareArbitration, CompleteArbitratedPayment,
         CompleteClose, ArbiterPrepareArbitration, SignPreparedArbitration, NodeAccepts,
         Tick, Settled, vars, messages, chain
    <3> QED BY <2>1, <2>2, <3>1 DEF MinedByRule
  <2> QED BY <2>3, <2>4
<1> QED BY <1>1, <1>2, TypeCorrect, PTL DEF Spec

\* However many transactions were completed on stale views, claimed twice or replayed,
\* the one that spends the output is a close the buyer signed, or pays sequence by
\* sequence for what was delivered (buyer/workflow.go RequestContent,
\* VerifyDeliveryAndPreparePayment and PrepareClose, seller/workflow.go
\* PrepareArbitration and CompleteClose).
THEOREM SettlementPaysWhatIsOwed == Spec => []SettledAsOwed
<1>1. TypeOK /\ EvidenceInv /\ MinedByRule => SettledAsOwed
  <2> SUFFICES ASSUME TypeOK, EvidenceInv, MinedByRule, status = "settled",
                      head \notin closes
               PROVE  /\ RefundExpired
                      /\ \A k \in RefundSequence + 1..head.seq :
                            \E s, t \in accepted : t.seq = k /\ PaidNext(s, t)
                      /\ \A s \in accepted : s.seller =< head.seller
    BY DEF SettledAsOwed
  <2>1. head \in accepted /\ head \in complete
    BY DEF TypeOK
  <2>2. head.seq # FinalSequence
    BY <2>1, FinalIsClose
  <2>3. RefundExpired
    BY <2>2 DEF MinedByRule
  <2>4. ASSUME NEW k \in RefundSequence + 1..head.seq
        PROVE  \E s, t \in accepted : t.seq = k /\ PaidNext(s, t)
    <3>1. /\ head.seq \in Nat /\ head.seq < FinalSequence
          /\ k \in RefundSequence..head.seq /\ k \notin {RefundSequence, FinalSequence}
      BY <2>1, <2>2, SequenceAssumption
         DEF TypeOK, State, EvidenceInv, ChainLeadsToHead, RefundSequence
    <3>2. PICK t \in accepted : t.seq = k
      BY <2>1, <2>2, <3>1, NoSequenceIsSkipped
    <3> QED BY <3>1, <3>2 DEF EvidenceInv, ChainLeadsToHead
  <2>5. ASSUME NEW s \in accepted
        PROVE  s.seller =< head.seller
    <3>1. s.seq =< head.seq
      BY DEF EvidenceInv, ChainLeadsToHead, TypeOK, State, RefundSequence
    <3> QED BY <2>1, <2>2, <3>1, AmountsNeverFall
  <2> QED BY <2>3, <2>4, <2>5
<1> QED BY <1>1, TypeCorrect, EvidenceHangsTogether, MinersFollowTheirRule, PTL

-----------------------------------------------------------------------------
(* No state of the pool is a dead end: what the fairness of PoolIsSettled rests on *)

\* While the pool is open one of the three steps that no party can withhold has its
\* guard: the clock's, the matured refund's where it would release something new,
\* or the miner's.
SettlementIsOpen ==
  status = "open" =>
    \/ now < MaxTime
    \/ RefundExpired /\ Refund \notin complete
    \/ RefundExpired /\ head \in complete

\* No state is a dead end: whatever was signed, lost or left unanswered before
\* (pool/multisigpool_engine.go BuildMaturedRefund).
THEOREM SettlementStaysOpen == Spec => []SettlementIsOpen
<1>1. TypeOK /\ EvidenceInv => SettlementIsOpen
  <2> SUFFICES ASSUME TypeOK, EvidenceInv, now = MaxTime
               PROVE  /\ RefundExpired
                      /\ Refund \notin complete \/ head \in complete
    BY TimeAssumption DEF SettlementIsOpen, TypeOK
  <2>1. RefundExpired
    BY TimeAssumption DEF RefundExpired
  <2>2. Refund \notin complete \/ head \in complete
    BY DEF EvidenceInv, ChainLeadsToHead, TypeOK
  <2> QED BY <2>1, <2>2
<1> QED BY <1>1, TypeCorrect, EvidenceHangsTogether, PTL

-----------------------------------------------------------------------------
(* The pool implements the channel *)

\* The node's step is the channel's payment, arbitrated or not, or its close.
LEMMA NodeStepIsChannelStep ==
  ASSUME TypeOK, EvidenceInv, [Next]_vars, head' # head
  PROVE  Channel!Pay \/ Channel!Close
<1> USE HeadMoves, SpendableNat DEF EvidenceInv
<1>1. Channel!Hold(head')
  BY DEF Channel!Hold, Offers, messages
<1>2. CASE head'.seq = FinalSequence
  <2>1. head' \in closes
    BY <1>2, FinalIsClose
  <2>2. /\ head'.seller \in 0..Spendable
        /\ head' = [seq |-> FinalSequence, seller |-> head'.seller, arbiter |-> 0]
    BY <2>1 DEF MessagesFollow, FinalState, TypeOK, State
  <2>3. head.seq # FinalSequence
    BY <1>2, SequenceAssumption DEF TypeOK, State
  <2> QED BY <1>1, <2>2, <2>3 DEF Channel!Close
<1>3. CASE head'.seq # FinalSequence
  <2>1. PICK a \in deliveries :
          /\ VerifyAcceptedPayment(head)
          /\ a.seq = head'.seq /\ a.after = head'.seller
          /\ a.seq = head.seq + 1
          /\ a.after = head.seller + Price[a.batch]
    BY <1>3, ExposureIsBounded DEF BoundedExposure
  <2>2. PICK fee \in {0} \cup ArbiterFees :
          /\ head' = [seq |-> head'.seq, seller |-> head'.seller, arbiter |-> fee]
          /\ head'.seller + fee =< Spendable
    <3>1. head' # Refund /\ head' \notin closes
      <4>1. Refund.seq =< head.seq /\ head.seq \in Nat
        BY DEF ChainLeadsToHead, TypeOK, State
      <4>2. head'.seq = head.seq + 1
        BY <2>1
      <4>3. head' # Refund
        BY <4>1, <4>2, SMT DEF Refund, RefundSequence
      <4>4. head' \notin closes
        BY <1>3 DEF MessagesFollow, FinalState
      <4> QED BY <4>3, <4>4
    <3>2. CASE \E b \in updates : head' = PaymentState(b) /\ b.after =< Spendable
      BY <3>2 DEF PaymentState, TypeOK, Authorization
    <3>3. ASSUME NEW award \in receipts, head' = ArbitratedState(award),
                 BuildArbitrationPayment(award.auth, award.fee)
          PROVE  \E fee \in {0} \cup ArbiterFees :
                   /\ head' = [seq |-> head'.seq, seller |-> head'.seller, arbiter |-> fee]
                   /\ head'.seller + fee =< Spendable
      <4>1. /\ award.auth.after \in Nat /\ award.fee \in ArbiterFees
            /\ award.fee \in Nat
        BY AmountAssumption DEF TypeOK, Authorization
      <4>2. award.auth.after =< Spendable /\ award.fee =< Spendable - award.auth.after
        BY <3>3 DEF BuildArbitrationPayment, ValidateClaimStructure
      <4>3. award.auth.after + award.fee =< Spendable
        BY <4>1, <4>2
      <4> QED BY <3>3, <4>1, <4>3 DEF ArbitratedState
    <3> QED BY <3>1, <3>2, <3>3 DEF CompleteFollows
  <2> DEFINE offer == [seq |-> a.seq, after |-> a.after, batch |-> a.batch]
  <2>3. offer \in Offers
    BY DEF Offers
  <2>4. Channel!Hold([seq |-> offer.seq, seller |-> offer.after, arbiter |-> fee])
    BY <1>1, <2>1, <2>2
  <2> QED
    BY <1>3, <2>1, <2>2, <2>3, <2>4 DEF Channel!Pay, VerifyAcceptedPayment
<1> QED BY <1>2, <1>3

\* A delivery is the channel's: its authorization extends a state once held.
LEMMA DeliveryIsChannelStep ==
  ASSUME TypeOK, EvidenceInv,
         NEW a \in requests, NEW previous \in SellerView, DeliverContent(a, previous)
  PROVE  Channel!Deliver
<1>1. PICK p \in accepted :
        /\ VerifyAcceptedPayment(p)
        /\ a.seq = p.seq + 1 /\ a.after = p.seller + Price[a.batch]
  BY DEF EvidenceInv, RequestsExtendTheChain
<1>2. a.batch \in Batches
  BY DEF TypeOK, Authorization
<1>3. Offers' = Offers \cup {[seq |-> a.seq, after |-> a.after, batch |-> a.batch]}
  BY DEF DeliverContent, Offers
<1>4. UNCHANGED <<accepted, head, status>>
  BY DEF DeliverContent, chain
<1> QED BY <1>1, <1>2, <1>3, <1>4 DEF Channel!Deliver, VerifyAcceptedPayment

\* The protocol, with its messages and stale views, implements the channel.
THEOREM PoolImplementsChannel == Spec => ImplementsChannel
<1>1. Init => Channel!Init
  BY DEF Init, Channel!Init, Offers
<1>2. TypeOK /\ EvidenceInv /\ [Next]_vars => [Channel!Next]_(Channel!vars)
  <2> SUFFICES ASSUME TypeOK, EvidenceInv, [Next]_vars
               PROVE  [Channel!Next]_(Channel!vars)
    OBVIOUS
  <2>1. CASE head' # head
    BY <2>1, NodeStepIsChannelStep DEF Channel!Next
  <2>2. ASSUME NEW a \in requests, NEW previous \in SellerView,
               DeliverContent(a, previous)
        PROVE  [Channel!Next]_(Channel!vars)
    BY <2>2, DeliveryIsChannelStep DEF Channel!Next
  <2>3. CASE NodeMines
    BY <2>3 DEF NodeMines, messages, Offers, Channel!Next, Channel!Settle
  <2>4. ASSUME head' = head, ~NodeMines,
               ~\E a \in requests, previous \in SellerView : DeliverContent(a, previous)
        PROVE  UNCHANGED <<deliveries, accepted, head, status>>
    BY <2>4 DEF Next, Buyer, Seller, Arbiter, Node, RequestContent,
       VerifyDeliveryAndPreparePayment, PrepareClose, BuildMaturedRefund,
       CompletePayment, SellerPrepareArbitration, CompleteArbitratedPayment,
       CompleteClose, ArbiterPrepareArbitration, SignPreparedArbitration, NodeAccepts,
       Tick, Settled, vars, messages, chain, TypeOK, State
  <2> QED BY <2>1, <2>2, <2>3, <2>4 DEF Offers, Channel!vars
<1> QED BY <1>1, <1>2, TypeCorrect, EvidenceHangsTogether, PTL
        DEF Spec, ImplementsChannel, Channel!Spec

=============================================================================
