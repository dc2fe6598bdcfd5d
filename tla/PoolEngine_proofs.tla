-------------------------- MODULE PoolEngine_proofs --------------------------
(***************************************************************************)
(* Proofs about the pool engine, for all openings over any funding outputs,  *)
(* rates and amounts.  The invariant says that every signature is well       *)
(* formed and over the real amount; what the properties ask of one step is    *)
(* then a matter of what the builders and the validators check.              *)
(***************************************************************************)
EXTENDS PoolEngine, TLAPS, FiniteSetTheorems

Signature == [role : Roles, tx : Transaction, amount : Nat]

\* The signatures have their types and cover the outputs' own amounts.
Inv == signatures \subseteq Signature /\ AmountsAreReal

USE AmountAssumption, ChoiceAssumption, SequenceAssumption DEF RefundSequence

\* A state built within the output's amount is a transaction of the pool.
LEMMA StateType ==
  ASSUME NEW funding \in Fundings, NEW sequence \in 0..FinalSequence,
         NEW lock \in Locks \cup {FinalSequence}, NEW pool \in Nat, NEW fee \in Nat,
         NEW seller \in Nat, NEW arbiter \in Nat, Allocates(pool, fee, seller, arbiter)
  PROVE  State(funding, sequence, lock, pool, fee, seller, arbiter) \in Transaction
<1>1. pool - seller - arbiter - fee \in Nat
  BY DEF Allocates
<1> QED
  BY <1>1 DEF State, Transaction

\* A verified opening: its template is a transaction and its amount the output's own.
LEMMA OpeningFacts ==
  ASSUME Inv, NEW proof \in VerifiedOpenings
  PROVE  /\ proof \in Proof /\ proof.template \in Transaction /\ proof.rate \in Rates
         /\ proof.template.sequence = RefundSequence
         /\ proof.template.seller = 0 /\ proof.template.arbiter = 0
         /\ proof.funding \in Fundings /\ proof.template.funding = proof.funding
         /\ PoolOutput(proof) = Amount[proof.funding] /\ PoolOutput(proof) \in Nat
         /\ PoolOutput(proof) = proof.template.buyer + Fee[proof.rate]
         /\ Fee[proof.rate] \in Nat /\ PoolOutput(proof) > 0
         /\ proof.template \in {s.tx : s \in signatures}
         /\ Signed("buyer", proof.template, PoolOutput(proof))
         /\ Signed("seller", proof.template, PoolOutput(proof))
<1>1. proof \in Proof /\ VerifyOpening(proof)
  BY DEF VerifiedOpenings
<1>2. Templates \subseteq Transaction
  BY DEF Inv, Templates, Signature
<1>3. DerivesTerms(proof.template, proof.rate) /\ VerifyFundingTx(proof)
  BY <1>1 DEF VerifyOpening, VerifyRefundPresignRequest
<1>4. proof.template.seller = 0 /\ proof.template.arbiter = 0 /\ PoolOutput(proof) > 0
  BY <1>3 DEF DerivesTerms, State, PoolOutput
<1>5. proof.template \in Templates /\ proof.rate \in Rates /\ proof.funding \in Fundings
  BY <1>1 DEF Proof
<1>6. Templates \subseteq {s.tx : s \in signatures}
  BY DEF Templates
<1>7. Fee[proof.rate] \in Nat /\ Amount[proof.funding] \in Nat
  BY <1>5
<1>8. /\ Signed("buyer", proof.template, PoolOutput(proof))
      /\ Signed("seller", proof.template, PoolOutput(proof))
  BY <1>1 DEF VerifyOpening, VerifyRefundPresignRequest, PoolOutput
<1> QED
  BY <1>1, <1>2, <1>3, <1>4, <1>5, <1>6, <1>7, <1>8
     DEF DerivesTerms, VerifyFundingTx, PoolOutput, PoolAmount

\* What a restored state is: a signed transaction of the opening's output.
LEMMA StateFacts ==
  ASSUME Inv, NEW proof \in VerifiedOpenings, NEW tx \in States(proof)
  PROVE  /\ tx \in Transaction /\ tx.funding = proof.funding
         /\ tx \in {s.tx : s \in signatures}
         /\ Completed(tx)
<1>1. tx \in {s.tx : s \in signatures} /\ VerifyPaymentState(tx, proof)
  BY DEF States
<1>2. tx \in Transaction
  BY <1>1 DEF Inv, Signature
<1>3. tx.funding = proof.funding
  BY <1>1 DEF VerifyPaymentState, VerifyAcceptedPayment, VerifyArbitratedPayment, Canonical
<1>4. PoolOutput(proof) = Amount[tx.funding]
  BY <1>3, OpeningFacts
<1>5. Completed(tx)
  BY <1>1, <1>4 DEF VerifyPaymentState, VerifyAcceptedPayment, VerifyArbitratedPayment, Completed
<1> QED
  BY <1>1, <1>2, <1>3, <1>5

\* What a step signs when it signs for a pool: a payment on top of a completed state, or a close.
LEMMA BuiltFacts ==
  ASSUME Inv, NEW built \in VerifiedOpenings,
         NEW unsigned \in BuildPaymentUpdate(built) \cup BuildImmediateClose(built)
  PROVE  /\ unsigned.tx \in Transaction /\ unsigned.tx.funding = built.funding
         /\ unsigned.tx.arbiter = 0
         /\ \/ unsigned.tx.sequence = FinalSequence /\ unsigned.tx.lock = FinalSequence
            \/ /\ unsigned.tx.sequence # FinalSequence
               /\ \E previous \in {s.tx : s \in signatures} :
                    /\ previous.funding = unsigned.tx.funding
                    /\ previous.sequence = unsigned.tx.sequence - 1
                    /\ previous.seller =< unsigned.tx.seller
                    /\ Completed(previous)
<1> DEFINE Paid(tx) ==
      /\ tx.sequence # FinalSequence
      /\ \E previous \in {s.tx : s \in signatures} :
           /\ previous.funding = tx.funding
           /\ previous.sequence = tx.sequence - 1
           /\ previous.seller =< tx.seller
           /\ Completed(previous)
<1>0. /\ PoolOutput(built) \in Nat /\ Fee[built.rate] \in Nat /\ built.funding \in Fundings
  BY OpeningFacts
<1>1. CASE unsigned \in BuildPaymentUpdate(built)
  <2>0. PICK c \in Choices(built) :
          /\ c.base.sequence # FinalSequence
          /\ CheckPaymentCapacity(built, c.base, c.base.sequence + 1, c.seller)
          /\ Allocates(PoolOutput(built), Fee[built.rate], c.seller, 0)
          /\ unsigned = Unsigned(State(c.base.funding, c.base.sequence + 1, c.base.lock,
                                       PoolOutput(built), Fee[built.rate], c.seller, 0), built)
    BY <1>1 DEF BuildPaymentUpdate
  <2>1. PICK previous \in States(built), seller \in Payments :
          /\ previous.sequence # FinalSequence
          /\ CheckPaymentCapacity(built, previous, previous.sequence + 1, seller)
          /\ Allocates(PoolOutput(built), Fee[built.rate], seller, 0)
          /\ unsigned = Unsigned(State(previous.funding, previous.sequence + 1, previous.lock,
                                       PoolOutput(built), Fee[built.rate], seller, 0), built)
    BY <2>0 DEF Choices
  <2> DEFINE tx == State(previous.funding, previous.sequence + 1, previous.lock,
                         PoolOutput(built), Fee[built.rate], seller, 0)
  <2>2. unsigned.tx = tx
    BY <2>1 DEF Unsigned
  <2>3. /\ previous \in Transaction /\ previous.funding = built.funding
        /\ previous \in {s.tx : s \in signatures} /\ Completed(previous)
    BY StateFacts
  <2>4. /\ previous.sequence \in 0..FinalSequence /\ previous.lock \in Locks \cup {FinalSequence}
        /\ previous.seller \in Nat
    BY <2>3 DEF Transaction
  <2>5. /\ previous.sequence + 1 \in 0..FinalSequence /\ previous.sequence + 1 # FinalSequence
        /\ previous.seller =< seller /\ seller \in Nat
        /\ (previous.sequence + 1) - 1 = previous.sequence
    BY <2>1, <2>4 DEF CheckPaymentCapacity
  <2>6. tx \in Transaction
    BY <1>0, <2>1, <2>3, <2>4, <2>5, StateType
  <2>7. /\ tx.funding = previous.funding /\ tx.sequence = previous.sequence + 1
        /\ tx.seller = seller /\ tx.arbiter = 0
    BY DEF State
  <2>8. Paid(tx)
    BY <2>3, <2>5, <2>7
  <2> HIDE DEF tx
  <2> QED
    BY <2>2, <2>3, <2>6, <2>7, <2>8
<1>2. CASE unsigned \in BuildImmediateClose(built)
  <2>0. PICK c \in Choices(built) :
          /\ Allocates(PoolOutput(built), Fee[built.rate], c.seller, 0)
          /\ unsigned = Unsigned(State(c.base.funding, FinalSequence, FinalSequence,
                                       PoolOutput(built), Fee[built.rate], c.seller, 0), built)
    BY <1>2 DEF BuildImmediateClose
  <2>1. PICK base \in States(built), seller \in Payments :
          /\ Allocates(PoolOutput(built), Fee[built.rate], seller, 0)
          /\ unsigned = Unsigned(State(base.funding, FinalSequence, FinalSequence,
                                       PoolOutput(built), Fee[built.rate], seller, 0), built)
    BY <2>0 DEF Choices
  <2>2. base.funding = built.funding
    BY StateFacts
  <2> DEFINE tx == State(base.funding, FinalSequence, FinalSequence,
                         PoolOutput(built), Fee[built.rate], seller, 0)
  <2>3. tx \in Transaction
    BY <1>0, <2>1, <2>2, StateType
  <2>4. /\ tx.funding = base.funding /\ tx.sequence = FinalSequence /\ tx.lock = FinalSequence
        /\ tx.arbiter = 0
    BY DEF State
  <2>5. unsigned.tx = tx
    BY <2>1 DEF Unsigned
  <2> HIDE DEF tx
  <2> QED
    BY <2>2, <2>3, <2>4, <2>5
<1> QED
  BY <1>1, <1>2

\* An arbitration candidate is a state of the opening its claim was made from.
LEMMA CandidateFacts ==
  ASSUME Inv, NEW proof \in VerifiedOpenings, NEW tx \in BuildArbitrationPayment(Claim(proof))
  PROVE  /\ tx \in Transaction /\ tx.funding = proof.funding
         /\ tx.sequence # FinalSequence /\ tx.arbiter > 0
         /\ Canonical(tx, proof)
<1> DEFINE template == proof.template
<1>0. PICK terms \in Terms :
        /\ ValidateClaim(Claim(proof), terms)
        /\ terms.arbiter > 0 /\ terms.arbiter =< Claim(proof).template.buyer - terms.seller
        /\ tx = ArbitrationPayment(Claim(proof), terms)
  BY DEF BuildArbitrationPayment
<1> DEFINE sequence == terms.sequence
           seller   == terms.seller
           award    == terms.arbiter
<1>1. /\ sequence \in 1..FinalSequence /\ seller \in Nat /\ award \in Nat
      /\ award > 0 /\ award =< Claim(proof).template.buyer - seller
      /\ sequence # FinalSequence
  BY <1>0 DEF ValidateClaim, Terms
<1>2. Claim(proof).template = template
  BY DEF Claim
<1>3. /\ template \in Transaction /\ template.funding = proof.funding
      /\ PoolOutput(proof) = template.buyer + Fee[proof.rate]
      /\ Fee[proof.rate] \in Nat /\ PoolOutput(proof) > 0 /\ PoolOutput(proof) \in Nat
  BY OpeningFacts
<1>4. template.buyer \in Nat /\ seller \in Nat /\ award \in Nat /\ sequence # FinalSequence
  BY <1>1, <1>3 DEF Transaction
<1>5. tx = [funding |-> template.funding, sequence |-> sequence, lock |-> template.lock,
            buyer |-> template.buyer - seller - award, seller |-> seller, arbiter |-> award]
  BY <1>0, <1>2 DEF ArbitrationPayment
<1>6. /\ tx.funding = template.funding /\ tx.sequence = sequence /\ tx.lock = template.lock
      /\ tx.buyer = template.buyer - seller - award /\ tx.seller = seller /\ tx.arbiter = award
  BY <1>3, <1>5 DEF Transaction
<1>7. template.buyer - seller - award \in Nat
  BY <1>1, <1>2, <1>4
<1>8. tx \in Transaction
  <2>1. /\ template.funding \in Fundings /\ template.lock \in Locks \cup {FinalSequence}
        /\ sequence \in 0..FinalSequence
    BY <1>1, <1>3 DEF Transaction
  <2> HIDE DEF template, sequence, seller, award
  <2> QED
    BY <2>1, <1>4, <1>5, <1>7 DEF Transaction
<1>9. /\ seller + award + Fee[proof.rate] =< PoolOutput(proof)
      /\ PoolOutput(proof) - seller - award - Fee[proof.rate] = template.buyer - seller - award
  BY <1>3, <1>4, <1>7
<1>10. Allocates(PoolOutput(proof), Fee[proof.rate], tx.seller, tx.arbiter)
  BY <1>3, <1>6, <1>9 DEF Allocates
<1>11. tx = State(tx.funding, tx.sequence, tx.lock, PoolOutput(proof), Fee[proof.rate],
                  tx.seller, tx.arbiter)
  <2>1. tx = [funding |-> tx.funding, sequence |-> tx.sequence, lock |-> tx.lock,
              buyer |-> tx.buyer, seller |-> tx.seller, arbiter |-> tx.arbiter]
    BY <1>8 DEF Transaction
  <2> QED
    BY <2>1, <1>6, <1>9 DEF State
<1>12. Canonical(tx, proof)
  BY <1>1, <1>3, <1>4, <1>6, <1>10, <1>11 DEF Canonical
<1> QED
  BY <1>1, <1>3, <1>4, <1>6, <1>8, <1>12

-----------------------------------------------------------------------------

\* One step adds at most one signature, and this is all there is to know about it.
LEMMA StepSigns ==
  ASSUME Inv, Next
  PROVE  \E role \in Roles, tx \in Transaction, pool \in Nat :
           /\ signatures' = signatures \cup {[role |-> role, tx |-> tx, amount |-> pool]}
           /\ Cardinality(signatures) < MaxSignatures
           /\ pool = Amount[tx.funding]
           /\ tx.sequence = FinalSequence => tx.lock = FinalSequence /\ tx.arbiter = 0
           /\ tx.sequence \in (RefundSequence + 1)..(FinalSequence - 1) /\ tx.arbiter = 0 =>
                \E previous \in {s.tx : s \in signatures} :
                  /\ previous.funding = tx.funding
                  /\ previous.sequence = tx.sequence - 1
                  /\ previous.seller =< tx.seller
                  /\ Completed(previous)
<1> DEFINE Fits(tx) ==
      /\ tx.sequence = FinalSequence => tx.lock = FinalSequence /\ tx.arbiter = 0
      /\ tx.sequence \in (RefundSequence + 1)..(FinalSequence - 1) /\ tx.arbiter = 0 =>
           \E previous \in {s.tx : s \in signatures} :
             /\ previous.funding = tx.funding
             /\ previous.sequence = tx.sequence - 1
             /\ previous.seller =< tx.seller
             /\ Completed(previous)
<1> SUFFICES \E role \in Roles, tx \in Transaction, pool \in Nat :
               Sign(role, tx, pool) /\ pool = Amount[tx.funding] /\ Fits(tx)
  BY DEF Sign
<1>1. ASSUME NEW funding \in Fundings, NEW lock \in Locks, NEW rate \in Rates,
             BuildRefundPresignRequest(funding, lock, rate)
      PROVE  \E role \in Roles, tx \in Transaction, pool \in Nat :
               Sign(role, tx, pool) /\ pool = Amount[tx.funding] /\ Fits(tx)
  <2> DEFINE tx == State(funding, RefundSequence, lock, Amount[funding], Fee[rate], 0, 0)
  <2>1. Amount[funding] \in Nat /\ Fee[rate] \in Nat
    OBVIOUS
  <2>2. Allocates(Amount[funding], Fee[rate], 0, 0) /\ Sign("buyer", tx, Amount[funding])
    BY <1>1 DEF BuildRefundPresignRequest
  <2>3. tx \in Transaction
    BY <2>1, <2>2, StateType
  <2>4. tx.funding = funding /\ tx.sequence = 2
    BY DEF State
  <2> HIDE DEF tx
  <2>5. Fits(tx)
    BY <2>4
  <2> QED
    BY <2>1, <2>2, <2>3, <2>4, <2>5 DEF Roles
<1>2. ASSUME NEW template \in Templates, NEW rate \in Rates, SignSellerRefund(template, rate)
      PROVE  \E role \in Roles, tx \in Transaction, pool \in Nat :
               Sign(role, tx, pool) /\ pool = Amount[tx.funding] /\ Fits(tx)
  <2>1. [role |-> "buyer", tx |-> template, amount |-> PoolAmount(template, rate)] \in signatures
    BY <1>2 DEF SignSellerRefund, VerifyRefundPresignRequest, Signed
  <2>2. /\ template \in Transaction /\ PoolAmount(template, rate) \in Nat
        /\ PoolAmount(template, rate) = Amount[template.funding]
    BY <2>1 DEF Inv, AmountsAreReal, Signature
  <2>3. template.sequence = 2
    BY DEF Templates
  <2>4. Fits(template)
    BY <2>3
  <2> QED
    BY <1>2, <2>2, <2>4 DEF SignSellerRefund, Roles
<1>3. ASSUME NEW built \in VerifiedOpenings, NEW proof \in VerifiedOpenings, NEW role \in Roles,
             NEW unsigned \in BuildPaymentUpdate(built) \cup BuildImmediateClose(built),
             SignPayment(role, unsigned, proof)
      PROVE  Sign(role, unsigned.tx, PoolOutput(proof)) /\ unsigned.tx \in Transaction
             /\ PoolOutput(proof) \in Nat
             /\ PoolOutput(proof) = Amount[unsigned.tx.funding] /\ Fits(unsigned.tx)
  <2>1. unsigned.tx.funding = proof.funding /\ Sign(role, unsigned.tx, PoolOutput(proof))
    BY <1>3 DEF SignPayment, ValidateUnsignedPayment, Canonical
  <2>2. PoolOutput(proof) = Amount[unsigned.tx.funding] /\ PoolOutput(proof) \in Nat
    BY <2>1, OpeningFacts
  <2>3. unsigned.tx \in Transaction /\ Fits(unsigned.tx)
    BY BuiltFacts DEF Transaction
  <2> QED
    BY <2>1, <2>2, <2>3
<1>4. ASSUME NEW proof \in VerifiedOpenings, NEW role \in {"seller", "arbiter"},
             SignArbitrationPayment(role, proof)
      PROVE  \E r \in Roles, tx \in Transaction, pool \in Nat :
               Sign(r, tx, pool) /\ pool = Amount[tx.funding] /\ Fits(tx)
  <2>1. PICK tx \in BuildArbitrationPayment(Claim(proof)) : Sign(role, tx, PoolOutput(proof))
    BY <1>4 DEF SignArbitrationPayment, Claim
  <2>2. /\ tx \in Transaction /\ tx.funding = proof.funding
        /\ tx.sequence # FinalSequence /\ tx.arbiter > 0
    BY CandidateFacts
  <2>3. PoolOutput(proof) \in Nat /\ PoolOutput(proof) = Amount[tx.funding]
    BY <2>2, OpeningFacts
  <2>4. Fits(tx)
    BY <2>2
  <2> QED
    BY <2>1, <2>2, <2>3, <2>4 DEF Roles
<1>5. CASE \E funding \in Fundings, lock \in Locks, rate \in Rates :
             BuildRefundPresignRequest(funding, lock, rate)
  BY <1>1, <1>5
<1>6. CASE \E template \in Templates, rate \in Rates : SignSellerRefund(template, rate)
  BY <1>2, <1>6
<1>7. CASE \E built, proof \in VerifiedOpenings :
             \E unsigned \in BuildPaymentUpdate(built) \cup BuildImmediateClose(built) :
               \/ \E role \in {"buyer", "seller"} : SignPayment(role, unsigned, proof)
               \/ SignArbiterPayment(unsigned, proof)
  <2>1. PICK built \in VerifiedOpenings, proof \in VerifiedOpenings :
          \E unsigned \in BuildPaymentUpdate(built) \cup BuildImmediateClose(built) :
            \E role \in Roles : SignPayment(role, unsigned, proof)
    BY <1>7 DEF SignArbiterPayment, Roles
  <2>2. PICK unsigned \in BuildPaymentUpdate(built) \cup BuildImmediateClose(built) :
          \E role \in Roles : SignPayment(role, unsigned, proof)
    BY <2>1
  <2> QED
    BY <1>3, <2>2
<1>8. CASE \E proof \in VerifiedOpenings, role \in {"seller", "arbiter"} :
             SignArbitrationPayment(role, proof)
  BY <1>4, <1>8
<1> QED
  BY <1>5, <1>6, <1>7, <1>8 DEF Next

LEMMA InvStep ==
  ASSUME Inv, [Next]_signatures
  PROVE  Inv'
<1>1. CASE UNCHANGED signatures
  BY <1>1 DEF Inv, AmountsAreReal
<1>2. CASE Next
  <2>1. PICK role \in Roles, tx \in Transaction, pool \in Nat :
          /\ signatures' = signatures \cup {[role |-> role, tx |-> tx, amount |-> pool]}
          /\ pool = Amount[tx.funding]
    BY <1>2, StepSigns
  <2>2. [role |-> role, tx |-> tx, amount |-> pool] \in Signature
    BY DEF Signature
  <2> QED
    BY <2>1, <2>2 DEF Inv, AmountsAreReal
<1> QED
  BY <1>1, <1>2

\* The signatures of the engine have their types and cover the amounts of the outputs spent.
THEOREM EngineInvariant == Spec => []Inv
<1>1. Init => Inv
  BY DEF Init, Inv, AmountsAreReal
<1> QED
  BY <1>1, InvStep, PTL DEF Spec

\* Nobody signs over an amount other than the output's own, whatever rate is claimed.
THEOREM AmountsReal == Spec => []AmountsAreReal
<1>1. Inv => AmountsAreReal
  BY DEF Inv
<1> QED
  BY <1>1, EngineInvariant, PTL

\* Every signature has its type, and no more are made than the bound allows.
THEOREM EngineTypeCorrect == Spec => []TypeOK
<1> DEFINE Bounded == IsFiniteSet(signatures) /\ Cardinality(signatures) =< MaxSignatures
<1>1. Init => Bounded
  BY FS_EmptySet DEF Init
<1>2. Bounded /\ Inv /\ [Next]_signatures => Bounded'
  <2> SUFFICES ASSUME Bounded, Inv, Next PROVE Bounded'
    OBVIOUS
  <2>1. PICK role \in Roles, tx \in Transaction, pool \in Nat :
          /\ signatures' = signatures \cup {[role |-> role, tx |-> tx, amount |-> pool]}
          /\ Cardinality(signatures) < MaxSignatures
    BY StepSigns
  <2> DEFINE new == [role |-> role, tx |-> tx, amount |-> pool]
  <2>2. /\ IsFiniteSet(signatures \cup {new})
        /\ Cardinality(signatures) \in Nat
        /\ \/ Cardinality(signatures \cup {new}) = Cardinality(signatures)
           \/ Cardinality(signatures \cup {new}) = Cardinality(signatures) + 1
    <3> HIDE DEF new
    <3> QED
      BY FS_AddElement, FS_CardinalityType
  <2> QED
    BY <2>1, <2>2
<1>3. Inv /\ Bounded => TypeOK
  BY DEF Inv, TypeOK, Signature
<1> QED
  BY <1>1, <1>2, <1>3, EngineInvariant, PTL DEF Spec

\* Only a close has the final sequence.
THEOREM OnlyClosesAreFinal == Spec => []OnlyCloseIsFinal
<1>1. Init => OnlyCloseIsFinal
  BY DEF Init, OnlyCloseIsFinal
<1>2. Inv /\ OnlyCloseIsFinal /\ [Next]_signatures => OnlyCloseIsFinal'
  <2> SUFFICES ASSUME Inv, OnlyCloseIsFinal, Next PROVE OnlyCloseIsFinal'
    BY DEF OnlyCloseIsFinal
  <2>1. PICK role \in Roles, tx \in Transaction, pool \in Nat :
          /\ signatures' = signatures \cup {[role |-> role, tx |-> tx, amount |-> pool]}
          /\ tx.sequence = FinalSequence => tx.lock = FinalSequence /\ tx.arbiter = 0
    BY StepSigns
  <2> QED
    BY <2>1 DEF OnlyCloseIsFinal
<1> QED
  BY <1>1, <1>2, EngineInvariant, PTL DEF Spec

\* A payment is signed on top of a completed state that pays the seller no more.
THEOREM PaymentsAreChained == Spec => []PaymentsExtendCompleted
<1> DEFINE Chained(tx) ==
      tx.sequence \in (RefundSequence + 1)..(FinalSequence - 1) /\ tx.arbiter = 0 =>
        \E previous \in {s.tx : s \in signatures} :
          /\ previous.funding = tx.funding
          /\ previous.sequence = tx.sequence - 1
          /\ previous.seller =< tx.seller
          /\ Completed(previous)
<1>1. Init => PaymentsExtendCompleted
  BY DEF Init, PaymentsExtendCompleted
<1>2. Inv /\ PaymentsExtendCompleted /\ [Next]_signatures => PaymentsExtendCompleted'
  <2> SUFFICES ASSUME Inv, PaymentsExtendCompleted, [Next]_signatures
               PROVE  PaymentsExtendCompleted'
    OBVIOUS
  <2>0. CASE UNCHANGED signatures
    BY <2>0 DEF PaymentsExtendCompleted, Completed, Signed
  <2>9. CASE Next
    <3>1. PICK role \in Roles, tx \in Transaction, pool \in Nat :
            /\ signatures' = signatures \cup {[role |-> role, tx |-> tx, amount |-> pool]}
            /\ Chained(tx)
      BY <2>9, StepSigns
    <3>2. signatures \subseteq signatures'
      BY <3>1
    <3>3. ASSUME NEW done, Completed(done) PROVE Completed(done)'
      BY <3>2, <3>3 DEF Completed, Signed
    <3>4. {s.tx : s \in signatures} \subseteq {s.tx : s \in signatures'}
      BY <3>2
    <3>5. \A signature \in signatures' : signature.tx = tx \/ signature \in signatures
      BY <3>1
    <3>6. \A signature \in signatures' : Chained(signature.tx)
      BY <3>1, <3>5 DEF PaymentsExtendCompleted
    <3>7. \A signature \in signatures' :
            signature.tx.sequence \in (RefundSequence + 1)..(FinalSequence - 1)
              /\ signature.tx.arbiter = 0 =>
              \E previous \in {s.tx : s \in signatures'} :
                /\ previous.funding = signature.tx.funding
                /\ previous.sequence = signature.tx.sequence - 1
                /\ previous.seller =< signature.tx.seller
                /\ Completed(previous)'
      BY <3>3, <3>4, <3>6
    <3> QED
      BY <3>7 DEF PaymentsExtendCompleted, Completed, Signed
  <2> QED
    BY <2>0, <2>9
<1> QED
  BY <1>1, <1>2, EngineInvariant, PTL DEF Spec

\* The two builders of states agree: what the claim gives, the opening accepts.
THEOREM ArbitratedStatesRestore == Spec => []ArbitratedIsRestorable
<1>1. Inv => ArbitratedIsRestorable
  <2> SUFFICES ASSUME Inv, NEW proof \in VerifiedOpenings,
                      NEW tx \in BuildArbitrationPayment(Claim(proof)),
                      MergeArbitrationPayment(tx, Claim(proof))
               PROVE  VerifyArbitratedPayment(tx, proof)
    BY DEF ArbitratedIsRestorable
  <2>1. Claim(proof).amount = PoolOutput(proof)
    BY DEF Claim
  <2> QED
    BY <2>1, CandidateFacts DEF MergeArbitrationPayment, VerifyArbitratedPayment
<1> QED
  BY <1>1, EngineInvariant, PTL
=============================================================================
