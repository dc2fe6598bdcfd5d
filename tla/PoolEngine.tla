----------------------------- MODULE PoolEngine -----------------------------
(***************************************************************************)
(* The pool engine (package pool): what it derives from transaction bytes,   *)
(* which transactions each role will put its signature to, and which it      *)
(* takes for a state of the pool.  The engine keeps no state: the only       *)
(* thing that lasts is the signatures made, and every call may be given any  *)
(* evidence that exists, of any opening, under any fee rate - as after a     *)
(* restart, a retried opening or a message for another pool.                 *)
(*                                                                          *)
(* All openings here are of one engine, that is of one triple of role keys,  *)
(* and several of them may spend the same funding output.  A transaction is  *)
(* the record of the fields the engine reads; its id is the record.          *)
(***************************************************************************)
EXTENDS Naturals, FiniteSets

CONSTANTS
  Fundings,     \* funding transactions with the pool lock in output 0
  Amount,       \* [Fundings -> Nat]: satoshis of that output
  Locks,        \* refund locktimes
  Rates,        \* miner fee rates
  Fee,          \* [Rates -> Nat]: fee of a pool state, whose size is constant
  Payments,     \* cumulative seller amounts asked for
  Awards,       \* arbiter fees asked for
  FinalSequence, \* finalPoolSequence, also the final locktime
  MaxSatoshis,  \* math.MaxUint64
  MaxSignatures \* bound on the signatures made

RefundSequence == 2

ASSUME AmountAssumption ==
  /\ MaxSatoshis \in Nat /\ MaxSignatures \in Nat
  /\ Amount \in [Fundings -> 0..MaxSatoshis] /\ Fee \in [Rates -> 0..MaxSatoshis]
ASSUME ChoiceAssumption == Locks \subseteq Nat /\ Payments \subseteq Nat /\ Awards \subseteq Nat
ASSUME SequenceAssumption == FinalSequence \in Nat /\ FinalSequence > RefundSequence

VARIABLE signatures  \* [role, tx, amount]: ForkID|All covers the spent amount too

-----------------------------------------------------------------------------
(* Transactions and openings *)

Roles == {"buyer", "seller", "arbiter"}

State(funding, sequence, lock, pool, fee, seller, arbiter) ==
  [funding |-> funding, sequence |-> sequence, lock |-> lock,
   buyer |-> pool - seller - arbiter - fee, seller |-> seller, arbiter |-> arbiter]

\* BuildArbitratedPoolState: what the buyer keeps must cover the fee.
Allocates(pool, fee, seller, arbiter) == pool > 0 /\ seller + arbiter + fee =< pool

\* Faulty form: the signature covers the transaction alone.
Signed_TxOnly(role, tx, pool) ==
  \E signature \in signatures : signature.role = role /\ signature.tx = tx

Signed(role, tx, pool) == [role |-> role, tx |-> tx, amount |-> pool] \in signatures

Templates == {signature.tx : signature \in {s \in signatures : s.tx.sequence = RefundSequence}}

\* deriveRefundPresignTerms: the amount is not in the template but follows from the rate.
PoolAmount(template, rate) == template.buyer + Fee[rate]

DerivesTerms(template, rate) ==
  /\ template.sequence = RefundSequence
  /\ template.buyer =< MaxSatoshis - Fee[rate]
  /\ PoolAmount(template, rate) > 0
  /\ template = State(template.funding, RefundSequence, template.lock,
                      PoolAmount(template, rate), Fee[rate], 0, 0)

Proof == [template : Templates, rate : Rates, funding : Fundings]

\* An OpeningProof's amount, once VerifyOpening holds.
PoolOutput(proof) == PoolAmount(proof.template, proof.rate)

VerifyFundingTx(proof) ==
  /\ proof.funding = proof.template.funding
  /\ Amount[proof.funding] = PoolOutput(proof)

VerifyRefundPresignRequest(template, rate) ==
  /\ DerivesTerms(template, rate)
  /\ Signed("buyer", template, PoolAmount(template, rate))

VerifyOpening(proof) ==
  /\ VerifyRefundPresignRequest(proof.template, proof.rate)
  /\ VerifyFundingTx(proof)
  /\ Signed("seller", proof.template, PoolOutput(proof))

VerifiedOpenings == {proof \in Proof : VerifyOpening(proof)}

-----------------------------------------------------------------------------
(* Pool states *)

\* parseUnsignedOrSignedState, verifyCanonicalState: the locktime of a state that is
\* not final is its own, whatever the opening's.
Canonical(tx, proof) ==
  /\ tx.funding = proof.funding
  /\ tx.sequence # 0
  /\ tx.sequence = FinalSequence => tx.lock = FinalSequence
  /\ Allocates(PoolOutput(proof), Fee[proof.rate], tx.seller, tx.arbiter)
  /\ tx = State(tx.funding, tx.sequence, tx.lock, PoolOutput(proof), Fee[proof.rate],
                tx.seller, tx.arbiter)

\* verifyComplete: arbitrated states pay the arbiter, the others never do.
VerifyAcceptedPayment(tx, proof) ==
  /\ Canonical(tx, proof) /\ tx.arbiter = 0
  /\ \A role \in {"buyer", "seller"} : Signed(role, tx, PoolOutput(proof))

VerifyArbitratedPayment(tx, proof) ==
  /\ Canonical(tx, proof) /\ tx.arbiter > 0
  /\ \A role \in {"seller", "arbiter"} : Signed(role, tx, PoolOutput(proof))

\* Faulty form: content with the seller's signature.
VerifyPaymentState_OneSignature(tx, proof) ==
  Canonical(tx, proof) /\ Signed("seller", tx, PoolOutput(proof))

VerifyPaymentState(tx, proof) ==
  VerifyAcceptedPayment(tx, proof) \/ VerifyArbitratedPayment(tx, proof)

\* The states an application can restore for an opening.
States(proof) == {tx \in {s.tx : s \in signatures} : VerifyPaymentState(tx, proof)}

\* An UnsignedPayment: the transaction and the id of the pool it was built for.
Unsigned(tx, proof) == [tx |-> tx, id |-> proof.template]

CheckPaymentCapacity(proof, previous, sequence, seller) ==
  /\ previous.seller =< seller /\ seller =< PoolOutput(proof)
  /\ previous.sequence < sequence /\ sequence # FinalSequence

\* What an update or a close is built from.
Choices(proof) == [base : States(proof), seller : Payments]

\* The next state inherits the locktime of the previous one.
BuildPaymentUpdate(proof) ==
  LET Extends(c) ==
        /\ c.base.sequence # FinalSequence
        /\ CheckPaymentCapacity(proof, c.base, c.base.sequence + 1, c.seller)
        /\ Allocates(PoolOutput(proof), Fee[proof.rate], c.seller, 0)
  IN  {Unsigned(State(c.base.funding, c.base.sequence + 1, c.base.lock,
                      PoolOutput(proof), Fee[proof.rate], c.seller, 0), proof) :
         c \in {d \in Choices(proof) : Extends(d)}}

BuildImmediateClose(proof) ==
  LET Closes(c) ==
        /\ c.base.sequence < FinalSequence
        /\ \/ c.seller + c.base.buyer + c.base.arbiter =< PoolOutput(proof)
           \/ c.seller =< PoolOutput(proof) - c.base.arbiter
        /\ Allocates(PoolOutput(proof), Fee[proof.rate], c.seller, 0)
  IN  {Unsigned(State(c.base.funding, FinalSequence, FinalSequence,
                      PoolOutput(proof), Fee[proof.rate], c.seller, 0), proof) :
         c \in {d \in Choices(proof) : Closes(d)}}

ValidateUnsignedPayment(unsigned, proof) ==
  /\ unsigned.id = proof.template
  /\ unsigned.tx.arbiter = 0
  /\ Canonical(unsigned.tx, proof)

-----------------------------------------------------------------------------
(* Arbitration: the candidate is built from the claim, without opening or fee rate *)

Claim(proof) == [amount |-> PoolOutput(proof), template |-> proof.template]

\* What the payment is asked to be: its sequence, the seller's amount and the arbiter's.
Terms == [sequence : 1..FinalSequence, seller : Payments, arbiter : Awards]

\* Faulty form: any sequence beyond the refund's.
ValidateClaim_AnySequence(claim, terms) ==
  /\ claim.template.sequence # FinalSequence /\ claim.template.sequence < terms.sequence
  /\ claim.template.seller = 0 /\ claim.template.arbiter = 0
  /\ claim.template.buyer =< claim.amount
  /\ terms.seller =< claim.template.buyer

ValidateClaim(claim, terms) ==
  /\ claim.template.sequence # FinalSequence
  /\ claim.template.sequence < terms.sequence /\ terms.sequence # FinalSequence
  /\ claim.template.seller = 0 /\ claim.template.arbiter = 0
  /\ claim.template.buyer =< claim.amount
  /\ terms.seller =< claim.template.buyer

\* Faulty form: shares out the whole pool output.
ArbitrationPayment_NoFee(claim, terms) ==
  [funding |-> claim.template.funding, sequence |-> terms.sequence,
   lock |-> claim.template.lock, buyer |-> claim.amount - terms.seller - terms.arbiter,
   seller |-> terms.seller, arbiter |-> terms.arbiter]

\* What the refund left unspent is kept as the fee.
ArbitrationPayment(claim, terms) ==
  [funding |-> claim.template.funding, sequence |-> terms.sequence,
   lock |-> claim.template.lock,
   buyer |-> claim.template.buyer - terms.seller - terms.arbiter,
   seller |-> terms.seller, arbiter |-> terms.arbiter]

BuildArbitrationPayment(claim) ==
  LET Affordable(terms) ==
        /\ ValidateClaim(claim, terms)
        /\ terms.arbiter > 0 /\ terms.arbiter =< claim.template.buyer - terms.seller
  IN  {ArbitrationPayment(claim, terms) : terms \in {t \in Terms : Affordable(t)}}

MergeArbitrationPayment(tx, claim) ==
  \A role \in {"seller", "arbiter"} : Signed(role, tx, claim.amount)

-----------------------------------------------------------------------------
Init == signatures = {}

\* signDigest: the signer's key is the role's, and the result is verified.
Sign(role, tx, pool) ==
  /\ Cardinality(signatures) < MaxSignatures
  /\ signatures' = signatures \cup {[role |-> role, tx |-> tx, amount |-> pool]}

\* Faulty form: leaves it to the miners whether the output covers the fee.
BuildRefundPresignRequest_NoFeeCheck(funding, lock, rate) ==
  /\ lock # 0
  /\ Sign("buyer", State(funding, RefundSequence, lock, Amount[funding], Fee[rate], 0, 0),
          Amount[funding])

BuildRefundPresignRequest(funding, lock, rate) ==
  /\ lock # 0
  /\ Allocates(Amount[funding], Fee[rate], 0, 0)
  /\ Sign("buyer", State(funding, RefundSequence, lock, Amount[funding], Fee[rate], 0, 0),
          Amount[funding])

\* Kind 2 names a rate beside the template; the seller has not seen the funding.
SignSellerRefund(template, rate) ==
  /\ VerifyRefundPresignRequest(template, rate)
  /\ Sign("seller", template, PoolAmount(template, rate))

SignPayment(role, unsigned, proof) ==
  /\ ValidateUnsignedPayment(unsigned, proof)
  /\ Sign(role, unsigned.tx, PoolOutput(proof))

\* Exported beside the arbitration path: signs a state that pays the arbiter nothing.
SignArbiterPayment(unsigned, proof) ==
  /\ unsigned.tx.sequence # FinalSequence
  /\ SignPayment("arbiter", unsigned, proof)

SignArbitrationPayment(role, proof) ==
  \E tx \in BuildArbitrationPayment(Claim(proof)) : Sign(role, tx, Claim(proof).amount)

Next ==
  \/ \E funding \in Fundings, lock \in Locks, rate \in Rates :
       BuildRefundPresignRequest(funding, lock, rate)
  \/ \E template \in Templates, rate \in Rates : SignSellerRefund(template, rate)
  \/ \E built, proof \in VerifiedOpenings :
       \E unsigned \in BuildPaymentUpdate(built) \cup BuildImmediateClose(built) :
         \/ \E role \in {"buyer", "seller"} : SignPayment(role, unsigned, proof)
         \/ SignArbiterPayment(unsigned, proof)
  \/ \E proof \in VerifiedOpenings, role \in {"seller", "arbiter"} :
       SignArbitrationPayment(role, proof)

Spec == Init /\ [][Next]_signatures

-----------------------------------------------------------------------------
(* Properties *)

Transaction ==
  [funding : Fundings, sequence : 0..FinalSequence, lock : Locks \cup {FinalSequence},
   buyer : Nat, seller : Nat, arbiter : Nat]

\* Every signature is a role's, over a transaction of the pool's form and an amount.
TypeOK ==
  /\ signatures \subseteq [role : Roles, tx : Transaction, amount : Nat]
  /\ Cardinality(signatures) =< MaxSignatures

\* Kind 2 carries no funding transaction and the template no rate, and a retried opening
\* may name another one: still nobody signs over an amount other than the output's own.
AmountsAreReal == \A signature \in signatures : signature.amount = Amount[signature.tx.funding]

\* The arbitrated transaction is built from the claim alone, without the fee rate: once both
\* signed it, the buyer and the seller can restore it as the state of the pool it is from.
ArbitratedIsRestorable ==
  \A proof \in VerifiedOpenings : \A tx \in BuildArbitrationPayment(Claim(proof)) :
    MergeArbitrationPayment(tx, Claim(proof)) => VerifyArbitratedPayment(tx, proof)

\* The final sequence, which the miners take at once, is only ever signed in a close that
\* pays the arbiter nothing: payments and awards count up to it without reaching it.
OnlyCloseIsFinal ==
  \A signature \in signatures : signature.tx.sequence = FinalSequence =>
    signature.tx.lock = FinalSequence /\ signature.tx.arbiter = 0

\* A payment is only signed on top of a state both parties to it have completed, which pays
\* the seller no more, whatever the order and the pool the earlier ones were restored in.
Completed(tx) ==
  \E other \in {"buyer", "arbiter"} : \A role \in {"seller", other} : Signed(role, tx, Amount[tx.funding])

PaymentsExtendCompleted ==
  \A signature \in signatures :
    signature.tx.sequence \in (RefundSequence + 1)..(FinalSequence - 1) /\ signature.tx.arbiter = 0 =>
      \E previous \in {s.tx : s \in signatures} :
        /\ previous.funding = signature.tx.funding
        /\ previous.sequence = signature.tx.sequence - 1
        /\ previous.seller =< signature.tx.seller
        /\ Completed(previous)

\* Restoring a pool refuses a payment that belongs to another pool.  Broken by the code: of
\* two pools over one funding output, each takes the other's payments for its own.
StateOfOnePool ==
  \A proof \in VerifiedOpenings : \A tx \in States(proof) :
    tx.sequence # FinalSequence => tx.lock = proof.template.lock

=============================================================================
