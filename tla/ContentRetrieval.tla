--------------------------- MODULE ContentRetrieval ---------------------------
(***************************************************************************)
(* Fetching arbitrated content from the arbiter (Kinds 10 and 11), on top of *)
(* the pool of FeePool: the buyer asks for the content of a claim with a     *)
(* nonce, the arbiter answers from the record it holds in custody, and the   *)
(* buyer verifies the answer against its own evidence.                       *)
(*                                                                          *)
(* The record of a claim is FeePool's evidence: prepared while only Kind 8   *)
(* is stored, ready once the receipt (Kind 9) is.  Between the calls of the  *)
(* SDK stands the arbiter's application, which looks a record up, has the    *)
(* answer signed and commits the first one for good; it is external, taken   *)
(* from what the documents ask of it, and several of its workers may be on   *)
(* one request.  The time is inside the retention of the record, where the   *)
(* answer custody_gone does not occur; not_received commits nothing.         *)
(***************************************************************************)
EXTENDS FeePool

CONSTANTS
  Nonces,        \* the retrieval nonces the buyer draws
  MaxRetrievals, \* bound on the Kind 10 made
  NotReady       \* the answer of a record without its receipt

ASSUME RetrievalAssumption == MaxRetrievals \in Nat /\ NotReady \notin Batches

VARIABLES
  retrievals,  \* Kind 10: [auth, nonce]; auth stands for the Claim ID built from it
  working,     \* the answers signed by a worker and not yet committed
  answers,     \* Kind 11: [request, payload], the first answers committed
  retrieved    \* the authorizations whose content the buyer has accepted

retrievalVars == <<retrievals, working, answers, retrieved>>
allVars == <<vars, retrievalVars>>

-----------------------------------------------------------------------------
(* Checks *)

\* Faulty form: takes a signature of the buyer for a right to this record.
AuthenticateRetrieval_AnyClaim(request, stored) ==
  request \in retrievals /\ stored \in claims

\* Kind 8 is enough: the buyer's signature and the Claim ID of the record.
AuthenticateRetrieval(request, stored) ==
  /\ request \in retrievals
  /\ stored \in claims
  /\ request.auth = stored

\* Faulty form: serves what it holds, with the fee it has prepared.
VerifyCustodiedContent_NoReceipt(award) ==
  award \in prepared /\ BuildArbitrationPayment(award.auth, award.fee)

\* Kind 8 and Kind 9 together, without a clock.
VerifyCustodiedContent(award) ==
  award \in receipts /\ BuildArbitrationPayment(award.auth, award.fee)

\* The payloads hash to the batch authorized, and the authorization follows the
\* pool state that the buyer supplies.
VerifyAvailable(answer, previous) ==
  LET a == answer.request.auth
  IN /\ answer.payload = a.batch
     /\ previous.seq + 1 = a.seq
     /\ VerifyAcceptedPayment(previous)
     /\ a.after = previous.seller + Price[a.batch]

-----------------------------------------------------------------------------
RetrievalInit ==
  /\ Init
  /\ retrievals = {} /\ working = {} /\ answers = {} /\ retrieved = {}

(* Buyer *)

\* From the opening and the authorization alone: no clock, no pool state.
RequestArbitratedContent(a, nonce) ==
  /\ a \in requests
  /\ Cardinality(retrievals) < MaxRetrievals
  /\ retrievals' = retrievals \cup {[auth |-> a, nonce |-> nonce]}
  /\ UNCHANGED <<vars, working, answers, retrieved>>

\* The available branch; the other returns the reason and changes nothing.
VerifyArbitratedContent(answer, previous) ==
  /\ answer \in answers
  /\ VerifyAvailable(answer, previous)
  /\ retrieved' = retrieved \cup {answer.request.auth}
  /\ UNCHANGED <<vars, retrievals, working, answers>>

(* The arbiter's application *)

Answered(request) == \E answer \in answers : answer.request = request
Ready(a)          == \E award \in receipts : award.auth = a

\* One worker reads the record and has the answer signed.
SignNotReady(request, stored) ==
  /\ ~Answered(request)
  /\ \E award \in prepared : award.auth = stored
  /\ ~Ready(stored)
  /\ AuthenticateRetrieval(request, stored)
  /\ working' = working \cup {[request |-> request, payload |-> NotReady]}
  /\ UNCHANGED <<vars, retrievals, answers, retrieved>>

SignAvailable(request, award) ==
  /\ ~Answered(request)
  /\ VerifyCustodiedContent(award)
  /\ AuthenticateRetrieval(request, award.auth)
  /\ working' = working \cup {[request |-> request, payload |-> award.auth.batch]}
  /\ UNCHANGED <<vars, retrievals, answers, retrieved>>

\* Faulty form: commits a not_ready that the receipt has overtaken.
CommitFirstAnswer_Stale(answer) ==
  /\ working' = working \ {answer}
  /\ answers' = IF Answered(answer.request) THEN answers ELSE answers \cup {answer}
  /\ UNCHANGED <<vars, retrievals, retrieved>>

\* In one transaction: the loser is dropped, and so is a not_ready that the
\* receipt has overtaken.
CommitFirstAnswer(answer) ==
  /\ working' = working \ {answer}
  /\ answers' = IF \/ Answered(answer.request)
                   \/ answer.payload = NotReady /\ Ready(answer.request.auth)
                  THEN answers
                  ELSE answers \cup {answer}
  /\ UNCHANGED <<vars, retrievals, retrieved>>

Retrieve ==
  \/ \E a \in requests, nonce \in Nonces : RequestArbitratedContent(a, nonce)
  \/ \E answer \in answers, previous \in BuyerView :
        VerifyArbitratedContent(answer, previous)
  \/ \E request \in retrievals, stored \in claims : SignNotReady(request, stored)
  \/ \E request \in retrievals, award \in prepared : SignAvailable(request, award)
  \/ \E answer \in working : CommitFirstAnswer(answer)

RetrievalNext == (Next /\ UNCHANGED retrievalVars) \/ Retrieve

RetrievalSpec == RetrievalInit /\ [][RetrievalNext]_allVars

\* The arbiter's application works on the requests it has, and the buyer's on the
\* answers: each takes the pool state the authorization was signed on.
FairRetrieval ==
  /\ RetrievalSpec
  /\ WF_allVars(\E request \in retrievals, award \in prepared :
                   SignAvailable(request, award))
  /\ WF_allVars(\E answer \in working : CommitFirstAnswer(answer))
  /\ WF_allVars(\E answer \in answers, previous \in BuyerView :
                   VerifyArbitratedContent(answer, previous))

-----------------------------------------------------------------------------
(* Properties *)

RetrievalRequest == [auth : requests, nonce : Nonces]
Answer == [request : {r \in retrievals : r.auth \in claims},
           payload : Batches \cup {NotReady}]

\* Every variable keeps its type; nothing is signed for a claim not in custody.
RetrievalTypeOK ==
  /\ retrievals \subseteq RetrievalRequest
  /\ working \subseteq Answer
  /\ answers \subseteq Answer
  /\ retrieved \subseteq {answer.request.auth : answer \in answers}

\* How answers and content hang on the record (the inductive invariant of the
\* proofs, with FeePool's EvidenceInv).
ReceiptsArePayable ==
  \A award \in receipts : BuildArbitrationPayment(award.auth, award.fee)

AnswersFollowCustody ==
  \A answer \in working \cup answers :
    answer.payload # NotReady =>
      /\ Ready(answer.request.auth)
      /\ answer.payload = answer.request.auth.batch

RetrievedWasReady == \A a \in retrieved : Ready(a)

RetrievalInv ==
  /\ ReceiptsArePayable
  /\ AnswersFollowCustody
  /\ RetrievedWasReady

\* The buyer gets content from custody only where the seller holds its pay: a
\* receipt for this very claim, over an award the pool can pay, for a delivery
\* made before any of it.
RetrievedIsPayable ==
  \A a \in retrieved :
    /\ a \in deliveries
    /\ \E award \in receipts :
          award.auth = a /\ BuildArbitrationPayment(a, award.fee)

\* Content the arbiter released is content the buyer can accept: the pool state
\* its authorization was signed on is still on the chain's record, however far
\* the pool has moved and whatever has expired since.
AvailableIsAcceptable ==
  \A answer \in answers : answer.payload # NotReady =>
    \E previous \in accepted : VerifyAvailable(answer, previous)

\* A request that waits while its record is ready is answered with the content:
\* no worker's stale not_ready takes its place.
ReadyIsRetrieved ==
  \A a \in [seq : RefundSequence + 1..FinalSequence - 1, after : 0..PoolOutput,
            batch : Batches, deadline : Deadlines], nonce \in Nonces :
    LET request == [auth |-> a, nonce |-> nonce]
    IN request \in retrievals /\ ~Answered(request) /\ Ready(a) ~> a \in retrieved

(* What the repository says of the program, and the code does not do *)

\* "As long as the record is inside its retention it is accepted normally", with
\* the pool evidence that is documented as current: the latest on-chain state.
AcceptableWithCurrentPool ==
  \A answer \in answers : answer.payload # NotReady => VerifyAvailable(answer, head)

=============================================================================
