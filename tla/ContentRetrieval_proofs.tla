----------------------- MODULE ContentRetrieval_proofs -----------------------
(* Theorems about ContentRetrieval for every value of its constants. *)
EXTENDS ContentRetrieval, FeePool_proofs

LEMMA RetrievalStepIsPoolStep ==
  ASSUME [RetrievalNext]_allVars
  PROVE  [Next]_vars
<1>1. CASE UNCHANGED allVars
  BY <1>1 DEF allVars, vars
<1>2. CASE Next /\ UNCHANGED retrievalVars
  BY <1>2
<1>3. CASE Retrieve
  BY <1>3 DEF Retrieve, RequestArbitratedContent, VerifyArbitratedContent, SignNotReady,
              SignAvailable, CommitFirstAnswer
<1> QED BY <1>1, <1>2, <1>3 DEF RetrievalNext

\* Retrieval is an addition: what it does is nothing to the pool, whose theorems
\* therefore hold of the composition.
THEOREM RetrievalIsPool == RetrievalSpec => Spec
<1>1. RetrievalInit => Init
  BY DEF RetrievalInit
<1>2. [RetrievalNext]_allVars => [Next]_vars
  BY RetrievalStepIsPoolStep
<1> QED BY <1>1, <1>2, PTL DEF RetrievalSpec, Spec

\* A receipt stays.
LEMMA ReadinessIsKept ==
  ASSUME [Next]_vars, NEW a, Ready(a)
  PROVE  Ready(a)'
BY MessagesGrow DEF Ready

\* An answer is about a claim in custody and stays so.
LEMMA AnswerGrows ==
  ASSUME [Next]_vars, retrievals \subseteq retrievals'
  PROVE  Answer \subseteq Answer'
BY MessagesGrow DEF Answer

\* Type correctness of the composition: nothing is signed for a claim that is not
\* in custody, and nothing is accepted that was not answered.
THEOREM RetrievalTypeCorrect == RetrievalSpec => []RetrievalTypeOK
<1>1. RetrievalInit => RetrievalTypeOK
  BY DEF RetrievalInit, RetrievalTypeOK
<1>2. ASSUME RetrievalTypeOK, TypeOK, TypeOK', EvidenceInv, [RetrievalNext]_allVars
      PROVE  RetrievalTypeOK'
  <2> USE <1>2 DEF RetrievalTypeOK
  <2>0. [Next]_vars
    BY RetrievalStepIsPoolStep
  <2>1. CASE UNCHANGED retrievalVars
    <3>1. Answer \subseteq Answer'
      BY <2>0, <2>1, AnswerGrows DEF retrievalVars
    <3>2. RetrievalRequest \subseteq RetrievalRequest'
      BY <2>0, MessagesGrow DEF RetrievalRequest
    <3> QED BY <2>1, <3>1, <3>2 DEF retrievalVars
  <2>2. ASSUME NEW a \in requests, NEW nonce \in Nonces, RequestArbitratedContent(a, nonce)
        PROVE  RetrievalTypeOK'
    <3> USE <2>2 DEF RequestArbitratedContent
    <3>1. retrievals' \subseteq RetrievalRequest'
      BY DEF RetrievalRequest, vars, messages
    <3>2. Answer \subseteq Answer'
      BY <2>0, AnswerGrows
    <3> QED BY <3>1, <3>2
  <2>3. ASSUME NEW answer \in answers, NEW previous \in BuyerView,
               VerifyArbitratedContent(answer, previous)
        PROVE  RetrievalTypeOK'
    BY <2>3 DEF VerifyArbitratedContent, RetrievalRequest, Answer, vars, messages
  <2>4. ASSUME NEW request \in retrievals, NEW stored \in claims,
               SignNotReady(request, stored)
        PROVE  RetrievalTypeOK'
    BY <2>4 DEF SignNotReady, AuthenticateRetrieval, RetrievalRequest, Answer, vars, messages
  <2>5. ASSUME NEW request \in retrievals, NEW award \in prepared,
               SignAvailable(request, award)
        PROVE  RetrievalTypeOK'
    <3>1. award.auth.batch \in Batches
      BY DEF TypeOK, Authorization
    <3>2. [request |-> request, payload |-> award.auth.batch] \in Answer
      BY <2>5, <3>1 DEF SignAvailable, AuthenticateRetrieval, Answer
    <3> QED BY <2>5, <3>2 DEF SignAvailable, RetrievalRequest, Answer, vars, messages
  <2>6. ASSUME NEW answer \in working, CommitFirstAnswer(answer)
        PROVE  RetrievalTypeOK'
    BY <2>6 DEF CommitFirstAnswer, RetrievalRequest, Answer, vars, messages
  <2> QED BY <1>2, <2>1, <2>2, <2>3, <2>4, <2>5, <2>6
          DEF RetrievalNext, Retrieve, allVars
<1>3. RetrievalSpec => [](TypeOK /\ EvidenceInv)
  BY RetrievalIsPool, TypeCorrect, EvidenceHangsTogether, PTL
<1> QED BY <1>1, <1>2, <1>3, PTL DEF RetrievalSpec

\* Answers and accepted content rest on a receipt for the claim they are about.
THEOREM RetrievalRestsOnCustody == RetrievalSpec => []RetrievalInv
<1> USE RetrievalAssumption
<1>1. RetrievalInit => RetrievalInv
  BY DEF RetrievalInit, Init, RetrievalInv, ReceiptsArePayable, AnswersFollowCustody,
         RetrievedWasReady
<1>2. ASSUME RetrievalInv, RetrievalTypeOK, TypeOK, [RetrievalNext]_allVars
      PROVE  RetrievalInv'
  <2> USE <1>2
  <2>0. [Next]_vars
    BY RetrievalStepIsPoolStep
  <2>1. CASE UNCHANGED retrievalVars
    <3>1. ReceiptsArePayable'
      <4>1. CASE UNCHANGED receipts
        BY <4>1 DEF RetrievalInv, ReceiptsArePayable, BuildArbitrationPayment,
                    ValidateClaimStructure
      <4>2. ASSUME NEW award \in prepared, SignPreparedArbitration(award)
            PROVE  ReceiptsArePayable'
        BY <4>2 DEF RetrievalInv, ReceiptsArePayable, SignPreparedArbitration,
                    BuildArbitrationPayment, ValidateClaimStructure
      <4>3. CASE Buyer \/ Seller \/ Node \/ Tick \/ Settled \/ UNCHANGED vars
        <5>1. UNCHANGED receipts
          BY <4>3 DEF Buyer, RequestContent, VerifyDeliveryAndPreparePayment, PrepareClose,
             BuildMaturedRefund, Seller, DeliverContent, CompletePayment,
             SellerPrepareArbitration, CompleteArbitratedPayment, CompleteClose, Node,
             NodeAccepts, NodeMines, Tick, Settled, vars, messages
        <5> QED BY <4>1, <5>1
      <4>4. ASSUME NEW a \in requests, NEW fee \in ArbiterFees,
                   ArbiterPrepareArbitration(a, fee)
            PROVE  ReceiptsArePayable'
        BY <4>1, <4>4 DEF ArbiterPrepareArbitration
      <4> QED BY <2>0, <4>2, <4>3, <4>4 DEF Next, Arbiter
    <3>2. AnswersFollowCustody' /\ RetrievedWasReady'
      BY <2>0, <2>1, ReadinessIsKept DEF RetrievalInv, AnswersFollowCustody,
         RetrievedWasReady, retrievalVars
    <3> QED BY <3>1, <3>2 DEF RetrievalInv
  <2>2. CASE Retrieve
    <3>1. ReceiptsArePayable' /\ \A a : Ready(a)' = Ready(a)
      <4>1. UNCHANGED receipts
        BY <2>2 DEF Retrieve, RequestArbitratedContent, VerifyArbitratedContent,
           SignNotReady, SignAvailable, CommitFirstAnswer, vars, messages
      <4> QED BY <4>1 DEF RetrievalInv, ReceiptsArePayable, BuildArbitrationPayment,
                          ValidateClaimStructure, Ready
    <3>2. ASSUME NEW a \in requests, NEW nonce \in Nonces,
                 RequestArbitratedContent(a, nonce)
          PROVE  AnswersFollowCustody' /\ RetrievedWasReady'
      BY <3>1, <3>2 DEF RequestArbitratedContent, RetrievalInv, AnswersFollowCustody,
                        RetrievedWasReady
    <3>3. ASSUME NEW answer \in answers, NEW previous \in BuyerView,
                 VerifyArbitratedContent(answer, previous)
          PROVE  AnswersFollowCustody' /\ RetrievedWasReady'
      <4>1. answer.request.auth.batch \in Batches
        BY DEF RetrievalTypeOK, Answer, RetrievalRequest, TypeOK, Authorization
      <4>2. Ready(answer.request.auth)
        BY <3>3, <4>1 DEF VerifyArbitratedContent, VerifyAvailable, RetrievalInv,
                          AnswersFollowCustody
      <4> QED BY <3>1, <3>3, <4>2 DEF VerifyArbitratedContent, RetrievalInv,
                 AnswersFollowCustody, RetrievedWasReady
    <3>4. ASSUME NEW request \in retrievals, NEW stored \in claims,
                 SignNotReady(request, stored)
          PROVE  AnswersFollowCustody' /\ RetrievedWasReady'
      BY <3>1, <3>4 DEF SignNotReady, RetrievalInv, AnswersFollowCustody,
                        RetrievedWasReady
    <3>5. ASSUME NEW request \in retrievals, NEW award \in prepared,
                 SignAvailable(request, award)
          PROVE  AnswersFollowCustody' /\ RetrievedWasReady'
      <4>1. Ready(request.auth) /\ award.auth = request.auth
        BY <3>5 DEF SignAvailable, VerifyCustodiedContent, AuthenticateRetrieval, Ready
      <4> QED BY <3>1, <3>5, <4>1 DEF SignAvailable, RetrievalInv, AnswersFollowCustody,
                 RetrievedWasReady
    <3>6. ASSUME NEW answer \in working, CommitFirstAnswer(answer)
          PROVE  AnswersFollowCustody' /\ RetrievedWasReady'
      BY <3>1, <3>6 DEF CommitFirstAnswer, RetrievalInv, AnswersFollowCustody,
                        RetrievedWasReady
    <3> QED BY <2>2, <3>1, <3>2, <3>3, <3>4, <3>5, <3>6 DEF Retrieve, RetrievalInv
  <2> QED BY <1>2, <2>1, <2>2 DEF RetrievalNext, allVars, retrievalVars
<1>3. RetrievalSpec => [](TypeOK /\ RetrievalTypeOK)
  BY RetrievalIsPool, TypeCorrect, RetrievalTypeCorrect, PTL
<1> QED BY <1>1, <1>2, <1>3, PTL DEF RetrievalSpec

\* Content comes out of custody only where the seller holds its pay: a receipt for
\* this claim over a payable award, for a delivery that was made.
THEOREM RetrievedContentIsPayable == RetrievalSpec => []RetrievedIsPayable
<1>1. RetrievalInv /\ TypeOK /\ EvidenceInv => RetrievedIsPayable
  BY DEF RetrievalInv, RetrievedWasReady, ReceiptsArePayable, Ready, TypeOK, EvidenceInv,
         MessagesFollow, RetrievedIsPayable
<1> QED
  BY <1>1, RetrievalRestsOnCustody, RetrievalIsPool, TypeCorrect, EvidenceHangsTogether, PTL

\* What the arbiter releases the buyer can accept: the state its authorization was
\* signed on stays on record however far the pool moves.
THEOREM ReleasedContentIsAcceptable == RetrievalSpec => []AvailableIsAcceptable
<1>1. ASSUME RetrievalInv, RetrievalTypeOK, EvidenceInv
      PROVE  AvailableIsAcceptable
  <2> SUFFICES ASSUME NEW answer \in answers, answer.payload # NotReady
               PROVE  \E previous \in accepted : VerifyAvailable(answer, previous)
    BY DEF AvailableIsAcceptable
  <2>1. answer.payload = answer.request.auth.batch
    BY <1>1 DEF RetrievalInv, AnswersFollowCustody
  <2>2. answer.request.auth \in requests
    BY <1>1 DEF RetrievalTypeOK, Answer, RetrievalRequest
  <2>3. PICK p \in accepted : /\ VerifyAcceptedPayment(p)
                              /\ answer.request.auth.seq = p.seq + 1
                              /\ answer.request.auth.after
                                   = p.seller + Price[answer.request.auth.batch]
    BY <1>1, <2>2 DEF EvidenceInv, RequestsExtendTheChain
  <2> QED BY <2>1, <2>3 DEF VerifyAvailable
<1> QED
  BY <1>1, RetrievalRestsOnCustody, RetrievalTypeCorrect, RetrievalIsPool,
     EvidenceHangsTogether, PTL

-----------------------------------------------------------------------------
(* A request that waits can be answered: what the fairness of ReadyIsRetrieved rests on *)

\* A request that waits while its record is ready can be answered with the content:
\* the record passes the checks of arbiter.VerifyCustodiedContent and, for this
\* request, those of AuthenticateRetrieval.
WaitingIsAnswerable ==
  \A request \in retrievals : Ready(request.auth) =>
    \E award \in prepared :
      VerifyCustodiedContent(award) /\ AuthenticateRetrieval(request, award.auth)

\* No receipt is such that the content behind it cannot be had.
THEOREM WaitingStaysAnswerable == RetrievalSpec => []WaitingIsAnswerable
<1>1. ASSUME TypeOK, EvidenceInv, RetrievalInv
      PROVE  WaitingIsAnswerable
  <2> SUFFICES ASSUME NEW request \in retrievals, NEW award \in receipts,
                      award.auth = request.auth
               PROVE  /\ award \in prepared /\ VerifyCustodiedContent(award)
                      /\ AuthenticateRetrieval(request, award.auth)
    BY DEF WaitingIsAnswerable, Ready
  <2>1. award \in prepared /\ award.auth \in claims
    BY <1>1 DEF TypeOK, EvidenceInv, MessagesFollow
  <2>2. BuildArbitrationPayment(award.auth, award.fee)
    BY <1>1 DEF RetrievalInv, ReceiptsArePayable
  <2> QED BY <2>1, <2>2 DEF VerifyCustodiedContent, AuthenticateRetrieval
<1> QED
  BY <1>1, RetrievalRestsOnCustody, RetrievalIsPool, TypeCorrect, EvidenceHangsTogether, PTL

\* Whichever worker answers it, it is with the content, which the buyer can accept: a
\* not_ready signed before the receipt and committed after it takes nobody's place.
WaitingGetsContent ==
  [][\A request \in retrievals :
       Ready(request.auth) /\ ~Answered(request) /\ Answered(request)' =>
         \E answer \in answers', previous \in accepted :
           answer.request = request /\ VerifyAvailable(answer, previous)]_allVars

\* Once ready, a waiting request gets its content or nothing yet.
THEOREM WaitingIsAnsweredWithContent == RetrievalSpec => WaitingGetsContent
<1>1. ASSUME RetrievalTypeOK, EvidenceInv, RetrievalInv, Retrieve,
             NEW request \in retrievals, Ready(request.auth), ~Answered(request), Answered(request)'
      PROVE  \E answer \in answers', previous \in accepted :
               answer.request = request /\ VerifyAvailable(answer, previous)
  <2>1. PICK answer \in working : CommitFirstAnswer(answer)
    BY <1>1 DEF Retrieve, RequestArbitratedContent, VerifyArbitratedContent, SignNotReady,
                SignAvailable, Answered
  <2>2. /\ answer \in answers' /\ answer.request = request
        /\ answer.payload # NotReady
    BY <1>1, <2>1 DEF CommitFirstAnswer, Answered
  <2>3. answer.payload = request.auth.batch /\ request.auth \in requests
    BY <1>1, <2>2 DEF RetrievalInv, AnswersFollowCustody, RetrievalTypeOK, RetrievalRequest
  <2>4. PICK p \in accepted : /\ VerifyAcceptedPayment(p)
                              /\ request.auth.seq = p.seq + 1
                              /\ request.auth.after = p.seller + Price[request.auth.batch]
    BY <1>1, <2>3 DEF EvidenceInv, RequestsExtendTheChain
  <2> QED BY <2>2, <2>3, <2>4 DEF VerifyAvailable
<1>2. RetrievalTypeOK /\ EvidenceInv /\ RetrievalInv /\ [RetrievalNext]_allVars =>
        [\A request \in retrievals :
           Ready(request.auth) /\ ~Answered(request) /\ Answered(request)' =>
             \E answer \in answers', previous \in accepted :
               answer.request = request /\ VerifyAvailable(answer, previous)]_allVars
  <2>1. (Next /\ UNCHANGED retrievalVars) => \A request : Answered(request)' = Answered(request)
    BY DEF retrievalVars, Answered
  <2> QED BY <1>1, <2>1 DEF RetrievalNext
<1> QED
  BY <1>2, RetrievalRestsOnCustody, RetrievalTypeCorrect, RetrievalIsPool,
     EvidenceHangsTogether, PTL DEF RetrievalSpec, WaitingGetsContent

=============================================================================
