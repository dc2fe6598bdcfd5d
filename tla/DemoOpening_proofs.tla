-------------------------- MODULE DemoOpening_proofs --------------------------
(***************************************************************************)
(* Proofs about the demo that opens a pool, for any openings, answers of the  *)
(* indexer that a blockchain allows, and terms.  The invariant follows the    *)
(* running command of each role: the message it was started with stays        *)
(* printed, and until it is printed the buyer's new opening is known to       *)
(* nobody else.                                                              *)
(***************************************************************************)
EXTENDS DemoOpening, NaturalLemmas, TLAPS

Steps == {"save", "write", "print"}

\* 0201: its opening has been printed by nobody, and is saved when it is printed.
NewOpening(process) ==
  /\ process.command = "0201"
  /\ process.opening = current /\ current \notin requests
  /\ process.step = "print" => files["buyer-opening"] = current

BuyerCommand(process) ==
  \/ NewOpening(process)
  \/ process.command = "0203" /\ process.opening \in responses
  \/ process.command = "0204" /\ process.opening \in secured /\ process.step = "print"

SellerCommand(process) ==
  \/ process.command = "0202" /\ process.opening \in requests
  \/ process.command = "0205" /\ process.opening \in deliveries /\ process.step = "print"

Runs(process) ==
  /\ process = Running(process.command, process.opening, process.step)
  /\ process.opening \in Openings /\ process.step \in Steps

RunsOnline(process) ==
  \E answer \in Answers : \E terms \in Terms : \E utxo \in Selected(answer, terms) :
    process = Online(answer, terms, utxo)

BuyerOK(process) ==
  \/ process = Idle
  \/ RunsOnline(process)
  \/ Runs(process) /\ BuyerCommand(process)

SellerOK(process) ==
  \/ process = Idle
  \/ Runs(process) /\ SellerCommand(process)

Inv ==
  /\ TypeOK /\ SentIsSaved
  /\ DOMAIN processes = Roles
  /\ BuyerOK(processes["buyer"])
  /\ SellerOK(processes["seller"])

LEMMA InitInv == Init => Inv
<1> SUFFICES ASSUME Init PROVE Inv
  OBVIOUS
<1>1. TypeOK
  BY CrashAssumption DEF Init, TypeOK
<1>2. SentIsSaved
  BY DEF Init, SentIsSaved
<1>3. DOMAIN processes = Roles /\ processes["buyer"] = Idle /\ processes["seller"] = Idle
  BY DEF Init, Roles
<1> QED BY <1>1, <1>2, <1>3 DEF Inv, BuyerOK, SellerOK

\* One step per action; a command that ends or is killed leaves an idle process.
LEMMA NextInv == Inv /\ [Next]_vars => Inv'
<1> SUFFICES ASSUME Inv, [Next]_vars PROVE Inv'
  OBVIOUS
<1> USE DEF Inv, Roles
<1>1. ASSUME NEW opening \in Openings, BuildRefundRequest(opening) PROVE Inv'
  <2>1. processes' = [processes EXCEPT !["buyer"] = Running("0201", opening, "save")]
    BY <1>1 DEF BuildRefundRequest, Start
  <2>2. UNCHANGED <<files, crashes, requests, responses, secured, deliveries, opened>>
    BY <1>1 DEF BuildRefundRequest, printed
  <2>3. current' = opening /\ opening \notin requests
    BY <1>1 DEF BuildRefundRequest
  <2>4. BuyerOK(processes["buyer"])'
    BY <2>1, <2>2, <2>3 DEF BuyerOK, Runs, BuyerCommand, NewOpening, Running, Steps
  <2>5. SellerOK(processes["seller"])'
    BY <2>1, <2>2 DEF SellerOK, Runs, SellerCommand, Running
  <2> QED BY <2>1, <2>2, <2>3, <2>4, <2>5 DEF TypeOK, SentIsSaved
<1>2. ASSUME NEW opening \in Openings, AcceptRefundRequest(opening) PROVE Inv'
  <2>1. processes' = [processes EXCEPT !["seller"] = Running("0202", opening, "save")]
    BY <1>2 DEF AcceptRefundRequest, Start
  <2>2. UNCHANGED <<current, files, crashes, requests, responses, secured, deliveries, opened>>
    BY <1>2 DEF AcceptRefundRequest, printed
  <2>3. SellerOK(processes["seller"])'
    BY <1>2, <2>1, <2>2 DEF AcceptRefundRequest, SellerOK, Runs, SellerCommand, Running, Steps
  <2>4. BuyerOK(processes["buyer"])'
    BY <2>1, <2>2 DEF BuyerOK, Runs, RunsOnline, BuyerCommand, NewOpening, Running
  <2> QED BY <2>1, <2>2, <2>3, <2>4 DEF TypeOK, SentIsSaved
<1>3. ASSUME NEW opening \in Openings, AcceptRefundResponse(opening) PROVE Inv'
  <2>1. processes' = [processes EXCEPT !["buyer"] = Running("0203", opening, "save")]
    BY <1>3 DEF AcceptRefundResponse, Start
  <2>2. UNCHANGED <<current, files, crashes, requests, responses, secured, deliveries, opened>>
    BY <1>3 DEF AcceptRefundResponse, printed
  <2>3. BuyerOK(processes["buyer"])'
    BY <1>3, <2>1, <2>2 DEF AcceptRefundResponse, BuyerOK, Runs, BuyerCommand, Running, Steps
  <2>4. SellerOK(processes["seller"])'
    BY <2>1, <2>2 DEF SellerOK, Runs, SellerCommand, Running
  <2> QED BY <2>1, <2>2, <2>3, <2>4 DEF TypeOK, SentIsSaved
<1>4. ASSUME NEW opening \in Openings, BuildFundingDelivery(opening) PROVE Inv'
  <2>1. processes' = [processes EXCEPT !["buyer"] = Running("0204", opening, "print")]
    BY <1>4 DEF BuildFundingDelivery, Start
  <2>2. UNCHANGED <<current, files, crashes, requests, responses, secured, deliveries, opened>>
    BY <1>4 DEF BuildFundingDelivery, printed
  <2>3. BuyerOK(processes["buyer"])'
    BY <1>4, <2>1, <2>2 DEF BuildFundingDelivery, BuyerOK, Runs, BuyerCommand, Running, Steps
  <2>4. SellerOK(processes["seller"])'
    BY <2>1, <2>2 DEF SellerOK, Runs, SellerCommand, Running
  <2> QED BY <2>1, <2>2, <2>3, <2>4 DEF TypeOK, SentIsSaved
<1>5. ASSUME NEW opening \in Openings, AcceptFundingDelivery(opening) PROVE Inv'
  <2>1. processes' = [processes EXCEPT !["seller"] = Running("0205", opening, "print")]
    BY <1>5 DEF AcceptFundingDelivery, Start
  <2>2. UNCHANGED <<current, files, crashes, requests, responses, secured, deliveries, opened>>
    BY <1>5 DEF AcceptFundingDelivery, printed
  <2>3. SellerOK(processes["seller"])'
    BY <1>5, <2>1, <2>2 DEF AcceptFundingDelivery, SellerOK, Runs, SellerCommand, Running, Steps
  <2>4. BuyerOK(processes["buyer"])'
    BY <2>1, <2>2 DEF BuyerOK, Runs, RunsOnline, BuyerCommand, NewOpening, Running
  <2> QED BY <2>1, <2>2, <2>3, <2>4 DEF TypeOK, SentIsSaved
<1>6. ASSUME NEW answer \in Answers, NEW terms \in Terms, BuildRefundRequestOnline(answer, terms)
      PROVE Inv'
  <2>1. PICK utxo \in Selected(answer, terms) :
          processes' = [processes EXCEPT !["buyer"] = Online(answer, terms, utxo)]
    BY <1>6 DEF BuildRefundRequestOnline, Start
  <2>2. UNCHANGED <<current, files, crashes, requests, responses, secured, deliveries, opened>>
    BY <1>6 DEF BuildRefundRequestOnline, printed
  <2>3. BuyerOK(processes["buyer"])'
    <3>1. processes["buyer"]' = Online(answer, terms, utxo)
      BY <2>1
    <3> QED BY <3>1 DEF BuyerOK, RunsOnline
  <2>4. SellerOK(processes["seller"])'
    BY <2>1, <2>2 DEF SellerOK, Runs, SellerCommand, Running
  <2> QED BY <2>1, <2>2, <2>3, <2>4 DEF TypeOK, SentIsSaved
<1>7. CASE NilFunding
  <2>1. processes' = [processes EXCEPT !["buyer"] = Idle]
    BY <1>7 DEF NilFunding
  <2>2. UNCHANGED <<current, files, crashes, requests, responses, secured, deliveries, opened>>
    BY <1>7 DEF NilFunding, printed
  <2> QED BY <2>1, <2>2 DEF TypeOK, SentIsSaved, BuyerOK, SellerOK, Runs, SellerCommand, Running
<1>8. ASSUME NEW role \in Roles, Crash(role) PROVE Inv'
  <2>1. processes' = [processes EXCEPT ![role] = Idle]
    BY <1>8 DEF Crash
  <2>2. UNCHANGED <<current, files, requests, responses, secured, deliveries, opened>>
    BY <1>8 DEF Crash, printed
  <2>3. crashes' \in 0 .. MaxCrashes
    BY <1>8, CrashAssumption DEF Crash, TypeOK
  <2>4. BuyerOK(processes["buyer"])'
    BY <2>1, <2>2 DEF BuyerOK, Runs, RunsOnline, BuyerCommand, NewOpening, Running
  <2>5. SellerOK(processes["seller"])'
    <3>1. processes'["seller"] = processes["seller"] \/ processes'["seller"] = Idle
      BY <2>1
    <3> QED BY <3>1, <2>2 DEF SellerOK, Runs, SellerCommand
  <2> QED BY <2>1, <2>2, <2>3, <2>4, <2>5 DEF TypeOK, SentIsSaved
<1>9. ASSUME Truncate("buyer") PROVE Inv'
  <2> DEFINE process == processes["buyer"]
  <2>1. Runs(process) /\ BuyerCommand(process) /\ process.step = "save"
    BY <1>9 DEF Truncate, BuyerOK, RunsOnline, Online
  <2>2. processes' = [processes EXCEPT !["buyer"] = Running(process.command, process.opening, "write")]
    BY <1>9 DEF Truncate
  <2>3. UNCHANGED <<current, crashes, requests, responses, secured, deliveries, opened>>
    BY <1>9 DEF Truncate, printed
  <2>4. Save(process.command, Torn)
    BY <1>9 DEF Truncate
  <2>5. files' \in [Files -> Openings \cup {None, Torn}]
    BY <2>4 DEF Save, SaveBuyerOpeningCheckpoint, SaveBuyerPoolCheckpoint, SaveSellerPresignCheckpoint,
                writeCheckpoint, TypeOK
  <2>6. process.command # "0201" => files'["buyer-opening"] = files["buyer-opening"]
    BY <2>1, <2>4 DEF Save, SaveBuyerPoolCheckpoint, writeCheckpoint, TypeOK, Files,
                      BuyerCommand, BuyerPoolCheckpointPath, NewOpening
  <2>7. SentIsSaved'
    BY <2>1, <2>3, <2>6 DEF SentIsSaved, BuyerCommand, NewOpening
  <2>8. BuyerOK(processes["buyer"])'
    BY <2>1, <2>2, <2>3 DEF BuyerOK, Runs, BuyerCommand, NewOpening, Running, Steps
  <2>9. SellerOK(processes["seller"])'
    BY <2>2, <2>3 DEF SellerOK, Runs, SellerCommand, Running
  <2> QED BY <2>2, <2>3, <2>5, <2>7, <2>8, <2>9 DEF TypeOK
<1>10. ASSUME Truncate("seller") PROVE Inv'
  <2> DEFINE process == processes["seller"]
  <2>1. Runs(process) /\ SellerCommand(process) /\ process.step = "save"
    BY <1>10 DEF Truncate, SellerOK
  <2>2. processes' = [processes EXCEPT !["seller"] = Running(process.command, process.opening, "write")]
    BY <1>10 DEF Truncate
  <2>3. UNCHANGED <<current, crashes, requests, responses, secured, deliveries, opened>>
    BY <1>10 DEF Truncate, printed
  <2>4. Save(process.command, Torn) /\ process.command = "0202"
    BY <1>10, <2>1 DEF Truncate, SellerCommand
  <2>5. files' = [files EXCEPT !["seller-presign"] = Torn]
    BY <2>4 DEF Save, SaveSellerPresignCheckpoint, writeCheckpoint, SellerPresignCheckpointPath
  <2>6. SellerOK(processes["seller"])'
    BY <2>1, <2>2, <2>3 DEF SellerOK, Runs, SellerCommand, Running, Steps
  <2>7. BuyerOK(processes["buyer"])'
    BY <2>2, <2>3, <2>5 DEF BuyerOK, Runs, RunsOnline, BuyerCommand, NewOpening, Running, TypeOK, Files
  <2> QED BY <2>2, <2>3, <2>5, <2>6, <2>7 DEF TypeOK, SentIsSaved, Files
<1>11. ASSUME WriteCheckpoint("buyer") PROVE Inv'
  <2> DEFINE process == processes["buyer"]
  <2>1. Runs(process) /\ BuyerCommand(process) /\ process.step = "write"
    BY <1>11 DEF WriteCheckpoint, BuyerOK, RunsOnline, Online
  <2>2. processes' = [processes EXCEPT !["buyer"] = Running(process.command, process.opening, "print")]
    BY <1>11 DEF WriteCheckpoint
  <2>3. UNCHANGED <<current, crashes, requests, responses, secured, deliveries, opened>>
    BY <1>11 DEF WriteCheckpoint, printed
  <2>4. Save(process.command, process.opening)
    BY <1>11 DEF WriteCheckpoint
  <2>5. files' \in [Files -> Openings \cup {None, Torn}]
    BY <2>1, <2>4 DEF Save, SaveBuyerOpeningCheckpoint, SaveBuyerPoolCheckpoint, Runs,
                      SaveSellerPresignCheckpoint, writeCheckpoint, TypeOK
  <2>6. files'["buyer-opening"] =
          IF process.command = "0201" THEN process.opening ELSE files["buyer-opening"]
    BY <2>1, <2>4 DEF Save, SaveBuyerOpeningCheckpoint, SaveBuyerPoolCheckpoint, writeCheckpoint, TypeOK,
                      Files, BuyerCommand, BuyerOpeningCheckpointPath, BuyerPoolCheckpointPath, NewOpening
  <2>7. SentIsSaved'
    BY <2>1, <2>3, <2>6 DEF SentIsSaved, BuyerCommand, NewOpening
  <2>8. BuyerOK(processes["buyer"])'
    BY <2>1, <2>2, <2>3, <2>6 DEF BuyerOK, Runs, BuyerCommand, NewOpening, Running, Steps
  <2>9. SellerOK(processes["seller"])'
    BY <2>2, <2>3 DEF SellerOK, Runs, SellerCommand, Running
  <2> QED BY <2>2, <2>3, <2>5, <2>7, <2>8, <2>9 DEF TypeOK
<1>12. ASSUME WriteCheckpoint("seller") PROVE Inv'
  <2> DEFINE process == processes["seller"]
  <2>1. Runs(process) /\ SellerCommand(process) /\ process.step = "write"
    BY <1>12 DEF WriteCheckpoint, SellerOK
  <2>2. processes' = [processes EXCEPT !["seller"] = Running(process.command, process.opening, "print")]
    BY <1>12 DEF WriteCheckpoint
  <2>3. UNCHANGED <<current, crashes, requests, responses, secured, deliveries, opened>>
    BY <1>12 DEF WriteCheckpoint, printed
  <2>4. Save(process.command, process.opening) /\ process.command = "0202"
    BY <1>12, <2>1 DEF WriteCheckpoint, SellerCommand
  <2>5. files' = [files EXCEPT !["seller-presign"] = process.opening]
    BY <2>4 DEF Save, SaveSellerPresignCheckpoint, writeCheckpoint, SellerPresignCheckpointPath
  <2>6. SellerOK(processes["seller"])'
    BY <2>1, <2>2, <2>3 DEF SellerOK, Runs, SellerCommand, Running, Steps
  <2>7. BuyerOK(processes["buyer"])'
    BY <2>2, <2>3, <2>5 DEF BuyerOK, Runs, RunsOnline, BuyerCommand, NewOpening, Running, TypeOK, Files
  <2> QED BY <2>1, <2>2, <2>3, <2>5, <2>6, <2>7 DEF TypeOK, SentIsSaved, Files, Runs
<1>13. ASSUME WriteHex("buyer") PROVE Inv'
  <2> DEFINE process == processes["buyer"]
  <2>1. Runs(process) /\ BuyerCommand(process) /\ process.step = "print"
    BY <1>13 DEF WriteHex, BuyerOK, RunsOnline, Online
  <2>2. processes' = [processes EXCEPT !["buyer"] = Idle]
    BY <1>13 DEF WriteHex
  <2>3. UNCHANGED <<current, crashes, files>>
    BY <1>13 DEF WriteHex
  <2>4. /\ requests'   = IF process.command = "0201" THEN requests \cup {process.opening} ELSE requests
        /\ responses'  = responses
        /\ secured'    = IF process.command = "0203" THEN secured \cup {process.opening} ELSE secured
        /\ deliveries' = IF process.command = "0204" THEN deliveries \cup {process.opening} ELSE deliveries
        /\ opened'     = opened
    BY <1>13, <2>1 DEF WriteHex, PrintedBy, BuyerCommand, NewOpening
  <2>5. TypeOK'
    BY <2>1, <2>3, <2>4 DEF TypeOK, Runs, BuyerCommand, NewOpening
  <2>6. SentIsSaved'
    BY <2>1, <2>3, <2>4 DEF SentIsSaved, BuyerCommand, NewOpening
  <2>7. SellerOK(processes["seller"])'
    BY <2>2, <2>4 DEF SellerOK, Runs, SellerCommand, Running
  <2> QED BY <2>2, <2>5, <2>6, <2>7 DEF BuyerOK
<1>14. ASSUME WriteHex("seller") PROVE Inv'
  <2> DEFINE process == processes["seller"]
  <2>1. Runs(process) /\ SellerCommand(process) /\ process.step = "print"
    BY <1>14 DEF WriteHex, SellerOK
  <2>2. processes' = [processes EXCEPT !["seller"] = Idle]
    BY <1>14 DEF WriteHex
  <2>3. UNCHANGED <<current, crashes, files>>
    BY <1>14 DEF WriteHex
  <2>4. /\ requests' = requests /\ secured' = secured /\ deliveries' = deliveries
        /\ responses' = IF process.command = "0202" THEN responses \cup {process.opening} ELSE responses
        /\ opened'    = IF process.command = "0205" THEN opened \cup {process.opening} ELSE opened
    BY <1>14, <2>1 DEF WriteHex, PrintedBy, SellerCommand
  <2>5. TypeOK'
    BY <2>1, <2>3, <2>4 DEF TypeOK, Runs, SellerCommand
  <2>6. SentIsSaved'
    BY <2>3, <2>4 DEF SentIsSaved
  <2>7. BuyerOK(processes["buyer"])'
    BY <2>2, <2>3, <2>4 DEF BuyerOK, Runs, RunsOnline, BuyerCommand, NewOpening, Running
  <2> QED BY <2>2, <2>5, <2>6, <2>7 DEF SellerOK
<1>15. CASE UNCHANGED vars
  <2>1. UNCHANGED <<current, files, processes, crashes, requests, responses, secured, deliveries, opened>>
    BY <1>15 DEF vars, printed
  <2>2. TypeOK' /\ SentIsSaved' /\ (DOMAIN processes)' = Roles
    BY <2>1 DEF TypeOK, SentIsSaved
  <2>3. BuyerOK(processes["buyer"])'
    BY <2>1 DEF BuyerOK, Runs, RunsOnline, BuyerCommand, NewOpening
  <2>4. SellerOK(processes["seller"])'
    BY <2>1 DEF SellerOK, Runs, SellerCommand
  <2> QED BY <2>2, <2>3, <2>4
<1> QED
  BY <1>1, <1>2, <1>3, <1>4, <1>5, <1>6, <1>7, <1>8, <1>9, <1>10, <1>11, <1>12, <1>13, <1>14, <1>15
     DEF Next, Command, Step

THEOREM Invariant == Spec => []Inv
BY InitInv, NextInv, PTL DEF Spec

\* Files hold openings, and each message follows the one before it.
THEOREM TypeCorrect == Spec => []TypeOK
<1>1. Inv => TypeOK
  BY DEF Inv
<1> QED BY <1>1, Invariant, PTL

\* Reruns and kills never cost the buyer the opening it has asked for last.
THEOREM SavedBeforeSent == Spec => []SentIsSaved
<1>1. Inv => SentIsSaved
  BY DEF Inv
<1> QED BY <1>1, Invariant, PTL

\* What can be selected is spent by nothing in a block: such a spender comes later in the
\* chain, so it is gone through later.
LEMMA ListedIsUnspent ==
  ASSUME NEW answer \in Answers, NEW utxo \in ListUTXOs(answer), NEW id \in DOMAIN answer.history,
         answer.history[id].height > 0
  PROVE  [tx |-> utxo.tx, vout |-> utxo.vout] \notin Fetch(id).spends
<1> SUFFICES ASSUME [tx |-> utxo.tx, vout |-> utxo.vout] \in Fetch(id).spends PROVE FALSE
  OBVIOUS
<1>1. utxo.tx \in DOMAIN answer.history /\ utxo.vout \in DOMAIN Fetch(utxo.tx).pays
  BY DEF ListUTXOs
<1>2. ~Before(answer.history, utxo.tx, id)
  BY DEF ListUTXOs
<1> QED BY <1>1, <1>2, ChainAssumption DEF Before

\* A funding transaction leaves the miners what its size and the rate ask for.
LEMMA FundingPays ==
  ASSUME NEW terms \in Terms, NEW utxo, utxo.amount \in Nat, ~TooSmall(utxo, terms)
  PROVE  LET funding == PrepareFunding(utxo, terms)
             fee     == FundingFee(funding, terms)
         IN /\ fee >= FeeWith(funding.change, terms)
            /\ funding.change > 0 => fee = FeeWith(funding.change, terms)
<1> DEFINE available == utxo.amount - terms.pool
           change    == BuildFundingTx(utxo, terms)
<1>1. FundingFee(PrepareFunding(utxo, terms), terms) = utxo.amount - terms.pool - change
  BY DEF FundingFee, PrepareFunding
<1>2. terms.pool \in Nat /\ terms.rate \in Nat
  BY TermsAssumption
<1>3. ASSUME NEW amount \in Nat PROVE FeeWith(amount, terms) \in Nat
  <2>1. SignedSize(amount, terms.long) \in Nat
    BY SizeAssumption DEF SignedSize
  <2>2. SignedSize(amount, terms.long) * terms.rate \in Nat
    BY <1>2, <2>1
  <2> QED BY <2>2 DEF FeeWith, MinerFee
<1>4. CASE Settled(available, terms) = {}
  <2>1. change = 0
    BY <1>4 DEF BuildFundingTx
  <2>2. available >= FeeWith(0, terms)
    BY <1>2, <1>3, <2>1 DEF TooSmall
  <2> QED BY <1>1, <2>1, <2>2, <1>2 DEF PrepareFunding
<1>5. CASE Settled(available, terms) # {}
  <2>1. change \in Settled(available, terms)
    BY <1>5 DEF BuildFundingTx
  <2>2. change \in 1 .. available /\ change = available - FeeWith(change, terms)
    BY <2>1 DEF Settled
  <2>3. FeeWith(change, terms) \in Nat
    BY <1>3, <2>2, <1>2
  <2>4. FeeWith(change, terms) = available - change
    BY <2>2, <2>3, <1>2
  <2> HIDE DEF change
  <2> QED BY <1>1, <2>2, <2>3, <2>4, <1>2 DEF PrepareFunding, change
<1> QED BY <1>4, <1>5

\* What an online command has prepared.
LEMMA PreparedOnline ==
  ASSUME Inv, Prepared
  PROVE  \E answer \in Answers : \E terms \in Terms : \E utxo \in Selected(answer, terms) :
           processes["buyer"] = Online(answer, terms, utxo)
BY DEF Inv, Prepared, BuyerOK, RunsOnline, BuyerCommand, NewOpening, Idle

\* Nothing in a block spends what an online command is about to spend.
THEOREM SelectedUnspent == Spec => []SelectedIsUnspent
<1>1. ASSUME Inv PROVE SelectedIsUnspent
  <2> SUFFICES ASSUME Prepared PROVE SelectedIsUnspent
    BY DEF SelectedIsUnspent
  <2>1. PICK answer \in Answers : \E terms \in Terms : \E utxo \in Selected(answer, terms) :
          processes["buyer"] = Online(answer, terms, utxo)
    BY <1>1, PreparedOnline
  <2>2. PICK terms \in Terms : \E utxo \in Selected(answer, terms) :
          processes["buyer"] = Online(answer, terms, utxo)
    BY <2>1
  <2>3. PICK utxo \in Selected(answer, terms) : processes["buyer"] = Online(answer, terms, utxo)
    BY <2>2
  <2>4. utxo \in ListUTXOs(answer)
    BY <2>3 DEF Selected, Candidates
  <2>5. processes["buyer"].answer = answer /\ processes["buyer"].funding.utxo = utxo
    BY <2>3 DEF Online, PrepareFunding
  <2> QED BY <2>4, <2>5, ListedIsUnspent DEF SelectedIsUnspent
<1> QED BY <1>1, Invariant, PTL

\* What an online command has signed pays its miners.
THEOREM FundingPaid == Spec => []FundingPaysItsRate
<1>1. ASSUME Inv PROVE FundingPaysItsRate
  <2> SUFFICES ASSUME Prepared PROVE FundingPaysItsRate
    BY DEF FundingPaysItsRate
  <2>1. PICK answer \in Answers : \E terms \in Terms : \E utxo \in Selected(answer, terms) :
          processes["buyer"] = Online(answer, terms, utxo)
    BY <1>1, PreparedOnline
  <2>2. PICK terms \in Terms : \E utxo \in Selected(answer, terms) :
          processes["buyer"] = Online(answer, terms, utxo)
    BY <2>1
  <2>3. PICK utxo \in Selected(answer, terms) : processes["buyer"] = Online(answer, terms, utxo)
    BY <2>2
  <2>4. utxo \in ListUTXOs(answer) /\ ~TooSmall(utxo, terms)
    BY <2>3 DEF Selected, Candidates
  <2>5. utxo.amount \in Nat
    <3>1. PICK id \in DOMAIN answer.history : \E vout \in DOMAIN Fetch(id).pays :
            utxo.amount = Fetch(id).pays[vout]
      BY <2>4 DEF ListUTXOs
    <3>2. Fetch(id) \in Transactions
      BY <3>1, ChainAssumption DEF Fetch
    <3> QED BY <3>1, <3>2, TransactionAssumption
  <2>6. /\ processes["buyer"].terms = terms
        /\ processes["buyer"].funding = PrepareFunding(utxo, terms)
    BY <2>3 DEF Online
  <2> QED BY <2>4, <2>5, <2>6, FundingPays DEF FundingPaysItsRate
<1> QED BY <1>1, Invariant, PTL

(* The choice of the funding output *)

\* Something that is not empty has a member at which a natural function is least.
LEMMA LeastBy ==
  ASSUME NEW S, S # {}, NEW f \in [S -> Nat]
  PROVE  \E x \in S : \A y \in S : f[x] =< f[y]
<1> DEFINE values == {f[x] : x \in S}
<1>1. values \in SUBSET Nat /\ values # {}
  OBVIOUS
<1>2. PICK v \in values : \A w \in values : v =< w
  <2> HIDE DEF values
  <2> QED BY <1>1, LeastNatural
<1>3. PICK x \in S : f[x] = v
  OBVIOUS
<1> QED BY <1>2, <1>3

\* What is listed is natural in all that it is ordered by, and an outpoint is listed
\* once.
LEMMA ListedIsPlain ==
  ASSUME NEW answer \in Answers
  PROVE  /\ \A utxo \in ListUTXOs(answer) :
              /\ utxo.tx \in Nat /\ utxo.vout \in Nat /\ utxo.amount \in Nat
              /\ utxo.confirmed \in BOOLEAN
         /\ \A utxo, other \in ListUTXOs(answer) :
              utxo.tx = other.tx /\ utxo.vout = other.vout => utxo = other
<1> DEFINE listing(id, vout) ==
             [tx |-> id, vout |-> vout, amount |-> Fetch(id).pays[vout],
              confirmed |-> Confirmed(answer, id)]
<1>1. ASSUME NEW utxo \in ListUTXOs(answer)
      PROVE  \E id \in DOMAIN answer.history : \E vout \in DOMAIN Fetch(id).pays :
               utxo = listing(id, vout)
  BY DEF ListUTXOs
<1>2. ASSUME NEW id \in DOMAIN answer.history, NEW vout \in DOMAIN Fetch(id).pays
      PROVE  id \in Nat /\ vout \in Nat /\ Fetch(id).pays[vout] \in Nat
  <2>1. Fetch(id) \in Transactions /\ Fetch(id).id = id
    BY ChainAssumption DEF Fetch
  <2> QED BY <2>1, TransactionAssumption
<1>3. ASSUME NEW utxo \in ListUTXOs(answer)
      PROVE  /\ utxo.tx \in Nat /\ utxo.vout \in Nat /\ utxo.amount \in Nat
             /\ utxo.confirmed \in BOOLEAN
             /\ utxo = listing(utxo.tx, utxo.vout)
  <2>1. PICK id \in DOMAIN answer.history : \E vout \in DOMAIN Fetch(id).pays :
          utxo = listing(id, vout)
    BY <1>1, <1>3
  <2>2. PICK vout \in DOMAIN Fetch(id).pays : utxo = listing(id, vout)
    BY <2>1
  <2>3. /\ utxo.tx = id /\ utxo.vout = vout /\ utxo.amount = Fetch(id).pays[vout]
        /\ utxo.confirmed = Confirmed(answer, id)
    BY <2>2
  <2>4. Confirmed(answer, id) \in BOOLEAN
    BY DEF Confirmed
  <2>5. utxo.confirmed \in BOOLEAN
    BY <2>3, <2>4, Zenon
  <2> HIDE DEF listing
  <2> QED BY <1>2, <2>2, <2>3, <2>5
<1> HIDE DEF listing
<1> QED BY <1>3

\* fundingUTXOIsBetter puts any candidates in one order, so that one of them comes
\* before all others; and in no other order, so that there is one such.
LEMMA BestIsUnique ==
  ASSUME NEW answer \in Answers, NEW C \in SUBSET ListUTXOs(answer), C # {}
  PROVE  \E best : {utxo \in C : \A other \in C \ {utxo} : Better(utxo, other)} = {best}
<1>0. /\ \A x \in C : x.tx \in Nat /\ x.vout \in Nat /\ x.amount \in Nat
      /\ \A x \in C : x.confirmed \in BOOLEAN
      /\ \A x, y \in C : x.tx = y.tx /\ x.vout = y.vout => x = y
  BY ListedIsPlain
<1> DEFINE sure == {x \in C : x.confirmed}
           C1   == IF sure = {} THEN C ELSE sure
<1>1. C1 \subseteq C /\ C1 # {}
  OBVIOUS
<1>2. /\ \A x, y \in C1 : x.confirmed = y.confirmed
      /\ \A x \in C1, y \in C \ C1 : x.confirmed /\ ~ y.confirmed
  <2>1. CASE sure = {}
    <3>1. C1 = C /\ \A x \in C : ~ x.confirmed
      BY <2>1
    <3> QED BY <1>0, <3>1, Zenon
  <2>2. CASE sure # {}
    <3>1. C1 = sure
      BY <2>2
    <3> QED BY <1>0, <3>1, Zenon
  <2> QED BY <2>1, <2>2
<1> HIDE DEF C1
<1>3. PICK a \in C1 : \A y \in C1 : a.amount =< y.amount
  <2> DEFINE f == [x \in C1 |-> x.amount]
  <2>1. f \in [C1 -> Nat]
    BY <1>0, <1>1
  <2>2. \E x \in C1 : \A y \in C1 : f[x] =< f[y]
    <3> HIDE DEF f
    <3> QED BY <1>1, <2>1, LeastBy
  <2> QED BY <2>2
<1> DEFINE C2 == {x \in C1 : x.amount = a.amount}
<1>4. C2 \subseteq C1 /\ C2 # {}
  OBVIOUS
<1> HIDE DEF C2
<1>5. PICK b \in C2 : \A y \in C2 : b.tx =< y.tx
  <2> DEFINE f == [x \in C2 |-> x.tx]
  <2>1. f \in [C2 -> Nat]
    BY <1>0, <1>1, <1>4
  <2>2. \E x \in C2 : \A y \in C2 : f[x] =< f[y]
    <3> HIDE DEF f
    <3> QED BY <1>4, <2>1, LeastBy
  <2> QED BY <2>2
<1> DEFINE C3 == {x \in C2 : x.tx = b.tx}
<1>6. C3 \subseteq C2 /\ C3 # {}
  OBVIOUS
<1> HIDE DEF C3
<1>7. PICK best \in C3 : \A y \in C3 : best.vout =< y.vout
  <2> DEFINE f == [x \in C3 |-> x.vout]
  <2>1. f \in [C3 -> Nat]
    BY <1>0, <1>1, <1>4, <1>6
  <2>2. \E x \in C3 : \A y \in C3 : f[x] =< f[y]
    <3> HIDE DEF f
    <3> QED BY <1>6, <2>1, LeastBy
  <2> QED BY <2>2
<1>8. /\ best \in C /\ best \in C1 /\ best \in C2 /\ best.amount = a.amount
      /\ best.tx = b.tx
  BY <1>1, <1>4, <1>6 DEF C2, C3
<1>9. ASSUME NEW other \in C, other # best
      PROVE  Better(best, other) /\ ~ Better(other, best)
  <2>1. CASE other \notin C1
    BY <1>2, <1>8, <2>1, Zenon DEF Better
  <2>2. CASE other \in C1
    <3>1. best.confirmed = other.confirmed
      BY <1>2, <1>8, <2>2, Zenon
    <3>2. /\ best.amount < other.amount
             \/ /\ best.amount = other.amount
                /\ best.tx < other.tx \/ (best.tx = other.tx /\ best.vout < other.vout)
          /\ ~ (other.amount < best.amount)
          /\ ~ (other.amount = best.amount /\ other.tx < best.tx)
          /\ ~ (other.amount = best.amount /\ other.tx = best.tx /\ other.vout < best.vout)
      <4>1. best.amount =< other.amount
        BY <1>3, <1>8, <2>2
      <4>2. best.amount = other.amount => other \in C2 /\ best.tx =< other.tx
        BY <1>5, <1>8, <2>2 DEF C2
      <4>3. best.amount = other.amount /\ best.tx = other.tx =>
              best.vout =< other.vout /\ best.vout # other.vout
        BY <1>0, <1>7, <1>8, <1>9, <4>2 DEF C3
      <4> QED BY <1>0, <1>8, <4>1, <4>2, <4>3
    <3> QED BY <3>1, <3>2, Zenon DEF Better
  <2> QED BY <2>1, <2>2
<1>10. {utxo \in C : \A other \in C \ {utxo} : Better(utxo, other)} = {best}
  BY <1>8, <1>9
<1> QED BY <1>10

\* The output that is spent is a function of the answer and the terms: where any
\* output is large enough one is chosen, and only one, in whatever order a Go map has
\* them (poolopening.go selectAndBuildFundingTx).
THEOREM FundingIsChosenByItsOutputs ==
  ASSUME NEW answer \in Answers, NEW terms, Candidates(answer, terms) # {}
  PROVE  \E best \in Candidates(answer, terms) : Selected(answer, terms) = {best}
<1>1. Candidates(answer, terms) \in SUBSET ListUTXOs(answer)
  BY DEF Candidates
<1>2. PICK best : Selected(answer, terms) = {best}
  BY <1>1, BestIsUnique DEF Selected
<1>3. best \in Candidates(answer, terms)
  BY <1>2 DEF Selected
<1> QED BY <1>2, <1>3

(* The change *)

\* The attempts are what they are defined by: the recursion ends after eight.
LEMMA AttemptsUnfold ==
  ASSUME NEW available, NEW terms, NEW attempt \in 0 .. MaxAttempts
  PROVE  Attempts(available, terms)[attempt] =
           IF attempt = 0
             THEN available
             ELSE available - FeeWith(Attempts(available, terms)[attempt - 1], terms)
<1> DEFINE next(left) == available - FeeWith(left, terms)
           c0 == available
           c1 == next(c0)
           c2 == next(c1)
           c3 == next(c2)
           c4 == next(c3)
           c5 == next(c4)
           c6 == next(c5)
           c7 == next(c6)
           c8 == next(c7)
           step(f) == [k \in 0 .. MaxAttempts |->
                         IF k = 0 THEN available ELSE next(f[k - 1])]
           tried == [k \in 0 .. MaxAttempts |->
                       CASE k = 0 -> c0
                         [] k = 1 -> c1
                         [] k = 2 -> c2
                         [] k = 3 -> c3
                         [] k = 4 -> c4
                         [] k = 5 -> c5
                         [] k = 6 -> c6
                         [] k = 7 -> c7
                         [] k = 8 -> c8]
           fixed == CHOOSE f : f = step(f)
<1> HIDE DEF next, c1, c2, c3, c4, c5, c6, c7, c8
<1>1. tried = step(tried)
  <2>1. ASSUME NEW i \in 0 .. MaxAttempts
        PROVE  tried[i] = step(tried)[i]
    <3>1. i \in {0, 1, 2, 3, 4, 5, 6, 7, 8}
      BY DEF MaxAttempts
    <3> QED BY <3>1 DEF MaxAttempts, c1, c2, c3, c4, c5, c6, c7, c8
  <2> QED BY <2>1
<1>2. fixed = step(fixed)
  <2> HIDE DEF tried, step
  <2> QED BY <1>1
<1>3. fixed[attempt] = IF attempt = 0 THEN available ELSE next(fixed[attempt - 1])
  <2> HIDE DEF fixed
  <2> QED BY <1>2
<1>4. Attempts(available, terms) = fixed
  BY DEF Attempts, next
<1> HIDE DEF fixed
<1> QED BY <1>3, <1>4 DEF next

\* A change that leaves itself is the last that is tried.
LEMMA SettledStays ==
  ASSUME NEW available, NEW terms, NEW change \in Settled(available, terms),
         NEW k \in 0 .. MaxAttempts, Attempts(available, terms)[k] = change,
         NEW n \in 0 .. MaxAttempts, k =< n
  PROVE  Attempts(available, terms)[n] = change
<1> DEFINE tried == Attempts(available, terms)
           other == {i \in 0 .. MaxAttempts : k =< i /\ tried[i] # change}
<1>1. change = available - FeeWith(change, terms)
  BY DEF Settled
<1>2. other \in SUBSET Nat
  OBVIOUS
<1> SUFFICES ASSUME n \in other PROVE FALSE
  OBVIOUS
<1>3. PICK i \in other : \A j \in other : i =< j
  <2> HIDE DEF other
  <2> QED BY <1>2, LeastNatural
<1>4. i - 1 \in 0 .. MaxAttempts /\ k =< i - 1 /\ ~ (i =< i - 1)
  BY DEF MaxAttempts
<1>5. tried[i - 1] = change
  BY <1>3, <1>4
<1>6. tried[i] = available - FeeWith(tried[i - 1], terms)
  BY <1>4, AttemptsUnfold DEF MaxAttempts
<1> QED BY <1>1, <1>5, <1>6

\* The change is a function of the output and the terms: one amount at most settles
\* within the attempts, whatever else would leave itself (poolopening.go
\* buildFundingTx).
THEOREM ChangeSettlesOnce ==
  ASSUME NEW available, NEW terms,
         NEW change \in Settled(available, terms), NEW other \in Settled(available, terms)
  PROVE  change = other
<1> DEFINE tried == Attempts(available, terms)
<1>1. PICK k \in 0 .. MaxAttempts - 1 : tried[k] = change
  BY DEF Settled
<1>2. PICK n \in 0 .. MaxAttempts - 1 : tried[n] = other
  BY DEF Settled
<1>3. /\ k \in 0 .. MaxAttempts /\ n \in 0 .. MaxAttempts
      /\ MaxAttempts \in 0 .. MaxAttempts /\ k =< MaxAttempts /\ n =< MaxAttempts
  BY DEF MaxAttempts
<1>4. tried[MaxAttempts] = change
  BY <1>1, <1>3, SettledStays
<1>5. tried[MaxAttempts] = other
  BY <1>2, <1>3, SettledStays
<1> QED BY <1>4, <1>5
===============================================================================
