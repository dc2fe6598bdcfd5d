------------------------------ MODULE DemoOpening -----------------------------
(***************************************************************************)
(* The demo that opens a pool: five commands, each a process that runs one    *)
(* step of one role and ends.  What a role has to remember from one command   *)
(* to the next it writes to a file of a fixed name, without any care for      *)
(* other openings in the same directory and without rename or sync: the file  *)
(* is emptied first.  Messages go from one command to the next through files  *)
(* of the user, who may use each again and may rerun a command that failed.   *)
(*                                                                          *)
(* A process may be killed between any two steps.  The commands of one role   *)
(* run one after the other.                                                  *)
(***************************************************************************)
EXTENDS FundingSelection, FiniteSets

CONSTANTS
  Openings,   \* funding transaction and locktime, an hour from the moment of the command
  Answers,    \* of the indexer
  Terms,      \* pool amount, fee rate and signature lengths met by PrepareFunding
  MaxCrashes, \* bound
  None, Torn  \* contents of a file: never written; emptied, or written in part

ASSUME FileAssumption == None \notin Openings /\ Torn \notin Openings /\ None # Torn
ASSUME CrashAssumption == MaxCrashes \in Nat

\* What a blockchain allows: a transaction in a block comes after those it spends from.
ASSUME ChainAssumption ==
  \A answer \in Answers : \A id, spender \in DOMAIN answer.history :
    /\ id \in {tx.id : tx \in Transactions}
    /\ answer.history[id].height \in Nat /\ answer.history[id].index \in Nat
    /\ (answer.history[spender].height > 0 /\ \E vout \in DOMAIN Fetch(id).pays :
          [tx |-> id, vout |-> vout] \in Fetch(spender).spends) =>
         \/ answer.history[id].height < answer.history[spender].height
         \/ /\ answer.history[id].height = answer.history[spender].height
            /\ answer.history[id].index < answer.history[spender].index
ASSUME TermsAssumption ==
  \A terms \in Terms : terms.pool \in Nat \ {0} /\ terms.rate \in Nat \ {0} /\ terms.long \subseteq Nat

VARIABLES
  current,    \* the opening of the last 0201 that was started (for the properties)
  files,      \* the three checkpoints
  processes,  \* the command each role is running
  crashes,
  requests, responses, secured, deliveries, opened  \* what 0201, ..., 0205 have printed

printed == <<requests, responses, secured, deliveries, opened>>
vars    == <<current, files, processes, crashes, printed>>

Files == {"buyer-opening", "buyer-pool", "seller-presign"}
Roles == {"buyer", "seller"}

Idle == [command |-> "none"]

Running(command, opening, step) ==
  [command |-> command, opening |-> opening, step |-> step]

Online(answer, terms, utxo) ==
  [command |-> "online", answer |-> answer, terms |-> terms,
   funding |-> PrepareFunding(utxo, terms)]

-----------------------------------------------------------------------------
Init ==
  /\ current = None
  /\ files = [file \in Files |-> None]
  /\ processes = [role \in Roles |-> Idle]
  /\ crashes = 0
  /\ requests = {} /\ responses = {} /\ secured = {} /\ deliveries = {} /\ opened = {}

Start(role, process) ==
  /\ processes[role] = Idle
  /\ processes' = [processes EXCEPT ![role] = process]

(* The checkpoints *)

BuyerOpeningCheckpointPath  == "buyer-opening"
SellerPresignCheckpointPath == "seller-presign"

\* Faulty form: both checkpoints of the buyer at one path.
BuyerPoolCheckpointPath_Shared == "buyer-opening"

BuyerPoolCheckpointPath == "buyer-pool"

writeCheckpoint(path, content) == files' = [files EXCEPT ![path] = content]

SaveBuyerOpeningCheckpoint(content)  == writeCheckpoint(BuyerOpeningCheckpointPath, content)
SaveBuyerPoolCheckpoint(content)     == writeCheckpoint(BuyerPoolCheckpointPath, content)
SaveSellerPresignCheckpoint(content) == writeCheckpoint(SellerPresignCheckpointPath, content)

\* The one checkpoint a command saves.
Save(command, content) ==
  \/ command = "0201" /\ SaveBuyerOpeningCheckpoint(content)
  \/ command = "0202" /\ SaveSellerPresignCheckpoint(content)
  \/ command = "0203" /\ SaveBuyerPoolCheckpoint(content)

\* Each is found by the opening it is asked for only; what it held before is overwritten.
LoadBuyerOpeningCheckpoint(opening)  == files[BuyerOpeningCheckpointPath] = opening
LoadBuyerPoolCheckpoint(opening)     == files[BuyerPoolCheckpointPath] = opening
LoadSellerPresignCheckpoint(opening) == files[SellerPresignCheckpointPath] = opening

(* Commands: what each reads, and what is checked before it has written anything *)

\* 0201, offline: a funding transaction that spends nothing real.
BuildRefundRequest(opening) ==
  /\ opening \notin requests /\ current # opening
  /\ Start("buyer", Running("0201", opening, "save"))
  /\ current' = opening
  /\ UNCHANGED <<files, crashes, printed>>

\* 0201 with real outputs.  The preparation is assigned to a variable of the inner block;
\* the outer one, which the rest of the command reads, is nil.
BuildRefundRequestOnline(answer, terms) ==
  /\ \E utxo \in Selected(answer, terms) : Start("buyer", Online(answer, terms, utxo))
  /\ UNCHANGED <<current, files, crashes, printed>>

NilFunding ==
  /\ processes["buyer"].command = "online"
  /\ processes' = [processes EXCEPT !["buyer"] = Idle]
  /\ UNCHANGED <<current, files, crashes, printed>>

\* 0202
AcceptRefundRequest(opening) ==
  /\ opening \in requests
  /\ Start("seller", Running("0202", opening, "save"))
  /\ UNCHANGED <<current, files, crashes, printed>>

\* 0203: CompleteOpening with the response and what 0201 saved.
AcceptRefundResponse(opening) ==
  /\ opening \in responses
  /\ LoadBuyerOpeningCheckpoint(opening)
  /\ Start("buyer", Running("0203", opening, "save"))
  /\ UNCHANGED <<current, files, crashes, printed>>

\* Faulty form: the command by itself, which takes any id with a saved pool checkpoint.
BuildFundingDelivery_Saved(opening) ==
  /\ LoadBuyerPoolCheckpoint(opening)
  /\ Start("buyer", Running("0204", opening, "print"))
  /\ UNCHANGED <<current, files, crashes, printed>>

\* 0204 itself looks no further than the saved pool checkpoint.  That it is run for an id
\* that 0203 printed is the pipeline the demo's README documents, and the first guard.
BuildFundingDelivery(opening) ==
  /\ opening \in secured
  /\ LoadBuyerPoolCheckpoint(opening)
  /\ Start("buyer", Running("0204", opening, "print"))
  /\ UNCHANGED <<current, files, crashes, printed>>

\* 0205: the saved request is answered once more, then VerifyFunding.
AcceptFundingDelivery(opening) ==
  /\ opening \in deliveries
  /\ LoadSellerPresignCheckpoint(opening)
  /\ Start("seller", Running("0205", opening, "print"))
  /\ UNCHANGED <<current, files, crashes, printed>>

(* What a running command does *)

\* os.WriteFile opens with O_TRUNC, ...
Truncate(role) ==
  LET process == processes[role]
  IN /\ process # Idle /\ process.command # "online" /\ process.step = "save"
     /\ Save(process.command, Torn)
     /\ processes' = [processes EXCEPT ![role] = Running(process.command, process.opening, "write")]
     /\ UNCHANGED <<current, crashes, printed>>

\* ... then writes.
WriteCheckpoint(role) ==
  LET process == processes[role]
  IN /\ process # Idle /\ process.command # "online" /\ process.step = "write"
     /\ Save(process.command, process.opening)
     /\ processes' = [processes EXCEPT ![role] = Running(process.command, process.opening, "print")]
     /\ UNCHANGED <<current, crashes, printed>>

PrintedBy(command, opening, of, messages) ==
  IF command = of THEN messages \cup {opening} ELSE messages

\* Faulty form: the message leaves before the checkpoint is written.
WriteHex_First(role) ==
  LET process == processes[role]
  IN /\ process # Idle /\ process.command # "online"
     /\ process.step \in {"write", "print"}
     /\ requests'   = PrintedBy(process.command, process.opening, "0201", requests)
     /\ responses'  = PrintedBy(process.command, process.opening, "0202", responses)
     /\ secured'    = PrintedBy(process.command, process.opening, "0203", secured)
     /\ deliveries' = PrintedBy(process.command, process.opening, "0204", deliveries)
     /\ opened'     = PrintedBy(process.command, process.opening, "0205", opened)
     /\ processes' = [processes EXCEPT ![role] = Idle]
     /\ UNCHANGED <<current, files, crashes>>

WriteHex(role) ==
  LET process == processes[role]
  IN /\ process # Idle /\ process.command # "online" /\ process.step = "print"
     /\ requests'   = PrintedBy(process.command, process.opening, "0201", requests)
     /\ responses'  = PrintedBy(process.command, process.opening, "0202", responses)
     /\ secured'    = PrintedBy(process.command, process.opening, "0203", secured)
     /\ deliveries' = PrintedBy(process.command, process.opening, "0204", deliveries)
     /\ opened'     = PrintedBy(process.command, process.opening, "0205", opened)
     /\ processes' = [processes EXCEPT ![role] = Idle]
     /\ UNCHANGED <<current, files, crashes>>

Crash(role) ==
  /\ crashes < MaxCrashes /\ processes[role] # Idle
  /\ crashes' = crashes + 1
  /\ processes' = [processes EXCEPT ![role] = Idle]
  /\ UNCHANGED <<current, files, printed>>

Step(role) == Truncate(role) \/ WriteCheckpoint(role) \/ WriteHex(role)

Command(opening) ==
  \/ BuildRefundRequest(opening) \/ AcceptRefundRequest(opening)
  \/ AcceptRefundResponse(opening) \/ BuildFundingDelivery(opening)
  \/ AcceptFundingDelivery(opening)

Next ==
  \/ \E opening \in Openings : Command(opening)
  \/ \E answer \in Answers, terms \in Terms : BuildRefundRequestOnline(answer, terms)
  \/ NilFunding
  \/ \E role \in Roles : Step(role) \/ Crash(role)

Spec == Init /\ [][Next]_vars

\* A process that is not killed goes on, and the user reruns the commands of an opening as
\* often as it takes, whatever else runs in between.
FairSpec ==
  /\ Spec
  /\ WF_vars(NilFunding)
  /\ \A role \in Roles : WF_vars(Step(role))
  /\ \A opening \in Openings :
       /\ SF_vars(AcceptRefundRequest(opening))
       /\ SF_vars(AcceptRefundResponse(opening))
       /\ SF_vars(BuildFundingDelivery(opening))
       /\ SF_vars(AcceptFundingDelivery(opening))

-----------------------------------------------------------------------------
(* Properties *)

\* A file holds an opening or nothing that can be read; a message of an opening follows the
\* one before it.
TypeOK ==
  /\ current \in Openings \cup {None}
  /\ files \in [Files -> Openings \cup {None, Torn}]
  /\ crashes \in 0 .. MaxCrashes
  /\ requests \subseteq Openings /\ responses \subseteq requests
  /\ secured \subseteq responses /\ deliveries \subseteq secured /\ opened \subseteq deliveries

\* From the moment a buyer's Kind 2 leaves it until it begins another opening, what only it
\* knows, the request and the private funding transaction, is on disk and whole, whatever
\* commands are rerun and wherever they are killed: the refund of a funding transaction that
\* was handed over can be put together again.
SentIsSaved == current \in requests => files["buyer-opening"] = current

\* A command that failed can be run again with the same message (demo/02 README): an opening
\* that was asked for is completed in the end, if no other is begun, although commands are
\* killed and the seller's only checkpoint is overwritten by requests of older openings.
LastOpens ==
  \A opening \in Openings :
    opening \in requests /\ current = opening ~> opening \in opened \/ current # opening

Prepared == processes["buyer"].command = "online"

\* The output that is chosen is spent by no transaction of the history that is in a block.
SelectedIsUnspent ==
  Prepared =>
    LET history == processes["buyer"].answer.history
        utxo    == processes["buyer"].funding.utxo
    IN \A id \in DOMAIN history :
         history[id].height > 0 => [tx |-> utxo.tx, vout |-> utxo.vout] \notin Fetch(id).spends

\* The miners get what the rate asks for the transaction as it was signed, and with change
\* no more than that.
FundingPaysItsRate ==
  Prepared =>
    LET terms   == processes["buyer"].terms
        funding == processes["buyer"].funding
        fee     == FundingFee(funding, terms)
    IN /\ fee >= FeeWith(funding.change, terms)
       /\ funding.change > 0 => fee = FeeWith(funding.change, terms)
=============================================================================
