# go-bitfs in TLA+

go-bitfs is an SDK with which a buyer pays a seller for a file block by block
through a payment pool on chain, with an arbiter in reserve.  Every call is a
function of signed evidence and of the time and height it is given; the SDK keeps
no state, has no clock, no storage and no network.  All that makes the protocol
hard happens between the calls: evidence that is stale, repeated, from another
attempt, or that one of the parties never sends.  The modules here put the calls
of `buyer`, `seller`, `arbiter` into that environment and ask what holds whatever
the applications do in between.  One application in the repository does keep state,
the demo that opens a pool, and it is modelled with its files and processes.

- `*.tla` modules, `MC*.tla` with `MC*.cfg` for TLC, `*_proofs.tla` for TLAPS
- `PROJECT.json` maps every definition to the lines it is taken from, lists the
  runs, the mutants that show each property can fail, hazards and theorems

To run: `tlc -config MCFeePool_core.cfg MCFeePool`, `tlapm FeePool_proofs.tla`.

## The system

| Part | Code | State and evidence | Operations | Modelled in |
|---|---|---|---|---|
| Pool opening (Kinds 2-4) | `buyer`, `seller` workflow and restore, `pool/opening.go` | funding transaction, refund template, both refund signatures; a proof on each side | the two prepare calls, `CompleteOpening`, `PrepareFundingDelivery`, `VerifyFunding`, refund | `PoolOpening`; across pools `EvidenceBinding` |
| Cumulative payment (Kinds 5-7) | `buyer/workflow.go`, `seller/workflow.go` | authorizations, deliveries, payment signatures, the latest pool transaction | `RequestContent`, `DeliverContent`, `VerifyDeliveryAndPreparePayment`, `CompletePayment` | `FeePool`; across pools and quotes `EvidenceBinding` |
| Closing and refund (12, 13) | the same | final states signed by the buyer | `PrepareClose`, `CompleteClose`, `BuildMaturedRefund` | `FeePool` |
| Arbitration (8, 9) | `arbiter`, `arbitration/evidence.go`, `pool/arbitration.go` | claims, prepared evidence with its fee, receipts | seller and arbiter `PrepareArbitration`, `SignPreparedArbitration`, `CompleteArbitratedPayment` | `FeePool`; across pools `EvidenceBinding` |
| Retrieval from custody (10, 11) | `arbitration/content_retrieval.go`, `arbiter`, `buyer` | requests with nonces, the first answer to each | request, authenticate, available and not-ready answers, verify | `ContentRetrieval` |
| Batches: seed, price, payloads | `content/content.go`, `content/quote.go`, MasterSeed | quote terms, the list of digests behind the seed hash | classify, price, verify | `ContentBatches` |
| Pool engine | `pool/multisigpool_engine.go`, `pool/opening.go` | the signatures made | presign, derive, build, sign, merge and verify the states of a pool | `PoolEngine`; the checks the workflows share, in `FeePool` and `PoolOpening` |
| Facts and refund lock | `protocol/facts.go`, `internal/refundlock` | none | the gates on time and height | two clocks in `EvidenceBinding`, one in `FeePool` and `PoolOpening` |
| Quotes (1) | `content/quote.go`, `content/verified.go` | one signed document | create, accept, identify | `EvidenceBinding`; terms in `ContentBatches`, expiry in `FeePool` |
| Keys, signers | `protocol/signer.go` | none | bind a signer to a role | `BindSigner` in `EvidenceBinding` |
| Pool-opening demo | `demo/02_pool_opening`, `demo/internal/poolopening`, `demo/internal/junglebus` | three checkpoint files | five commands, selection of the funding output | `DemoOpening`, `FundingSelection` |
| Wire, CBOR, transport | `wire`, `transport` | none | encode, decode | no |
| TypeScript SDK, other demos, website | `typescript`, `demo`, `website` | - | - | no |

How they interact.  Nothing is shared and nothing calls back: the parties exchange
thirteen kinds of message, each carrying or referring to the exact bytes of those
it rests on; the buyer's and the seller's applications also read the chain.
The funding output is spent by one of a growing series of transactions with rising
sequence numbers; the node keeps the highest it was given until one is final.

What is hard, and what makes each part correct:

- *Opening.*  Messages of several attempts over one funding transaction are in
  flight together, and the buyer may restart between them.  The funding transaction
  must not leave the buyer before it holds a refund; the two must end up in the same
  pool; money that went in must come out.
- *Payment.*  The latest pool state is whatever transaction the application hands
  in.  The buyer may be behind the chain, the seller behind or ahead of it; both
  may sign twice for one sequence, and a message can come after its deadline.  The
  states on chain must form one chain, each payment must be for a delivery at its
  price, and what the buyer has signed beyond the chain must stay one batch.
- *Arbitration.*  The arbiter sees no chain and no clock, persists before it signs
  and may restart in between.  It must sign what it persisted, for a claim the
  seller has delivered on, and its payment must be the last.
- *Refund.*  Anyone may fall silent for ever.  The output must be spent in the end,
  and nothing may be completed that races the refund after the locktime.
- *Retrieval.*  Several workers answer one request while the record turns ready,
  and the pool has moved on by the time the buyer verifies.  A stale refusal must not
  take the place of the content, content comes out only against a payable receipt, and
  it can be accepted.  (That one request has one answer is up to the application, which
  is external.)
- *Batches.*  Buyer and seller price apart from each other, with the seeds they
  happen to hold, from a list nobody has compared with the file.  They must agree,
  the price must be that of the length delivered, and no block of a true file may
  be unreachable.
- *Engine.*  It derives the pool's amount from a template and a rate, as the
  funding transaction is private, and the arbiter's transaction from a claim
  without the rate.  Retries leave several openings over one funding output.
  Nobody may sign over an amount that is not the output's, or a final sequence
  outside a close, and what an arbiter signed must be restorable.
- *Binding.*  A call is handed raw messages and finds out by itself whether they
  belong together.  An application that mixes up two pools, two quotes (even with
  the same terms, which do not name the seller), two keys, or a height and a time
  holds nothing but genuine evidence.  Only what belongs together may be signed,
  nothing once an opening's own clock has passed its lock, and what was saved must
  restore.
- *Demo.*  A checkpoint is emptied before it is written, commands are rerun and
  killed, the seller has one checkpoint for all openings.  What has been sent must
  be on disk.  The indexer gives a history and not a balance, and change and fee
  each depend on the other.

The list with the lines is `hazards` in `PROJECT.json`.

## The modules

All the modules of the protocol share one representation.  The variables hold the
evidence that exists: *sets of messages that only grow*.  Losing a message is
never using it, repeating or reordering it is using it again or later, and a crash
between two calls is a call never made, or made again from what was saved.  A hash
or signature that verifies is membership in the set of what was signed.  A call is
an action: its guard is the conjunction of the checks in the call, its effect one
more message or transaction.  The faulty forms above some definitions are not part
of any specification: they are the mutants under which each property fails.

**`FeePool`** is one opened pool.  `requests`, `deliveries`, `updates`, `claims`,
`prepared`, `receipts`, `closes` are Kinds 5, 6, 7, 8, the arbiter's persisted
evidence, 9 and 12.  `complete` holds the transactions that carry two signatures;
`accepted`, `head` and `status` are the node, a higher sequence replacing a lower
one and a final one mined.  `BuyerView` and `SellerView` are what
`LatestPaymentRawTx` may be: for the buyer any state the node has held, as the
documentation of the field demands; for the seller also the transaction that
`CompletePayment` has just returned, which no one may have broadcast.  A state is
its sequence and the amounts of the seller and the arbiter, from which the rest of
the transaction follows.  The batch is not in it, as it is not in the transaction:
two authorizations may make one state.

**`CumulativeChannel`** is what a pool promises: content is offered on a state the
chain has held; a payment extends the head by the price of something offered; an
arbitrated payment is followed by a close only; the output is spent.  `FeePool`
implements it with `offers <- Offers` (the deliveries), `held <- accepted`.

**`PoolOpening`** is the exchange before: a template (funding transaction, lock,
buyer's output), its request with the fee the rate gives, and the response that
covers id and amount.  The fee is not in the template, so that several requests
may share one.  **`RefundBeforeFunding`** is its promise: secured, handed over, on
chain, spent, in this order for each funding transaction.  The refinement derives
`secured` and `handed` from proofs and messages.

**`ContentRetrieval`** extends `FeePool` and runs beside it.  A request names the
authorization of its claim and a nonce.  Authentication looks at Kind 8 alone,
custody at Kind 8 and Kind 9.  The arbiter's application (external: which record
it looks up, the commit of the first answer) has several workers: an answer is
signed in one step and committed in a later one.

**`ContentBatches`** derives what the other modules take as `Price`.  A seed hash
stands for any list of digests, since nobody checks at quote time whether it is
the list of a file of the size quoted.  Digests stand for their contents, of a
given length.  Each side supplies no seed, the right one or a wrong one at each
call.  A request is its batch, the amount before and the amount after; the guards
on time and sequence are in `FeePool`.

**`PoolEngine`** is package `pool` below the workflows.  The engine has no state, so
the only variable is the signatures made, each a role's over a transaction and an
amount (as the signature hash covers it).  A transaction is the record of the
fields the engine reads and its own id.  Every exported call may be given any
evidence that exists, of any opening of one triple of keys: two openings may share
their funding output, and a template may be claimed at any rate.

**`EvidenceBinding`** is the exported calls of the three role packages, over several
keys, openings, quotes and two clocks.  A guard that compares ids, hashes or keys
is kept as a comparison instead of being built into the shape of the message, so
that every call may be given any message, opening, state, key and facts and must
refuse the wrong ones.  A fact left out is zero.  In exchange it has no node: any
state of an output that carries two signatures may be handed in.  It implements
`PoolEngine` under the mapping at its end (`RoleOf`, `EngineTx`): the workflows check
evidence, the engine checks transactions, and the refinement says that the first
suffices for the second.  What holds of every behaviour of the engine therefore holds
of the calls, under that mapping.

**`FundingSelection`** is what the demo's buyer computes from one answer of the
indexer: the unspent outputs, the best of those that are large enough, the change.
**`DemoOpening`** has the commands as processes which load, empty a file, write it
and print; a file holds an opening, nothing yet (`None`) or nothing readable
(`Torn`).  `Crash` ends a process at any of these steps.  What was printed can be
fed to the next command again.  `current` belongs to the properties only.

**`NaturalLemmas`** has what several proofs need of the naturals: a least and a
greatest member, quotients that are unique and monotone.

The refinements, with the promise on the right: `ContentRetrieval` => `FeePool` =>
`CumulativeChannel`; `PoolOpening` => `RefundBeforeFunding`; `EvidenceBinding` =>
`PoolEngine`.

Which property is about what is said in the comments above them.

## The runs

| Run | States | What it shows |
|---|---|---|
| `core` | 353,319 | Two authorizations on any states, paid, arbitrated at two fees, closed, refunded, in every order: one chain, every state on it a delivery at its price above the last, exposure of one batch, nothing but the refund after the locktime; what spends the output is a close the buyer signed or a state paid for throughout; `FeePool` implements `CumulativeChannel`; the output is spent, whoever falls silent. |
| `opening` | 41,988 | Three attempts over two funding transactions: no hand-over without a refund, one pool on both sides; `PoolOpening` implements `RefundBeforeFunding`; what went into a pool comes out. |
| `retrieval` | 83,741 | Two requests beside the whole pool, workers racing: content only against a payable receipt, always acceptable; a request that waits while its record is ready ends with the content. |
| `batches` | 18,150 | Every list of up to three digests, file sizes 0 to 10 with blocks of 3, wrong and missing seeds on each side: prices agree, are those of the length delivered, and a true file can be bought whole. |
| `engine` | 205,459 | Openings over two funding outputs, two locktimes and two rates, every call with the evidence of any: real amounts, payments on completed states, arbitrated states that restore, no final sequence outside a close. |
| `binding` | 29,384 | Three outputs with four openings, three quotes and three keys mixed in every call: what is signed belongs together, is claimed, restores, stops with the opening's own clock, and is what the engine signs: `EvidenceBinding` implements `PoolEngine`. |
| `demo` | 50,504 | Five commands over three files, rerun in any order, two of them killed: what was sent is on disk, the last opening is completed, the output selected is unspent and the fee is paid. |
| `payable`, `receipt`, `retrieval_current`, `batch_seed`, `engine_onepool` | - | Each refutes a sentence of the repository; see below. |

Bounds, and why they are enough to meet the cases that matter:

- `FeePool`: two authorizations (`MaxRequests`) are what it takes to sign twice for
  one sequence, to go two states ahead, and to arbitrate one while the other is
  paid.  `FinalSequence = 5` leaves two payment states between the refund (2) and
  the final one, so that the last usable sequence is reached; `PoolOutput = 4` with
  a fee of 1 and prices 1 and 2 makes both prices, their sum, the amount that only
  misses the miner fee, and an arbiter's fee that does not fit.  The deadlines lie
  before and after the refund's locktime; the clock stops at the locktime, because no
  guard tells two later times apart.
- `PoolOpening`: three openings are two attempts on one funding transaction and
  one on another; fee 3 exceeds one of the amounts and eats up the other; lock 0 is
  the value the code refuses.
- `ContentRetrieval`: the pool without closes (`CloseTargets = {}`) and with one
  fee, both of which retrieval does not look at, one deadline and one locktime, and
  an output of 3, which both batches together use up with nothing left for the fee;
  two requests with two nonces are two of one claim, or one of each of two.  The
  clock reaches the locktime, after which nothing in retrieval changes.
- `ContentBatches`: sizes 1, 3, 4, 6, 7 and 10 are a lone tail, exact multiples, one
  byte over and one block too many for a seed; three positions allow one digest to
  stand at both ends, at a full and a tail position, with another between.
  `AmountLimit = 16` is exceeded by a sum of two prices.  Duplicate hashes and a
  batch of more blocks than the quote allows are among the batches asked for.
- `PoolEngine`: outputs of 3 and 1 and fees of 1 and 2, so that a template means one
  amount at one rate and another at the other, and one fee exceeds one output.
  `FinalSequence = 5` leaves payments at 3 and 4; `MaxSatoshis = 5` is exceeded by
  an amount and a fee.  Seven signatures (`MaxSignatures`) are an opening, a
  payment and an arbitrated one on top of it, with one to spare for another pool;
  six are enough for the counterexample of `engine_onepool`.
- `EvidenceBinding`: alice buys from bob with carol as arbiter over one output with
  two openings, one locked by height and one by time, and from carol with bob as
  arbiter over another; a third output is too small for the fee.  bob and carol sign
  the same terms, bob another price too.  `MaxSatoshis = 3`, the width of an amount,
  is that of the largest output.
  `Threshold = 3` separates heights 0 to 2 from times 3 and 4; each clock reaches
  its lock, and either fact may be missing.  Ten messages and signatures
  (`MaxEvidence`) are an opening with a payment, an arbitrated claim or a close,
  and messages of another opening beside it.
- `DemoOpening`: two openings overwrite each other's files, two kills
  (`MaxCrashes`) hit two commands or one command and its rerun.  The indexer has an
  output and its spender in one block, in the order in which ids are the other way
  round; the spender without a block; not yet; and an unconfirmed payment.  The
  change settles, is not worth its output, or swings between two values for ever.

Symmetry is not used: batches, digests and funding transactions have different
prices, lengths and amounts.  Deadlock is checked in the runs on the pool, where
`Settled` is the only step once everything is spent and the clock has stopped.  The
others do not check it, because there the system may really stop: an exchange ends
when every message has been sent, and every signature made that can be.

Fairness.  `FeePool` assumes that the clock goes on (`Tick`), that the buyer's
application submits its refund once it has matured (`BuildMaturedRefund`, which the
documentation makes its duty), and that a mature transaction is mined.  Nothing is
assumed of the seller, the arbiter or any message.  `PoolOpening` assumes the same
of the clock, the buyer and the chain.  `ContentRetrieval` assumes that the
arbiter's application works off its requests, commits what it has signed, and that
the buyer's verifies the answers with the pool state the authorization was signed
on.  Each is weak fairness of an action that stays enabled until it is taken.
`DemoOpening` assumes weak fairness of the steps of a running process, and strong
fairness of the user's reruns of 0202 to 0205, which other commands disable and
enable again: the demo's documentation promises that a command that failed can be
rerun with the same message and checkpoint, and `LastOpens` asks whether that is
enough.  Beginning another opening (0201) is not assumed, nor excluded.

Every property of a passing run is violated under a mutant of the code: a dropped
guard, a wrong gate, a stale commit, an off-by-one.  `PROJECT.json` pairs them.

## Where code and documentation part

- `payable`: the balance check before signing and delivery
  (`pool/multisigpool_engine.go`, `CheckPaymentCapacity`) leaves the miner fee out,
  the builder of the payment takes it in.  Content can be delivered for an amount
  that neither payment nor arbitration can pay.
- `receipt`: the flow document has the arbiter check the deadline again when it
  signs; `SignPreparedArbitration` takes no clock.
- `retrieval_current`: the pool evidence for verifying retrieved content is
  documented as current; the code needs the state the authorization was signed on.
  `AvailableIsAcceptable` shows that it is always on record, for a buyer that kept it.
- `batch_seed`: the comment of `VerifyContentPayloads` has the seed in the batch
  used for its blocks; the code uses it only if the caller supplies none.
- `engine_onepool`: the comment and the error of `restorePoolCheckpoint`
  (`buyer/restore.go`, `seller/restore.go`) have evidence of another pool
  refused.  The id they compare is taken from the very evidence it is compared with,
  so of two pools over one funding output each restores the other's payments as its
  own.

Seen while modelling, without a run of their own:

- 0201 with real outputs assigns its preparation to a variable of the inner block
  (`0201_buyer_build_refund_request/main.go:74`); the outer one stays nil and is
  dereferenced at line 106, so the command never gets past it (`NilFunding`).  Only
  the offline form leads to an opening.
- `IsSpentInMempoolTx` (`junglebus/client.go`, read by `poolopening.go:353`) is never
  set, and a spender in no block is sorted before what it spends.
  `SelectedIsUnspent` is therefore about spenders in a block.
- If the length of the signature alternates between two amounts of change, eight
  attempts do not settle and the whole rest goes to the miners, where the demo's
  README says that it becomes change.  `FundingPaysItsRate` allows it.

## The theorems

Proved by TLAPS for every value of the constants that satisfies the named
assumptions of each module.  They say only that amounts, times and sequences are
naturals, that the fee fits the pool, that the final sequence lies beyond the
refund's, that the clock can reach the locktimes, that contents have lengths and a
seed hash is not a block's; for the engine and the bindings that amounts and fees
fit their width; for the bindings that the roles of a pool have different keys; for
the demo that ids are unique, outputs are numbered by naturals, and a transaction
in a block comes after those it spends.  Nothing is assumed about how many
messages, openings or digests there are.

**`FeePool_proofs`.**  `TypeOK` is inductive.  The rest follows from `EvidenceInv`,
needed because no property of the chain is inductive by itself: a transaction in
`complete` may have been signed long before.  Its parts: an authorization extends
by one batch a state *the node has held* (`RequestsExtendTheChain`, from what the
buyer may take as its view); each message answers an earlier one
(`MessagesFollow`); a transaction has two signatures for one of four reasons
(`CompleteFollows`); what the node has held leads up to its head, one state per
sequence, each paid for on the one below (`ChainLeadsToHead`); this is also
`ChainIsLedger`.  `BuyerExposure` is the consequence that matters most: a
transaction that could displace the head has a sequence above it, is made on a held
state one below it, and held states do not go beyond the head, hence it is made on
the head.  `PaymentsAreForDeliveries` and `ArbitrationIsLast` are the same argument
at the step where the node moves; `CompletePayable`, `AwardsFollowCustody` and
`ExpiryIsRespected` need the origins. Three results read that chain as a whole.
`NoSequenceIsSkipped` takes the greatest sequence that would be missing to a
contradiction; with it `LedgerIsOfDeliveries` gives an amount for every sequence
from the refund up, each more than the one below by the price of a batch delivered
for it, and `SellerKeepsWhatItHas` says that short of a close no later state pays
the seller less, however far apart, and that one state at most pays an arbiter.
`SettlementPaysWhatIsOwed` is about the end: what is mined below the final sequence
is mined after the lock (`MinersFollowTheirRule`), pays sequence by sequence, and
pays the seller the most of all states; what is mined at the final sequence can only
be a close (`FinalIsClose`).
`SettlementStaysOpen` says why `PoolIsSettled` holds: at every moment one of the
three fair steps has its guard.  What is left to TLC is to add fairness up.
`PoolImplementsChannel` maps initial states and each step: an accepted payment to
`Pay`, an accepted close to `Close`, a delivery to `Deliver`, mining to `Settle`,
all else to stuttering.

**`PoolOpening_proofs`.**  `OpeningInv`: a proof is whole and answered, a delivery
follows a proof, a pool of the seller was delivered and is the buyer's.
`PoolsAreShared` needs the step from ids to pools: template and amount leave one
value for the fee.  `HandOverIsSafe` and `OpeningImplementsPromise` follow.
`RefundStaysOpen` says why `FundedIsSpent` holds, at every moment the clock, the buyer
or the miners can go on; it needs that a funded output was handed over
(`HandedOverFirst`), hence has its refund.

**`ContentRetrieval_proofs`.**  `RetrievalIsPool`: with retrieval beside it the
pool takes no step it would not take alone, so its theorems carry over.
`RetrievalInv` adds that receipts are payable and that an answer with content has a
receipt behind it; readiness is never lost, which is what makes an answer signed in
one step good in the next.  `ReleasedContentIsAcceptable` uses
`RequestsExtendTheChain` again: the state an authorization was signed on stays
among those the node has held. `WaitingStaysAnswerable` and
`WaitingIsAnsweredWithContent` are what `ReadyIsRetrieved` rests on: what
waits on a ready record can be answered, and is answered with content the buyer can
accept, even when a worker signed a refusal before.

**`ContentBatches_proofs`.**  `EndsDecide` with `PositionsAreBounded` (the first
and last position of a digest exist and bound the others, from the well-foundedness
of the naturals) gives that equal expected lengths at both ends are equal lengths
throughout.  With it `DeliveriesAreChargedByLength`; `PricesAgree` follows from
`RequestsArePriced`, which says that a price made from any supplied seed is the one
made from the list behind the hash.  `RequestsAreDeliverable` joins two halves:
`TrueFile`, that the list of a file of the quoted size has as many digests as the
code counts blocks and each content the length the code expects (from the
uniqueness of integer division, the cases of a full and a short last block apart),
and `RequestsArePriceable`, that a request priced with whatever seed can be priced
with that list.  Elsewhere sums are never evaluated, as equal terms have equal
sums; only `NothingIsOutOfReach` needs the value of one, and it is that of a batch
of one block (`SumOfOne`, by unfolding the fold once).  It says that the seed and
each listed block of a true file can be bought on its own: priced within the width
of an amount, and accepted when delivered.  `BlockPricesAreFair` is the arithmetic
of the price: rounding up makes no block free, none dearer than a full one, and no
longer one cheaper.

**`PoolEngine_proofs`.**  The invariant (`EngineInvariant`) is that every signature
has its type and covers the amount of the output it spends.  It carries itself: the
buyer makes the first signature of a pool knowing the funding transaction, the
seller makes the next on the very amount the buyer's covers, and everything else is
made from a proof that was verified against the output.  `StepSigns` says once what
a step can add: a payment on a state that is complete, an award, a close.
`OnlyClosesAreFinal` and `PaymentsAreChained` follow from it, and
`ArbitratedStatesRestore` because amount and outputs leave one value for the fee
the claim does not name.

**`EvidenceBinding_proofs`.**  The invariant has one part for each kind of message:
what its call compared stays true, as messages are never withdrawn.  The properties
follow messages back from there: a payment to its authorization, delivery and quote
(`QuotedPayments`), a receipt to claim and authorization (`ClaimedAwards`).
`RestorableEvidence` is that restoring repeats no check that time can undo;
`FrozenEvidence` needs that a fact left out, on either clock, opens no gate.
`CallsImplementEngine` needs another invariant, `BuiltInv`: each signature is over
a transaction that pays out no more than its output holds, and a receipt or close
under way is one the engine would build.  Then each call that signs maps to the
engine's step for the same role on the same states, with one lemma for an update, a
close and an award (`UpdateForEngine`, `CloseForEngine`, `AwardForEngine`); the
refund's signatures are the first two steps of an opening, and messages that sign
no transaction are stuttering.  The engine counts signatures and the calls
messages, so that `EngineHasRoom` counts one against the other.
`CallsInheritEngine` then takes the theorems of `PoolEngine_proofs` over, under the
mapping, and `PaymentsAreOnCompletedStates` reads the deepest of them back in the
calls' own terms, for which signatures and transactions must have no fields but
those the mapping keeps (`WellFormedInvariance`).

**`DemoOpening_proofs`.**  The invariant follows the running command of each role:
the message it was started with stays printed, and until 0201 prints its request
nobody else has the new opening, so that no other command can be about it.  Only
then is `SavedBeforeSent` inductive.  `SelectedUnspent` uses the order of the
chain, `FundingPaid` that an amount of change which settles is a fixed point of the
fee. `FundingIsChosenByItsOutputs`: amount, transaction and output number order the
candidates strictly, so that one comes first.  `ChangeSettlesOnce`: once it leaves
itself, the change is the same in every later attempt.

**Only model-checked.**  The liveness properties (`PoolIsSettled`, `FundedIsSpent`,
`ReadyIsRetrieved`, `LastOpens`), as liveness under fairness and ENABLED are beyond
the prover; of the first three it is proved that no state is a dead end.  Every safety
invariant and every action property of a passing run is a theorem.

## Not modelled

- Bytes: encodings, scripts, signatures, hashes.  Equality and membership stand for
  them, so nothing here speaks of a forged or malformed message.
- Records that an arbiter does not hold, and their retention.
- How a pool's miner fee follows from size and rate.  All the states of a pool have
  the same three outputs, hence one fee for each rate, which is a constant.  (For the
  funding transaction, whose size varies, it is modelled.)
- Reorganisations: a mined transaction stays mined.
- Encoding and framing of one message at a time (`wire`, `transport`,
  `pool/cbor.go`), which keep no state; `CreateQuote`, whose one signed document is
  part of the initial state of `EvidenceBinding`.
- Outputs spent by transactions in no block, in `FundingSelection` (see above).
- Empty files, which the documentation keeps out of the flow, appear in
  `ContentBatches` as a quote nobody can buy blocks of.
- The TypeScript SDK, the same calls written a second time and held to the Go code
  by common fixtures; the website; the demos other than 02, which call the SDK in
  memory, one step after the other, and keep nothing.

## Plan

Written in the order of what the system stands on: the pool, its opening,
retrieval, batches, the engine, the bindings between pools and quotes, the demo.
Next:

1. `FilePurchase`: the composition.  An opening of `PoolOpening` starts the pool of
   `FeePool`, whose `Price` is that of `ContentBatches`; the buyer takes the seed
   first and the blocks after it.  To show: what a buyer holds and what it has paid
   agree at every point, over restarts of either side; with cooperation the file is
   bought whole; without it the buyer loses one batch at most.  It should implement
   `RefundBeforeFunding` and `CumulativeChannel`.
2. Records with retention, `not_received` and `custody_gone`, in `ContentRetrieval`.
3. Framing: a stream cut and joined anywhere gives the frames that were written, or
   an error.
4. Theorems on `EvidenceBinding` beside a node, so that `BuyerExposure` holds of a
   buyer with several pools.
5. `DemoOpening` as an implementation of `PoolOpening`.
6. The price of a whole batch as a bound over its blocks, once sums over finite sets
   are in reach; that no state is a dead end for `LastOpens`.
