--------------------------- MODULE ContentBatches ---------------------------
(***************************************************************************)
(* What a batch of content hashes costs and what a delivery of it must hold. *)
(* FeePool takes the price of a batch for granted; here it is derived, by    *)
(* the buyer and the seller each for itself, from the quote and whatever     *)
(* seed each of them supplies.                                               *)
(*                                                                          *)
(* A quote names a seed by its hash: the list of the block digests of the    *)
(* file.  Nobody checks at quote time that the list is that of a file of the *)
(* size quoted, so any list may be behind the hash.  Digests stand for the   *)
(* content they are of (no two contents share one); the seed hash has no     *)
(* second preimage, so that a supplied seed passes its check only if it is   *)
(* the list behind the hash.                                                 *)
(***************************************************************************)
EXTENDS Naturals, Sequences, FiniteSets, Functions

CONSTANTS
  Digests,              \* block digests
  SeedHash,             \* the seed hash of the quote
  Length,               \* [Digests -> Nat]: the length of the content of a digest
  Seeds,                \* the lists of digests a seed hash may stand for
  OtherSeeds,           \* the lists a party may supply by mistake
  QuoteTerms,           \* the terms a seller may sign
  Batches,              \* the ordered batches the buyer may ask for
  BlockSize,            \* stands for 262144
  MaxSeedBlocks,        \* blocks whose digests fit one block, stands for 8192
  MaxContentBatchItems, \* stands for 64
  AmountLimit,          \* stands for 2^64
  MaxRequests           \* bound on the requests made

Amounts == 0..AmountLimit - 1

ASSUME SizeAssumption ==
  /\ BlockSize \in Nat \ {0} /\ AmountLimit \in Nat \ {0}
  /\ MaxSeedBlocks \in Nat /\ MaxContentBatchItems \in Nat /\ MaxRequests \in Nat
ASSUME ContentAssumption ==
  /\ SeedHash \notin Digests
  /\ Length \in [Digests -> Nat]
  /\ Seeds \subseteq Seq(Digests) /\ OtherSeeds \subseteq Seq(Digests)
  /\ Batches \subseteq Seq(Digests \cup {SeedHash})
  /\ QuoteTerms \subseteq [size : Nat, seedPrice : Amounts, blockPrice : Amounts,
                           maxBlocks : Nat]

VARIABLES
  terms,      \* the terms of the quote
  listed,     \* the list of digests behind its seed hash
  requests,   \* Kind 5: [batch, previous, after]
  deliveries, \* the requests the seller has delivered under
  payments    \* the deliveries the buyer has verified and signed for

vars == <<terms, listed, requests, deliveries, payments>>

-----------------------------------------------------------------------------
(* The blocks of a file, counted from 1 *)

\* Faulty form: counts a tail after the last full block.
BlockCount_ExtraTail(size) == size \div BlockSize + 1

BlockCount(size) == (size + BlockSize - 1) \div BlockSize

\* Faulty form: the last block is the remainder, whatever it is.
ExpectedBlockSize_NoFullTail(size, i) ==
  IF i < BlockCount(size) THEN BlockSize ELSE size % BlockSize

ExpectedBlockSize(size, i) ==
  IF i < BlockCount(size) \/ size % BlockSize = 0 THEN BlockSize ELSE size % BlockSize

ValidateFileQuoteTerms(t) ==
  /\ t.size = 0 => listed = <<>>
  /\ t.maxBlocks \in 1..MaxContentBatchItems
  /\ BlockCount(t.size) =< MaxSeedBlocks

(* Evidence *)

\* Faulty form: looks at the number of digests only.
VerifySeed_AnyHash(seed) == Len(seed) = BlockCount(terms.size)

\* The hash of the quote, and as many digests as its file has blocks.
VerifySeed(seed) == seed = listed /\ Len(seed) = BlockCount(terms.size)

Positions(seed, hash) == {i \in DOMAIN seed : seed[i] = hash}
FirstIndex(seed, hash) ==
  CHOOSE i \in Positions(seed, hash) : \A j \in Positions(seed, hash) : i =< j
LastIndex(seed, hash) ==
  CHOOSE i \in Positions(seed, hash) : \A j \in Positions(seed, hash) : j =< i

\* Faulty form: takes the first position a hash is at.
Classified_FirstPosition(seed, hash) ==
  VerifySeed(seed) /\ Positions(seed, hash) # {}

\* A hash at several positions must have one expected length.
Classified(seed, hash) ==
  /\ VerifySeed(seed)
  /\ Positions(seed, hash) # {}
  /\ ExpectedBlockSize(terms.size, FirstIndex(seed, hash))
       = ExpectedBlockSize(terms.size, LastIndex(seed, hash))

\* A full block at its price; a shorter one in proportion less a tenth, rounded up.
BlockPrice(size) ==
  IF size = BlockSize
    THEN terms.blockPrice
    ELSE (terms.blockPrice * size * 90 + BlockSize * 100 - 1) \div (BlockSize * 100)

ItemPrice(seed, hash) ==
  IF hash = SeedHash
    THEN terms.seedPrice
    ELSE BlockPrice(ExpectedBlockSize(terms.size, FirstIndex(seed, hash)))

Price(seed, batch) == SumFunction([i \in DOMAIN batch |-> ItemPrice(seed, batch[i])])

ValidHashes(batch) ==
  /\ Len(batch) \in 1..MaxContentBatchItems
  /\ \A i, j \in DOMAIN batch : batch[i] = batch[j] => i = j

ValidateContentBatch(batch) ==
  /\ ValidHashes(batch)
  /\ Cardinality({i \in DOMAIN batch : batch[i] # SeedHash}) =< terms.maxBlocks

\* The whole batch is priced or none of it, and the sum does not wrap.
Priced(seed, batch) ==
  /\ ValidHashes(batch)
  /\ \A i \in DOMAIN batch : batch[i] # SeedHash => Classified(seed, batch[i])
  /\ Price(seed, batch) \in Amounts

(* Delivery *)

\* The seed that blocks are verified against: the caller's, or else the batch's.
NoSeed == <<>>
EffectiveSeed(seed, batch) ==
  IF seed = NoSeed /\ \E i \in DOMAIN batch : batch[i] = SeedHash THEN listed ELSE seed

VerifyBlockInSeed(seed, hash) ==
  /\ VerifySeed(seed)
  /\ \E i \in Positions(seed, hash) : ExpectedBlockSize(terms.size, i) = Length[hash]

VerifyContentPayloads(batch, payloads, seed) ==
  /\ ValidHashes(batch)
  /\ payloads = batch
  /\ \A i \in DOMAIN batch :
       IF batch[i] = SeedHash
         THEN VerifySeed(listed) /\ Len(listed) \in 1..MaxSeedBlocks
         ELSE /\ Length[batch[i]] \in 1..BlockSize
              /\ EffectiveSeed(seed, batch) # NoSeed
              /\ VerifyBlockInSeed(EffectiveSeed(seed, batch), batch[i])

\* Both sides: the payloads, and the amount authorized for them.
VerifyDelivery(request, payloads, seed) ==
  LET effective == EffectiveSeed(seed, request.batch)
  IN /\ VerifyContentPayloads(request.batch, payloads, seed)
     /\ Priced(effective, request.batch)
     /\ request.after = request.previous + Price(effective, request.batch)

-----------------------------------------------------------------------------
Supplied == {NoSeed, listed} \cup OtherSeeds
Bases    == {0} \cup {payment.after : payment \in payments}

Init ==
  /\ listed \in Seeds
  /\ terms \in {t \in QuoteTerms : ValidateFileQuoteTerms(t)}
  /\ requests = {} /\ deliveries = {} /\ payments = {}

\* Faulty form: adds without looking at the width of the amount.
RequestContent_Unchecked(batch, seed, previous) ==
  /\ Cardinality(requests) < MaxRequests
  /\ ValidateContentBatch(batch)
  /\ Priced(seed, batch)
  /\ requests' = requests \cup {[batch |-> batch, previous |-> previous,
                                 after |-> previous + Price(seed, batch)]}
  /\ UNCHANGED <<terms, listed, deliveries, payments>>

RequestContent(batch, seed, previous) ==
  /\ Cardinality(requests) < MaxRequests
  /\ ValidateContentBatch(batch)
  /\ Priced(seed, batch)
  /\ previous + Price(seed, batch) \in Amounts
  /\ requests' = requests \cup {[batch |-> batch, previous |-> previous,
                                 after |-> previous + Price(seed, batch)]}
  /\ UNCHANGED <<terms, listed, deliveries, payments>>

DeliverContent(request, payloads, seed) ==
  /\ ValidateContentBatch(request.batch)
  /\ VerifyDelivery(request, payloads, seed)
  /\ deliveries' = deliveries \cup {request}
  /\ UNCHANGED <<terms, listed, requests, payments>>

VerifyDeliveryAndPreparePayment(request, payloads, seed) ==
  /\ VerifyDelivery(request, payloads, seed)
  /\ payments' = payments \cup {request}
  /\ UNCHANGED <<terms, listed, requests, deliveries>>

Next ==
  \/ \E batch \in Batches, seed \in Supplied, previous \in Bases :
        RequestContent(batch, seed, previous)
  \/ \E request \in requests, payloads \in Batches, seed \in Supplied :
        DeliverContent(request, payloads, seed)
  \/ \E request \in deliveries, seed \in Supplied :
        VerifyDeliveryAndPreparePayment(request, request.batch, seed)

Spec == Init /\ [][Next]_vars

-----------------------------------------------------------------------------
(* Properties *)

\* Every variable keeps its type; amounts keep their width.
TypeOK ==
  /\ terms \in QuoteTerms
  /\ listed \in Seeds
  /\ requests \subseteq [batch : Batches, previous : Amounts, after : Amounts]
  /\ deliveries \subseteq requests
  /\ payments \subseteq deliveries

\* What the request costs follows from the list behind the seed hash (inductive).
RequestsArePriced ==
  \A request \in requests :
    request.after = request.previous + Price(listed, request.batch)

\* The content delivered is charged by its own length, block by block, although
\* the price was made from the positions of a list that the seller may have drawn
\* up with one digest at a full and at a tail position: pricing looks at the first
\* and the last position, delivery at any.
ChargedByLength ==
  \A request \in deliveries :
    request.after = request.previous +
      SumFunction([i \in DOMAIN request.batch |->
                     IF request.batch[i] = SeedHash
                       THEN terms.seedPrice
                       ELSE BlockPrice(Length[request.batch[i]])])

\* A batch costs the same whatever seed was supplied when it was priced: what
\* FeePool's Price stands on.
EvidenceAgrees ==
  \A x, y \in requests : x.batch = y.batch /\ x.previous = y.previous => x = y

\* The list is that of a file of the size quoted: block i is what is left of the
\* file after i - 1 blocks, up to a block.
Faithful ==
  /\ \A i \in DOMAIN listed :
       LET left == terms.size - (i - 1) * BlockSize
       IN /\ (i - 1) * BlockSize < terms.size
          /\ Length[listed[i]] = IF left < BlockSize THEN left ELSE BlockSize
  /\ Len(listed) * BlockSize >= terms.size
  /\ terms.size > 0

\* Whatever is asked of a seller that has the file it quoted, it can deliver, and
\* the buyer finds the delivery in order at the amount it has authorized.
RequestedIsDeliverable ==
  Faithful => \A request \in requests :
                VerifyDelivery(request, request.batch, listed)

\* No part of such a file is out of reach: the seed and each of its blocks can be
\* priced and delivered on its own.
WholeFileIsForSale ==
  Faithful =>
    \A hash \in {SeedHash} \cup {listed[i] : i \in DOMAIN listed} :
      LET request == [batch |-> <<hash>>, previous |-> 0, after |-> Price(listed, <<hash>>)]
      IN Priced(listed, <<hash>>) /\ VerifyDelivery(request, <<hash>>, listed)

(* What the repository says of the program, and the code does not do *)

\* A batch that carries the quote's seed is verified against that seed.
BatchSeedIsUsed ==
  Faithful => \A request \in requests, seed \in Supplied :
                (\E i \in DOMAIN request.batch : request.batch[i] = SeedHash)
                   => VerifyDelivery(request, request.batch, seed)

=============================================================================
