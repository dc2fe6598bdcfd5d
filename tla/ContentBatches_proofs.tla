------------------------ MODULE ContentBatches_proofs ------------------------
(* Theorems about ContentBatches for every value of its constants. *)
EXTENDS ContentBatches, NaturalLemmas, TLAPS

(* First and last positions *)

\* A digest listed lies between its first and its last position.
LEMMA PositionsAreBounded ==
  ASSUME NEW seed \in Seq(Digests), NEW hash, NEW p \in Positions(seed, hash)
  PROVE  /\ p \in Nat
         /\ FirstIndex(seed, hash) \in Positions(seed, hash)
         /\ LastIndex(seed, hash) \in Positions(seed, hash)
         /\ FirstIndex(seed, hash) \in Nat /\ LastIndex(seed, hash) \in Nat
         /\ FirstIndex(seed, hash) =< p /\ p =< LastIndex(seed, hash)
<1> DEFINE P == Positions(seed, hash)
<1>1. P \in SUBSET Nat /\ P # {} /\ Len(seed) \in Nat /\ \A i \in P : i =< Len(seed)
  BY DEF Positions
<1>2. \E i \in P : \A j \in P : i =< j
  <2> HIDE DEF P
  <2> QED BY <1>1, LeastNatural
<1>3. \E i \in P : \A j \in P : j =< i
  <2> HIDE DEF P
  <2> QED BY <1>1, GreatestNatural
<1>4. /\ FirstIndex(seed, hash) \in P
      /\ \A j \in P : FirstIndex(seed, hash) =< j
  BY <1>2 DEF FirstIndex
<1>5. /\ LastIndex(seed, hash) \in P
      /\ \A j \in P : j =< LastIndex(seed, hash)
  BY <1>3 DEF LastIndex
<1> QED BY <1>1, <1>4, <1>5

\* If the first and the last of some positions have one expected length, so has
\* every position between them: looking at the two ends is enough.
LEMMA EndsDecide ==
  ASSUME NEW size \in Nat, NEW f \in Nat, NEW p \in Nat, NEW l \in Nat, f =< p, p =< l,
         ExpectedBlockSize(size, f) = ExpectedBlockSize(size, l)
  PROVE  ExpectedBlockSize(size, p) = ExpectedBlockSize(size, f)
<1> DEFINE count == BlockCount(size)
<1>0. count \in Nat
  BY SizeAssumption DEF BlockCount
<1>1. CASE size % BlockSize = 0
  BY <1>1 DEF ExpectedBlockSize
<1>2. CASE p < count
  BY <1>0, <1>2 DEF ExpectedBlockSize
<1>3. CASE ~ (p < count) /\ size % BlockSize # 0
  <2>1. ~ (l < count)
    BY <1>0, <1>3
  <2>2. ExpectedBlockSize(size, l) = size % BlockSize
    BY <2>1, <1>3 DEF ExpectedBlockSize
  <2>3. ExpectedBlockSize(size, p) = size % BlockSize
    BY <1>3 DEF ExpectedBlockSize
  <2> QED BY <2>2, <2>3
<1> QED BY <1>1, <1>2, <1>3

(* The blocks of a file: integer division, then the two shapes of the last block *)

LEMMA BlocksOfAFile ==
  ASSUME NEW size \in Nat, NEW n \in Nat \ {0},
         (n - 1) * BlockSize < size, size =< n * BlockSize
  PROVE  BlockCount(size) = n
<1> DEFINE r == size - (n - 1) * BlockSize - 1
<1>1. BlockSize \in Nat \ {0}
  BY SizeAssumption
<1>2. (n - 1) * BlockSize = n * BlockSize - BlockSize /\ n * BlockSize = BlockSize * n
  BY <1>1
<1>3. r \in 0..BlockSize - 1 /\ size + BlockSize - 1 = BlockSize * n + r
  BY <1>1, <1>2
<1>4. size + BlockSize - 1 \in Nat
  BY <1>1
<1> HIDE DEF r
<1> QED BY <1>1, <1>3, <1>4, DivisionIsUnique DEF BlockCount

\* The block expected at a position is what is left of the file there, up to a block.
LEMMA BlocksAsExpected ==
  ASSUME NEW size \in Nat, NEW n \in Nat \ {0},
         (n - 1) * BlockSize < size, size =< n * BlockSize,
         NEW i \in 1..n
  PROVE  LET left == size - (i - 1) * BlockSize
         IN /\ ExpectedBlockSize(size, i) = IF left < BlockSize THEN left ELSE BlockSize
            /\ ExpectedBlockSize(size, i) \in 1..BlockSize
<1> DEFINE left == size - (i - 1) * BlockSize
<1>1. BlockSize \in Nat \ {0} /\ BlockCount(size) = n
  BY SizeAssumption, BlocksOfAFile
<1>2. CASE i < n
  <2>1. (n - 1) * BlockSize >= i * BlockSize
    BY <1>1, <1>2
  <2>2. (i - 1) * BlockSize = i * BlockSize - BlockSize
    BY <1>1
  <2>3. left >= BlockSize
    BY <1>1, <2>1, <2>2
  <2>4. ExpectedBlockSize(size, i) = BlockSize
    BY <1>1, <1>2 DEF ExpectedBlockSize
  <2> QED BY <1>1, <2>3, <2>4
<1>3. CASE i = n
  <2>1. (n - 1) * BlockSize = n * BlockSize - BlockSize
        /\ n * BlockSize = BlockSize * n /\ (n - 1) * BlockSize = BlockSize * (n - 1)
    BY <1>1
  <2>2. left \in 1..BlockSize
    BY <1>1, <1>3, <2>1
  <2>3. CASE left = BlockSize
    <3>1. size = BlockSize * n + 0 /\ 0 \in 0..BlockSize - 1
      BY <1>1, <1>3, <2>1, <2>3
    <3>2. size % BlockSize = 0
      BY <1>1, <3>1, DivisionIsUnique
    <3>3. ExpectedBlockSize(size, i) = BlockSize
      BY <3>2 DEF ExpectedBlockSize
    <3> QED BY <1>1, <2>3, <3>3
  <2>4. CASE left # BlockSize
    <3>1. size = BlockSize * (n - 1) + left /\ left \in 0..BlockSize - 1 /\ n - 1 \in Nat
      BY <1>1, <1>3, <2>1, <2>2, <2>4
    <3>2. size % BlockSize = left
      <4> HIDE DEF left
      <4> QED BY <1>1, <3>1, DivisionIsUnique
    <3>3. ~ (i < BlockCount(size)) /\ size % BlockSize # 0
      BY <1>1, <1>3, <2>2, <3>2
    <3>4. ExpectedBlockSize(size, i) = left
      BY <3>2, <3>3 DEF ExpectedBlockSize
    <3> QED BY <1>1, <2>2, <2>4, <3>4
  <2> QED BY <2>3, <2>4
<1> QED BY <1>2, <1>3

\* The list of a true file verifies, and each block is as long as expected.
LEMMA TrueFile ==
  ASSUME TypeOK, Faithful
  PROVE  /\ VerifySeed(listed) /\ listed # NoSeed
         /\ \A i \in DOMAIN listed :
              /\ ExpectedBlockSize(terms.size, i) = Length[listed[i]]
              /\ Length[listed[i]] \in 1..BlockSize
<1> DEFINE n == Len(listed)
<1>1. /\ listed \in Seq(Digests) /\ terms.size \in Nat /\ terms.size > 0
      /\ n \in Nat /\ DOMAIN listed = 1..n /\ BlockSize \in Nat \ {0}
  BY ContentAssumption, SizeAssumption DEF TypeOK, Faithful
<1>2. terms.size =< n * BlockSize
  BY DEF Faithful
<1>3. n \in Nat \ {0}
  BY <1>1, <1>2
<1>4. (n - 1) * BlockSize < terms.size
  BY <1>1, <1>3 DEF Faithful
<1>5. BlockCount(terms.size) = n
  BY <1>1, <1>2, <1>3, <1>4, BlocksOfAFile
<1>6. ASSUME NEW i \in DOMAIN listed
      PROVE  /\ ExpectedBlockSize(terms.size, i) = Length[listed[i]]
             /\ Length[listed[i]] \in 1..BlockSize
  <2>1. i \in 1..n
    BY <1>1, <1>6
  <2>2. Length[listed[i]] = LET left == terms.size - (i - 1) * BlockSize
                            IN IF left < BlockSize THEN left ELSE BlockSize
    BY <1>6 DEF Faithful
  <2> QED BY <1>1, <1>2, <1>3, <1>4, <2>1, <2>2, BlocksAsExpected
<1>7. listed # NoSeed
  BY <1>3 DEF NoSeed
<1> QED BY <1>5, <1>6, <1>7 DEF VerifySeed

(* Types *)

\* Type correctness: amounts never leave their width.
THEOREM TypeCorrect == Spec => []TypeOK
<1>1. Init => TypeOK
  BY DEF Init, TypeOK
<1>2. TypeOK /\ [Next]_vars => TypeOK'
  <2> SUFFICES ASSUME TypeOK, [Next]_vars PROVE TypeOK'
    OBVIOUS
  <2> USE DEF TypeOK
  <2>1. ASSUME NEW batch \in Batches, NEW seed \in Supplied, NEW previous \in Bases,
               RequestContent(batch, seed, previous)
        PROVE  TypeOK'
    <3>1. previous \in Amounts
      BY SizeAssumption DEF Bases, Amounts
    <3> QED BY <2>1, <3>1 DEF RequestContent
  <2>2. ASSUME NEW request \in requests, NEW payloads, NEW seed,
               DeliverContent(request, payloads, seed)
        PROVE  TypeOK'
    BY <2>2 DEF DeliverContent
  <2>3. ASSUME NEW request \in deliveries, NEW payloads, NEW seed,
               VerifyDeliveryAndPreparePayment(request, payloads, seed)
        PROVE  TypeOK'
    BY <2>3 DEF VerifyDeliveryAndPreparePayment
  <2>4. CASE UNCHANGED vars
    BY <2>4 DEF vars
  <2> QED BY <2>1, <2>2, <2>3, <2>4 DEF Next
<1> QED BY <1>1, <1>2, PTL DEF Spec

(* Pricing *)

\* Whoever can price a batch prices it from the list behind the seed hash.
LEMMA PriceIsOfTheList ==
  ASSUME NEW seed, NEW batch, Priced(seed, batch)
  PROVE  Price(seed, batch) = Price(listed, batch)
<1>1. ASSUME NEW i \in DOMAIN batch
      PROVE  ItemPrice(seed, batch[i]) = ItemPrice(listed, batch[i])
  BY <1>1 DEF Priced, Classified, VerifySeed, ItemPrice
<1>2. [i \in DOMAIN batch |-> ItemPrice(seed, batch[i])]
        = [i \in DOMAIN batch |-> ItemPrice(listed, batch[i])]
  BY <1>1
<1> QED BY <1>2 DEF Price

\* What a delivery that verifies may hold is charged by its own length.
LEMMA DeliveredLength ==
  ASSUME TypeOK, NEW request \in requests, NEW payloads, NEW seed,
         VerifyDelivery(request, payloads, seed)
  PROVE  request.after = request.previous +
           SumFunction([i \in DOMAIN request.batch |->
                          IF request.batch[i] = SeedHash
                            THEN terms.seedPrice
                            ELSE BlockPrice(Length[request.batch[i]])])
<1> DEFINE effective == EffectiveSeed(seed, request.batch)
           batch == request.batch
<1>1. ASSUME NEW i \in DOMAIN batch
      PROVE  ItemPrice(effective, batch[i])
               = IF batch[i] = SeedHash THEN terms.seedPrice
                                        ELSE BlockPrice(Length[batch[i]])
  <2>1. CASE batch[i] = SeedHash
    BY <2>1 DEF ItemPrice
  <2>2. CASE batch[i] # SeedHash
    <3>1. Classified(effective, batch[i]) /\ VerifyBlockInSeed(effective, batch[i])
      BY <1>1, <2>2 DEF VerifyDelivery, VerifyContentPayloads, Priced
    <3>2. PICK p \in Positions(effective, batch[i]) :
            ExpectedBlockSize(terms.size, p) = Length[batch[i]]
      BY <3>1 DEF VerifyBlockInSeed
    <3>3. effective \in Seq(Digests) /\ terms.size \in Nat
      BY <3>1, ContentAssumption DEF VerifyBlockInSeed, VerifySeed, TypeOK
    <3> HIDE DEF effective, batch
    <3>4. /\ p \in Nat
          /\ FirstIndex(effective, batch[i]) \in Nat /\ LastIndex(effective, batch[i]) \in Nat
          /\ FirstIndex(effective, batch[i]) =< p /\ p =< LastIndex(effective, batch[i])
      BY <3>3, PositionsAreBounded
    <3>5. ExpectedBlockSize(terms.size, FirstIndex(effective, batch[i])) = Length[batch[i]]
      BY <3>1, <3>2, <3>3, <3>4, EndsDecide DEF Classified
    <3> QED BY <2>2, <3>5 DEF ItemPrice
  <2> QED BY <2>1, <2>2
<1>2. [i \in DOMAIN batch |-> ItemPrice(effective, batch[i])]
        = [i \in DOMAIN batch |->
             IF batch[i] = SeedHash THEN terms.seedPrice ELSE BlockPrice(Length[batch[i]])]
  BY <1>1
<1>3. request.after = request.previous + Price(effective, batch)
  BY DEF VerifyDelivery
<1> QED BY <1>2, <1>3 DEF Price

(* The inductive invariant: requests are priced from the list, deliveries by length. *)
BatchInv == TypeOK /\ RequestsArePriced /\ ChargedByLength

LEMMA BatchStep ==
  ASSUME BatchInv, TypeOK', [Next]_vars
  PROVE  BatchInv'
<1> USE DEF BatchInv
<1>0. terms' = terms /\ listed' = listed
  BY DEF Next, RequestContent, DeliverContent, VerifyDeliveryAndPreparePayment, vars
<1>a. \A batch : Price(listed, batch)' = Price(listed, batch)
  BY <1>0 DEF Price, ItemPrice, BlockPrice
<1>b. \A batch :
        SumFunction([i \in DOMAIN batch |-> IF batch[i] = SeedHash
                       THEN terms.seedPrice ELSE BlockPrice(Length[batch[i]])])'
      = SumFunction([i \in DOMAIN batch |-> IF batch[i] = SeedHash
                       THEN terms.seedPrice ELSE BlockPrice(Length[batch[i]])])
  BY <1>0 DEF BlockPrice
<1>1. ASSUME NEW batch \in Batches, NEW seed \in Supplied, NEW previous \in Bases,
             RequestContent(batch, seed, previous)
      PROVE  BatchInv'
  <2>1. RequestsArePriced'
    BY <1>0, <1>a, <1>1, PriceIsOfTheList DEF RequestContent, RequestsArePriced
  <2>2. ChargedByLength'
    BY <1>b, <1>1 DEF RequestContent, ChargedByLength
  <2> QED BY <2>1, <2>2
<1>2. ASSUME NEW request \in requests, NEW payloads, NEW seed,
             DeliverContent(request, payloads, seed)
      PROVE  BatchInv'
  <2>1. RequestsArePriced'
    BY <1>a, <1>2 DEF DeliverContent, RequestsArePriced
  <2>2. deliveries' = deliveries \cup {request} /\ VerifyDelivery(request, payloads, seed)
    BY <1>2 DEF DeliverContent
  <2>3. ChargedByLength'
    BY <1>b, <2>2, DeliveredLength DEF ChargedByLength
  <2> QED BY <2>1, <2>3
<1>3. ASSUME UNCHANGED <<requests, deliveries>>
      PROVE  BatchInv'
  BY <1>a, <1>b, <1>3 DEF RequestsArePriced, ChargedByLength
<1>4. ASSUME NEW request, NEW payloads, NEW seed,
             VerifyDeliveryAndPreparePayment(request, payloads, seed)
      PROVE  BatchInv'
  BY <1>3, <1>4 DEF VerifyDeliveryAndPreparePayment
<1>5. CASE UNCHANGED vars
  BY <1>3, <1>5 DEF vars
<1> QED BY <1>1, <1>2, <1>4, <1>5 DEF Next

\* What a request costs follows from the list behind the seed hash, and what is
\* delivered costs by its length: one inductive invariant.
THEOREM BatchesArePriced == Spec => []BatchInv
<1>1. Init => BatchInv
  BY DEF Init, BatchInv, TypeOK, RequestsArePriced, ChargedByLength
<1>2. BatchInv /\ TypeOK' /\ [Next]_vars => BatchInv'
  BY BatchStep
<1> QED BY <1>1, <1>2, TypeCorrect, PTL DEF Spec

\* No delivery is charged by another length than its own, whatever list the seller
\* drew up (buyer/workflow.go VerifyDeliveryAndPreparePayment).
THEOREM DeliveriesAreChargedByLength == Spec => []ChargedByLength
<1>1. BatchInv => ChargedByLength
  BY DEF BatchInv
<1> QED BY <1>1, BatchesArePriced, PTL

\* A batch costs the same whatever seed was supplied when it was priced.
THEOREM PricesAgree == Spec => []EvidenceAgrees
<1>1. BatchInv => EvidenceAgrees
  <2> SUFFICES ASSUME BatchInv, NEW x \in requests, NEW y \in requests,
                      x.batch = y.batch, x.previous = y.previous
               PROVE  x = y
    BY DEF EvidenceAgrees
  <2>1. x.after = y.after
    BY DEF BatchInv, RequestsArePriced
  <2>2. x \in [batch : Batches, previous : Amounts, after : Amounts]
        /\ y \in [batch : Batches, previous : Amounts, after : Amounts]
    BY DEF BatchInv, TypeOK
  <2> QED BY <2>1, <2>2
<1> QED BY <1>1, BatchesArePriced, PTL

(* Deliverability *)

\* What can be priced with any seed can be priced with the list behind the hash.
LEMMA PricedFromTheList ==
  ASSUME NEW seed, NEW batch, Priced(seed, batch)
  PROVE  Priced(listed, batch)
<1>1. \A i \in DOMAIN batch : batch[i] # SeedHash => Classified(listed, batch[i])
  BY DEF Priced, Classified, VerifySeed
<1> QED BY <1>1, PriceIsOfTheList DEF Priced

\* The terms stay those that were validated: a batch may hold a hash, and a
\* seed fits one payload.
TermsAreValid ==
  terms.maxBlocks \in 1..MaxContentBatchItems /\ BlockCount(terms.size) =< MaxSeedBlocks

\* The terms a buyer reads its quote by are those the quote was accepted with.
THEOREM TermsStayValid == Spec => []TermsAreValid
<1>1. Init => TermsAreValid
  BY DEF Init, ValidateFileQuoteTerms, TermsAreValid
<1>2. TermsAreValid /\ [Next]_vars => TermsAreValid'
  BY DEF Next, RequestContent, DeliverContent, VerifyDeliveryAndPreparePayment, vars,
         TermsAreValid
<1> QED BY <1>1, <1>2, PTL DEF Spec

\* What is asked for can be priced.
RequestsArePriceable == \A request \in requests : Priced(listed, request.batch)

\* Whatever seed a request was priced with, the list behind the hash prices it too.
THEOREM RequestsStayPriceable == Spec => []RequestsArePriceable
<1>1. Init => RequestsArePriceable
  BY DEF Init, RequestsArePriceable
<1>2. RequestsArePriceable /\ [Next]_vars => RequestsArePriceable'
  <2> SUFFICES ASSUME RequestsArePriceable, [Next]_vars PROVE RequestsArePriceable'
    OBVIOUS
  <2>1. terms' = terms /\ listed' = listed
    BY DEF Next, RequestContent, DeliverContent, VerifyDeliveryAndPreparePayment, vars
  <2>2. \A batch : Priced(listed, batch)' = Priced(listed, batch)
    BY <2>1 DEF Priced, Classified, VerifySeed, Positions, FirstIndex, LastIndex,
                ExpectedBlockSize, Price, ItemPrice, BlockPrice
  <2>3. \A request \in requests' : Priced(listed, request.batch)
    <3>1. ASSUME NEW batch, NEW seed, NEW previous, RequestContent(batch, seed, previous)
          PROVE  \A request \in requests' : Priced(listed, request.batch)
      BY <3>1, PricedFromTheList DEF RequestContent, RequestsArePriceable
    <3>2. CASE requests' = requests
      BY <3>2 DEF RequestsArePriceable
    <3> QED BY <3>1, <3>2 DEF Next, DeliverContent, VerifyDeliveryAndPreparePayment, vars
  <2> QED BY <2>2, <2>3 DEF RequestsArePriceable
<1> QED BY <1>1, <1>2, PTL DEF Spec

\* A seller that has the file it quoted can deliver whatever is asked of it, and the
\* buyer accepts the delivery at the amount it has authorized: no authorization is
\* signed that the checks on the payloads would then refuse.
THEOREM RequestsAreDeliverable == Spec => []RequestedIsDeliverable
<1>1. BatchInv /\ TermsAreValid /\ RequestsArePriceable => RequestedIsDeliverable
  <2> SUFFICES ASSUME BatchInv, TermsAreValid, RequestsArePriceable, Faithful,
                      NEW request \in requests
               PROVE  VerifyDelivery(request, request.batch, listed)
    BY DEF RequestedIsDeliverable
  <2> DEFINE batch == request.batch
  <2>1. /\ VerifySeed(listed) /\ listed # NoSeed
        /\ \A i \in DOMAIN listed :
             /\ ExpectedBlockSize(terms.size, i) = Length[listed[i]]
             /\ Length[listed[i]] \in 1..BlockSize
    BY TrueFile DEF BatchInv
  <2>2. EffectiveSeed(listed, batch) = listed
    BY DEF EffectiveSeed
  <2>3. Priced(listed, batch)
    BY DEF RequestsArePriceable
  <2>4. Len(listed) \in 1..MaxSeedBlocks
    <3>1. listed \in Seq(Digests) /\ Len(listed) = BlockCount(terms.size)
      BY <2>1, ContentAssumption DEF BatchInv, TypeOK, VerifySeed
    <3> QED BY <2>1, <3>1, SizeAssumption DEF NoSeed, TermsAreValid
  <2>5. ASSUME NEW i \in DOMAIN batch, batch[i] # SeedHash
        PROVE  Length[batch[i]] \in 1..BlockSize /\ VerifyBlockInSeed(listed, batch[i])
    <3>1. Positions(listed, batch[i]) # {}
      BY <2>3, <2>5 DEF Priced, Classified
    <3>2. PICK p \in DOMAIN listed : listed[p] = batch[i]
      BY <3>1 DEF Positions
    <3> QED BY <2>1, <3>2 DEF VerifyBlockInSeed, Positions
  <2>6. VerifyContentPayloads(batch, batch, listed)
    BY <2>1, <2>2, <2>3, <2>4, <2>5 DEF VerifyContentPayloads, Priced
  <2>7. request.after = request.previous + Price(listed, batch)
    BY DEF BatchInv, RequestsArePriced
  <2> QED BY <2>2, <2>3, <2>6, <2>7 DEF VerifyDelivery
<1> QED BY <1>1, BatchesArePriced, TermsStayValid, RequestsStayPriceable, PTL

(* Single hashes *)

\* A sum over one place is what is there.
LEMMA SumOfOne ==
  ASSUME NEW x \in Nat
  PROVE  SumFunction([i \in {1} |-> x]) = x
<1> DEFINE f == [i \in {1} |-> x]
           body(g) == [s \in SUBSET {1} |->
                         IF s = {} THEN 0
                         ELSE f[CHOOSE y \in s : TRUE] + g[s \ {CHOOSE y \in s : TRUE}]]
           fold == CHOOSE g : g = body(g)
           sum == [s \in SUBSET {1} |-> IF s = {} THEN 0 ELSE x]
<1>0. \A s \in SUBSET {1} : s # {} => s = {1} /\ (CHOOSE y \in s : TRUE) = 1 /\ s \ {1} = {}
  OBVIOUS
<1>1. sum = body(sum)
  <2>1. ASSUME NEW s \in SUBSET {1}
        PROVE sum[s] = body(sum)[s]
    BY <1>0
  <2> QED BY <2>1
<1>2. fold = body(fold)
  BY <1>1
<1>3. \A s \in SUBSET {1} : fold[s] = body(fold)[s]
  <2> HIDE DEF fold, body
  <2> QED BY <1>2
<1>4. fold[{}] = 0
  <2> HIDE DEF fold
  <2> QED BY <1>3
<1>5. fold[{1}] = f[1] + fold[{1} \ {1}]
  <2>1. {1} \in SUBSET {1} /\ {1} # {}
    OBVIOUS
  <2>2. (CHOOSE y \in {1} : TRUE) = 1
    BY <1>0, <2>1
  <2> HIDE DEF fold, f
  <2> QED BY <1>3, <2>1, <2>2
<1>6. fold[{1}] = x
  <2>1. {1} \ {1} = {} /\ f[1] = x
    OBVIOUS
  <2> HIDE DEF fold, f
  <2> QED BY <1>4, <1>5, <2>1
<1> QED BY <1>6 DEF SumFunction, SumFunctionOnSet, FoldFunctionOnSet, MapThenFoldSet

LEMMA PriceOfOne ==
  ASSUME NEW seed, NEW hash, ItemPrice(seed, hash) \in Nat
  PROVE  Price(seed, <<hash>>) = ItemPrice(seed, hash)
<1>1. [i \in DOMAIN <<hash>> |-> ItemPrice(seed, <<hash>>[i])]
        = [i \in {1} |-> ItemPrice(seed, hash)]
  OBVIOUS
<1> QED BY <1>1, SumOfOne DEF Price

\* A block that is not full costs something and never more than a full one, and a
\* longer one never less than a shorter one: rounding up undoes none of it
\* (content/quote.go blockPriceSatoshis).
THEOREM BlockPricesAreFair ==
  ASSUME terms.blockPrice \in Nat, NEW size \in 1..BlockSize, NEW longer \in size..BlockSize
  PROVE  /\ BlockPrice(size) \in 0..terms.blockPrice
         /\ terms.blockPrice > 0 => BlockPrice(size) > 0
         /\ BlockPrice(size) =< BlockPrice(longer)
<1> DEFINE p == terms.blockPrice
           d == BlockSize * 100
           n(l) == p * l * 90 + d - 1
<1>1. BlockSize \in Nat \ {0} /\ p \in Nat /\ d \in Nat \ {0}
  BY SizeAssumption
<1>2. ASSUME NEW l \in 1..BlockSize
      PROVE  n(l) \in Nat /\ n(l) \div d \in 0..p /\ (p > 0 => n(l) \div d > 0)
  <2>1. p * l \in Nat /\ p * l =< p * BlockSize /\ (p > 0 => p * l > 0)
    BY <1>1
  <2>2. n(l) \in Nat
    BY <1>1, <2>1
  <2>3. n(l) =< d * p + (d - 1)
    BY <1>1, <2>1
  <2>4. d - 1 \in 0..d - 1 /\ d * p + (d - 1) \in Nat
    BY <1>1
  <2>5. (d * p + (d - 1)) \div d = p
    <3> HIDE DEF p, d
    <3> QED BY <1>1, <2>4, DivisionIsUnique
  <2>6. n(l) \div d =< p
    <3> HIDE DEF p, d, n
    <3> QED BY <1>1, <2>2, <2>3, <2>4, <2>5, DivisionIsMonotone
  <2>7. ASSUME p > 0 PROVE n(l) \div d > 0
    <3>1. n(l) >= d /\ d = d * 1 + 0 /\ 0 \in 0..d - 1 /\ d \in Nat
      BY <1>1, <2>1, <2>7
    <3>2. d \div d = 1
      <4> HIDE DEF d
      <4> QED BY <1>1, <3>1, DivisionIsUnique
    <3>3. d \div d =< n(l) \div d
      <4> HIDE DEF d, n
      <4> QED BY <1>1, <2>2, <3>1, DivisionIsMonotone
    <3>4. n(l) \div d \in Nat
      <4> HIDE DEF d, n
      <4> QED BY <1>1, <2>2
    <3> HIDE DEF d, n
    <3> QED BY <3>2, <3>3, <3>4
  <2>8. n(l) \div d \in Nat
    <3> HIDE DEF d, n
    <3> QED BY <1>1, <2>2
  <2> HIDE DEF d, n
  <2> QED BY <1>1, <2>2, <2>6, <2>7, <2>8
<1>3. size \in 1..BlockSize /\ longer \in 1..BlockSize /\ size =< longer
  BY <1>1
<1>4. n(size) \div d =< n(longer) \div d
  <2>1. p * size =< p * longer /\ p * size \in Nat /\ p * longer \in Nat
    BY <1>1, <1>3
  <2>2. n(size) =< n(longer)
    BY <1>1, <2>1
  <2>3. n(size) \in Nat /\ n(longer) \in Nat
    BY <1>2, <1>3
  <2> HIDE DEF d, n
  <2> QED BY <1>1, <2>2, <2>3, DivisionIsMonotone
<1>5. ASSUME NEW l \in 1..BlockSize
      PROVE  BlockPrice(l) = IF l = BlockSize THEN p ELSE n(l) \div d
  BY DEF BlockPrice
<1>6. /\ n(size) \div d \in 0..p /\ (p > 0 => n(size) \div d > 0)
      /\ n(longer) \div d \in 0..p
  BY <1>2, <1>3
<1>7. size = BlockSize => longer = BlockSize
  BY <1>1, <1>3
<1> HIDE DEF n, d, p
<1>8. /\ BlockPrice(size) = IF size = BlockSize THEN p ELSE n(size) \div d
      /\ BlockPrice(longer) = IF longer = BlockSize THEN p ELSE n(longer) \div d
  BY <1>3, <1>5
<1> QED BY <1>1, <1>4, <1>6, <1>7, <1>8 DEF p

LEMMA AnyHashIsPriced ==
  ASSUME BatchInv, Faithful,
         NEW hash \in {SeedHash} \cup {listed[i] : i \in DOMAIN listed}
  PROVE  /\ hash # SeedHash => Classified(listed, hash)
         /\ ItemPrice(listed, hash) \in Amounts
<1>1. terms.seedPrice \in Amounts /\ terms.blockPrice \in Amounts /\ terms.size \in Nat
      /\ Amounts \subseteq Nat /\ \A a \in Amounts : 0..a \subseteq Amounts
  BY ContentAssumption, SizeAssumption DEF BatchInv, TypeOK, Amounts
<1>2. CASE hash = SeedHash
  BY <1>1, <1>2 DEF ItemPrice
<1>3. CASE hash # SeedHash
  <2> DEFINE f == FirstIndex(listed, hash)
             l == LastIndex(listed, hash)
  <2>1. PICK i \in DOMAIN listed : hash = listed[i]
    BY <1>3
  <2>2. i \in Positions(listed, hash)
    BY <2>1 DEF Positions
  <2>3. listed \in Seq(Digests)
    BY ContentAssumption DEF BatchInv, TypeOK
  <2>4. f \in Positions(listed, hash) /\ l \in Positions(listed, hash)
    BY <2>2, <2>3, PositionsAreBounded
  <2>5. f \in DOMAIN listed /\ l \in DOMAIN listed /\ listed[f] = hash /\ listed[l] = hash
    BY <2>4 DEF Positions
  <2>6. /\ VerifySeed(listed)
        /\ ExpectedBlockSize(terms.size, f) = Length[hash]
        /\ ExpectedBlockSize(terms.size, l) = Length[hash]
        /\ Length[hash] \in 1..BlockSize
    BY <2>5, TrueFile DEF BatchInv
  <2>7. Classified(listed, hash)
    BY <2>2, <2>6 DEF Classified
  <2>8. Length[hash] \in Length[hash]..BlockSize
    BY <2>6, SizeAssumption
  <2>9. BlockPrice(Length[hash]) \in 0..terms.blockPrice
    BY <1>1, <2>6, <2>8, BlockPricesAreFair
  <2>10. ItemPrice(listed, hash) \in Amounts
    BY <1>1, <1>3, <2>6, <2>9 DEF ItemPrice
  <2> QED BY <2>7, <2>10
<1> QED BY <1>2, <1>3

\* No part of a true file is out of a buyer's reach: under the terms a quote may
\* carry, the seed and every block have a price of the width of an amount, and a
\* delivery of each alone passes every check of both sides.
THEOREM NothingIsOutOfReach == Spec => []WholeFileIsForSale
<1>1. BatchInv /\ TermsAreValid => WholeFileIsForSale
  <2> SUFFICES ASSUME BatchInv, TermsAreValid, Faithful,
                      NEW hash \in {SeedHash} \cup {listed[i] : i \in DOMAIN listed}
               PROVE  LET request == [batch |-> <<hash>>, previous |-> 0,
                                      after |-> Price(listed, <<hash>>)]
                      IN /\ Priced(listed, <<hash>>)
                         /\ VerifyDelivery(request, <<hash>>, listed)
    BY DEF WholeFileIsForSale
  <2> DEFINE batch == <<hash>>
             request == [batch |-> batch, previous |-> 0, after |-> Price(listed, batch)]
  <2>1. DOMAIN batch = {1} /\ Len(batch) = 1 /\ batch[1] = hash
    OBVIOUS
  <2>2. ItemPrice(listed, hash) \in Amounts /\ (hash # SeedHash => Classified(listed, hash))
    BY AnyHashIsPriced
  <2>3. Price(listed, batch) \in Amounts
    BY <2>2, PriceOfOne, SizeAssumption DEF Amounts
  <2>4. ValidHashes(batch)
    <3>1. 1 \in 1..MaxContentBatchItems
      BY SizeAssumption DEF TermsAreValid
    <3> QED BY <2>1, <3>1 DEF ValidHashes
  <2>5. Priced(listed, batch)
    BY <2>1, <2>2, <2>3, <2>4 DEF Priced
  <2>6. /\ VerifySeed(listed) /\ listed # NoSeed
        /\ \A i \in DOMAIN listed :
             /\ ExpectedBlockSize(terms.size, i) = Length[listed[i]]
             /\ Length[listed[i]] \in 1..BlockSize
    BY TrueFile DEF BatchInv
  <2>7. EffectiveSeed(listed, batch) = listed
    BY <2>6 DEF EffectiveSeed
  <2>8. Len(listed) \in 1..MaxSeedBlocks
    <3>1. listed \in Seq(Digests) /\ Len(listed) = BlockCount(terms.size)
      BY <2>6, ContentAssumption DEF BatchInv, TypeOK, VerifySeed
    <3> QED BY <2>6, <3>1, SizeAssumption DEF NoSeed, TermsAreValid
  <2>9. ASSUME hash # SeedHash
        PROVE  Length[hash] \in 1..BlockSize /\ VerifyBlockInSeed(listed, hash)
    <3>1. PICK p \in DOMAIN listed : listed[p] = hash
      BY <2>9
    <3> QED BY <2>6, <3>1 DEF VerifyBlockInSeed, Positions
  <2>10. VerifyContentPayloads(batch, batch, listed)
    BY <2>1, <2>4, <2>6, <2>7, <2>8, <2>9 DEF VerifyContentPayloads
  <2>11. request.after = request.previous + Price(listed, batch)
    BY <2>3, SizeAssumption DEF Amounts
  <2>12. VerifyDelivery(request, batch, listed)
    BY <2>5, <2>7, <2>10, <2>11 DEF VerifyDelivery
  <2> QED BY <2>5, <2>12
<1> QED BY <1>1, BatchesArePriced, TermsStayValid, PTL
=============================================================================
