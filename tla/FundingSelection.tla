--------------------------- MODULE FundingSelection ---------------------------
(***************************************************************************)
(* How the demo application of the buyer finds the money for a pool: it       *)
(* rebuilds the unspent outputs of its address from the transactions an       *)
(* indexer has of it, takes the best that is large enough, and works out the  *)
(* change from the size of the transaction it has signed with it.             *)
(*                                                                          *)
(* Everything here is a function of one answer of the indexer.                *)
(***************************************************************************)
EXTENDS Integers

CONSTANTS
  Transactions, \* [id, spends, pays]: spends is a set of outpoints [tx, vout], pays the
                \* amounts of the outputs 0, 1, ..., zero for one to somebody else
  BaseSize,     \* bytes of a funding transaction without change
  OutputSize    \* bytes of the change output

MaxAttempts == 8

ASSUME TransactionAssumption ==
  \A tx \in Transactions :
    /\ tx.id \in Nat /\ DOMAIN tx.pays \subseteq Nat
    /\ \A vout \in DOMAIN tx.pays : tx.pays[vout] \in Nat
    /\ \A other \in Transactions : other.id = tx.id => other = tx
ASSUME SizeAssumption == BaseSize \in Nat /\ OutputSize \in Nat

-----------------------------------------------------------------------------
(* The indexer.  An answer is [history, confirmed]: history gives the place in the chain,  *)
(* [height, index], of each transaction id it lists, height 0 for one in no block;         *)
(* confirmed are those that are in one by the time they are fetched.                       *)

\* Faulty form: by height only.
Before_ByHeight(history, id, other) ==
  \/ history[id].height < history[other].height
  \/ history[id].height = history[other].height /\ id < other

\* The order in which the history is gone through.
Before(history, id, other) ==
  \/ history[id].height < history[other].height
  \/ /\ history[id].height = history[other].height
     /\ \/ history[id].index < history[other].index
        \/ history[id].index = history[other].index /\ id < other

\* transaction: the bytes must hash to the id that was asked for.
Fetch(id) == CHOOSE tx \in Transactions : tx.id = id

Confirmed(answer, id) == answer.history[id].height > 0 \/ id \in answer.confirmed

\* An output is deleted when a later transaction spends it; a spender that was gone
\* through before has deleted nothing.
ListUTXOs(answer) ==
  LET history == answer.history
      Outputs(id) ==
        {[tx |-> id, vout |-> vout, amount |-> Fetch(id).pays[vout],
          confirmed |-> Confirmed(answer, id)] : vout \in DOMAIN Fetch(id).pays}
      Spent(utxo) ==
        \E id \in DOMAIN history :
          /\ Before(history, utxo.tx, id)
          /\ [tx |-> utxo.tx, vout |-> utxo.vout] \in Fetch(id).spends
  IN {utxo \in UNION {Outputs(id) : id \in DOMAIN history} : utxo.amount > 0 /\ ~Spent(utxo)}

-----------------------------------------------------------------------------
(* The funding transaction.  terms are [pool, rate, long]: the amount of the pool output,  *)
(* satoshis per kilobyte, and the amounts of change with which the signature, and so the   *)
(* transaction, happens to be one byte longer, the same ones with every output.            *)

MinerFee(size, rate) == (size * rate + 999) \div 1000

SignedSize(change, long) ==
  BaseSize + (IF change > 0 THEN OutputSize ELSE 0) + (IF change \in long THEN 1 ELSE 0)

FeeWith(change, terms) == MinerFee(SignedSize(change, terms.long), terms.rate)

\* The amounts of change that are tried one after the other, each what the one before
\* would have left.
Attempts(available, terms) ==
  LET change[attempt \in 0 .. MaxAttempts] ==
        IF attempt = 0 THEN available
        ELSE LET left == change[attempt - 1] IN available - FeeWith(left, terms)
  IN change

\* The amount that leaves itself, if it is reached before one that leaves nothing.
Settled(available, terms) ==
  LET Stays(change) == change = available - FeeWith(change, terms)
      tried == Attempts(available, terms)
  IN {change \in {amount \in 1 .. available : Stays(amount)} :
        \E attempt \in 0 .. MaxAttempts - 1 :
          tried[attempt] = change /\ \A earlier \in 0 .. attempt : tried[earlier] > 0}

\* What settles in no amount of change is all left to the miners.
BuildFundingTx(utxo, terms) ==
  LET changes == Settled(utxo.amount - terms.pool, terms)
  IN IF changes = {} THEN 0 ELSE CHOOSE change \in changes : TRUE

\* Faulty form: whatever is left without change counts as enough.
TooSmall_NoMinimum(utxo, terms) == utxo.amount =< terms.pool

\* errFundingUTXOTooSmall: the rest does not even pay for the transaction without change.
TooSmall(utxo, terms) ==
  \/ utxo.amount =< terms.pool
  \/ /\ BuildFundingTx(utxo, terms) = 0
     /\ utxo.amount - terms.pool < FeeWith(0, terms)

\* fundingUTXOIsBetter
Better(utxo, other) ==
  \/ utxo.confirmed /\ ~other.confirmed
  \/ /\ utxo.confirmed = other.confirmed
     /\ \/ utxo.amount < other.amount
        \/ utxo.amount = other.amount /\ utxo.tx < other.tx
        \/ utxo.amount = other.amount /\ utxo.tx = other.tx /\ utxo.vout < other.vout

\* selectAndBuildFundingTx: the best of those that are not too small.
Candidates(answer, terms) ==
  {utxo \in ListUTXOs(answer) : ~TooSmall(utxo, terms)}

Selected(answer, terms) ==
  LET candidates == Candidates(answer, terms)
  IN {utxo \in candidates : \A other \in candidates \ {utxo} : Better(utxo, other)}

\* fundingTransactionFee
FundingFee(funding, terms) == funding.utxo.amount - terms.pool - funding.change

PrepareFunding(utxo, terms) == [utxo |-> utxo, change |-> BuildFundingTx(utxo, terms)]
=============================================================================
