----------------------------- MODULE NaturalLemmas -----------------------------
(***************************************************************************)
(* Facts about natural numbers that the proofs of several components need.   *)
(* Induction on a number is done through the least and the greatest member   *)
(* of a set of counterexamples.                                              *)
(***************************************************************************)
EXTENDS Naturals, WellFoundedInduction, TLAPS

\* A set of naturals that is not empty has a least member.
LEMMA LeastNatural ==
  ASSUME NEW S \in SUBSET Nat, S # {}
  PROVE  \E x \in S : \A y \in S : x =< y
<1>1. PICK x \in S : \A y \in S : ~ (<<y, x>> \in OpToRel(<, Nat))
  BY WFMin, NatLessThanWellFounded
<1>2. ASSUME NEW y \in S
      PROVE  x =< y
  <2>1. x \in Nat /\ y \in Nat
    BY <1>2
  <2>2. ~ (y < x)
    BY <1>1, <1>2, <2>1, Zenon DEF OpToRel
  <2> QED BY <2>1, <2>2
<1> QED BY <1>2

\* ... and, when it is bounded, a greatest one.
LEMMA GreatestNatural ==
  ASSUME NEW S \in SUBSET Nat, S # {}, NEW n \in Nat, \A x \in S : x =< n
  PROVE  \E x \in S : \A y \in S : y =< x
<1> DEFINE T == {n - x : x \in S}
<1>1. T \in SUBSET Nat /\ T # {}
  <2>1. ASSUME NEW x \in S
        PROVE  n - x \in Nat
    BY <2>1
  <2>2. T \subseteq Nat
    BY <2>1
  <2>3. PICK x \in S : TRUE
    OBVIOUS
  <2>4. n - x \in T
    OBVIOUS
  <2> QED BY <2>2, <2>4
<1>2. PICK t \in T : \A u \in T : t =< u
  <2> HIDE DEF T
  <2> QED BY <1>1, LeastNatural
<1>3. PICK x \in S : t = n - x
  OBVIOUS
<1>4. ASSUME NEW y \in S
      PROVE  y =< x
  <2>1. n - y \in T
    OBVIOUS
  <2>2. n - x =< n - y
    BY <1>2, <1>3, <2>1
  <2> QED BY <2>2
<1> QED BY <1>4

\* Quotient and remainder are determined.
LEMMA DivisionIsUnique ==
  ASSUME NEW a \in Nat, NEW b \in Nat \ {0}, NEW q \in Nat, NEW r \in 0..b - 1,
         a = b * q + r
  PROVE  a \div b = q /\ a % b = r
<1> DEFINE x == a \div b
           y == a % b
<1>1. x \in Nat
  OBVIOUS
<1>2. y \in 0..b - 1
  OBVIOUS
<1>3. a = b * x + y
  BY Z3
<1> HIDE DEF x, y
<1>4. CASE q < x
  <2>1. b * (x - q) >= b
    BY <1>1, <1>4
  <2>2. b * x = b * q + b * (x - q)
    BY <1>1
  <2> QED BY <1>1, <1>2, <1>3, <2>1, <2>2
<1>5. CASE x < q
  <2>1. b * (q - x) >= b
    BY <1>1, <1>5
  <2>2. b * q = b * x + b * (q - x)
    BY <1>1
  <2> QED BY <1>1, <1>2, <1>3, <2>1, <2>2
<1>6. CASE q = x
  BY <1>1, <1>2, <1>3, <1>6 DEF x, y
<1> QED BY <1>1, <1>4, <1>5, <1>6

\* The larger dividend has the larger quotient.
LEMMA DivisionIsMonotone ==
  ASSUME NEW a \in Nat, NEW b \in Nat, a =< b, NEW d \in Nat \ {0}
  PROVE  a \div d =< b \div d
<1> DEFINE x == a \div d
           y == b \div d
           r == a % d
           s == b % d
<1>1. x \in Nat /\ y \in Nat /\ r \in 0..d - 1 /\ s \in 0..d - 1
  OBVIOUS
<1>2. a = d * x + r /\ b = d * y + s
  BY Z3
<1> HIDE DEF x, y, r, s
<1>3. CASE y < x
  <2>1. d * (x - y) >= d
    BY <1>1, <1>3
  <2>2. d * x = d * y + d * (x - y)
    BY <1>1
  <2> QED BY <1>1, <1>2, <2>1, <2>2
<1>4. CASE x =< y
  BY <1>4 DEF x, y
<1> QED BY <1>1, <1>3, <1>4
=============================================================================
