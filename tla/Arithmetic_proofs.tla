------------------------- MODULE Arithmetic_proofs --------------------------
(***************************************************************************)
(* Facts about numbers that the proofs share: quotients and remainders; and *)
(* Min and Max, by which the model writes down what the code finds with a   *)
(* loop: the first position, or the last, at which something holds.         *)
(***************************************************************************)
EXTENDS Integers, FiniteSetsExt, WellFoundedInduction, TLAPS

----------------------------------------------------------------------------
(* Quotients and remainders *)

\* Division and remainder, as C defines them on unsigned integers.
LEMMA DivMod ==
  ASSUME NEW a \in Int, NEW b \in Nat \ {0}
  PROVE  /\ a \div b \in Int /\ a % b \in 0 .. b - 1
         /\ a = b * (a \div b) + (a % b)
OBVIOUS

\* A quotient is found from bounds.
LEMMA QuotientIs ==
  ASSUME NEW a \in Int, NEW b \in Nat \ {0}, NEW q \in Int, b * q <= a, a < b * q + b
  PROVE  a \div b = q /\ a % b = a - b * q
<1> DEFINE d == (a \div b) - q
<1>1. a \div b \in Int /\ a % b \in 0 .. b - 1 /\ a = b * (a \div b) + (a % b)
  BY DivMod
<1>2. d \in Int /\ b * d = a - b * q - (a % b)
  BY <1>1
<1> HIDE DEF d
<1>3. ASSUME d >= 1 PROVE FALSE
  <2>1. b * d >= b
    BY <1>2, <1>3
  <2> QED BY <2>1, <1>1, <1>2
<1>4. ASSUME d <= -1 PROVE FALSE
  <2>1. b * d <= -b
    BY <1>2, <1>4
  <2> QED BY <2>1, <1>1, <1>2
<1>5. a \div b = q
  BY <1>1, <1>2, <1>3, <1>4 DEF d
<1> QED BY <1>1, <1>5

\* Multiplication by a positive number keeps the order.
LEMMA TimesKeepsOrder ==
  ASSUME NEW n \in Nat \ {0}, NEW a \in Int, NEW b \in Int, a <= b
  PROVE  n * a <= n * b
<1>1. n * b = n * a + n * (b - a)
  OBVIOUS
<1>2. n * (b - a) \in Nat
  <2>1. b - a \in Nat
    OBVIOUS
  <2> QED BY <2>1
<1> QED BY <1>1, <1>2

\* A number below the modulus is its own remainder.
LEMMA ModSmall ==
  ASSUME NEW a \in Nat, NEW b \in Nat \ {0}, a < b
  PROVE  a % b = a
<1>1. b * 0 <= a /\ a < b * 0 + b
  OBVIOUS
<1> QED BY <1>1, QuotientIs

\* A number divides itself.
LEMMA ModSelf ==
  ASSUME NEW b \in Nat \ {0}
  PROVE  b % b = 0 /\ b \div b = 1
<1>1. b * 1 <= b /\ b < b * 1 + b
  OBVIOUS
<1> QED BY <1>1, QuotientIs

----------------------------------------------------------------------------
(* Least and greatest elements *)

\* A set of natural numbers that is not empty has a least element.
LEMMA LeastNatural ==
  ASSUME NEW S \in SUBSET Nat, S # {}
  PROVE  \E x \in S : \A y \in S : x <= y
<1> DEFINE R == OpToRel(<, Nat)
<1>1. IsWellFoundedOn(R, Nat)
  BY NatLessThanWellFounded
<1>2. \A x, y \in Nat : <<x, y>> \in R <=> x < y
  BY DEF OpToRel
<1> HIDE DEF R
<1>3. PICK x \in S : \A y \in S : ~(<<y, x>> \in R)
  BY <1>1, WFMin
<1>4. ASSUME NEW y \in S PROVE x <= y
  <2>1. x \in Nat /\ y \in Nat
    OBVIOUS
  <2>2. ~(<<y, x>> \in R)
    BY <1>3
  <2>3. ~(y < x)
    BY <1>2, <2>1, <2>2, Zenon
  <2> QED BY <2>1, <2>3
<1> QED BY <1>4

\* Min yields it.
LEMMA MinNat ==
  ASSUME NEW S \in SUBSET Nat, S # {}
  PROVE  Min(S) \in S /\ \A y \in S : Min(S) <= y
BY LeastNatural DEF Min

\* A set of natural numbers with a bound has a greatest element, and Max yields it.
LEMMA MaxNat ==
  ASSUME NEW S \in SUBSET Nat, S # {}, NEW b \in Nat, \A y \in S : y <= b
  PROVE  Max(S) \in S /\ \A y \in S : y <= Max(S)
<1> DEFINE D == {b - y : y \in S}
<1>1. D \in SUBSET Nat /\ D # {}
  <2>1. ASSUME NEW y \in S PROVE b - y \in Nat
    <3>1. y \in Nat /\ y <= b
      OBVIOUS
    <3> QED BY <3>1
  <2> QED BY <2>1
<1>2. PICK d \in D : \A e \in D : d <= e
  BY <1>1, LeastNatural
<1>3. PICK x \in S : d = b - x
  OBVIOUS
<1>4. ASSUME NEW y \in S PROVE x >= y
  <2>1. b - y \in D
    OBVIOUS
  <2>2. b - x <= b - y
    BY <1>2, <1>3, <2>1
  <2>3. x \in Nat /\ y \in Nat
    OBVIOUS
  <2> QED BY <2>2, <2>3
<1> QED BY <1>4 DEF Max

\* An element that no other undercuts, or exceeds, is the one that Min, or Max, yields.
LEMMA MinIs ==
  ASSUME NEW S \in SUBSET Nat, NEW x \in S, \A y \in S : x <= y
  PROVE  Min(S) = x
<1>1. Min(S) \in S /\ Min(S) <= x
  BY MinNat
<1>2. Min(S) \in Nat /\ x \in Nat /\ x <= Min(S)
  BY <1>1
<1> QED BY <1>1, <1>2

LEMMA MaxIs ==
  ASSUME NEW S \in SUBSET Nat, NEW x \in S, \A y \in S : y <= x
  PROVE  Max(S) = x
<1>0. x \in Nat
  OBVIOUS
<1>1. Max(S) \in S /\ x <= Max(S)
  BY <1>0, MaxNat
<1>2. Max(S) \in Nat /\ Max(S) <= x
  BY <1>1
<1> QED BY <1>0, <1>1, <1>2
=============================================================================
