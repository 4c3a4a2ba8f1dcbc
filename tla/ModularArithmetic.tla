------------------------- MODULE ModularArithmetic --------------------------
(***************************************************************************)
(* Facts about \div and % for a modulus that is not a numeral, for the     *)
(* proofs about sequence numbers, casts and periods.                       *)
(***************************************************************************)
EXTENDS Integers, TLAPS

\* Euclid: quotient and remainder.
LEMMA DivMod ==
  ASSUME NEW a \in Int, NEW R \in Nat, R > 0
  PROVE  /\ a \div R \in Int
         /\ a % R \in 0..(R - 1)
         /\ a = (a \div R) * R + (a % R)
OBVIOUS

\* The remainder is unique.
LEMMA ModUnique ==
  ASSUME NEW q \in Int, NEW R \in Nat, R > 0, NEW r \in 0..(R - 1)
  PROVE  (q * R + r) % R = r
OBVIOUS

\* And so is the quotient.
LEMMA DivUnique ==
  ASSUME NEW q \in Int, NEW R \in Nat, R > 0, NEW r \in 0..(R - 1)
  PROVE  (q * R + r) \div R = q
<1> DEFINE a == q * R + r
<1>1. a \in Int
  OBVIOUS
<1>2. /\ a \div R \in Int /\ a % R = r
      /\ a = (a \div R) * R + (a % R)
  BY <1>1, DivMod, ModUnique
<1>3. ASSUME a \div R > q PROVE FALSE
  BY <1>2, <1>3
<1>4. ASSUME a \div R < q PROVE FALSE
  BY <1>2, <1>4
<1> QED
  BY <1>2, <1>3, <1>4

\* Whole turns do not change the remainder.
LEMMA ModShift ==
  ASSUME NEW a \in Int, NEW q \in Int, NEW R \in Nat, R > 0
  PROVE  (a + q * R) % R = a % R
<1>1. PICK p \in Int : a = p * R + (a % R)
  BY DivMod
<1>2. a + q * R = (p + q) * R + (a % R)
  BY <1>1, DivMod
<1> QED
  BY <1>2, DivMod, ModUnique

\* A term may be reduced before it is added.
LEMMA ModOfMod ==
  ASSUME NEW a \in Int, NEW c \in Int, NEW R \in Nat, R > 0
  PROVE  ((a % R) + c) % R = (a + c) % R
<1>1. PICK p \in Int : a = p * R + (a % R)
  BY DivMod
<1> DEFINE b == (a % R) + c
<1>2. b \in Int
  BY DivMod
<1>3. (b + p * R) % R = b % R
  BY <1>2, ModShift
<1>4. a + c = b + p * R
  BY <1>1, DivMod
<1> QED
  BY <1>3, <1>4

\* Equal remainders stay equal.
LEMMA ModPlus ==
  ASSUME NEW a \in Int, NEW b \in Int, NEW c \in Int, NEW R \in Nat, R > 0, a % R = b % R
  PROVE  (a + c) % R = (b + c) % R
<1>1. ((a % R) + c) % R = (a + c) % R
  BY ModOfMod
<1>2. ((b % R) + c) % R = (b + c) % R
  BY ModOfMod
<1> QED
  BY <1>1, <1>2

\* A natural number is not less than its remainder.
LEMMA ModLess ==
  ASSUME NEW a \in Nat, NEW R \in Nat, R > 0
  PROVE  a % R <= a
<1>1. /\ a \div R \in Int /\ a % R \in 0..(R - 1)
      /\ a = (a \div R) * R + (a % R)
  BY DivMod
<1>2. CASE a \div R >= 0
  <2>1. (a \div R) * R >= 0
    BY <1>1, <1>2
  <2> QED
    BY <1>1, <2>1
<1>3. CASE a \div R <= -1
  <2>1. (a \div R) * R <= -R
    BY <1>1, <1>3
  <2> QED
    BY <1>1, <2>1
<1> QED
  BY <1>1, <1>2, <1>3

=============================================================================
