--------------------------- MODULE SlotArithmetic ---------------------------
(***************************************************************************)
(* Places in a circle of S slots: what the proofs about the DSP's log      *)
(* buffers use of the remainder.                                           *)
(***************************************************************************)
EXTENDS Integers, TLAPS

LEMMA ModRange ==
  ASSUME NEW S \in Nat \ {0}, NEW n \in Nat
  PROVE  n % S \in 0..(S - 1) /\ n \div S \in Nat /\ n = S * (n \div S) + (n % S)
OBVIOUS

LEMMA ModUnique ==
  ASSUME NEW S \in Nat \ {0}, NEW q \in Nat, NEW r \in 0..(S - 1), NEW n \in Nat, n = S * q + r
  PROVE  n % S = r
OBVIOUS

LEMMA ModSmall ==
  ASSUME NEW S \in Nat \ {0}, NEW r \in 0..(S - 1)
  PROVE  r % S = r
OBVIOUS

\* Two places less than a lap apart are different slots.
LEMMA ModSame ==
  ASSUME NEW S \in Nat \ {0}, NEW a \in Nat, NEW b \in Nat, a % S = b % S, a <= b, b < a + S
  PROVE  a = b
<1> DEFINE p == a \div S
           q == b \div S
<1>0. /\ p \in Nat /\ q \in Nat /\ a % S \in 0..(S - 1)
      /\ a = S * p + (a % S) /\ b = S * q + (b % S)
  BY ModRange
<1>1. p \in Nat /\ q \in Nat /\ b - a = S * q - S * p
  BY <1>0
<1> HIDE DEF p, q
<1>2. q <= p
  <2>1. ASSUME q >= p + 1
        PROVE  FALSE
    <3>1. S * q >= S * (p + 1)
      BY <1>1, <2>1
    <3>2. S * (p + 1) = S * p + S
      BY <1>1
    <3> QED
      BY <3>1, <3>2, <1>1
  <2> QED
    BY <2>1, <1>1
<1>3. S * q <= S * p
  BY <1>1, <1>2
<1> QED
  BY <1>1, <1>3

\* The code's step to the next slot is the next place in the circle.
LEMMA ModNext ==
  ASSUME NEW S \in Nat \ {0}, NEW n \in Nat
  PROVE  (n + 1) % S = IF (n % S) + 1 >= S THEN 0 ELSE (n % S) + 1
<1> DEFINE q == n \div S
           r == n % S
<1>1. q \in Nat /\ r \in 0..(S - 1) /\ n = S * q + r
  BY ModRange
<1> HIDE DEF q, r
<1>2. CASE r + 1 >= S
  <2>1. q + 1 \in Nat /\ n + 1 \in Nat /\ n + 1 = S * (q + 1) + (r + 1 - S)
    BY <1>1
  <2>2. r + 1 - S \in 0..(S - 1) /\ r + 1 - S = 0
    BY <1>1, <1>2
  <2>3. (n + 1) % S = r + 1 - S
    BY <2>1, <2>2, ModUnique
  <2> QED
    BY <2>2, <2>3, <1>2 DEF r
<1>3. CASE ~ (r + 1 >= S)
  <2>1. n + 1 = S * q + (r + 1) /\ r + 1 \in 0..(S - 1)
    BY <1>1, <1>3
  <2>2. (n + 1) % S = r + 1
    BY <2>1, <1>1, ModUnique
  <2> QED
    BY <2>2, <1>3 DEF r
<1> QED
  BY <1>2, <1>3

\* A lap leads back to the same slot.
LEMMA ModLap ==
  ASSUME NEW S \in Nat \ {0}, NEW n \in Nat
  PROVE  (n + S) % S = n % S
<1> DEFINE q == n \div S
           r == n % S
<1>1. q \in Nat /\ r \in 0..(S - 1) /\ n = S * q + r
  BY ModRange
<1> HIDE DEF q, r
<1>2. q + 1 \in Nat /\ n + S \in Nat /\ n + S = S * (q + 1) + r
  BY <1>1
<1>3. (n + S) % S = r
  BY <1>1, <1>2, ModUnique
<1> QED
  BY <1>3 DEF r

\* Slots of different circles laid end to end are different.
LEMMA SlotsApart ==
  ASSUME NEW S \in Nat \ {0}, NEW a \in Nat, NEW b \in Nat,
         NEW x \in 0..(S - 1), NEW y \in 0..(S - 1), a # b
  PROVE  a * S + x # b * S + y
<1>1. \A m, n \in Nat : m < n => m * S + S <= n * S
  <2> SUFFICES ASSUME NEW m \in Nat, NEW n \in Nat, m < n PROVE m * S + S <= n * S
    OBVIOUS
  <2>1. n - m - 1 \in Nat /\ n = m + 1 + (n - m - 1)
    OBVIOUS
  <2>2. PICK k \in Nat : n = m + 1 + k
    BY <2>1
  <2>3. n * S = m * S + S + k * S /\ k * S \in Nat /\ m * S \in Nat
    BY <2>2
  <2> QED
    BY <2>3
<1>2. a * S \in Nat /\ b * S \in Nat
  OBVIOUS
<1>3. CASE a < b
  BY <1>1, <1>2, <1>3
<1>4. CASE b < a
  BY <1>1, <1>2, <1>4
<1> QED
  BY <1>3, <1>4
=============================================================================
