--------------------------- MODULE RingArithmetic ---------------------------
(***************************************************************************)
(* Positions in a ring of S slots: what is numbered x is at slot x % S.    *)
(* The rings of PxqStream and PtxFeeds are proved correct with these.      *)
(* And the principle of the smallest counterexample.                       *)
(***************************************************************************)
EXTENDS Integers, WellFoundedInduction, TLAPS

\* What a number is, divided by the size of the ring.
LEMMA Divided ==
  ASSUME NEW S \in Nat \ {0}, NEW x \in Nat, NEW r, r = x % S
  PROVE  \E q \in Nat : r \in 0 .. S - 1 /\ x = q * S + r
<1> DEFINE q == x \div S
<1>1. q \in Nat
  OBVIOUS
<1>2. r \in 0 .. S - 1
  OBVIOUS
<1>3. r = x - S * q
  OBVIOUS
<1> HIDE DEF q
<1>4. x = q * S + r
  BY <1>1, <1>2, <1>3
<1> QED
  BY <1>1, <1>2, <1>4

LEMMA Remainder ==
  ASSUME NEW S \in Nat \ {0}, NEW q \in Int, NEW r \in 0 .. S - 1
  PROVE  (q * S + r) % S = r
OBVIOUS

\* Going on from a position is going on from the number it stands for.
LEMMA Onward ==
  ASSUME NEW S \in Nat \ {0}, NEW x \in Nat, NEW y \in Nat
  PROVE  ((x % S) + y) % S = (x + y) % S
<1>r. PICK r : r = x % S
  OBVIOUS
<1>t. PICK t : t = (r + y) % S
  OBVIOUS
<1>1. PICK q \in Nat : r \in 0 .. S - 1 /\ x = q * S + r
  BY <1>r, Divided, Zenon
<1>n. PICK z \in Nat : z = r + y
  BY <1>1
<1>z. t = z % S
  BY <1>n, <1>t
<1>2. PICK p \in Nat : t \in 0 .. S - 1 /\ z = p * S + t
  BY <1>z, Divided, Zenon
<1>3. x + y = (q + p) * S + t
  BY <1>1, <1>2, <1>n
<1>a. q + p \in Int
  BY <1>1, <1>2
<1>4. ((q + p) * S + t) % S = t
  BY <1>a, <1>2, Remainder, Zenon
<1>5. (x + y) % S = t
  BY <1>3, <1>4
<1> QED
  BY <1>5, <1>r, <1>t

\* Numbers less than a ring apart have different positions.
LEMMA Apart ==
  ASSUME NEW S \in Nat \ {0}, NEW x \in Nat, NEW y \in Nat, x < y, y < x + S
  PROVE  x % S # y % S
<1> SUFFICES ASSUME x % S = y % S PROVE FALSE
  OBVIOUS
<1>r. PICK r : r = x % S /\ r = y % S
  OBVIOUS
<1>1. PICK q \in Nat : r \in 0 .. S - 1 /\ x = q * S + r
  BY <1>r, Divided, Zenon
<1>2. PICK p \in Nat : r \in 0 .. S - 1 /\ y = p * S + r
  BY <1>r, Divided, Zenon
<1>3. (p - q) * S > 0 /\ (p - q) * S < S
  BY <1>1, <1>2
<1>4. p - q >= 1 \/ p - q <= 0
  BY <1>1, <1>2
<1>5. CASE p - q >= 1
  <2>1. (p - q) * S >= S
    BY <1>1, <1>2, <1>5
  <2> QED
    BY <1>3, <2>1, <1>1, <1>2
<1>6. CASE p - q <= 0
  <2>1. (p - q) * S <= 0
    BY <1>1, <1>2, <1>6
  <2> QED
    BY <1>3, <2>1, <1>1, <1>2
<1> QED
  BY <1>4, <1>5, <1>6

\* A step from a slot wraps at most once.
LEMMA StepFrom ==
  ASSUME NEW S \in Nat \ {0}, NEW s \in 0 .. S - 1, NEW k \in 0 .. S
  PROVE  (s + k) % S = IF s + k < S THEN s + k ELSE s + k - S
<1>1. CASE s + k < S
  BY <1>1
<1>2. CASE s + k >= S
  <2>1. s + k - S \in 0 .. S - 1
    BY <1>2
  <2>2. (1 * S + (s + k - S)) % S = s + k - S
    BY <2>1, Remainder
  <2> QED
    BY <1>2, <2>2
<1> QED
  BY <1>1, <1>2

\* Of some numbers one is the smallest.
LEMMA Smallest ==
  ASSUME NEW S \in SUBSET Nat, S # {}
  PROVE  \E m \in S : \A x \in S : m <= x
<1> DEFINE R == {p \in Nat \X Nat : p[1] < p[2]}
<1>1. IsWellFoundedOn(R, Nat)
  BY NatLessThanWellFounded DEF OpToRel
<1>2. PICK m \in S : \A y \in S : <<y, m>> \notin R
  BY <1>1, WFMin, Zenon
<1>3. \A y \in S : m <= y
  <2> SUFFICES ASSUME NEW y \in S PROVE m <= y
    OBVIOUS
  <2>1. ~(y < m)
    BY <1>2
  <2> QED
    BY <2>1
<1> HIDE DEF R
<1> QED
  BY <1>3
=============================================================================
