---------------------------- MODULE NumberLemmas ----------------------------
(***************************************************************************)
(* Facts about numbers that the proofs about loops and about the ring rest *)
(* on: induction, for a set of natural numbers, and division.              *)
(***************************************************************************)
EXTENDS Integers, WellFoundedInduction, TLAPS

\* A set of natural numbers that has an element has a least one.
LEMMA LeastNatural ==
  ASSUME NEW T \in SUBSET Nat, T # {}
  PROVE  \E n \in T : \A k \in T : n <= k
<1>1. PICK R : R = OpToRel(<, Nat)
  OBVIOUS
<1>2. IsWellFoundedOn(R, Nat)
  BY <1>1, NatLessThanWellFounded, Zenon
<1>3. PICK n \in T : \A k \in T : ~ (<<k, n>> \in R)
  BY <1>2, WFMin, Zenon
<1>4. \A k, m \in Nat : k < m => <<k, m>> \in R
  BY <1>1 DEF OpToRel
<1>5. ASSUME NEW k \in T PROVE n <= k
  <2>1. k \in Nat /\ n \in Nat
    OBVIOUS
  <2>2. ~(k < n)
    BY <1>3, <1>4, <2>1
  <2> QED
    BY <2>1, <2>2
<1> QED
  BY <1>5

\* A set that has zero and every successor of its numbers has all natural numbers.
LEMMA Induction ==
  ASSUME NEW S, 0 \in S, \A n \in Nat : n \in S => n + 1 \in S
  PROVE  Nat \subseteq S
<1>1. SUFFICES ASSUME Nat \ S # {} PROVE FALSE
  OBVIOUS
<1>2. PICK n \in Nat \ S : \A k \in Nat \ S : n <= k
  BY <1>1, LeastNatural
<1>3. n # 0 /\ n - 1 \in Nat /\ n - 1 \notin Nat \ S
  BY <1>2
<1> QED
  BY <1>2, <1>3

-----------------------------------------------------------------------------
\* A multiple of m that is not zero is at least m.
LEMMA ProductAtLeast ==
  ASSUME NEW d \in Nat \ {0}, NEW m \in Nat \ {0}
  PROVE  d * m >= m
<1>1. d - 1 \in Nat /\ d * m = (d - 1) * m + m
  OBVIOUS
<1>2. (d - 1) * m \in Nat
  BY <1>1
<1> QED
  BY <1>1, <1>2

\* Quotient and remainder.
LEMMA Division ==
  ASSUME NEW i \in Int, NEW m \in Nat \ {0}
  PROVE  i \div m \in Int /\ (i % m) \in 0 .. m - 1 /\ i = (i \div m) * m + (i % m)
OBVIOUS

\* A multiple of m that is less than m away from zero is zero.
LEMMA Quotient ==
  ASSUME NEW q \in Int, NEW r \in Int, NEW m \in Nat \ {0},
         r <= q * m, q * m <= r, r < m, 0 - m < r
  PROVE  q = 0
<1>1. q > 0 => q * m >= m
  BY ProductAtLeast
<1>2. CASE q < 0
  <2>1. 0 - q \in Nat \ {0} /\ (0 - q) * m = 0 - q * m
    BY <1>2
  <2>2. (0 - q) * m >= m
    BY <2>1, ProductAtLeast
  <2> QED
    BY <2>1, <2>2
<1>3. q * m \in Int
  OBVIOUS
<1> QED
  BY <1>1, <1>2, <1>3

\* A number has one remainder.
LEMMA UniqueRemainder ==
  ASSUME NEW i \in Int, NEW m \in Nat \ {0}, NEW q \in Int, NEW r \in 0 .. m - 1, i = q * m + r
  PROVE  (i % m) = r
<1>1. i \div m \in Int /\ (i % m) \in 0 .. m - 1 /\ i = (i \div m) * m + (i % m)
  BY Division
<1>2. PICK p \in Int : p = i \div m
  BY <1>1
<1>3. (q - p) * m = q * m - p * m /\ q * m \in Int /\ p * m \in Int
  OBVIOUS
<1>4. (q - p) * m = (i % m) - r
  BY <1>1, <1>2, <1>3
<1>5. (i % m) - r \in Int /\ (i % m) - r < m /\ 0 - m < (i % m) - r
  BY <1>1
<1>6. q - p = 0
  BY <1>4, <1>5, Quotient
<1> QED
  BY <1>4, <1>5, <1>6

\* Numbers that differ by a multiple of m have the same remainder.
LEMMA Congruence ==
  ASSUME NEW i \in Int, NEW j \in Int, NEW m \in Nat \ {0}, NEW q \in Int, j = i + q * m
  PROVE  (j % m) = (i % m)
<1>1. PICK p \in Int, r \in 0 .. m - 1 : i = p * m + r /\ r = (i % m)
  BY Division
<1>2. j = (p + q) * m + r /\ p + q \in Int
  BY <1>1
<1> QED
  BY <1>1, <1>2, UniqueRemainder

\* Something may be added to a number or to its remainder.
LEMMA RemainderAdds ==
  ASSUME NEW i \in Int, NEW l \in Int, NEW m \in Nat \ {0}, NEW r \in Int, r = (i % m)
  PROVE  ((r + l) % m) = ((i + l) % m)
<1>1. PICK p \in Int : i = p * m + r
  BY Division
<1>2. PICK j \in Int, s \in 0 .. m - 1 : r + l = j * m + s /\ ((r + l) % m) = s
  <2>1. r + l \in Int
    OBVIOUS
  <2> QED
    BY <2>1, Division
<1>3. i + l = (p + j) * m + s /\ p + j \in Int /\ i + l \in Int
  <2>1. (p + j) * m = p * m + j * m /\ p * m \in Int /\ j * m \in Int
    OBVIOUS
  <2>2. i + l = p * m + (r + l)
    BY <1>1, <2>1
  <2> QED
    BY <1>2, <2>1, <2>2
<1>4. ((i + l) % m) = s
  BY <1>3, UniqueRemainder
<1> QED
  BY <1>2, <1>4

\* Two numbers less than m apart have the same remainder only if they are equal.
LEMMA Apart ==
  ASSUME NEW i \in Int, NEW j \in Int, NEW m \in Nat \ {0}, (i % m) = (j % m), i - j < m, j - i < m
  PROVE  i = j
<1>1. PICK p \in Int : i = p * m + (i % m)
  BY Division
<1>2. PICK q \in Int : j = q * m + (j % m)
  BY Division
<1>3. (p - q) * m = p * m - q * m /\ p * m \in Int /\ q * m \in Int /\ (i % m) \in Int
  BY Division
<1>4. (p - q) * m = i - j
  BY <1>1, <1>2, <1>3
<1>5. p - q = 0
  BY <1>4, Quotient
<1> QED
  BY <1>4, <1>5
=============================================================================
