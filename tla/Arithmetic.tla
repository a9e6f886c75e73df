----------------------------- MODULE Arithmetic -----------------------------
(***************************************************************************)
(* Division with remainder, for the proofs about indices and counters that *)
(* are taken modulo something; and the least element of a set of numbers,  *)
(* which is how those about definitions by recursion argue.                *)
(***************************************************************************)
EXTENDS Integers, WellFoundedInduction, TLAPS

Multiple(w, a) == \E k \in Int : a = w * k

LEMMA Euclid ==
    ASSUME NEW w \in Nat, w > 0, NEW x \in Int
    PROVE  x \div w \in Int /\ x % w \in 0 .. w - 1 /\ x % w = x - w * (x \div w)
<1>1. x \div w \in Int
  OBVIOUS
<1>2. x % w \in 0 .. w - 1
  OBVIOUS
<1>3. x % w = x - w * (x \div w)
  OBVIOUS
<1> QED
  BY <1>1, <1>2, <1>3

LEMMA NoMultiple ==
    ASSUME NEW w \in Nat, w > 0, NEW d \in Int, w * d < w, -w < w * d
    PROVE  d = 0
<1>1. d >= 1 => w * d >= w
  OBVIOUS
<1>2. d <= -1 => w * d <= -w
  OBVIOUS
<1> QED
  BY <1>1, <1>2

LEMMA ModEqual ==
    ASSUME NEW w \in Nat, w > 0, NEW x \in Int, NEW y \in Int, NEW k \in Int,
           x = y + w * k
    PROVE  x % w = y % w
<1> DEFINE q == x \div w
           r == y \div w
           d == q - r - k
           s == x % w
           t == y % w
<1>1. /\ q \in Int /\ r \in Int /\ s \in 0 .. w - 1 /\ t \in 0 .. w - 1
      /\ s = x - w * q /\ t = y - w * r
  BY Euclid
<1> HIDE DEF q, r, s, t
<1>2. d \in Int /\ w * d = w * q - w * r - w * k
  BY <1>1
<1>3. w * d = t - s
  BY <1>1, <1>2
<1>4. w * d < w /\ -w < w * d
  BY <1>1, <1>3
<1>5. d = 0
  BY <1>2, <1>4, NoMultiple
<1>6. t - s = 0
  BY <1>1, <1>3, <1>5
<1>7. s = t
  BY <1>1, <1>6
<1> QED
  BY <1>7 DEF s, t

LEMMA ModShift ==
    ASSUME NEW w \in Nat, w > 0, NEW a \in Int, NEW b \in Int
    PROVE  (a + (b % w)) % w = (a + b) % w
<1> DEFINE q == b \div w
           r == b % w
           x == a + b
           y == a + r
<1>1. q \in Int /\ r \in Int /\ r = b - w * q
  BY Euclid
<1> HIDE DEF q, r
<1>2. x = y + w * q /\ x \in Int /\ y \in Int
  BY <1>1
<1> HIDE DEF x, y
<1>3. x % w = y % w
  BY <1>1, <1>2, ModEqual
<1> QED
  BY <1>3 DEF r, x, y

LEMMA ModSmall ==
    ASSUME NEW w \in Nat, w > 0, NEW x \in 0 .. (w - 1)
    PROVE  x % w = x
<1> DEFINE r == x % w
           q == x \div w
<1>1. q \in Int /\ r \in 0 .. (w - 1) /\ r = x - w * q /\ x \in Int
  BY Euclid
<1> HIDE DEF q, r
<1>2. w * q < w /\ -w < w * q
  BY <1>1
<1>3. q = 0
  BY <1>1, <1>2, NoMultiple
<1>4. r = x
  BY <1>1, <1>3
<1> QED
  BY <1>4 DEF r

LEMMA MultipleSum ==
    ASSUME NEW w \in Nat, NEW a \in Int, NEW b \in Int, Multiple(w, a), Multiple(w, b)
    PROVE  Multiple(w, a + b) /\ Multiple(w, a - b)
<1>1. PICK k \in Int : a = w * k
  BY DEF Multiple
<1>2. PICK l \in Int : b = w * l
  BY DEF Multiple
<1>3. /\ k + l \in Int /\ w * (k + l) = w * k + w * l
      /\ k - l \in Int /\ w * (k - l) = w * k - w * l
  OBVIOUS
<1>4. a + b = w * (k + l) /\ a - b = w * (k - l)
  BY <1>1, <1>2, <1>3
<1> QED
  BY <1>3, <1>4 DEF Multiple

LEMMA MultipleOfMod ==
    ASSUME NEW w \in Nat, w > 0, NEW x \in Int
    PROVE  Multiple(w, x - (x % w)) /\ Multiple(w, (x % w) - x)
<1> DEFINE r == x % w
           q == x \div w
<1>1. q \in Int /\ r \in Int /\ r = x - w * q
  BY Euclid
<1> HIDE DEF q, r
<1>2. -q \in Int /\ x - r = w * q /\ r - x = w * (-q)
  BY <1>1
<1> QED
  BY <1>1, <1>2 DEF Multiple, r

LEMMA SmallMultiple ==
    ASSUME NEW w \in Nat, w > 0, NEW a \in Int, Multiple(w, a), -w < a, a < w
    PROVE  a = 0
<1>1. PICK k \in Int : a = w * k
  BY DEF Multiple
<1>2. k = 0
  BY <1>1, NoMultiple
<1> QED
  BY <1>1, <1>2

Below == {p \in Nat \X Nat : p[1] < p[2]}

LEMMA BelowIsWellFounded == IsWellFoundedOn(Below, Nat)
<1>1. OpToRel(<, Nat) = Below
  BY DEF OpToRel, Below
<1>2. QED BY <1>1, NatLessThanWellFounded

LEMMA NatMin ==
    ASSUME NEW S \in SUBSET Nat, S # {}
    PROVE  \E n \in S : \A m \in S : n <= m
<1>1. PICK n \in S : \A m \in S : ~ (<<m, n>> \in Below)
  BY BelowIsWellFounded, WFMin, Zenon
<1>2. \A m \in S : n <= m
  <2> SUFFICES ASSUME NEW m \in S, m < n
               PROVE  FALSE
    BY DEF Below
  <2>1. <<m, n>> \in Below
    BY DEF Below
  <2> QED BY <2>1, <1>1
<1>3. QED BY <1>2
=============================================================================
