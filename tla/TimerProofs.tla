---------------------------- MODULE TimerProofs ----------------------------
(***************************************************************************)
(* Proofs about the timer, for any elements, timeouts, number of spokes    *)
(* and width of unsigned long.                                             *)
(*                                                                         *)
(* Lists first: what linking and unlinking do to them, and to a timer made *)
(* of them (Well).  Then what each step does (AfterAdd ... AfterReturn),   *)
(* from which TypeCorrect and QueueKept follow.  Then the wheel:           *)
(* how many ticks are left for an element of which a check has, or has     *)
(* not, counted the rotation already.  Last, the refinement: what is linked *)
(* as a set of alarms (DueOf, OrderOf), what taking an element off a list  *)
(* and putting one on it do to that set (View...), and each step as one    *)
(* of Alarms (...IsStep).                                                  *)
(***************************************************************************)
EXTENDS TimerProperties, Arithmetic, FiniteSetTheorems, SequenceTheorems, TLAPS

Fields == [due : Nat, early : Int, rotation : Ints, cursor : Spokes]
Checks == [running : BOOLEAN, max : Nat, cbCnt : Nat, i : Nat,
           tmp : Elems \cup {NoElem}]
Given(el) == {e \in Elems : el[e] # NoElem}

(* A timer ty with elements el, queue q and spokes ss: no element is linked *)
(* twice, nor after it was freed; one of a wheel is on the spoke its cursor *)
(* names, and only one of a queue may be linked nowhere.                   *)
Well(ty, el, q, ss) ==
    /\ el \in [Elems -> Fields \cup {NoElem}]
    /\ q \in Seq(Elems) /\ IsInjective(q) /\ ToSet(q) \subseteq Given(el)
    /\ ss \in [Spokes -> Seq(Elems)]
    /\ \A s \in Spokes :
          /\ IsInjective(ss[s])
          /\ \A e \in ToSet(ss[s]) : e \in Given(el) /\ el[e].cursor = s
    /\ ty = "queue" => \A s \in Spokes : ToSet(ss[s]) = {}
    /\ ty = "wheel" => /\ ToSet(q) = {}
                       /\ \A e \in Given(el) : e \in ToSet(ss[el[e].cursor])

(* The list a check looks at, and where it is in it. *)
Looked == IF type = "queue" THEN queue ELSE spokes[spokeIndex]
Looking ==
    /\ check \in Checks
    /\ ~check.running => check = NoCheck
    /\ check.tmp # NoElem => check.tmp \in ToSet(Looked)

Typed ==
    /\ now \in 0 .. (Word - 1) /\ type \in Types
    /\ Well(type, elem, queue, spokes)
    /\ lastExpire \in 0 .. (Word - 1) /\ createTime \in 0 .. (Word - 1)
    /\ lastCheck \in 0 .. (Word - 1) /\ spokeIndex \in Spokes
    /\ Looking

Counted == elemCnt = Cardinality(Allocated)

-----------------------------------------------------------------------------
(* Sizes *)

LEMMA SizesAre ==
    /\ WheelSize \in Nat /\ WheelSize > 0 /\ Word \in Nat /\ Word > 1
    /\ Minus1 \in 0 .. (Word - 1) /\ 0 \in 0 .. (Word - 1) /\ 0 \in Spokes
    /\ NoElem \notin Elems /\ NoElem \notin Fields
<1>1. /\ WheelSize \in Nat /\ WheelSize > 0 /\ Word \in Nat /\ Word > 1
      /\ Minus1 \in 0 .. (Word - 1) /\ 0 \in 0 .. (Word - 1) /\ 0 \in Spokes
      /\ NoElem \notin Elems
  BY TimerAssumption DEF Minus1, Spokes
<1>2. Ints \subseteq Int /\ Spokes \subseteq Nat
  BY TimerAssumption DEF Ints, Spokes
<1>3. \A x \in Fields : x \in [due : Nat, early : Int, rotation : Int, cursor : Nat]
  BY <1>2 DEF Fields
<1>4. NoElem \notin [due : Nat, early : Int, rotation : Int, cursor : Nat]
  BY TimerAssumption
<1> QED
  BY <1>1, <1>3, <1>4

-----------------------------------------------------------------------------
(* Lists of elements *)

LEMMA AppendIs ==
    ASSUME NEW s \in Seq(Elems), NEW x \in Elems, IsInjective(s), x \notin ToSet(s)
    PROVE  /\ Append(s, x) \in Seq(Elems) /\ IsInjective(Append(s, x))
           /\ ToSet(Append(s, x)) = ToSet(s) \cup {x}
<1> DEFINE r == Append(s, x)
<1>1. /\ r \in Seq(Elems) /\ Len(r) = Len(s) + 1 /\ r[Len(s) + 1] = x
      /\ \A n \in 1 .. Len(s) : r[n] = s[n]
      /\ Len(s) \in Nat /\ DOMAIN s = 1 .. Len(s) /\ DOMAIN r = 1 .. (Len(s) + 1)
  OBVIOUS
<1> HIDE DEF r
<1>2. \A n \in 1 .. Len(s) : s[n] # x
  BY <1>1 DEF ToSet
<1>3. IsInjective(r)
  BY <1>1, <1>2 DEF IsInjective
<1>4. ToSet(r) \subseteq ToSet(s) \cup {x}
  BY <1>1 DEF ToSet
<1>5. ToSet(s) \cup {x} \subseteq ToSet(r)
  <2>1. ASSUME NEW n \in DOMAIN s PROVE s[n] \in ToSet(r)
    <3>1. n \in DOMAIN r /\ r[n] = s[n]
      BY <1>1
    <3> QED
      BY <3>1 DEF ToSet
  <2>2. x \in ToSet(r)
    <3>1. Len(s) + 1 \in DOMAIN r
      BY <1>1
    <3> QED
      BY <1>1, <3>1 DEF ToSet
  <2> QED
    BY <2>1, <2>2 DEF ToSet
<1> QED
  BY <1>1, <1>3, <1>4, <1>5 DEF r

LEMMA PositionIs ==
    ASSUME NEW s \in Seq(Elems), NEW e \in ToSet(s)
    PROVE  Position(s, e) \in DOMAIN s /\ s[Position(s, e)] = e
BY DEF ToSet, Position

(* TAILQ_REMOVE takes one element out and leaves the others in their order. *)
LEMMA UnlinkedIs ==
    ASSUME NEW s \in Seq(Elems), NEW e \in ToSet(s), IsInjective(s)
    PROVE  /\ Unlinked(s, e) \in Seq(Elems) /\ IsInjective(Unlinked(s, e))
           /\ ToSet(Unlinked(s, e)) = ToSet(s) \ {e}
           /\ \A a, b : Before(Unlinked(s, e), a, b) <=>
                           Before(s, a, b) /\ a # e /\ b # e
<1> DEFINE p == Position(s, e)
           r == Unlinked(s, e)
           L == Len(s)
<1>1. L \in Nat /\ DOMAIN s = 1 .. L /\ p \in 1 .. L /\ s[p] = e /\ L = Len(s)
  BY PositionIs
<1> HIDE DEF p, r, L
<1>2. /\ r \in Seq(Elems) /\ Len(r) = L - 1
      /\ \A n \in 1 .. (L - 1) : r[n] = IF n < p THEN s[n] ELSE s[n + 1]
  <2>1. r = SubSeq(s, 1, p - 1) \o SubSeq(s, p + 1, L)
    BY <1>1 DEF Unlinked, RemoveAt, p, r
  <2>2. /\ SubSeq(s, 1, p - 1) \in Seq(Elems) /\ Len(SubSeq(s, 1, p - 1)) = p - 1
        /\ \A n \in 1 .. (p - 1) : SubSeq(s, 1, p - 1)[n] = s[n]
    BY <1>1
  <2>3. /\ SubSeq(s, p + 1, L) \in Seq(Elems) /\ Len(SubSeq(s, p + 1, L)) = L - p
        /\ \A n \in 1 .. (L - p) : SubSeq(s, p + 1, L)[n] = s[n + p]
    <3>1. SubSeq(s, p + 1, L) \in Seq(Elems)
      BY <1>1
    <3>2. Len(SubSeq(s, p + 1, L)) = L - p
      <4>1. p + 1 \in Int /\ L \in Int /\ \A i \in (p + 1) .. L : s[i] \in Elems
        BY <1>1
      <4>2. Len(SubSeq(s, p + 1, L)) = IF p + 1 <= L THEN L - (p + 1) + 1 ELSE 0
        BY <4>1, SubSeqProperties
      <4>3. L - p = IF p + 1 <= L THEN L - (p + 1) + 1 ELSE 0
        <5>1. p \in Int /\ L \in Int /\ p <= L
          BY <1>1
        <5>2. CASE p + 1 <= L
          BY <5>1, <5>2
        <5>3. CASE ~(p + 1 <= L)
          BY <5>1, <5>3
        <5> QED
          BY <5>2, <5>3
      <4> QED
        BY <1>1, <4>2, <4>3
    <3>3. ASSUME NEW n \in 1 .. (L - p) PROVE SubSeq(s, p + 1, L)[n] = s[n + p]
      <4>1. n \in 1 .. ((L - (p + 1)) + 1) /\ n + (p + 1) - 1 = n + p
        BY <1>1
      <4> QED
        BY <1>1, <4>1
    <3> QED
      BY <3>1, <3>2, <3>3
  <2> DEFINE u == SubSeq(s, 1, p - 1)
             v == SubSeq(s, p + 1, L)
  <2> HIDE DEF u, v
  <2>4. /\ u \in Seq(Elems) /\ Len(u) = p - 1 /\ \A n \in 1 .. (p - 1) : u[n] = s[n]
        /\ v \in Seq(Elems) /\ Len(v) = L - p /\ \A n \in 1 .. (L - p) : v[n] = s[n + p]
    BY <2>2, <2>3 DEF u, v
  <2>5. r = u \o v
    BY <2>1 DEF u, v
  <2>6. r \in Seq(Elems) /\ Len(r) = L - 1
    <3>1. r \in Seq(Elems) /\ Len(r) = Len(u) + Len(v)
      BY <2>4, <2>5, ConcatProperties
    <3>2. (p - 1) + (L - p) = L - 1
      BY <1>1
    <3> QED
      BY <2>4, <3>1, <3>2
  <2>7. ASSUME NEW n \in 1 .. (L - 1)
        PROVE  r[n] = IF n < p THEN s[n] ELSE s[n + 1]
    <3>1. CASE n < p
      <4>1. n \in 1 .. Len(u)
        BY <1>1, <2>4, <3>1
      <4> QED
        BY <2>4, <2>5, <3>1, <4>1
    <3>2. CASE ~(n < p)
      <4>1. n > Len(u) /\ n - Len(u) = n - p + 1 /\ n - p + 1 \in 1 .. (L - p)
        BY <1>1, <2>4, <3>2
      <4>2. r[n] = v[n - Len(u)]
        BY <1>1, <2>4, <2>5, <4>1
      <4>3. v[n - p + 1] = s[n + 1]
        <5>1. (n - p + 1) + p = n + 1
          BY <1>1
        <5> QED
          BY <2>4, <4>1, <5>1
      <4> QED
        BY <3>2, <4>1, <4>2, <4>3
    <3> QED
      BY <3>1, <3>2
  <2> QED
    BY <2>6, <2>7
<1>3. DOMAIN r = 1 .. (L - 1)
  BY <1>1, <1>2
<1> DEFINE old(n) == IF n < p THEN n ELSE n + 1
<1>4. \A n \in DOMAIN r : old(n) \in DOMAIN s /\ old(n) # p /\ r[n] = s[old(n)]
  BY <1>1, <1>2, <1>3
<1>5. \A m, n \in DOMAIN r : m < n <=> old(m) < old(n)
  BY <1>1, <1>3
<1>6. \A m \in DOMAIN s : m # p => \E n \in DOMAIN r : old(n) = m
  <2> SUFFICES ASSUME NEW m \in DOMAIN s, m # p PROVE \E n \in DOMAIN r : old(n) = m
    OBVIOUS
  <2>1. CASE m < p
    <3>1. m \in DOMAIN r /\ old(m) = m
      BY <1>1, <1>3, <2>1
    <3> QED
      BY <3>1
  <2>2. CASE ~(m < p)
    <3>1. m - 1 \in DOMAIN r /\ old(m - 1) = m
      BY <1>1, <1>3, <2>2
    <3> QED
      BY <3>1
  <2> QED
    BY <2>1, <2>2
<1> HIDE DEF old
<1>7. \A m, n \in DOMAIN r : old(m) = old(n) => m = n
  <2>1. \A m, n \in DOMAIN r : m \in Int /\ n \in Int /\ old(m) \in Int /\ old(n) \in Int
    BY <1>1, <1>3, <1>4
  <2> QED
    BY <1>5, <2>1
<1>8. \A m \in DOMAIN s : s[m] = e => m = p
  BY <1>1 DEF IsInjective
<1>9. IsInjective(r)
  BY <1>4, <1>7 DEF IsInjective
<1>10. ToSet(r) \subseteq ToSet(s) \ {e}
  BY <1>4, <1>8 DEF ToSet
<1>11. ToSet(s) \ {e} \subseteq ToSet(r)
  BY <1>1, <1>4, <1>6 DEF ToSet
<1>12. ASSUME NEW a, NEW b, Before(r, a, b) PROVE Before(s, a, b) /\ a # e /\ b # e
  BY <1>4, <1>5, <1>8, <1>12 DEF Before
<1>13. ASSUME NEW a, NEW b, Before(s, a, b), a # e, b # e PROVE Before(r, a, b)
  <2>1. PICK m, n \in DOMAIN s : m < n /\ s[m] = a /\ s[n] = b
    BY <1>13 DEF Before
  <2>2. m # p /\ n # p
    BY <1>1, <1>13, <2>1
  <2>3. PICK i \in DOMAIN r : old(i) = m
    BY <1>6, <2>2
  <2>4. PICK j \in DOMAIN r : old(j) = n
    BY <1>6, <2>2
  <2>5. i < j /\ r[i] = a /\ r[j] = b
    BY <1>4, <1>5, <2>1, <2>3, <2>4
  <2> QED
    BY <2>5 DEF Before
<1> QED
  BY <1>2, <1>9, <1>10, <1>11, <1>12, <1>13 DEF r

(* TAILQ_FIRST *)
LEMMA FirstIs ==
    ASSUME NEW s \in Seq(Elems), IsInjective(s)
    PROVE  /\ FirstOf(s) = NoElem => ToSet(s) = {}
           /\ FirstOf(s) # NoElem => FirstOf(s) \in ToSet(s)
           /\ \A a : ~Before(s, a, FirstOf(s))
<1>1. CASE s = <<>>
  BY <1>1 DEF FirstOf, ToSet, Before
<1>2. CASE s # <<>>
  <2>1. Len(s) \in Nat /\ Len(s) # 0 /\ DOMAIN s = 1 .. Len(s)
    BY <1>2
  <2>2. FirstOf(s) = s[1] /\ 1 \in DOMAIN s /\ s[1] # NoElem
    BY <1>2, <2>1, TimerAssumption DEF FirstOf
  <2>3. \A a : ~Before(s, a, s[1])
    BY <2>1, <2>2 DEF Before, IsInjective
  <2> QED
    BY <2>2, <2>3 DEF ToSet
<1> QED
  BY <1>1, <1>2

(* TAILQ_NEXT *)
LEMMA NextIs ==
    ASSUME NEW s \in Seq(Elems), IsInjective(s), NEW e \in ToSet(s)
    PROVE  /\ NextOf(s, e) # NoElem => NextOf(s, e) \in ToSet(s) \ {e}
           /\ NextOf(s, e) = NoElem => \A a \in ToSet(s) : a = e \/ Before(s, a, e)
           /\ NextOf(s, e) # NoElem =>
                 \A a : Before(s, a, NextOf(s, e)) <=> a = e \/ Before(s, a, e)
<1> DEFINE p == Position(s, e)
<1>1. Len(s) \in Nat /\ DOMAIN s = 1 .. Len(s) /\ p \in DOMAIN s /\ s[p] = e
  BY PositionIs
<1> HIDE DEF p
<1>2. CASE p = Len(s)
  <2>1. NextOf(s, e) = NoElem
    BY <1>2 DEF NextOf, p
  <2>2. ASSUME NEW n \in DOMAIN s PROVE s[n] = e \/ Before(s, s[n], e)
    <3>1. n = p \/ n < p
      BY <1>1, <1>2
    <3> QED
      BY <1>1, <3>1 DEF Before
  <2> QED
    BY <2>1, <2>2 DEF ToSet
<1>3. CASE p # Len(s)
  <2>1. NextOf(s, e) = s[p + 1] /\ p + 1 \in DOMAIN s
    BY <1>1, <1>3 DEF NextOf, p
  <2>2. s[p + 1] \in ToSet(s) /\ s[p + 1] # NoElem
    BY <2>1, TimerAssumption DEF ToSet
  <2>3. s[p + 1] # e
    BY <1>1, <2>1 DEF IsInjective
  <2>4. ASSUME NEW a, Before(s, a, s[p + 1]) PROVE a = e \/ Before(s, a, e)
    <3>1. PICK m, n \in DOMAIN s : m < n /\ s[m] = a /\ s[n] = s[p + 1]
      BY <2>4 DEF Before
    <3>2. n = p + 1
      BY <2>1, <3>1 DEF IsInjective
    <3>3. m = p \/ m < p
      BY <1>1, <3>1, <3>2
    <3> QED
      BY <1>1, <3>1, <3>3 DEF Before
  <2>5. ASSUME NEW a, a = e \/ Before(s, a, e) PROVE Before(s, a, s[p + 1])
    <3>1. CASE a = e
      BY <1>1, <2>1, <3>1 DEF Before
    <3>2. CASE Before(s, a, e)
      <4>1. PICK m, n \in DOMAIN s : m < n /\ s[m] = a /\ s[n] = e
        BY <3>2 DEF Before
      <4>2. n = p
        BY <1>1, <4>1 DEF IsInjective
      <4>3. m < p + 1
        BY <1>1, <4>1, <4>2
      <4> QED
        BY <2>1, <4>1, <4>3 DEF Before
    <3> QED
      BY <2>5, <3>1, <3>2
  <2> QED
    BY <2>1, <2>2, <2>3, <2>4, <2>5
<1> QED
  BY <1>2, <1>3
-----------------------------------------------------------------------------
(* Timers with one element more or less *)

LEMMA PutOnQueue ==
    ASSUME NEW el, NEW q, NEW ss, Well("queue", el, q, ss),
           NEW e \in Elems, e \notin ToSet(q), NEW x \in Fields
    PROVE  Well("queue", [el EXCEPT ![e] = x], Append(q, e), ss)
<1> DEFINE f == [el EXCEPT ![e] = x]
           r == Append(q, e)
<1>1. /\ f \in [Elems -> Fields \cup {NoElem}] /\ f[e] = x
      /\ \A d \in Elems : d # e => f[d] = el[d]
  BY DEF Well
<1>2. r \in Seq(Elems) /\ IsInjective(r) /\ ToSet(r) = ToSet(q) \cup {e}
  BY AppendIs DEF Well
<1>3. x # NoElem
  BY SizesAre
<1> HIDE DEF f, r
<1>4. ToSet(r) \subseteq Given(f)
  BY <1>1, <1>2, <1>3 DEF Well, Given
<1>5. Well("queue", f, r, ss)
  BY <1>1, <1>2, <1>4 DEF Well
<1> QED
  BY <1>5 DEF f, r

LEMMA PutOnSpoke ==
    ASSUME NEW el, NEW q, NEW ss, Well("wheel", el, q, ss),
           NEW e \in Elems, \A s \in Spokes : e \notin ToSet(ss[s]), NEW x \in Fields
    PROVE  Well("wheel", [el EXCEPT ![e] = x], q,
                [ss EXCEPT ![x.cursor] = Append(@, e)])
<1> DEFINE f == [el EXCEPT ![e] = x]
           c == x.cursor
           r == Append(ss[c], e)
           ts == [ss EXCEPT ![c] = r]
<1>1. /\ f \in [Elems -> Fields \cup {NoElem}] /\ f[e] = x
      /\ \A d \in Elems : d # e => f[d] = el[d]
  BY DEF Well
<1>2. c \in Spokes
  BY DEF Fields
<1> HIDE DEF c
<1>3. r \in Seq(Elems) /\ IsInjective(r) /\ ToSet(r) = ToSet(ss[c]) \cup {e}
  BY <1>2, AppendIs DEF Well
<1>4. x # NoElem
  BY SizesAre
<1> HIDE DEF f, r
<1>5. /\ ts \in [Spokes -> Seq(Elems)] /\ ts[c] = r
      /\ \A s \in Spokes : s # c => ts[s] = ss[s]
  BY <1>2, <1>3 DEF Well
<1> HIDE DEF ts
<1>6. Given(f) = Given(el) \cup {e} /\ \A s \in Spokes : \A d \in ToSet(ss[s]) : d # e
  BY <1>1, <1>4 DEF Given
<1>7. ASSUME NEW s \in Spokes
      PROVE  /\ IsInjective(ts[s])
             /\ \A d \in ToSet(ts[s]) : d \in Given(f) /\ f[d].cursor = s
  <2>1. CASE s = c
    <3>1. \A d \in ToSet(ss[c]) : d \in Given(el) /\ el[d].cursor = c
      BY <1>2 DEF Well
    <3>2. \A d \in ToSet(ss[c]) : d \in Elems /\ d # e
      BY <1>2, <1>6, <3>1 DEF Given
    <3>3. f[e].cursor = c
      BY <1>1 DEF c
    <3> QED
      BY <1>1, <1>3, <1>5, <1>6, <2>1, <3>1, <3>2, <3>3
  <2>2. CASE s # c
    <3>1. \A d \in ToSet(ss[s]) : d \in Given(el) /\ el[d].cursor = s
      BY DEF Well
    <3>2. \A d \in ToSet(ss[s]) : d \in Elems /\ d # e
      BY <1>6, <3>1 DEF Given
    <3> QED
      BY <1>1, <1>5, <1>6, <2>2, <3>1, <3>2 DEF Well
  <2> QED
    BY <2>1, <2>2
<1>8. ASSUME NEW d \in Given(f) PROVE d \in ToSet(ts[f[d].cursor])
  <2>1. CASE d = e
    BY <1>1, <1>3, <1>5, <2>1 DEF c
  <2>2. CASE d # e
    <3>1. d \in Given(el) /\ f[d] = el[d]
      BY <1>1, <1>6, <2>2 DEF Given
    <3>2. d \in ToSet(ss[el[d].cursor]) /\ el[d].cursor \in Spokes
      BY <3>1, TimerAssumption DEF Well, Given, Fields
    <3> QED
      BY <1>3, <1>5, <3>1, <3>2
  <2> QED
    BY <2>1, <2>2
<1>9. Well("wheel", f, q, ts)
  BY <1>1, <1>5, <1>6, <1>7, <1>8 DEF Well
<1> QED
  BY <1>9 DEF f, ts, r, c

(* A reset that fails takes an element out of the queue and keeps it. *)
LEMMA LeaveQueue ==
    ASSUME NEW el, NEW q, NEW ss, Well("queue", el, q, ss), NEW e \in ToSet(q)
    PROVE  /\ Well("queue", el, Unlinked(q, e), ss)
           /\ ToSet(Unlinked(q, e)) = ToSet(q) \ {e}
<1>1. /\ Unlinked(q, e) \in Seq(Elems) /\ IsInjective(Unlinked(q, e))
      /\ ToSet(Unlinked(q, e)) = ToSet(q) \ {e}
  BY UnlinkedIs DEF Well
<1> QED
  BY <1>1 DEF Well

LEMMA TakeFromQueue ==
    ASSUME NEW el, NEW q, NEW ss, Well("queue", el, q, ss), NEW e \in ToSet(q)
    PROVE  Well("queue", [el EXCEPT ![e] = NoElem], Unlinked(q, e), ss)
<1> DEFINE f == [el EXCEPT ![e] = NoElem]
           r == Unlinked(q, e)
<1>1. e \in Elems
  BY DEF Well, Given
<1>2. f \in [Elems -> Fields \cup {NoElem}] /\ \A d \in Elems : d # e => f[d] = el[d]
  BY <1>1 DEF Well
<1>3. r \in Seq(Elems) /\ IsInjective(r) /\ ToSet(r) = ToSet(q) \ {e}
  BY UnlinkedIs DEF Well
<1> HIDE DEF f, r
<1>4. ToSet(r) \subseteq Given(f)
  BY <1>2, <1>3 DEF Well, Given
<1>5. Well("queue", f, r, ss)
  BY <1>2, <1>3, <1>4 DEF Well
<1> QED
  BY <1>5 DEF f, r

LEMMA TakeFromSpoke ==
    ASSUME NEW el, NEW q, NEW ss, Well("wheel", el, q, ss),
           NEW c \in Spokes, NEW e \in ToSet(ss[c])
    PROVE  /\ Well("wheel", [el EXCEPT ![e] = NoElem], q,
                   [ss EXCEPT ![c] = Unlinked(@, e)])
           /\ e \in Elems /\ el[e] # NoElem /\ el[e].cursor = c
<1> DEFINE f == [el EXCEPT ![e] = NoElem]
           r == Unlinked(ss[c], e)
           ts == [ss EXCEPT ![c] = r]
<1>1. e \in Elems /\ e \in Given(el) /\ el[e] # NoElem /\ el[e].cursor = c
  BY DEF Well, Given
<1>2. /\ f \in [Elems -> Fields \cup {NoElem}] /\ f[e] = NoElem
      /\ \A d \in Elems : d # e => f[d] = el[d]
  BY <1>1 DEF Well
<1>3. r \in Seq(Elems) /\ IsInjective(r) /\ ToSet(r) = ToSet(ss[c]) \ {e}
  BY UnlinkedIs DEF Well
<1> HIDE DEF f, r
<1>4. /\ ts \in [Spokes -> Seq(Elems)] /\ ts[c] = r
      /\ \A s \in Spokes : s # c => ts[s] = ss[s]
  BY <1>3 DEF Well
<1> HIDE DEF ts
<1>5. Given(f) = Given(el) \ {e}
  BY <1>1, <1>2 DEF Given
<1>6. \A s \in Spokes : \A d \in ToSet(ss[s]) :
         d \in Elems /\ d \in Given(el) /\ el[d].cursor = s
  BY DEF Well, Given
<1>7. \A s \in Spokes : s # c => e \notin ToSet(ss[s])
  BY <1>1, <1>6
<1>8. ASSUME NEW s \in Spokes
      PROVE  /\ IsInjective(ts[s])
             /\ \A d \in ToSet(ts[s]) : d \in Given(f) /\ f[d].cursor = s
  <2>1. CASE s = c
    BY <1>2, <1>3, <1>4, <1>5, <1>6, <2>1
  <2>2. CASE s # c
    <3>1. IsInjective(ss[s])
      BY DEF Well
    <3> QED
      BY <1>2, <1>4, <1>5, <1>6, <1>7, <2>2, <3>1
  <2> QED
    BY <2>1, <2>2
<1>9. ASSUME NEW d \in Given(f) PROVE d \in ToSet(ts[f[d].cursor])
  <2>1. d \in Elems /\ d # e /\ d \in Given(el) /\ f[d] = el[d]
    BY <1>2, <1>5 DEF Given
  <2>2. d \in ToSet(ss[el[d].cursor]) /\ el[d].cursor \in Spokes
    BY <2>1 DEF Well, Given, Fields
  <2> QED
    BY <1>3, <1>4, <2>1, <2>2
<1>10. Well("wheel", f, q, ts)
  BY <1>2, <1>4, <1>8, <1>9 DEF Well
<1> QED
  BY <1>1, <1>10 DEF f, ts, r
-----------------------------------------------------------------------------
(* What the steps do *)

LEMMA ExpireIs ==
    ASSUME NEW d \in Int
    PROVE  Expire(d) \in 0 .. (Word - 1)
BY SizesAre DEF Expire

(* What becomes of a number in an int. *)
LEMMA AsIntIs ==
    /\ 0 \in Ints
    /\ \A n \in Int : AsInt(n) \in Ints
    /\ \A n \in Ints : AsInt(n) = n
<1> DEFINE h == IntHalf
           w == 2 * IntHalf
<1>1. h \in Nat /\ h > 0 /\ w \in Nat /\ w > 0 /\ w = h + h
  BY TimerAssumption
<1>2. Ints = (-h) .. (h - 1) /\ \A n : AsInt(n) = ((n + h) % w) - h
  BY DEF Ints, AsInt
<1> HIDE DEF h, w
<1>3. ASSUME NEW n \in Int PROVE AsInt(n) \in Ints
  <2> DEFINE r == (n + h) % w
  <2>1. r \in 0 .. (w - 1)
    BY <1>1
  <2> HIDE DEF r
  <2>2. r - h \in (-h) .. (h - 1)
    BY <1>1, <2>1
  <2> QED
    BY <1>2, <2>2 DEF r
<1>4. ASSUME NEW n \in Ints PROVE AsInt(n) = n
  <2>1. n \in Int /\ n + h \in 0 .. (w - 1)
    BY <1>1, <1>2
  <2>2. (n + h) % w = n + h
    BY <1>1, <2>1, ModSmall
  <2>3. (n + h) - h = n
    BY <1>1, <2>1
  <2> QED
    BY <1>2, <2>2, <2>3
<1>5. 0 \in Ints
  BY <1>1, <1>2
<1> QED
  BY <1>3, <1>4, <1>5

LEMMA ElementIs ==
    ASSUME Typed, NEW t \in Timeouts
    PROVE  /\ Element(t) \in Fields /\ Element(t).due = now + t
           /\ now + t \in Nat /\ Start \in 0 .. (Word - 1)
           /\ type = "queue" => Element(t).early = 0
           /\ type = "wheel" => /\ Element(t).cursor = Cursor(t)
                                /\ Element(t).early = Early(t)
                                /\ Element(t).rotation = AsInt(t \div WheelSize)
<1>1. t \in Nat /\ now \in Nat /\ now + t \in Nat
  BY TimerAssumption, SizesAre DEF Typed
<1>2. Start \in 0 .. (Word - 1)
  BY DEF Typed, Start
<1>3. t \div WheelSize \in Nat
  BY <1>1, SizesAre
<1>4. Cursor(t) \in Spokes
  <2>1. (now - Start) % Word \in Nat /\ t % WheelSize \in Nat
    BY <1>1, <1>2, SizesAre
  <2> DEFINE x == ((now - Start) % Word) + (t % WheelSize)
  <2>2. x \in Nat
    BY <2>1
  <2> HIDE DEF x
  <2>3. x % WheelSize \in 0 .. (WheelSize - 1)
    BY <2>2, SizesAre
  <2> QED
    BY <2>3 DEF Cursor, Spokes, x
<1>5. 0 \in Nat /\ 0 \in Spokes
  BY SizesAre
<1>6. AsInt(t \div WheelSize) \in Ints /\ 0 \in Ints
  BY <1>3, AsIntIs
<1>7. Early(t) \in Int
  <2>1. Behind \in Int
    BY SizesAre DEF Typed, Looking, Checks, Behind, TickCnt
  <2>2. (Behind + (t % WheelSize)) \div WheelSize \in Int
    BY <1>1, <2>1, SizesAre
  <2> QED
    BY <2>2, SizesAre DEF Early
<1> DEFINE x == [due |-> now + t, early |-> Early(t), rotation |-> AsInt(t \div WheelSize),
                 cursor |-> Cursor(t)]
           y == [due |-> now + t, early |-> 0, rotation |-> 0, cursor |-> 0]
<1>8. CASE type = "wheel"
  <2>1. Element(t) = x
    BY <1>8 DEF Element
  <2>2. x \in Fields
    BY <1>1, <1>4, <1>6, <1>7 DEF Fields
  <2> QED
    BY <1>1, <1>2, <1>8, <2>1, <2>2
<1>9. CASE type # "wheel"
  <2>1. Element(t) = y
    BY <1>9 DEF Element
  <2>2. y \in Fields
    BY <1>1, <1>5, <1>6 DEF Fields
  <2> QED
    BY <1>1, <1>2, <1>9, <2>1, <2>2
<1> QED
  BY <1>8, <1>9

(* last_expire_time is that of an element of the queue, if it has one      *)
(* (lines 411-420).                                                        *)
LEMMA ExpireOfLastIs ==
    ASSUME NEW q \in Seq(Elems),
           \A e \in ToSet(q) : elem[e] \in Fields
    PROVE  /\ ExpireOfLast(q) \in 0 .. (Word - 1)
           /\ \/ ExpireOfLast(q) = Minus1
              \/ \E e \in ToSet(q) : ExpireOfLast(q) = Expire(elem[e].due)
<1>1. CASE q = <<>>
  BY <1>1, SizesAre DEF ExpireOfLast
<1>2. CASE q # <<>>
  <2>1. q[Len(q)] \in ToSet(q)
    BY <1>2 DEF ToSet
  <2>2. elem[q[Len(q)]].due \in Int
    BY <2>1 DEF Fields
  <2>3. ExpireOfLast(q) = Expire(elem[q[Len(q)]].due)
    BY <1>2 DEF ExpireOfLast
  <2> QED
    BY <2>1, <2>2, <2>3, ExpireIs
<1> QED
  BY <1>1, <1>2

LEMMA GivenAre ==
    ASSUME Typed
    PROVE  /\ Allocated = Given(elem) /\ Allocated \subseteq Elems
           /\ \A e \in Allocated : elem[e] \in Fields
BY DEF Typed, Well, Given, Allocated

(* No check is under way. *)
LEMMA NoCheckIs ==
    /\ NoCheck \in Checks /\ ~NoCheck.running /\ NoCheck.tmp = NoElem
    /\ NoCheck.cbCnt = 0 /\ NoCheck.i = 0
BY DEF NoCheck, Checks

LEMMA ContainsIs ==
    ASSUME NEW s \in Seq(Elems), NEW e
    PROVE  Contains(s, e) <=> e \in ToSet(s)
BY DEF Contains, ToSet

(* An element that is linked is in the queue or on the spoke of its cursor. *)
LEMMA LinkedIs ==
    ASSUME Typed, NEW e \in Elems, Linked(e)
    PROVE  /\ type = "queue" => e \in ToSet(queue)
           /\ type = "wheel" => /\ elem[e].cursor \in Spokes
                                /\ e \in ToSet(spokes[elem[e].cursor])
           /\ elem[e] # NoElem
<1>1. /\ Contains(queue, e) <=> e \in ToSet(queue)
      /\ \A s \in Spokes : Contains(spokes[s], e) <=> e \in ToSet(spokes[s])
  BY ContainsIs DEF Typed, Well
<1> QED
  BY <1>1 DEF Typed, Well, Linked, Given

(* A callback was made and its element freed (lines 327-336, 369-379). *)
LEMMA CheckMoves ==
    ASSUME check \in Checks, NEW m \in Elems \cup {NoElem},
           check' = [check EXCEPT !.cbCnt = CbCntAfter, !.tmp = m]
    PROVE  /\ check' \in Checks /\ check'.tmp = m /\ check'.cbCnt = check.cbCnt + 1
           /\ check'.running = check.running /\ check'.max = check.max
           /\ check'.i = check.i
<1> DEFINE n == CbCntAfter
<1>1. n = check.cbCnt + 1 /\ n \in Nat
  BY DEF Checks, CbCntAfter
<1> HIDE DEF n
<1>2. check' = [check EXCEPT !.cbCnt = n, !.tmp = m]
  BY DEF n
<1> QED
  BY <1>1, <1>2 DEF Checks

LEMMA UnlinkFromQueue ==
    ASSUME Typed, type = "queue", type' = type, check.running,
           NEW q, NEW ss, NEW el, Well("queue", el, q, spokes),
           check.tmp \in ToSet(q), Unlink(q, ss, el)
    PROVE  /\ Well(type', elem', queue', spokes') /\ Looking'
           /\ elem' = [el EXCEPT ![check.tmp] = NoElem]
           /\ queue' = Unlinked(q, check.tmp)
           /\ check'.cbCnt = check.cbCnt + 1 /\ check'.running
           /\ UNCHANGED <<createTime, spokeIndex, lastCheck>>
<1>1. /\ elem' = [el EXCEPT ![check.tmp] = NoElem] /\ queue' = Unlinked(q, check.tmp)
      /\ check' = [check EXCEPT !.cbCnt = CbCntAfter, !.tmp = NextOf(q, check.tmp)]
      /\ UNCHANGED wheelVars
  BY DEF Unlink
<1>2. Well("queue", elem', queue', spokes')
  BY <1>1, TakeFromQueue DEF wheelVars
<1>3. /\ q \in Seq(Elems) /\ IsInjective(q) /\ ToSet(q) \subseteq Elems
      /\ ToSet(queue') = ToSet(q) \ {check.tmp}
  BY <1>1, UnlinkedIs DEF Well, Given
<1> DEFINE m == NextOf(q, check.tmp)
<1>4. m # NoElem => m \in ToSet(queue')
  BY <1>3, NextIs
<1>5. m \in Elems \cup {NoElem}
  BY <1>3, <1>4
<1>6. check \in Checks
  BY DEF Typed, Looking
<1> HIDE DEF m
<1>7. /\ check' \in Checks /\ check'.tmp = m /\ check'.cbCnt = check.cbCnt + 1
      /\ check'.running = check.running
  BY <1>1, <1>5, <1>6, CheckMoves DEF m
<1>8. Looking'
  BY <1>4, <1>7 DEF Looking, Looked
<1> QED
  BY <1>1, <1>2, <1>7, <1>8 DEF wheelVars

LEMMA UnlinkFromSpoke ==
    ASSUME Typed, type = "wheel", type' = type, check.running,
           NEW q, NEW ss, NEW el, Well("wheel", el, queue, ss),
           check.tmp \in ToSet(ss[spokeIndex]), Unlink(q, ss, el)
    PROVE  /\ Well(type', elem', queue', spokes') /\ Looking'
           /\ elem' = [el EXCEPT ![check.tmp] = NoElem]
           /\ spokes' = [ss EXCEPT ![spokeIndex] = Unlinked(@, check.tmp)]
           /\ check'.cbCnt = check.cbCnt + 1 /\ check'.running
           /\ check'.i = check.i /\ check'.max = check.max
           /\ check'.tmp = NextOf(ss[spokeIndex], check.tmp)
           /\ UNCHANGED <<queue, createTime, spokeIndex, lastCheck>>
<1>1. /\ elem' = [el EXCEPT ![check.tmp] = NoElem]
      /\ spokes' = [ss EXCEPT ![spokeIndex] = Unlinked(@, check.tmp)]
      /\ check' = [check EXCEPT !.cbCnt = CbCntAfter,
                                !.tmp = NextOf(ss[spokeIndex], check.tmp)]
      /\ UNCHANGED <<queueVars, createTime, spokeIndex, lastCheck>>
  BY DEF Unlink
<1>2. spokeIndex \in Spokes /\ check \in Checks
  BY DEF Typed, Looking
<1>3. Well("wheel", elem', queue', spokes')
  BY <1>1, <1>2, TakeFromSpoke DEF queueVars
<1> DEFINE s == ss[spokeIndex]
<1>4. /\ s \in Seq(Elems) /\ IsInjective(s) /\ ToSet(s) \subseteq Elems
      /\ ToSet(spokes'[spokeIndex]) = ToSet(s) \ {check.tmp}
  BY <1>1, <1>2, UnlinkedIs DEF Well, Given
<1> DEFINE m == NextOf(s, check.tmp)
<1> HIDE DEF s
<1>5. m # NoElem => m \in ToSet(spokes'[spokeIndex])
  BY <1>4, NextIs DEF s
<1>6. m \in Elems \cup {NoElem}
  BY <1>4, <1>5
<1> HIDE DEF m
<1>7. /\ check' \in Checks /\ check'.tmp = m /\ check'.cbCnt = check.cbCnt + 1
      /\ check'.running = check.running /\ check'.i = check.i /\ check'.max = check.max
  BY <1>1, <1>2, <1>6, CheckMoves DEF m, s
<1>8. Looking'
  BY <1>1, <1>5, <1>7 DEF Looking, Looked
<1> QED
  BY <1>1, <1>3, <1>7, <1>8 DEF queueVars, m, s
-----------------------------------------------------------------------------
(* Callbacks *)

LEMMA ReadyIs ==
    ASSUME Typed, Ready
    PROVE  /\ check.running /\ check.tmp # NoElem /\ check.tmp \in Elems
           /\ type \in {"queue", "wheel"}
           /\ type = "queue" => check.tmp \in ToSet(queue)
           /\ type = "wheel" => check.tmp \in ToSet(spokes[spokeIndex])
           /\ elem[check.tmp] # NoElem
<1>1. check.running /\ check.tmp # NoElem /\ type \in {"queue", "wheel"}
  BY DEF Ready, AtElement
<1>2. check.tmp \in ToSet(Looked) /\ check.tmp \in Elems
  BY <1>1 DEF Typed, Looking, Checks
<1> QED
  BY <1>1, <1>2 DEF Typed, Looked, Well, Given

LEMMA FreshIs ==
    ASSUME Typed, NEW e \in Elems, elem[e] = NoElem
    PROVE  e \notin ToSet(queue) /\ \A s \in Spokes : e \notin ToSet(spokes[s])
BY DEF Typed, Well, Given

LEMMA AfterFire ==
    ASSUME Typed, Fire
    PROVE  /\ Well(type', elem', queue', spokes') /\ Looking'
           /\ elem' = [elem EXCEPT ![check.tmp] = NoElem]
<1>1. /\ type' = type /\ Unlink(queue, spokes, elem) /\ Well(type, elem, queue, spokes)
      /\ check.running /\ type \in {"queue", "wheel"}
      /\ type = "queue" => check.tmp \in ToSet(queue)
      /\ type = "wheel" => check.tmp \in ToSet(spokes[spokeIndex])
  BY ReadyIs DEF Fire, Typed
<1>2. CASE type = "queue"
  BY <1>1, <1>2, UnlinkFromQueue
<1>3. CASE type = "wheel"
  BY <1>1, <1>3, UnlinkFromSpoke
<1> QED
  BY <1>1, <1>2, <1>3

LEMMA AfterFireAndAdd ==
    ASSUME Typed, NEW e \in Elems, NEW t \in Timeouts, FireAndAdd(e, t)
    PROVE  /\ Well(type', elem', queue', spokes') /\ Looking'
           /\ elem' = [elem EXCEPT ![e] = Element(t), ![check.tmp] = NoElem]
           /\ e # check.tmp
<1> DEFINE q == Append(queue, e)
           ss == [spokes EXCEPT ![Cursor(t)] = Append(@, e)]
           el == [elem EXCEPT ![e] = Element(t)]
<1>1. /\ type' = type /\ Unlink(q, ss, el) /\ Well(type, elem, queue, spokes)
      /\ check.running /\ type \in {"queue", "wheel"}
      /\ type = "queue" => check.tmp \in ToSet(queue)
      /\ type = "wheel" => check.tmp \in ToSet(spokes[spokeIndex])
  BY ReadyIs DEF FireAndAdd, Typed
<1>2. e \notin ToSet(queue) /\ \A s \in Spokes : e \notin ToSet(spokes[s])
  BY FreshIs DEF FireAndAdd
<1>3. e # check.tmp
  BY ReadyIs DEF FireAndAdd
<1>4. Element(t) \in Fields /\ (type = "wheel" => Element(t).cursor = Cursor(t))
  BY ElementIs
<1>5. spokeIndex \in Spokes
  BY DEF Typed
<1>6. CASE type = "queue"
  <2>1. Well("queue", el, q, spokes)
    BY <1>1, <1>2, <1>4, <1>6, PutOnQueue
  <2>2. ToSet(q) = ToSet(queue) \cup {e}
    BY <1>1, <1>2, AppendIs DEF Well
  <2>3. check.tmp \in ToSet(q)
    BY <1>1, <1>6, <2>2
  <2> HIDE DEF q, ss, el
  <2>4. /\ Well(type', elem', queue', spokes') /\ Looking'
        /\ elem' = [el EXCEPT ![check.tmp] = NoElem]
    BY <1>1, <1>6, <2>1, <2>3, UnlinkFromQueue
  <2> QED
    BY <1>3, <2>4 DEF el
<1>7. CASE type = "wheel"
  <2>1. Well("wheel", el, queue, ss)
    <3>1. ss = [spokes EXCEPT ![Element(t).cursor] = Append(@, e)]
      BY <1>4, <1>7
    <3> QED
      BY <1>1, <1>2, <1>4, <1>7, <3>1, PutOnSpoke
  <2>2. check.tmp \in ToSet(ss[spokeIndex])
    <3>1. CASE Cursor(t) = spokeIndex
      <4>1. ss[spokeIndex] = Append(spokes[spokeIndex], e)
        BY <1>1, <1>5, <3>1 DEF Well
      <4>2. ToSet(Append(spokes[spokeIndex], e)) = ToSet(spokes[spokeIndex]) \cup {e}
        BY <1>1, <1>2, <1>5, AppendIs DEF Well
      <4> QED
        BY <1>1, <1>7, <4>1, <4>2
    <3>2. CASE Cursor(t) # spokeIndex
      <4>1. ss[spokeIndex] = spokes[spokeIndex]
        BY <1>1, <1>5, <3>2 DEF Well
      <4> QED
        BY <1>1, <1>7, <4>1
    <3> QED
      BY <3>1, <3>2
  <2> HIDE DEF q, ss, el
  <2>3. /\ Well(type', elem', queue', spokes') /\ Looking'
        /\ elem' = [el EXCEPT ![check.tmp] = NoElem]
    BY <1>1, <1>7, <2>1, <2>2, UnlinkFromSpoke
  <2> QED
    BY <1>3, <2>3 DEF el
<1> QED
  BY <1>1, <1>6, <1>7

LEMMA AfterFireAndDel ==
    ASSUME Typed, NEW e \in Elems, FireAndDel(e)
    PROVE  /\ Well(type', elem', queue', spokes') /\ Looking'
           /\ elem' = [elem EXCEPT ![e] = NoElem, ![check.tmp] = NoElem]
           /\ lastExpire' \in 0 .. (Word - 1)
           /\ elem[e] # NoElem
<1> DEFINE q == Unlinked(queue, e)
           c == elem[e].cursor
           ss == [spokes EXCEPT ![c] = Unlinked(@, e)]
           el == [elem EXCEPT ![e] = NoElem]
<1>1. /\ type' = type /\ Unlink(q, ss, el) /\ Well(type, elem, queue, spokes)
      /\ check.running /\ type \in {"queue", "wheel"} /\ e # check.tmp
      /\ type = "queue" => check.tmp \in ToSet(queue)
      /\ type = "wheel" => check.tmp \in ToSet(spokes[spokeIndex])
  BY ReadyIs DEF FireAndDel, Typed, OffSpoke
<1>2. /\ type = "queue" => e \in ToSet(queue)
      /\ type = "wheel" => c \in Spokes /\ e \in ToSet(spokes[c])
      /\ elem[e] # NoElem
  BY LinkedIs DEF FireAndDel
<1>3. spokeIndex \in Spokes
  BY DEF Typed
<1>4. CASE type = "queue"
  <2>1. Well("queue", el, q, spokes)
    BY <1>1, <1>2, <1>4, TakeFromQueue
  <2>2. q \in Seq(Elems) /\ ToSet(q) = ToSet(queue) \ {e}
    BY <1>1, <1>2, <1>4, UnlinkedIs DEF Well
  <2>3. check.tmp \in ToSet(q) /\ \A d \in ToSet(q) : elem[d] \in Fields
    BY <1>1, <1>4, <2>2 DEF Well, Given
  <2>4. lastExpire' = ExpireOfLast(q)
    BY <1>4 DEF FireAndDel
  <2> HIDE DEF q, ss, el
  <2>5. /\ Well(type', elem', queue', spokes') /\ Looking'
        /\ elem' = [el EXCEPT ![check.tmp] = NoElem]
    BY <1>1, <1>4, <2>1, <2>3, UnlinkFromQueue
  <2>6. lastExpire' \in 0 .. (Word - 1)
    BY <2>2, <2>3, <2>4, ExpireOfLastIs
  <2> QED
    BY <1>2, <2>5, <2>6 DEF el
<1>5. CASE type = "wheel"
  <2>1. Well("wheel", el, queue, ss)
    BY <1>1, <1>2, <1>5, TakeFromSpoke
  <2>2. check.tmp \in ToSet(ss[spokeIndex])
    <3>1. CASE c = spokeIndex
      <4>1. ss[spokeIndex] = Unlinked(spokes[spokeIndex], e)
        BY <1>1, <1>3, <3>1 DEF Well
      <4>2. ToSet(Unlinked(spokes[spokeIndex], e)) = ToSet(spokes[spokeIndex]) \ {e}
        BY <1>1, <1>2, <1>3, <1>5, <3>1, UnlinkedIs DEF Well
      <4> QED
        BY <1>1, <1>5, <4>1, <4>2
    <3>2. CASE c # spokeIndex
      <4>1. ss[spokeIndex] = spokes[spokeIndex]
        BY <1>1, <1>3, <3>2 DEF Well
      <4> QED
        BY <1>1, <1>5, <4>1
    <3> QED
      BY <3>1, <3>2
  <2>3. lastExpire' = lastExpire
    BY <1>5 DEF FireAndDel
  <2> HIDE DEF q, ss, el
  <2>4. /\ Well(type', elem', queue', spokes') /\ Looking'
        /\ elem' = [el EXCEPT ![check.tmp] = NoElem]
    BY <1>1, <1>5, <2>1, <2>2, UnlinkFromSpoke
  <2> QED
    BY <1>2, <2>3, <2>4 DEF el, Typed
<1> QED
  BY <1>1, <1>4, <1>5
-----------------------------------------------------------------------------
(* The calls *)

LEMMA EmptyIs ==
    ASSUME NEW ty, NEW el, NEW q, NEW ss, el = [e \in Elems |-> NoElem],
           q = <<>>, ss = [s \in Spokes |-> <<>>]
    PROVE  Well(ty, el, q, ss)
<1>1. IsInjective(<<>>) /\ ToSet(<<>>) = {} /\ <<>> \in Seq(Elems)
  BY DEF IsInjective, ToSet
<1>2. Given(el) = {}
  BY DEF Given
<1>3. \A s \in Spokes : ss[s] = <<>>
  OBVIOUS
<1> QED
  BY <1>1, <1>2, <1>3 DEF Well

LEMMA AfterAdd ==
    ASSUME Typed, NEW e \in Elems, NEW t \in Timeouts, Add(e, t)
    PROVE  /\ Typed'
           /\ \/ elem' = [elem EXCEPT ![e] = Element(t)] /\ elemCnt' = elemCnt + 1
              \/ UNCHANGED <<elem, elemCnt>>
           /\ elem[e] = NoElem
<1>1. check' = NoCheck /\ elem[e] = NoElem /\ UNCHANGED <<now, type>>
  BY DEF Add, Idle, Typed, Looking
<1>2. Looking'
  BY <1>1, NoCheckIs DEF Looking
<1>3. /\ Element(t) \in Fields /\ now + t \in Nat /\ Start \in 0 .. (Word - 1)
      /\ type = "wheel" => Element(t).cursor = Cursor(t)
  BY ElementIs
<1>4. e \notin ToSet(queue) /\ \A s \in Spokes : e \notin ToSet(spokes[s])
  BY <1>1, FreshIs
<1>5. CASE AddToQueue(e, t) /\ elemCnt' = elemCnt + 1
  <2>1. /\ type = "queue" /\ UNCHANGED wheelVars
        /\ elem' = [elem EXCEPT ![e] = Element(t)] /\ queue' = Append(queue, e)
        /\ lastExpire' = Expire(now + t)
    BY <1>5 DEF AddToQueue, OnQueue, QueueAdd
  <2>2. Well(type', elem', queue', spokes')
    BY <1>1, <1>3, <1>4, <2>1, PutOnQueue DEF Typed, wheelVars
  <2>3. lastExpire' \in 0 .. (Word - 1)
    BY <1>3, <2>1, ExpireIs
  <2> QED
    BY <1>1, <1>2, <1>5, <2>1, <2>2, <2>3 DEF Typed, wheelVars
<1>6. CASE AddToWheel(e, t) /\ elemCnt' = elemCnt + 1
  <2>1. /\ type = "wheel" /\ UNCHANGED queueVars
        /\ elem' = [elem EXCEPT ![e] = Element(t)]
        /\ spokes' = [spokes EXCEPT ![Element(t).cursor] = Append(@, e)]
        /\ createTime' = Start
    BY <1>3, <1>6 DEF AddToWheel, OnWheel, WheelAdd
  <2>2. Well(type', elem', queue', spokes')
    BY <1>1, <1>3, <1>4, <2>1, PutOnSpoke DEF Typed, queueVars
  <2>3. spokeIndex' \in Spokes /\ lastCheck' \in 0 .. (Word - 1)
    BY <1>6, SizesAre DEF AddToWheel, Typed
  <2> QED
    BY <1>1, <1>2, <1>3, <1>6, <2>1, <2>2, <2>3 DEF Typed, queueVars
<1>7. CASE AddRefused(t) /\ UNCHANGED elemCnt
  BY <1>1, <1>2, <1>7 DEF AddRefused, OnQueue, wheelVars, Typed
<1> QED
  BY <1>1, <1>5, <1>6, <1>7 DEF Add

LEMMA AfterDel ==
    ASSUME Typed, NEW e \in Elems, Del(e)
    PROVE  Typed' /\ elem[e] # NoElem /\ elem' = [elem EXCEPT ![e] = NoElem]
<1>1. /\ check' = NoCheck /\ elem' = [elem EXCEPT ![e] = NoElem]
      /\ UNCHANGED <<now, type>>
  BY DEF Del, Idle, Typed, Looking
<1>2. Looking'
  BY <1>1, NoCheckIs DEF Looking
<1>3. /\ type = "queue" => e \in ToSet(queue)
      /\ type = "wheel" => /\ elem[e].cursor \in Spokes
                           /\ e \in ToSet(spokes[elem[e].cursor])
      /\ elem[e] # NoElem
  BY LinkedIs DEF Del
<1>4. CASE OnQueue /\ queue' = Unlinked(queue, e) /\ lastExpire' = ExpireOfLast(queue')
  <2>1. type = "queue" /\ UNCHANGED wheelVars
    BY <1>4 DEF OnQueue
  <2>2. Well(type', elem', queue', spokes')
    BY <1>1, <1>3, <1>4, <2>1, TakeFromQueue DEF Typed, wheelVars
  <2>3. queue' \in Seq(Elems) /\ \A d \in ToSet(queue') : elem[d] \in Fields
    BY <1>3, <1>4, <2>1, UnlinkedIs DEF Typed, Well, Given
  <2>4. lastExpire' \in 0 .. (Word - 1)
    BY <1>4, <2>3, ExpireOfLastIs
  <2> QED
    BY <1>1, <1>2, <1>3, <2>1, <2>2, <2>4 DEF Typed, wheelVars
<1>5. CASE /\ OnWheel
           /\ spokes' = [spokes EXCEPT ![elem[e].cursor] = Unlinked(@, e)]
           /\ UNCHANGED <<createTime, spokeIndex, lastCheck>>
  <2>1. type = "wheel" /\ UNCHANGED queueVars
    BY <1>5 DEF OnWheel
  <2>2. Well(type', elem', queue', spokes')
    BY <1>1, <1>3, <1>5, <2>1, TakeFromSpoke DEF Typed, queueVars
  <2> QED
    BY <1>1, <1>2, <1>3, <1>5, <2>1, <2>2 DEF Typed, queueVars
<1> QED
  BY <1>4, <1>5 DEF Del

LEMMA AfterReset ==
    ASSUME Typed, NEW e \in Elems, NEW t \in Timeouts, Reset(e, t)
    PROVE  /\ Typed' /\ elem[e] # NoElem
           /\ \/ elem' = [elem EXCEPT ![e] = Element(t)]
              \/ type = "queue" /\ elem' = elem
<1>1. check' = NoCheck /\ UNCHANGED <<now, type>>
  BY DEF Reset, Idle, Typed, Looking
<1>2. Looking'
  BY <1>1, NoCheckIs DEF Looking
<1>3. /\ type = "queue" => e \in ToSet(queue)
      /\ type = "wheel" => /\ elem[e].cursor \in Spokes
                           /\ e \in ToSet(spokes[elem[e].cursor])
      /\ elem[e] # NoElem
  BY LinkedIs DEF Reset
<1>4. /\ Element(t) \in Fields /\ now + t \in Nat
      /\ type = "wheel" => Element(t).cursor = Cursor(t)
  BY ElementIs
<1>5. CASE OnQueue
  <2> DEFINE q == Unlinked(queue, e)
  <2>1. type = "queue" /\ UNCHANGED wheelVars
    BY <1>5 DEF OnQueue
  <2>2. Well("queue", elem, q, spokes) /\ ToSet(q) = ToSet(queue) \ {e}
    BY <1>3, <2>1, LeaveQueue DEF Typed
  <2>3. \/ QueueAdd(e, t, q, ExpireOfLast(q))
        \/ /\ queue' = q /\ lastExpire' = ExpireOfLast(q) /\ elem' = elem
    BY <1>5, <2>1 DEF Reset, OnWheel
  <2> HIDE DEF q
  <2>4. q \in Seq(Elems) /\ \A d \in ToSet(q) : elem[d] \in Fields
    BY <2>2 DEF Well, Given
  <2>5. CASE QueueAdd(e, t, q, ExpireOfLast(q))
    <3>1. /\ elem' = [elem EXCEPT ![e] = Element(t)] /\ queue' = Append(q, e)
          /\ lastExpire' = Expire(now + t)
      BY <2>5 DEF QueueAdd
    <3>2. Well(type', elem', queue', spokes')
      BY <1>1, <1>4, <2>1, <2>2, <3>1, PutOnQueue DEF wheelVars
    <3>3. lastExpire' \in 0 .. (Word - 1)
      BY <1>4, <3>1, ExpireIs
    <3> QED
      BY <1>1, <1>2, <1>3, <2>1, <3>1, <3>2, <3>3 DEF Typed, wheelVars
  <2>6. CASE queue' = q /\ lastExpire' = ExpireOfLast(q) /\ elem' = elem
    <3>1. Well(type', elem', queue', spokes')
      BY <1>1, <2>1, <2>2, <2>6 DEF wheelVars
    <3>2. lastExpire' \in 0 .. (Word - 1)
      BY <2>4, <2>6, ExpireOfLastIs
    <3> QED
      BY <1>1, <1>2, <1>3, <2>1, <2>6, <3>1, <3>2 DEF Typed, wheelVars
  <2> QED
    BY <2>3, <2>5, <2>6
<1>6. CASE OnWheel
  <2> DEFINE c == elem[e].cursor
             ss == [spokes EXCEPT ![c] = Unlinked(@, e)]
             el == [elem EXCEPT ![e] = NoElem]
  <2>1. type = "wheel" /\ UNCHANGED queueVars
    BY <1>6 DEF OnWheel
  <2>2. /\ elem' = [elem EXCEPT ![e] = Element(t)]
        /\ spokes' = [ss EXCEPT ![Element(t).cursor] = Append(@, e)]
        /\ UNCHANGED <<createTime, spokeIndex, lastCheck>>
    BY <1>4, <1>6, <2>1 DEF Reset, OnQueue, WheelAdd, OffSpoke
  <2>3. Well("wheel", el, queue, ss)
    BY <1>3, <2>1, TakeFromSpoke DEF Typed
  <2>4. el[e] = NoElem /\ elem' = [el EXCEPT ![e] = Element(t)]
    BY <2>2 DEF Typed, Well
  <2> HIDE DEF ss, el
  <2>5. (\A s \in Spokes : e \notin ToSet(ss[s])) /\ ToSet(queue) = {}
    BY <2>3, <2>4 DEF Well, Given
  <2> DEFINE x == Element(t)
  <2>6. x \in Fields /\ elem' = [el EXCEPT ![e] = x]
        /\ spokes' = [ss EXCEPT ![x.cursor] = Append(@, e)]
    BY <1>4, <2>2, <2>4
  <2> HIDE DEF x
  <2>7. Well("wheel", [el EXCEPT ![e] = x], queue, [ss EXCEPT ![x.cursor] = Append(@, e)])
    BY <2>3, <2>5, <2>6, PutOnSpoke
  <2>8. Well(type', elem', queue', spokes')
    BY <1>1, <2>1, <2>6, <2>7 DEF queueVars
  <2> QED
    BY <1>1, <1>2, <1>3, <2>1, <2>2, <2>8 DEF Typed, queueVars
<1> QED
  BY <1>5, <1>6 DEF Reset

(* A check begins with the first element of the queue or the spoke. *)
LEMMA AfterCheck ==
    ASSUME Typed, NEW max \in MaxCbTimes[type], Check(max)
    PROVE  /\ Typed' /\ check'.running /\ check'.max = max /\ check'.cbCnt = 0
           /\ check'.i = 0 /\ ~check.running
           /\ check'.tmp = IF type = "queue" THEN FirstOf(queue)
                           ELSE IF TickCnt > 0 THEN FirstOf(spokes[spokeIndex])
                           ELSE NoElem
<1> DEFINE m == IF type = "queue" THEN FirstOf(queue)
                ELSE IF TickCnt > 0 THEN FirstOf(spokes[spokeIndex]) ELSE NoElem
<1>1. /\ check' = [NoCheck EXCEPT !.running = TRUE, !.max = max, !.tmp = m]
      /\ UNCHANGED <<now, type, elem, queueVars, wheelVars, elemCnt>>
      /\ ~check.running
  BY DEF Check, Idle
<1>2. /\ IsInjective(queue) /\ queue \in Seq(Elems) /\ spokeIndex \in Spokes
      /\ IsInjective(spokes[spokeIndex]) /\ spokes[spokeIndex] \in Seq(Elems)
  BY DEF Typed, Well
<1>3. m # NoElem => m \in ToSet(Looked)
  BY <1>2, FirstIs DEF Looked
<1>4. m \in Elems \cup {NoElem}
  BY <1>3 DEF Looked, Typed, Well, Given
<1>5. max \in Nat
  BY TimerAssumption DEF Typed
<1> HIDE DEF m
<1>6. /\ check' \in Checks /\ check'.running /\ check'.max = max
      /\ check'.cbCnt = 0 /\ check'.i = 0 /\ check'.tmp = m
  <2> DEFINE n == NoCheck
  <2>1. n \in Checks /\ n.cbCnt = 0 /\ n.i = 0
    BY NoCheckIs
  <2>2. check' = [n EXCEPT !.running = TRUE, !.max = max, !.tmp = m]
    BY <1>1
  <2> HIDE DEF n
  <2> QED
    BY <1>4, <1>5, <2>1, <2>2 DEF Checks
<1>7. Looking'
  BY <1>1, <1>3, <1>6 DEF Looking, Looked, queueVars, wheelVars
<1> QED
  BY <1>1, <1>6, <1>7 DEF Typed, queueVars, wheelVars, m

LEMMA AfterPassBy ==
    ASSUME Typed, PassBy
    PROVE  /\ Typed' /\ type = "wheel"
           /\ check.tmp \in ToSet(spokes[spokeIndex])
           /\ elem[check.tmp] \in Fields /\ elem[check.tmp].rotation # 0
           /\ elem'[check.tmp] =
                 [elem[check.tmp] EXCEPT !.rotation = AsInt(elem[check.tmp].rotation - 1)]
           /\ elem'[check.tmp] \in Fields
           /\ \A e \in Elems : e # check.tmp => elem'[e] = elem[e]
           /\ Allocated' = Allocated
           /\ check'.tmp = NextOf(spokes[spokeIndex], check.tmp)
           /\ check'.running /\ check.running /\ check'.i = check.i
           /\ check'.max = check.max /\ check'.cbCnt = check.cbCnt
           /\ UNCHANGED <<now, type, spokes, createTime, spokeIndex, lastCheck, elemCnt>>
<1> DEFINE d == check.tmp
           r == AsInt(elem[d].rotation - 1)
           x == [elem[d] EXCEPT !.rotation = r]
           s == spokes[spokeIndex]
           m == NextOf(s, d)
<1>1. /\ type = "wheel" /\ d # NoElem /\ check.running /\ elem[d].rotation # 0
      /\ elem' = [elem EXCEPT ![d] = x] /\ check' = [check EXCEPT !.tmp = m]
      /\ UNCHANGED <<now, type, queueVars, wheelVars, elemCnt>>
  BY DEF PassBy, AtElement, TurnsLeft, Current
<1>2. d \in ToSet(s) /\ check \in Checks /\ spokeIndex \in Spokes
  BY <1>1 DEF Typed, Looking, Looked
<1>3. s \in Seq(Elems) /\ IsInjective(s) /\ d \in Elems /\ elem[d] \in Fields
  BY <1>2 DEF Typed, Well, Given
<1>4. m # NoElem => m \in ToSet(s) \ {d}
  BY <1>2, <1>3, NextIs
<1>5. m \in Elems \cup {NoElem}
  <2>1. ToSet(s) \subseteq Elems
    BY <1>2 DEF Typed, Well, Given
  <2> QED
    BY <1>4, <2>1
<1>6. r \in Ints
  <2>1. elem[d].rotation - 1 \in Int
    BY <1>3, TimerAssumption DEF Fields, Ints
  <2> QED
    BY <2>1, AsIntIs
<1> HIDE DEF d, s, m, r
<1>7. x \in Fields /\ x.cursor = elem[d].cursor /\ x # NoElem
  BY <1>3, <1>6, SizesAre DEF Fields
<1> HIDE DEF x
<1>8. /\ elem' \in [Elems -> Fields \cup {NoElem}] /\ elem'[d] = x
      /\ \A e \in Elems : e # d => elem'[e] = elem[e]
  BY <1>1, <1>3, <1>7 DEF Typed, Well
<1>9. Given(elem') = Given(elem)
  BY <1>3, <1>7, <1>8, SizesAre DEF Given
<1>10. \A e \in Given(elem) : elem'[e].cursor = elem[e].cursor
  BY <1>7, <1>8 DEF Given
<1>11. Well(type', elem', queue', spokes')
  BY <1>1, <1>8, <1>9, <1>10 DEF Typed, Well, queueVars, wheelVars
<1>12. /\ check' \in Checks /\ check'.tmp = m /\ check'.running
       /\ check'.i = check.i /\ check'.max = check.max /\ check'.cbCnt = check.cbCnt
  BY <1>1, <1>2, <1>5 DEF Checks
<1>13. Looking'
  BY <1>1, <1>4, <1>12 DEF Looking, Looked, queueVars, wheelVars, s
<1>14. Typed'
  BY <1>1, <1>11, <1>13 DEF Typed, queueVars, wheelVars
<1>15. Allocated' = Allocated
  BY <1>9 DEF Allocated, Given
<1> QED
  BY <1>1, <1>2, <1>3, <1>7, <1>8, <1>12, <1>14, <1>15 DEF d, s, m, r, x, wheelVars

LEMMA AfterTurn ==
    ASSUME Typed, Turn
    PROVE  /\ Typed' /\ type = "wheel" /\ check.tmp = NoElem /\ check.i < TickCnt
           /\ spokeIndex' = NextSpoke /\ check'.i = check.i + 1
           /\ check'.tmp = IF check.i + 1 < TickCnt THEN FirstOf(spokes[NextSpoke])
                           ELSE NoElem
           /\ check'.running /\ check.running
           /\ check'.max = check.max /\ check'.cbCnt = check.cbCnt
           /\ UNCHANGED <<now, type, elem, spokes, createTime, lastCheck, elemCnt>>
<1> DEFINE j == check.i + 1
           m == IF j < TickCnt THEN FirstOf(spokes[NextSpoke]) ELSE NoElem
<1>1. /\ type = "wheel" /\ check.running /\ check.tmp = NoElem /\ check.i < TickCnt
      /\ spokeIndex' = NextSpoke /\ check' = [check EXCEPT !.i = j, !.tmp = m]
      /\ UNCHANGED <<now, type, elem, queueVars, spokes, createTime, lastCheck, elemCnt>>
  BY DEF Turn
<1>2. NextSpoke \in Spokes
  <2>1. spokeIndex + 1 \in Nat
    BY DEF Typed, Spokes
  <2> QED
    BY <2>1, SizesAre DEF NextSpoke, Spokes
<1>3. spokes[NextSpoke] \in Seq(Elems) /\ IsInjective(spokes[NextSpoke])
  BY <1>2 DEF Typed, Well
<1>4. m # NoElem => m \in ToSet(spokes[NextSpoke])
  BY <1>3, FirstIs
<1>5. m \in Elems \cup {NoElem}
  BY <1>2, <1>4 DEF Typed, Well, Given
<1>6. j \in Nat /\ check \in Checks
  BY DEF Typed, Looking, Checks
<1> HIDE DEF j, m
<1>7. /\ check' \in Checks /\ check'.tmp = m /\ check'.i = j /\ check'.running
      /\ check'.max = check.max /\ check'.cbCnt = check.cbCnt
  BY <1>1, <1>5, <1>6 DEF Checks
<1>8. Looking'
  BY <1>1, <1>4, <1>7 DEF Looking, Looked
<1> QED
  BY <1>1, <1>2, <1>7, <1>8 DEF Typed, queueVars, j, m

LEMMA AfterReturn ==
    ASSUME Typed, Return
    PROVE  /\ Typed' /\ check' = NoCheck /\ check.running
           /\ lastCheck' = IF type = "wheel" THEN (now - createTime) % Word ELSE lastCheck
           /\ UNCHANGED <<now, type, elem, queue, lastExpire, spokes, createTime,
                          spokeIndex, elemCnt>>
<1>1. /\ check' = NoCheck /\ check.running
      /\ lastCheck' = IF type = "wheel" THEN (now - createTime) % Word ELSE lastCheck
      /\ UNCHANGED <<now, type, elem, queue, lastExpire, spokes, createTime,
                     spokeIndex, elemCnt>>
  BY DEF Return, queueVars
<1>2. (now - createTime) % Word \in 0 .. (Word - 1)
  BY SizesAre DEF Typed
<1>3. Looking'
  BY <1>1, NoCheckIs DEF Looking
<1> QED
  BY <1>1, <1>2, <1>3 DEF Typed
-----------------------------------------------------------------------------
(* Types *)

(* What malloc has given out after each step. *)
LEMMA GivenAdd ==
    ASSUME NEW f \in [Elems -> Fields \cup {NoElem}], NEW e \in Elems, NEW x \in Fields
    PROVE  Given([f EXCEPT ![e] = x]) = Given(f) \cup {e}
BY SizesAre DEF Given

LEMMA GivenDel ==
    ASSUME NEW f \in [Elems -> Fields \cup {NoElem}], NEW e \in Elems
    PROVE  Given([f EXCEPT ![e] = NoElem]) = Given(f) \ {e}
BY SizesAre DEF Given

LEMMA InitTyped ==
    ASSUME Init
    PROVE  Typed /\ Allocated = {} /\ lastExpire = Minus1 /\ elemCnt = 0
<1>1. Well(type, elem, queue, spokes)
  BY EmptyIs DEF Init
<1>2. Looking
  BY NoCheckIs DEF Init, Looking
<1>3. now \in 0 .. (Word - 1)
  BY SizesAre DEF Init
<1>4. Allocated = {}
  BY DEF Init, Allocated
<1> QED
  BY <1>1, <1>2, <1>3, <1>4, SizesAre DEF Init, Typed

LEMMA AfterRecreate ==
    ASSUME Typed, Recreate
    PROVE  /\ Typed' /\ Allocated' = {} /\ elemCnt' = 0
           /\ lastExpire' = Minus1 /\ ~check'.running
<1>1. check' = NoCheck
  BY DEF Recreate, Idle, Typed, Looking
<1>2. Looking'
  BY <1>1, NoCheckIs DEF Looking
<1>3. Well(type', elem', queue', spokes')
  BY EmptyIs DEF Recreate
<1>4. Allocated' = {}
  BY DEF Recreate, Allocated
<1> QED
  BY <1>1, <1>2, <1>3, <1>4, SizesAre, NoCheckIs DEF Recreate, Typed

LEMMA AfterTick ==
    ASSUME Typed, Tick
    PROVE  Typed' /\ now' = now + 1
<1>1. now' \in 0 .. (Word - 1)
  BY SizesAre DEF Tick, Typed
<1> QED
  BY <1>1 DEF Tick, Typed, Looking, Looked, queueVars, wheelVars

LEMMA StepCases ==
    ASSUME [Next]_vars
    PROVE  \/ PassBy \/ Fire \/ Turn \/ Return \/ Tick \/ Recreate
           \/ \E max \in MaxCbTimes[type] : Check(max)
           \/ \E e \in Elems : Del(e) \/ FireAndDel(e)
           \/ \E e \in Elems, x \in Timeouts : Add(e, x) \/ Reset(e, x) \/ FireAndAdd(e, x)
           \/ UNCHANGED vars
BY Zenon DEF Next, Step

LEMMA TypedKept ==
    ASSUME Typed, [Next]_vars
    PROVE  Typed'
<1>1. CASE Fire
  <2>1. UNCHANGED <<now, type, lastExpire>> /\ Unlink(queue, spokes, elem)
    BY <1>1 DEF Fire
  <2>2. UNCHANGED <<createTime, spokeIndex, lastCheck>>
    BY <2>1 DEF Unlink, wheelVars
  <2> QED
    BY <1>1, <2>1, <2>2, AfterFire DEF Typed
<1>2. ASSUME NEW e \in Elems, NEW t \in Timeouts, FireAndAdd(e, t) PROVE Typed'
  <2>1. /\ UNCHANGED <<now, type>>
        /\ lastExpire' = IF type = "queue" THEN Expire(now + t) ELSE lastExpire
        /\ UNCHANGED <<createTime, spokeIndex, lastCheck>>
    BY <1>2 DEF FireAndAdd, Unlink, wheelVars
  <2>2. Expire(now + t) \in 0 .. (Word - 1)
    BY ElementIs, ExpireIs
  <2> QED
    BY <1>2, <2>1, <2>2, AfterFireAndAdd DEF Typed
<1>3. ASSUME NEW e \in Elems, FireAndDel(e) PROVE Typed'
  <2>1. UNCHANGED <<now, type, createTime, spokeIndex, lastCheck>>
    BY <1>3 DEF FireAndDel, Unlink, wheelVars
  <2> QED
    BY <1>3, <2>1, AfterFireAndDel DEF Typed
<1>4. CASE UNCHANGED vars
  BY <1>4 DEF vars, queueVars, wheelVars, Typed, Looking, Looked
<1>5. CASE PassBy \/ Turn \/ Return \/ Tick \/ Recreate
  BY <1>5, AfterPassBy, AfterTurn, AfterReturn, AfterTick, AfterRecreate
<1>6. ASSUME NEW max \in MaxCbTimes[type], Check(max) PROVE Typed'
  BY <1>6, AfterCheck
<1>7. ASSUME NEW e \in Elems, Del(e) PROVE Typed'
  BY <1>7, AfterDel
<1>8. ASSUME NEW e \in Elems, NEW t \in Timeouts, Add(e, t) \/ Reset(e, t) PROVE Typed'
  BY <1>8, AfterAdd, AfterReset
<1> QED
  BY <1>1, <1>2, <1>3, <1>4, <1>5, <1>6, <1>7, <1>8, StepCases, Zenon

(* What malloc has given out, and its number, change together.  *)
LEMMA AllocatedMoves ==
    ASSUME Typed, [Next]_vars
    PROVE  \/ Allocated' = Allocated /\ elemCnt' = elemCnt
           \/ Allocated' = {} /\ elemCnt' = 0
           \/ \E e \in Elems \ Allocated :
                 Allocated' = Allocated \cup {e} /\ elemCnt' = elemCnt + 1
           \/ \E e \in Allocated :
                 Allocated' = Allocated \ {e} /\ elemCnt' = elemCnt - 1
           \/ \E e \in Elems \ Allocated, d \in Allocated :
                 Allocated' = (Allocated \cup {e}) \ {d} /\ elemCnt' = elemCnt
           \/ \E e, d \in Allocated :
                 e # d /\ Allocated' = (Allocated \ {e}) \ {d} /\ elemCnt' = elemCnt - 2
<1> DEFINE Goal == \/ Allocated' = Allocated /\ elemCnt' = elemCnt
                   \/ Allocated' = {} /\ elemCnt' = 0
                   \/ \E e \in Elems \ Allocated :
                         Allocated' = Allocated \cup {e} /\ elemCnt' = elemCnt + 1
                   \/ \E e \in Allocated :
                         Allocated' = Allocated \ {e} /\ elemCnt' = elemCnt - 1
                   \/ \E e \in Elems \ Allocated, d \in Allocated :
                         Allocated' = (Allocated \cup {e}) \ {d} /\ elemCnt' = elemCnt
                   \/ \E e, d \in Allocated :
                         e # d /\ Allocated' = (Allocated \ {e}) \ {d} /\ elemCnt' = elemCnt - 2
<1>1. /\ elem \in [Elems -> Fields \cup {NoElem}] /\ Allocated = Given(elem)
      /\ Allocated' = Given(elem') /\ \A e \in Elems : e \in Allocated <=> elem[e] # NoElem
  BY DEF Typed, Well, Given, Allocated
<1>2. ASSUME Fire PROVE Goal
  <2>1. elem' = [elem EXCEPT ![check.tmp] = NoElem] /\ elemCnt' = elemCnt - 1
    BY <1>2, AfterFire DEF Fire
  <2>2. check.tmp \in Allocated
    BY <1>1, <1>2, ReadyIs DEF Fire
  <2> QED
    BY <1>1, <2>1, <2>2, GivenDel DEF Given
<1>3. ASSUME NEW e \in Elems, NEW t \in Timeouts, FireAndAdd(e, t) PROVE Goal
  <2> DEFINE d == check.tmp
             f == [elem EXCEPT ![e] = Element(t)]
  <2>1. /\ elem' = [elem EXCEPT ![e] = Element(t), ![d] = NoElem]
        /\ elemCnt' = elemCnt /\ elem[e] = NoElem /\ e # d
    BY <1>3, AfterFireAndAdd DEF FireAndAdd
  <2>2. d \in Allocated /\ e \notin Allocated /\ d \in Elems
    BY <1>1, <1>3, <2>1, ReadyIs DEF FireAndAdd
  <2>3. Given(f) = Given(elem) \cup {e} /\ f \in [Elems -> Fields \cup {NoElem}]
    BY <1>1, ElementIs, GivenAdd
  <2>4. elem' = [f EXCEPT ![d] = NoElem]
    BY <2>1
  <2> HIDE DEF f, d
  <2>5. Given(elem') = Given(f) \ {d}
    BY <2>2, <2>3, <2>4, GivenDel
  <2> QED
    BY <1>1, <2>1, <2>2, <2>3, <2>5
<1>4. ASSUME NEW e \in Elems, FireAndDel(e) PROVE Goal
  <2> DEFINE d == check.tmp
             f == [elem EXCEPT ![e] = NoElem]
  <2>1. /\ elem' = [elem EXCEPT ![e] = NoElem, ![d] = NoElem]
        /\ elemCnt' = elemCnt - 2 /\ elem[e] # NoElem /\ e # d
    BY <1>4, AfterFireAndDel DEF FireAndDel
  <2>2. d \in Allocated /\ e \in Allocated /\ d \in Elems
    BY <1>1, <1>4, <2>1, ReadyIs DEF FireAndDel
  <2>3. Given(f) = Given(elem) \ {e} /\ f \in [Elems -> Fields \cup {NoElem}]
    BY <1>1, GivenDel
  <2>4. elem' = [f EXCEPT ![d] = NoElem]
    BY <2>1
  <2> HIDE DEF f, d
  <2>5. Given(elem') = Given(f) \ {d}
    BY <2>2, <2>3, <2>4, GivenDel
  <2> QED
    BY <1>1, <2>1, <2>2, <2>3, <2>5
<1>5. ASSUME PassBy \/ Turn \/ Return \/ Tick \/ Recreate \/ UNCHANGED vars
      PROVE  Goal
  <2>1. CASE PassBy
    BY <2>1, AfterPassBy
  <2>2. CASE Turn \/ Return \/ Tick \/ UNCHANGED vars
    BY <2>2 DEF Turn, Return, Tick, vars, Allocated
  <2> QED
    BY <1>5, <2>1, <2>2, AfterRecreate
<1>6. ASSUME NEW max \in MaxCbTimes[type], Check(max) PROVE Goal
  BY <1>6 DEF Check, Allocated
<1>7. ASSUME NEW e \in Elems, Del(e) PROVE Goal
  <2>1. elem[e] # NoElem /\ elem' = [elem EXCEPT ![e] = NoElem] /\ elemCnt' = elemCnt - 1
    BY <1>7, AfterDel DEF Del
  <2>2. Given(elem') = Given(elem) \ {e} /\ e \in Allocated
    BY <1>1, <2>1, GivenDel
  <2> QED
    BY <1>1, <2>1, <2>2
<1>8. ASSUME NEW e \in Elems, NEW t \in Timeouts, Add(e, t) PROVE Goal
  <2>1. CASE elem' = [elem EXCEPT ![e] = Element(t)] /\ elemCnt' = elemCnt + 1
    <3>1. Given(elem') = Given(elem) \cup {e} /\ e \notin Allocated
      BY <1>1, <1>8, <2>1, ElementIs, GivenAdd DEF Add
    <3> QED
      BY <1>1, <2>1, <3>1
  <2>2. CASE UNCHANGED <<elem, elemCnt>>
    BY <1>1, <2>2 DEF Given
  <2> QED
    BY <1>8, <2>1, <2>2, AfterAdd
<1>9. ASSUME NEW e \in Elems, NEW t \in Timeouts, Reset(e, t) PROVE Goal
  <2>1. elem[e] # NoElem /\ elemCnt' = elemCnt
    BY <1>9, AfterReset DEF Reset
  <2>2. CASE elem' = [elem EXCEPT ![e] = Element(t)]
    <3>1. Given(elem') = Given(elem) \cup {e} /\ e \in Allocated
      BY <1>1, <2>1, <2>2, ElementIs, GivenAdd
    <3> QED
      BY <1>1, <2>1, <3>1
  <2>3. CASE elem' = elem
    BY <1>1, <2>1, <2>3 DEF Given
  <2> QED
    BY <1>9, <2>2, <2>3, AfterReset
<1> HIDE DEF Goal
<1>10. Goal
  BY <1>2, <1>3, <1>4, <1>5, <1>6, <1>7, <1>8, <1>9, StepCases, Zenon
<1> QED
  BY <1>10 DEF Goal

LEMMA CountedKept ==
    ASSUME IsFiniteSet(Elems), Typed, Counted, [Next]_vars
    PROVE  Counted'
<1>1. IsFiniteSet(Allocated) /\ Allocated \subseteq Elems /\ elemCnt = Cardinality(Allocated)
  BY FS_Subset, GivenAre DEF Counted
<1>2. ASSUME NEW e \in Elems
      PROVE  /\ IsFiniteSet(Allocated \cup {e}) /\ IsFiniteSet(Allocated \ {e})
             /\ e \notin Allocated => Cardinality(Allocated \cup {e}) = elemCnt + 1
             /\ e \in Allocated => Cardinality(Allocated \ {e}) = elemCnt - 1
  BY <1>1, FS_AddElement, FS_RemoveElement
<1>3. elemCnt \in Nat
  BY <1>1, FS_CardinalityType
<1>4. CASE \E e \in Elems \ Allocated, d \in Allocated :
              Allocated' = (Allocated \cup {e}) \ {d} /\ elemCnt' = elemCnt
  <2>1. PICK e \in Elems \ Allocated, d \in Allocated :
              Allocated' = (Allocated \cup {e}) \ {d} /\ elemCnt' = elemCnt
    BY <1>4
  <2> DEFINE S == Allocated \cup {e}
  <2>2. IsFiniteSet(S) /\ Cardinality(S) = elemCnt + 1 /\ d \in S
    BY <1>2
  <2> HIDE DEF S
  <2>3. Cardinality(S \ {d}) = Cardinality(S) - 1
    BY <2>2, FS_RemoveElement
  <2> QED
    BY <1>3, <2>1, <2>2, <2>3 DEF S, Counted
<1>5. CASE \E e, d \in Allocated :
              e # d /\ Allocated' = (Allocated \ {e}) \ {d} /\ elemCnt' = elemCnt - 2
  <2>1. PICK e, d \in Allocated :
              e # d /\ Allocated' = (Allocated \ {e}) \ {d} /\ elemCnt' = elemCnt - 2
    BY <1>5
  <2> DEFINE S == Allocated \ {e}
  <2>2. IsFiniteSet(S) /\ Cardinality(S) = elemCnt - 1 /\ d \in S
    BY <1>1, <1>2, <2>1
  <2> HIDE DEF S
  <2>3. Cardinality(S \ {d}) = Cardinality(S) - 1
    BY <2>2, FS_RemoveElement
  <2> QED
    BY <1>3, <2>1, <2>2, <2>3 DEF S, Counted
<1>6. CASE Allocated' = {} /\ elemCnt' = 0
  BY <1>6, FS_EmptySet DEF Counted
<1> QED
  BY <1>1, <1>2, <1>4, <1>5, <1>6, AllocatedMoves DEF Counted

(* For any number of elements and spokes, and any sizes: a list holds no   *)
(* element twice, none that was freed and none of another cursor, and      *)
(* elem_cnt is the number of elements in use.                              *)
THEOREM TypeCorrect ==
    ASSUME IsFiniteSet(Elems) PROVE Spec => []TypeOK
<1>1. Init => Typed /\ Counted
  BY InitTyped, FS_EmptySet DEF Counted
<1>2. Typed /\ Counted /\ [Next]_vars => Typed' /\ Counted'
  BY TypedKept, CountedKept
<1>3. Typed /\ Counted => TypeOK
  <2> SUFFICES ASSUME Typed, Counted PROVE TypeOK
    OBVIOUS
  <2>1. elem \in [Elems -> [due : Nat, early : Int, rotation : Ints, cursor : Spokes]
                             \cup {NoElem}]
    BY DEF Typed, Well, Fields
  <2>2. check.tmp \in Allocated \cup {NoElem}
    <3>1. CASE check.tmp # NoElem
      BY <3>1 DEF Typed, Looking, Looked, Well, Given, Allocated
    <3> QED
      BY <3>1
  <2>3. Allocated = Given(elem)
    BY GivenAre
  <2> QED
    BY <2>1, <2>2, <2>3 DEF TypeOK, Typed, Well, Counted
<1> QED
  BY <1>1, <1>2, <1>3, PTL DEF Spec
-----------------------------------------------------------------------------
(* The queue *)

(* An empty queue has -1 for the time of its last element, which compares  *)
(* as the largest unsigned long: so it takes those of that tick only.      *)
QueueHoldsLastTick ==
    type = "queue" =>
        /\ lastExpire = Minus1
        /\ \A e \in ToSet(queue) : Expire(elem[e].due) = Minus1

(* What is added expires at or after last_expire_time, which is the last   *)
(* tick of unsigned long.                                                  *)
LEMMA LastTickIs ==
    ASSUME NEW d \in Int, Expire(d) >= Minus1
    PROVE  Expire(d) = Minus1
BY SizesAre, ExpireIs DEF Minus1

LEMMA LastOfQueue ==
    ASSUME NEW q \in Seq(Elems), \A e \in ToSet(q) : elem[e] \in Fields,
           \A e \in ToSet(q) : Expire(elem[e].due) = Minus1
    PROVE  ExpireOfLast(q) = Minus1
BY ExpireOfLastIs

LEMMA QueueKept ==
    ASSUME Typed, QueueHoldsLastTick, [Next]_vars
    PROVE  QueueHoldsLastTick'
<1> SUFFICES ASSUME type' = "queue" PROVE QueueHoldsLastTick'
  BY DEF QueueHoldsLastTick
<1>1. CASE Recreate
  <2>1. queue' = <<>> /\ lastExpire' = Minus1
    BY <1>1 DEF Recreate
  <2> QED
    BY <2>1 DEF QueueHoldsLastTick, ToSet
<1>2. CASE ~Recreate
  <2>1. type' = type
    BY <1>2, StepCases, Zenon
       DEF PassBy, Fire, Turn, Return, Tick, Check, Del, FireAndDel, Add, Reset,
           FireAndAdd, vars
  <2>2. /\ type = "queue" /\ lastExpire = Minus1
        /\ \A d \in ToSet(queue) : Expire(elem[d].due) = Minus1
        /\ queue \in Seq(Elems) /\ IsInjective(queue)
        /\ ToSet(queue) \subseteq Elems /\ \A d \in ToSet(queue) : elem[d] \in Fields
        /\ elem \in [Elems -> Fields \cup {NoElem}]
    BY <2>1 DEF QueueHoldsLastTick, Typed, Well, Given
  <2>3. ASSUME NEW e \in ToSet(queue)
        PROVE  /\ Unlinked(queue, e) \in Seq(Elems)
               /\ ToSet(Unlinked(queue, e)) = ToSet(queue) \ {e}
               /\ ExpireOfLast(Unlinked(queue, e)) = Minus1
    <3> DEFINE q == Unlinked(queue, e)
    <3>1. q \in Seq(Elems) /\ ToSet(q) = ToSet(queue) \ {e}
      BY <2>2, UnlinkedIs
    <3> HIDE DEF q
    <3>2. ExpireOfLast(q) = Minus1
      BY <2>2, <3>1, LastOfQueue
    <3> QED
      BY <3>1, <3>2 DEF q
  <2>4. CASE UNCHANGED <<elem, queue, lastExpire>>
    BY <2>2, <2>4 DEF QueueHoldsLastTick
  <2>5. ASSUME NEW e \in Elems, Del(e) PROVE QueueHoldsLastTick'
    <3>1. /\ e \in ToSet(queue) /\ elem' = [elem EXCEPT ![e] = NoElem]
          /\ queue' = Unlinked(queue, e) /\ lastExpire' = ExpireOfLast(queue')
      BY <2>2, <2>5, LinkedIs DEF Del, OnWheel
    <3>2. \A d \in ToSet(queue') : d \in ToSet(queue) /\ elem'[d] = elem[d]
      BY <2>2, <2>3, <3>1
    <3> QED
      BY <2>2, <2>3, <3>1, <3>2 DEF QueueHoldsLastTick, ExpireOfLast
  <2>6. ASSUME NEW e \in Elems, NEW t \in Timeouts, NEW q \in Seq(Elems), e \notin ToSet(q),
               IsInjective(q), ToSet(q) \subseteq ToSet(queue), QueueAdd(e, t, q, Minus1)
        PROVE  QueueHoldsLastTick'
    <3>1. /\ Expire(now + t) >= Minus1 /\ lastExpire' = Expire(now + t)
          /\ elem' = [elem EXCEPT ![e] = Element(t)] /\ queue' = Append(q, e)
      BY <2>6 DEF QueueAdd
    <3>2. Element(t).due = now + t /\ now + t \in Nat
      BY ElementIs
    <3>3. Expire(now + t) = Minus1
      BY <3>1, <3>2, LastTickIs
    <3>4. ToSet(queue') = ToSet(q) \cup {e}
      BY <2>6, <3>1, AppendIs
    <3>5. elem'[e] = Element(t) /\ \A d \in ToSet(q) : elem'[d] = elem[d]
      BY <2>2, <2>6, <3>1
    <3>6. \A d \in ToSet(queue') : Expire(elem'[d].due) = Minus1
      BY <2>2, <2>6, <3>2, <3>3, <3>4, <3>5
    <3> QED
      BY <3>1, <3>3, <3>6 DEF QueueHoldsLastTick
  <2>7. ASSUME NEW e \in Elems, NEW t \in Timeouts, Add(e, t) PROVE QueueHoldsLastTick'
    <3>1. CASE AddRefused(t)
      BY <2>4, <3>1 DEF AddRefused
    <3>2. CASE AddToQueue(e, t)
      <4>1. e \notin ToSet(queue)
        BY <2>7, FreshIs DEF Add
      <4> QED
        BY <2>2, <2>6, <3>2, <4>1 DEF AddToQueue
    <3> QED
      BY <2>2, <2>7, <3>1, <3>2 DEF Add, AddToWheel, OnWheel
  <2>8. ASSUME NEW e \in Elems, NEW t \in Timeouts, Reset(e, t) PROVE QueueHoldsLastTick'
    <3> DEFINE q == Unlinked(queue, e)
    <3>1. /\ e \in ToSet(queue)
          /\ \/ QueueAdd(e, t, q, ExpireOfLast(q))
             \/ queue' = q /\ lastExpire' = ExpireOfLast(q) /\ elem' = elem
      BY <2>2, <2>8, LinkedIs DEF Reset, OnWheel
    <3>2. /\ q \in Seq(Elems) /\ IsInjective(q) /\ ToSet(q) = ToSet(queue) \ {e}
          /\ ExpireOfLast(q) = Minus1
      BY <2>2, <2>3, <3>1, UnlinkedIs
    <3> HIDE DEF q
    <3>3. CASE QueueAdd(e, t, q, ExpireOfLast(q))
      BY <2>6, <3>2, <3>3
    <3>4. CASE queue' = q /\ lastExpire' = ExpireOfLast(q) /\ elem' = elem
      BY <2>2, <3>2, <3>4 DEF QueueHoldsLastTick
    <3> QED
      BY <3>1, <3>3, <3>4
  <2>9. CASE Fire
    <3>1. /\ check.tmp \in ToSet(queue) /\ elem' = [elem EXCEPT ![check.tmp] = NoElem]
          /\ queue' = Unlinked(queue, check.tmp) /\ lastExpire' = lastExpire
      BY <2>2, <2>9, ReadyIs DEF Fire, Unlink
    <3>2. \A d \in ToSet(queue') : d \in ToSet(queue) /\ elem'[d] = elem[d]
      BY <2>2, <2>3, <3>1
    <3> QED
      BY <2>2, <3>1, <3>2 DEF QueueHoldsLastTick
  <2>10. ASSUME NEW e \in Elems, FireAndDel(e) PROVE QueueHoldsLastTick'
    <3> DEFINE q == Unlinked(queue, e)
               c == check.tmp
    <3>1. /\ c \in ToSet(queue) /\ e \in ToSet(queue) /\ e # c
          /\ elem' = [elem EXCEPT ![e] = NoElem, ![c] = NoElem]
          /\ queue' = Unlinked(q, c) /\ lastExpire' = ExpireOfLast(q)
      BY <2>2, <2>10, ReadyIs, LinkedIs, AfterFireAndDel DEF FireAndDel, Unlink
    <3>2. /\ q \in Seq(Elems) /\ IsInjective(q) /\ ToSet(q) = ToSet(queue) \ {e}
          /\ ExpireOfLast(q) = Minus1
      BY <2>2, <2>3, <3>1, UnlinkedIs
    <3> HIDE DEF q, c
    <3>3. ToSet(queue') = ToSet(q) \ {c}
      BY <3>1, <3>2, UnlinkedIs
    <3>4. \A d \in ToSet(queue') : d \in ToSet(queue) /\ elem'[d] = elem[d]
      BY <2>2, <3>1, <3>2, <3>3
    <3> QED
      BY <2>2, <3>1, <3>2, <3>4 DEF QueueHoldsLastTick
  <2>11. ASSUME NEW e \in Elems, NEW t \in Timeouts, FireAndAdd(e, t)
         PROVE  QueueHoldsLastTick'
    <3> DEFINE q == Append(queue, e)
               c == check.tmp
               x == Element(t)
    <3>1. /\ c \in ToSet(queue) /\ e # c /\ e \notin ToSet(queue)
          /\ elem' = [elem EXCEPT ![e] = x, ![c] = NoElem]
          /\ queue' = Unlinked(q, c) /\ Expire(now + t) >= Minus1
          /\ lastExpire' = Expire(now + t)
      BY <2>2, <2>11, ReadyIs, FreshIs, AfterFireAndAdd DEF FireAndAdd, Unlink
    <3>2. x.due = now + t /\ now + t \in Nat
      BY ElementIs
    <3>3. Expire(now + t) = Minus1
      BY <3>1, <3>2, LastTickIs
    <3>4. q \in Seq(Elems) /\ IsInjective(q) /\ ToSet(q) = ToSet(queue) \cup {e}
      BY <2>2, <3>1, AppendIs
    <3> HIDE DEF q, c, x
    <3>5. ToSet(queue') = ToSet(q) \ {c}
      BY <3>1, <3>4, UnlinkedIs
    <3>6. \A d \in ToSet(queue') : IF d = e THEN elem'[d] = x
                                   ELSE d \in ToSet(queue) /\ elem'[d] = elem[d]
      BY <2>2, <3>1, <3>4, <3>5
    <3>7. \A d \in ToSet(queue') : Expire(elem'[d].due) = Minus1
      BY <2>2, <3>2, <3>3, <3>6
    <3> QED
      BY <3>1, <3>3, <3>7 DEF QueueHoldsLastTick
  <2>12. CASE UNCHANGED vars
    BY <2>4, <2>12 DEF vars, queueVars
  <2>13. CASE PassBy \/ Turn \/ Return \/ Tick
    BY <2>2, <2>4, <2>13 DEF PassBy, Turn, Return, Tick, AtElement, queueVars
  <2>14. ASSUME NEW max \in MaxCbTimes[type], Check(max) PROVE QueueHoldsLastTick'
    BY <2>4, <2>14 DEF Check, queueVars
  <2> QED
    BY <1>2, <2>5, <2>7, <2>8, <2>9, <2>10, <2>11, <2>12, <2>13, <2>14, StepCases, Zenon
<1> QED
  BY <1>1, <1>2
-----------------------------------------------------------------------------
(* The wheel *)

(* The tick a check has come to. *)
Base == createTime + lastCheck + check.i

(* The check has counted the rotation of an element on its spoke. *)
Passed(e) ==
    /\ check.running /\ Base < now /\ elem[e].cursor = spokeIndex
    /\ check.tmp = NoElem \/ Before(spokes[spokeIndex], e, check.tmp)

(* Every timeout is of rotations that an int can count. *)
Countable == \A t \in Timeouts : t \div WheelSize < IntHalf

(* The ticks that are left at tick `base' are those of the rotations an    *)
(* element waits for and of less than one more; just after one was counted *)
(* on its spoke, they are whole rotations.                                 *)
Waits(x, create, base, passed) ==
    /\ x.rotation >= 0
    /\ Multiple(WheelSize, Comes(x) - create - x.cursor)
    /\ IF passed THEN Comes(x) - base = x.rotation * WheelSize + WheelSize
       ELSE /\ x.rotation * WheelSize <= Comes(x) - base
            /\ Comes(x) - base < x.rotation * WheelSize + WheelSize

(* spoke_index is that of the tick, which is not ahead of the clock. *)
Clocked ==
    /\ now >= 1 /\ createTime >= 1
    /\ type = "wheel" =>
          IF lastCheck = Minus1
          THEN Allocated = {} /\ createTime = Minus1 /\ ~check.running
          ELSE Base <= now /\ Multiple(WheelSize, (lastCheck + check.i) - spokeIndex)

(* max_cb_times is enough for the elements that are left. *)
Enough ==
    check.running /\ type = "wheel" =>
        /\ check.cbCnt + elemCnt <= Cardinality(Elems)
        /\ Cardinality(Elems) <= check.max
        /\ check.tmp # NoElem => Base < now

Waiting ==
    type = "wheel" =>
        \A e \in Allocated : Waits(elem[e], createTime, Base, Passed(e))

LEMMA NumbersAre ==
    ASSUME Typed
    PROVE  /\ now \in Nat /\ createTime \in Nat /\ lastCheck \in Nat
           /\ now < Word /\ createTime < Word
           /\ spokeIndex \in Nat /\ spokeIndex < WheelSize
           /\ check.i \in Nat /\ Base \in Nat
           /\ \A x \in Fields : /\ Comes(x) \in Int /\ x.rotation \in Int
                                /\ x.rotation * WheelSize \in Int
                                /\ x.cursor \in Nat /\ x.cursor < WheelSize
<1>1. /\ now \in Nat /\ createTime \in Nat /\ lastCheck \in Nat
      /\ now < Word /\ createTime < Word
      /\ spokeIndex \in Nat /\ spokeIndex < WheelSize
  BY SizesAre DEF Typed, Spokes
<1>2. check.i \in Nat
  BY DEF Typed, Looking, Checks
<1>3. ASSUME NEW x \in Fields
      PROVE  /\ Comes(x) \in Int /\ x.rotation \in Int
             /\ x.cursor \in Nat /\ x.cursor < WheelSize
  BY <1>3, SizesAre, TimerAssumption DEF Fields, Spokes, Ints, Comes
<1>4. ASSUME NEW n \in Int PROVE n * WheelSize \in Int
  BY SizesAre
<1> QED
  BY <1>1, <1>2, <1>3, <1>4 DEF Base

(* What the code computes modulo Word does not wrap around. *)
LEMMA ClockIs ==
    ASSUME Typed, Clocked, type = "wheel", lastCheck # Minus1
    PROVE  /\ (now - createTime) % Word = now - createTime
           /\ now - createTime \in Nat /\ now - createTime # Minus1
           /\ TickCnt = now - createTime - lastCheck
           /\ check.i < TickCnt <=> Base < now
<1>1. /\ now \in Nat /\ createTime \in Nat /\ lastCheck \in Nat /\ check.i \in Nat
      /\ now < Word /\ createTime >= 1 /\ createTime + lastCheck + check.i <= now
  BY NumbersAre DEF Clocked, Base
<1>2. now - createTime \in 0 .. (Word - 1) /\ now - createTime - lastCheck \in 0 .. (Word - 1)
  BY <1>1, SizesAre
<1>3. /\ (now - createTime) % Word = now - createTime
      /\ (now - createTime - lastCheck) % Word = now - createTime - lastCheck
  BY <1>2, SizesAre, ModSmall
<1>4. now - createTime \in Nat /\ now - createTime # Minus1
  BY <1>1, <1>2, SizesAre DEF Minus1
<1>5. check.i < now - createTime - lastCheck <=> Base < now
  BY <1>1 DEF Base
<1> QED
  BY <1>3, <1>4, <1>5 DEF TickCnt

LEMMA IdleIs ==
    ASSUME Typed, ~check.running
    PROVE  /\ check = NoCheck /\ check.i = 0 /\ Base = createTime + lastCheck
           /\ \A e : ~Passed(e)
<1>1. check = NoCheck /\ check.i = 0
  BY NoCheckIs DEF Typed, Looking
<1>2. Base = createTime + lastCheck
  BY <1>1, NumbersAre DEF Base
<1> QED
  BY <1>1, <1>2 DEF Passed

(* The tick of the spoke the wheel is on when an element is put on it. *)
PutAt == IF lastCheck = Minus1 THEN now ELSE Base

(* An element that is added or reset: its rotations and spoke are right for *)
(* the time it is due, less the rounds it lost to the ticks the wheel was  *)
(* behind.                                                                 *)
LEMMA ElementWaits ==
    ASSUME Typed, Clocked, type = "wheel", ~check.running, Countable, NEW t \in Timeouts
    PROVE  Waits(Element(t), Start, PutAt, FALSE)
<1> DEFINE x == Element(t)
           r == t % WheelSize
           q == t \div WheelSize
           m == Behind + r
           k == m \div WheelSize
           y == (now - Start) + r
           c == y % WheelSize
<1>1. /\ x.due = now + t /\ x.cursor = Cursor(t) /\ x.rotation = AsInt(q)
      /\ x.early = Early(t) /\ x \in Fields
      /\ t \in Nat /\ now \in Nat /\ Start \in Nat /\ WheelSize \in Nat /\ WheelSize > 0
  BY ElementIs, NumbersAre, TimerAssumption
<1>2. /\ (now - Start) % Word = now - Start /\ now - Start \in Nat
      /\ Behind = now - PutAt /\ Behind \in Nat /\ PutAt \in Nat
  <2>1. CASE lastCheck = Minus1
    <3>1. now - Start = 0 /\ Behind = 0 /\ PutAt = now
      BY <1>1, <2>1 DEF Start, Behind, PutAt
    <3> QED
      BY <1>1, <3>1, SizesAre, ModSmall
  <2>2. CASE lastCheck # Minus1
    <3>1. Behind = TickCnt - check.i /\ PutAt = Base /\ Start = createTime
      BY <2>2 DEF Behind, PutAt, Start
    <3>2. Base = createTime + lastCheck /\ check.i = 0 /\ Base <= now
      BY <2>2, IdleIs DEF Clocked
    <3>3. TickCnt = now - createTime - lastCheck
      BY <2>2, ClockIs
    <3>4. /\ (now - Start) % Word = now - Start /\ now - Start \in Nat
          /\ createTime \in Nat /\ lastCheck \in Nat /\ Base \in Nat
      BY <2>2, <3>1, ClockIs, NumbersAre
    <3> QED
      BY <1>1, <3>1, <3>2, <3>3, <3>4
  <2> QED
    BY <2>1, <2>2
<1>3. x.cursor = c
  BY <1>1, <1>2 DEF Cursor
<1>4. q \in Nat /\ r \in 0 .. (WheelSize - 1) /\ r = t - WheelSize * q
  BY <1>1, SizesAre, Euclid
<1>5. x.rotation = q
  BY <1>1, <1>4, TimerAssumption, AsIntIs DEF Countable, Ints
<1>6. r \in Nat /\ Multiple(WheelSize, t - r)
  BY <1>1, <1>4, SizesAre, MultipleOfMod
<1> HIDE DEF r, q
<1>7. m \in Nat /\ y \in Int
  BY <1>1, <1>2, <1>6
<1> HIDE DEF m, y
<1>8. k \in Int /\ m % WheelSize \in 0 .. (WheelSize - 1) /\ m % WheelSize = m - WheelSize * k
  BY <1>1, <1>7, Euclid
<1>9. c \in 0 .. (WheelSize - 1) /\ Multiple(WheelSize, y - c)
  BY <1>1, <1>7, Euclid, MultipleOfMod
<1>10. x.early = WheelSize * k
  BY <1>1 DEF Early, m, r
<1> HIDE DEF k, c
<1> DEFINE l == WheelSize * k
           b == WheelSize * q
<1>11. l \in Int /\ b \in Int /\ Multiple(WheelSize, l)
  BY <1>1, <1>4, <1>8 DEF Multiple
<1>12. x.rotation * WheelSize = b /\ x.rotation >= 0
  BY <1>1, <1>4, <1>5
<1> HIDE DEF l, b, x
<1>13. Comes(x) = (now + t) - l /\ Comes(x) \in Int
  BY <1>1, <1>10, <1>11 DEF Comes, l
<1>14. m = (now - PutAt) + r /\ y = (now - Start) + r
  BY <1>2 DEF m, y
<1>15. Multiple(WheelSize, ((y - c) + (t - r)) - l)
  <2> DEFINE u == y - c
             v == t - r
  <2>1. /\ u \in Int /\ v \in Int
        /\ Multiple(WheelSize, u) /\ Multiple(WheelSize, v)
    BY <1>1, <1>6, <1>7, <1>9
  <2> HIDE DEF u, v
  <2>2. Multiple(WheelSize, u + v) /\ u + v \in Int
    BY <1>1, <2>1, MultipleSum
  <2>3. Multiple(WheelSize, (u + v) - l)
    BY <1>1, <1>11, <2>2, MultipleSum
  <2> QED
    BY <2>3 DEF u, v
<1>16. ((y - c) + (t - r)) - l = Comes(x) - Start - x.cursor
  <2>1. c \in Int /\ x.cursor = c
    BY <1>3, <1>9
  <2> QED
    BY <1>1, <1>6, <1>11, <1>13, <1>14, <2>1
<1>17. b <= Comes(x) - PutAt /\ Comes(x) - PutAt < b + WheelSize
  <2>1. 0 <= m - l /\ m - l < WheelSize
    BY <1>1, <1>7, <1>8, <1>11 DEF l
  <2>2. t = r + b
    BY <1>1, <1>4, <1>6, <1>11 DEF b
  <2>3. Comes(x) - PutAt = (m - l) + b
    BY <1>1, <1>2, <1>6, <1>11, <1>13, <1>14, <2>2
  <2> QED
    BY <1>1, <1>7, <1>11, <2>1, <2>3
<1> QED
  BY <1>12, <1>15, <1>16, <1>17 DEF Waits, x

(* Between two checks, an element that did not change still waits as long. *)
LEMMA WaitsOn ==
    ASSUME Waiting, type = "wheel", NEW e \in Allocated,
           elem'[e] = elem[e], createTime' = createTime, Base' = Base,
           Passed(e)' <=> Passed(e)
    PROVE  Waits(elem'[e], createTime', Base', Passed(e)')
<1>1. Waits(elem[e], createTime, Base, Passed(e))
  BY DEF Waiting
<1> QED
  BY <1>1 DEF Waits

LEMMA WheelTick ==
    ASSUME Typed, Clocked, Waiting, Tick
    PROVE  Clocked' /\ Enough' /\ Waiting'
<1>1. /\ now' = now + 1 /\ ~check.running
      /\ UNCHANGED <<type, elem, spokes, createTime, spokeIndex, lastCheck, check>>
  BY DEF Tick, Idle, wheelVars
<1>2. now \in Nat /\ Base \in Nat /\ Base' = Base /\ Allocated' = Allocated
  BY <1>1, NumbersAre DEF Base, Allocated
<1>3. Clocked' /\ Enough'
  BY <1>1, <1>2 DEF Clocked, Enough, Minus1
<1>4. ASSUME type = "wheel", NEW e \in Allocated
      PROVE  Waits(elem'[e], createTime', Base', Passed(e)')
  BY <1>1, <1>2, <1>4, WaitsOn DEF Passed
<1> QED
  BY <1>1, <1>2, <1>3, <1>4 DEF Waiting

LEMMA WheelRecreate ==
    ASSUME Typed, Clocked, Recreate
    PROVE  Clocked' /\ Enough' /\ Waiting'
<1>1. Allocated' = {} /\ ~check'.running /\ now' = now
  BY AfterRecreate DEF Recreate
<1>2. lastCheck' = Minus1 /\ createTime' = Minus1 /\ Minus1 >= 1
  BY TimerAssumption DEF Recreate, Minus1
<1> QED
  BY <1>1, <1>2 DEF Clocked, Enough, Waiting, Minus1

(* An element, new or reset, on a wheel. *)
LEMMA WheelSet ==
    ASSUME Typed, Clocked, Waiting, type = "wheel", ~check.running, Countable,
           NEW t \in Timeouts, NEW e \in Elems,
           elem' = [elem EXCEPT ![e] = Element(t)],
           UNCHANGED <<now, type, check>>, createTime' = Start,
           IF lastCheck = Minus1 THEN spokeIndex' = 0 /\ lastCheck' = 0
           ELSE UNCHANGED <<spokeIndex, lastCheck>>
    PROVE  Clocked' /\ Waiting'
<1>1. /\ check.i = 0 /\ now \in Nat /\ Element(t) \in Fields /\ createTime \in Nat
      /\ lastCheck \in Nat
  BY IdleIs, NumbersAre, ElementIs
<1>2. lastCheck # Minus1 => createTime' = createTime
  BY <1>1 DEF Start
<1>3. lastCheck = Minus1 => createTime' = now /\ Allocated = {}
  BY DEF Start, Clocked
<1>4. Base' = PutAt /\ (lastCheck # Minus1 => Base' = Base) /\ Base' <= now
  <2>1. CASE lastCheck = Minus1
    BY <1>1, <1>3, <2>1 DEF Base, PutAt
  <2>2. CASE lastCheck # Minus1
    BY <1>1, <1>2, <2>2 DEF Base, PutAt, Clocked
  <2> QED
    BY <2>1, <2>2
<1>5. /\ elem'[e] = Element(t) /\ Allocated' = Allocated \cup {e}
      /\ \A d \in Elems \ {e} : elem'[d] = elem[d]
  BY <1>1, SizesAre DEF Typed, Well, Allocated
<1>6. Clocked'
  <2>1. now >= 1 /\ createTime' >= 1
    BY <1>2, <1>3 DEF Clocked
  <2>2. lastCheck' # Minus1
    BY TimerAssumption DEF Minus1
  <2>3. Multiple(WheelSize, (lastCheck' + check'.i) - spokeIndex')
    <3>1. CASE lastCheck = Minus1
      <4>1. (lastCheck' + check'.i) - spokeIndex' = WheelSize * 0
        BY <1>1, <3>1, SizesAre
      <4> QED
        BY <4>1 DEF Multiple
    <3>2. CASE lastCheck # Minus1
      BY <3>2 DEF Clocked
    <3> QED
      BY <3>1, <3>2
  <2> QED
    BY <1>1, <1>4, <2>1, <2>2, <2>3 DEF Clocked, Minus1
<1>7. \A d : ~Passed(d) /\ ~Passed(d)'
  BY DEF Passed
<1>8. ASSUME NEW d \in Allocated' PROVE Waits(elem'[d], createTime', Base', Passed(d)')
  <2>1. CASE d = e
    BY <1>4, <1>5, <1>7, <2>1, ElementWaits DEF Waits
  <2>2. CASE d # e
    <3>1. d \in Allocated /\ d \in Elems
      BY <1>5, <2>2 DEF Allocated
    <3>2. lastCheck # Minus1
      BY <1>3, <3>1
    <3> QED
      BY <1>2, <1>4, <1>5, <1>7, <2>2, <3>1, <3>2, WaitsOn
  <2> QED
    BY <2>1, <2>2
<1> QED
  BY <1>6, <1>8 DEF Waiting

LEMMA WheelAddAndReset ==
    ASSUME Typed, Clocked, Waiting, Countable, NEW e \in Elems, NEW t \in Timeouts,
           Add(e, t) \/ Reset(e, t), type = "wheel"
    PROVE  Clocked' /\ Enough' /\ Waiting'
<1>1. ~check.running /\ UNCHANGED <<now, type, check>>
  BY DEF Add, Reset, Idle
<1>2. /\ elem' = [elem EXCEPT ![e] = Element(t)]
      /\ createTime' = Start
      /\ IF lastCheck = Minus1 THEN spokeIndex' = 0 /\ lastCheck' = 0
         ELSE UNCHANGED <<spokeIndex, lastCheck>>
  <2>1. CASE Add(e, t)
    BY <2>1 DEF Add, AddToQueue, AddRefused, OnQueue, AddToWheel, WheelAdd
  <2>2. CASE Reset(e, t)
    <3>1. /\ elem' = [elem EXCEPT ![e] = Element(t)]
          /\ UNCHANGED <<createTime, spokeIndex, lastCheck>>
      BY <2>2 DEF Reset, OnQueue, WheelAdd
    <3>2. elem[e] # NoElem
      BY <2>2, LinkedIs DEF Reset
    <3>3. lastCheck # Minus1
      BY <3>2 DEF Clocked, Allocated
    <3> QED
      BY <3>1, <3>3 DEF Start
  <2> QED
    BY <2>1, <2>2
<1>3. Clocked' /\ Waiting'
  BY <1>1, <1>2, WheelSet
<1> QED
  BY <1>1, <1>3 DEF Enough

LEMMA WheelDel ==
    ASSUME Typed, Clocked, Waiting, NEW e \in Elems, Del(e), type = "wheel"
    PROVE  Clocked' /\ Enough' /\ Waiting'
<1>1. /\ ~check.running /\ elem' = [elem EXCEPT ![e] = NoElem]
      /\ UNCHANGED <<now, type, check, createTime, spokeIndex, lastCheck>>
  BY DEF Del, Idle, OnQueue
<1>2. Allocated' = Allocated \ {e} /\ \A d \in Allocated' : elem'[d] = elem[d]
  BY <1>1 DEF Typed, Well, Allocated
<1>3. Base' = Base
  BY <1>1 DEF Base
<1>4. Clocked' /\ Enough'
  BY <1>1, <1>2, <1>3 DEF Clocked, Enough, Minus1
<1>5. \A d : ~Passed(d) /\ ~Passed(d)'
  BY <1>1 DEF Passed
<1>6. ASSUME NEW d \in Allocated' PROVE Waits(elem'[d], createTime', Base', Passed(d)')
  BY <1>1, <1>2, <1>3, <1>5, WaitsOn
<1> QED
  BY <1>4, <1>6 DEF Waiting

(* Nothing on a spoke comes before its first element. *)
LEMMA NonePassed ==
    ASSUME Typed, type = "wheel", NEW s \in Spokes, NEW e \in Allocated,
           elem[e].cursor = s
    PROVE  /\ FirstOf(spokes[s]) # NoElem
           /\ ~Before(spokes[s], e, FirstOf(spokes[s]))
<1>1. spokes[s] \in Seq(Elems) /\ IsInjective(spokes[s]) /\ e \in ToSet(spokes[s])
  BY DEF Typed, Well, Allocated, Given
<1> QED
  BY <1>1, FirstIs

LEMMA WheelCheck ==
    ASSUME Typed, Clocked, Waiting, NEW max \in MaxCbTimes[type], Check(max),
           type = "wheel", elemCnt <= Cardinality(Elems), elemCnt \in Nat,
           max >= Cardinality(Elems)
    PROVE  Clocked' /\ Enough' /\ Waiting'
<1>1. /\ check'.running /\ check'.max = max /\ check'.cbCnt = 0 /\ check'.i = 0
      /\ ~check.running
      /\ check'.tmp = IF TickCnt > 0 THEN FirstOf(spokes[spokeIndex]) ELSE NoElem
      /\ createTime # Minus1 /\ spokeIndex \in Spokes
      /\ UNCHANGED <<now, type, elem, spokes, createTime, spokeIndex, lastCheck, elemCnt>>
  BY AfterCheck DEF Check, queueVars, wheelVars, Typed
<1>2. lastCheck # Minus1
  BY <1>1 DEF Clocked
<1>3. check.i = 0 /\ Base' = Base /\ Allocated' = Allocated /\ \A e : ~Passed(e)
  BY <1>1, IdleIs DEF Base, Allocated
<1>4. TickCnt > 0 <=> Base < now
  BY <1>2, <1>3, ClockIs
<1>5. Clocked'
  BY <1>1, <1>2, <1>3 DEF Clocked, Minus1
<1>6. Enough'
  BY <1>1, <1>3, <1>4 DEF Enough
<1>7. ASSUME NEW e \in Allocated PROVE ~Passed(e)'
  <2> SUFFICES ASSUME Base < now, elem[e].cursor = spokeIndex PROVE ~Passed(e)'
    BY <1>1, <1>3 DEF Passed
  <2>1. check'.tmp = FirstOf(spokes[spokeIndex])
    BY <1>1, <1>4
  <2> QED
    BY <1>1, <2>1, NonePassed DEF Passed
<1>8. ASSUME NEW e \in Allocated PROVE Waits(elem'[e], createTime', Base', Passed(e)')
  BY <1>1, <1>3, <1>7, WaitsOn
<1> QED
  BY <1>3, <1>5, <1>6, <1>8 DEF Waiting

LEMMA TimeLeft ==
    ASSUME NEW due \in Int, NEW create \in Int, NEW gone \in Int, NEW spoke \in Int,
           Multiple(WheelSize, due - create - spoke), Multiple(WheelSize, gone - spoke)
    PROVE  Multiple(WheelSize, due - (create + gone))
<1> DEFINE a == due - create - spoke
           b == gone - spoke
<1>1. a \in Int /\ b \in Int /\ a - b = due - (create + gone)
  OBVIOUS
<1> HIDE DEF a, b
<1>2. Multiple(WheelSize, a - b)
  BY <1>1, SizesAre, MultipleSum DEF a, b
<1> QED
  BY <1>1, <1>2

(* The element a check has come to is not yet passed, and the whole        *)
(* rotations it waits for are the ticks that are left.                     *)
LEMMA CurrentWaits ==
    ASSUME Typed, Clocked, Waiting, Enough, type = "wheel", check.running,
           check.tmp # NoElem
    PROVE  LET d == check.tmp
           IN  /\ d \in ToSet(spokes[spokeIndex]) /\ d \in Allocated
               /\ elem[d] \in Fields /\ elem[d].cursor = spokeIndex
               /\ Base < now /\ ~Passed(d)
               /\ Comes(elem[d]) - Base = elem[d].rotation * WheelSize
<1> DEFINE d == check.tmp
           x == elem[d]
           a == Comes(x) - Base
           b == x.rotation * WheelSize
<1>1. /\ d \in ToSet(spokes[spokeIndex]) /\ spokeIndex \in Spokes
      /\ spokes[spokeIndex] \in Seq(Elems) /\ IsInjective(spokes[spokeIndex])
  BY DEF Typed, Well, Looking, Looked
<1>2. d \in Allocated /\ x \in Fields /\ x.cursor = spokeIndex
  BY <1>1 DEF Typed, Well, Given, Allocated
<1>3. ~Passed(d)
  BY <1>1 DEF Passed, Before, IsInjective
<1>4. Waits(x, createTime, Base, FALSE)
  BY <1>2, <1>3 DEF Waiting, Waits
<1>5. Base < now /\ lastCheck # Minus1
  BY DEF Enough, Clocked
<1>6. /\ a \in Int /\ b \in Int /\ Comes(x) \in Int /\ createTime \in Int
      /\ lastCheck + check.i \in Int /\ spokeIndex \in Int /\ x.rotation \in Int
      /\ Base = createTime + (lastCheck + check.i) /\ WheelSize \in Nat /\ WheelSize > 0
  BY <1>2, NumbersAre, SizesAre DEF Base
<1>7. Multiple(WheelSize, a)
  <2>1. /\ Multiple(WheelSize, Comes(x) - createTime - spokeIndex)
        /\ Multiple(WheelSize, (lastCheck + check.i) - spokeIndex)
    BY <1>2, <1>4, <1>5 DEF Waits, Clocked
  <2> DEFINE gone == lastCheck + check.i
             due == Comes(x)
  <2>2. due \in Int /\ gone \in Int /\ createTime \in Int /\ spokeIndex \in Int
    BY <1>6
  <2>3. /\ Multiple(WheelSize, due - createTime - spokeIndex)
        /\ Multiple(WheelSize, gone - spokeIndex)
    BY <2>1
  <2>4. a = due - (createTime + gone)
    BY <1>6
  <2> HIDE DEF gone, due, x, a
  <2> QED
    BY <2>2, <2>3, <2>4, TimeLeft
<1>8. Multiple(WheelSize, b)
  <2> DEFINE k == x.rotation
  <2>1. k \in Int
    BY <1>6
  <2> HIDE DEF k
  <2>2. k * WheelSize = WheelSize * k
    BY <2>1, SizesAre
  <2>3. Multiple(WheelSize, k * WheelSize)
    BY <2>1, <2>2 DEF Multiple
  <2> QED
    BY <2>3 DEF k
<1>9. b <= a /\ a < b + WheelSize
  BY <1>4 DEF Waits
<1> HIDE DEF a, b, x
<1>10. Multiple(WheelSize, a - b) /\ a - b \in Int /\ a - b < WheelSize /\ -WheelSize < a - b
  <2>1. a \in Int /\ b \in Int
    BY <1>6
  <2>2. Multiple(WheelSize, a - b)
    BY <2>1, <1>7, <1>8, MultipleSum, SizesAre
  <2> QED
    BY <2>1, <2>2, <1>6, <1>9
<1>11. a - b = 0
  BY <1>6, <1>10, SmallMultiple
<1>12. a = b
  BY <1>6, <1>11
<1> QED
  BY <1>1, <1>2, <1>3, <1>5, <1>12 DEF a, b, d, x

(* From an element to the next: the others stay before or behind. *)
LEMMA Onward ==
    ASSUME NEW s \in Seq(Elems), IsInjective(s), NEW d \in ToSet(s),
           NEW a \in ToSet(s) \ {d}, NEW r, r = s \/ r = Unlinked(s, d)
    PROVE  NextOf(s, d) = NoElem \/ Before(r, a, NextOf(s, d)) <=> Before(s, a, d)
<1> DEFINE n == NextOf(s, d)
<1>1. n # NoElem => n # d
  BY NextIs
<1>2. n # NoElem => (Before(r, a, n) <=> Before(s, a, n))
  BY <1>1, UnlinkedIs
<1>3. /\ n = NoElem => Before(s, a, d)
      /\ n # NoElem => (Before(s, a, n) <=> Before(s, a, d))
  BY NextIs
<1> QED
  BY <1>2, <1>3

LEMMA WheelPassBy ==
    ASSUME Typed, Clocked, Waiting, Enough, PassBy
    PROVE  Clocked' /\ Enough' /\ Waiting'
<1> DEFINE d == check.tmp
           s == spokes[spokeIndex]
           x == elem[d]
           y == elem'[d]
<1>1. /\ type = "wheel" /\ x.rotation # 0 /\ check.running /\ d # NoElem
      /\ y = [x EXCEPT !.rotation = AsInt(x.rotation - 1)] /\ y \in Fields
      /\ \A e \in Elems : e # d => elem'[e] = elem[e]
      /\ Allocated' = Allocated /\ check'.tmp = NextOf(s, d)
      /\ check'.running /\ check'.i = check.i
      /\ check'.max = check.max /\ check'.cbCnt = check.cbCnt
      /\ UNCHANGED <<now, type, spokes, createTime, spokeIndex, lastCheck, elemCnt>>
  BY AfterPassBy DEF PassBy, AtElement
<1>2. /\ d \in ToSet(s) /\ d \in Allocated /\ x \in Fields
      /\ x.cursor = spokeIndex /\ Base < now /\ ~Passed(d)
      /\ Comes(x) - Base = x.rotation * WheelSize
  BY <1>1, CurrentWaits
<1>3. s \in Seq(Elems) /\ IsInjective(s) /\ spokeIndex \in Spokes
  BY DEF Typed, Well
<1>4. Base' = Base
  BY <1>1 DEF Base
<1>5. Clocked'
  BY <1>1, <1>4 DEF Clocked, Minus1
<1>6. Enough'
  BY <1>1, <1>2, <1>4 DEF Enough
<1>7. ASSUME NEW e \in Allocated, e = d
      PROVE  Waits(elem'[e], createTime', Base', Passed(e)')
  <2>1. /\ Comes(y) = Comes(x) /\ y.cursor = x.cursor /\ y.rotation = x.rotation - 1
        /\ y.rotation \in Int /\ y.rotation >= 0 /\ x.rotation \in Int
    <3>1. x.rotation \in Ints /\ x.rotation >= 0
      BY <1>1, <1>2 DEF Fields, Waiting, Waits
    <3>2. x.rotation \in Int /\ x.rotation - 1 \in Ints
      BY <1>1, <3>1, TimerAssumption DEF Ints
    <3>3. AsInt(x.rotation - 1) = x.rotation - 1
      BY <3>2, AsIntIs
    <3> QED
      BY <1>1, <1>2, <3>1, <3>2, <3>3 DEF Fields, Comes
  <2>2. Passed(e)'
    <3>1. NextOf(s, d) = NoElem \/ Before(s, d, NextOf(s, d))
      BY <1>2, <1>3, NextIs
    <3> QED
      BY <1>1, <1>2, <1>4, <1>7, <2>1, <3>1 DEF Passed
  <2>3. Multiple(WheelSize, Comes(x) - createTime - x.cursor)
    BY <1>1, <1>2 DEF Waiting, Waits
  <2>4. x.rotation * WheelSize = (x.rotation - 1) * WheelSize + WheelSize
    BY <2>1, SizesAre
  <2> QED
    BY <1>1, <1>2, <1>4, <1>7, <2>1, <2>2, <2>3, <2>4 DEF Waits
<1>8. ASSUME NEW e \in Allocated, e # d
      PROVE  Waits(elem'[e], createTime', Base', Passed(e)')
  <2>1. e \in Elems /\ elem'[e] = elem[e]
    BY <1>1, <1>8 DEF Allocated
  <2>2. elem[e].cursor = spokeIndex => e \in ToSet(s)
    BY <1>1 DEF Typed, Well, Allocated, Given
  <2>3. elem[e].cursor = spokeIndex =>
           (NextOf(s, d) = NoElem \/ Before(s, e, NextOf(s, d)) <=> Before(s, e, d))
    BY <1>2, <1>3, <1>8, <2>2, Onward
  <2>4. Passed(e)' <=> Passed(e)
    BY <1>1, <1>4, <2>1, <2>3 DEF Passed
  <2> QED
    BY <1>1, <1>4, <2>1, <2>4, WaitsOn
<1> QED
  BY <1>1, <1>5, <1>6, <1>7, <1>8 DEF Waiting

(* A callback was made; before that, the elements left are those of f on   *)
(* spokes ss, in the order they were.                                      *)
LEMMA WheelUnlink ==
    ASSUME Typed, Clocked, Waiting, Enough, type = "wheel", type' = type, now' = now,
           check.running, check.tmp # NoElem,
           NEW ss, NEW f, Well("wheel", f, queue, ss),
           check.tmp \in ToSet(ss[spokeIndex]),
           Given(f) \subseteq Allocated, \A e \in Given(f) : f[e] = elem[e],
           \A a, b \in Given(f) : Before(ss[spokeIndex], a, b)
                                     <=> Before(spokes[spokeIndex], a, b),
           Unlink(queue, ss, f), IsFiniteSet(Elems),
           elemCnt \in Nat, elemCnt' \in Int, elemCnt' <= elemCnt - 1
    PROVE  Clocked' /\ Enough' /\ Waiting'
<1> DEFINE d == check.tmp
           s == ss[spokeIndex]
<1>1. /\ elem' = [f EXCEPT ![d] = NoElem]
      /\ spokes' = [ss EXCEPT ![spokeIndex] = Unlinked(s, d)]
      /\ check'.running /\ check'.i = check.i
      /\ check'.max = check.max /\ check'.cbCnt = check.cbCnt + 1
      /\ check'.tmp = NextOf(s, d)
      /\ UNCHANGED <<createTime, spokeIndex, lastCheck>>
  BY UnlinkFromSpoke
<1>2. Base < now /\ lastCheck # Minus1
  BY DEF Enough, Clocked
<1>3. /\ s \in Seq(Elems) /\ IsInjective(s) /\ d \in ToSet(s) /\ spokeIndex \in Spokes
      /\ ss \in [Spokes -> Seq(Elems)] /\ d \in Given(f)
      /\ f \in [Elems -> Fields \cup {NoElem}]
  BY DEF Typed, Well
<1>4. Base' = Base
  BY <1>1 DEF Base
<1>5. Clocked'
  BY <1>1, <1>2, <1>4 DEF Clocked, Minus1
<1>6. check.cbCnt \in Nat
  BY DEF Typed, Looking, Checks
<1>7. Cardinality(Elems) <= check.max /\ check.cbCnt + elemCnt <= Cardinality(Elems)
  BY DEF Enough
<1>8. Enough'
  <2>1. Cardinality(Elems) \in Nat
    BY FS_CardinalityType
  <2> QED
    BY <1>1, <1>2, <1>4, <1>6, <1>7, <2>1 DEF Enough
<1>9. Allocated' = Given(f) \ {d} /\ \A e \in Allocated' : elem'[e] = elem[e]
  <2>1. Allocated' = Given(elem')
    BY DEF Allocated, Given
  <2> QED
    BY <1>1, <1>3, <2>1, GivenDel DEF Given
<1>10. ASSUME NEW e \in Allocated'
       PROVE  Waits(elem'[e], createTime', Base', Passed(e)')
  <2>1. e \in Given(f) /\ e # d /\ e \in Allocated /\ elem'[e] = elem[e] /\ f[e] = elem[e]
    BY <1>9
  <2>2. elem[e].cursor = spokeIndex => e \in ToSet(s)
    BY <2>1 DEF Well
  <2>3. spokes'[spokeIndex] = Unlinked(s, d)
    BY <1>1, <1>3
  <2>4. elem[e].cursor = spokeIndex =>
           (NextOf(s, d) = NoElem \/ Before(Unlinked(s, d), e, NextOf(s, d))
               <=> Before(s, e, d))
    <3> HIDE DEF d, s
    <3> QED
      BY <1>3, <2>1, <2>2, Onward
  <2>5. Before(s, e, d) <=> Before(spokes[spokeIndex], e, d)
    BY <1>3, <2>1
  <2>6. Passed(e)' <=> Passed(e)
    BY <1>1, <1>4, <2>1, <2>3, <2>4, <2>5 DEF Passed
  <2> QED
    BY <1>1, <1>4, <2>1, <2>6, WaitsOn
<1> QED
  BY <1>5, <1>8, <1>10 DEF Waiting

LEMMA WheelFire ==
    ASSUME Typed, Clocked, Waiting, Enough, Fire, type = "wheel",
           IsFiniteSet(Elems), elemCnt \in Nat
    PROVE  Clocked' /\ Enough' /\ Waiting'
<1>1. /\ check.running /\ check.tmp # NoElem /\ check.tmp \in ToSet(spokes[spokeIndex])
      /\ Unlink(queue, spokes, elem) /\ elemCnt' = elemCnt - 1
      /\ type' = type /\ now' = now
  BY ReadyIs DEF Fire
<1>2. Well("wheel", elem, queue, spokes) /\ Given(elem) \subseteq Allocated
  BY DEF Typed, Given, Allocated
<1>3. elemCnt' \in Int /\ elemCnt' <= elemCnt - 1
  BY <1>1
<1> QED
  BY <1>1, <1>2, <1>3, WheelUnlink

LEMMA WheelFireAndDel ==
    ASSUME Typed, Clocked, Waiting, Enough, NEW e \in Elems, FireAndDel(e), type = "wheel",
           IsFiniteSet(Elems), elemCnt \in Nat
    PROVE  Clocked' /\ Enough' /\ Waiting'
<1> DEFINE c == elem[e].cursor
           ss == [spokes EXCEPT ![c] = Unlinked(@, e)]
           f == [elem EXCEPT ![e] = NoElem]
           s == spokes[spokeIndex]
<1>1. /\ check.running /\ check.tmp # NoElem /\ check.tmp \in ToSet(s) /\ e # check.tmp
      /\ elemCnt' = elemCnt - 2 /\ type' = type /\ now' = now
  BY ReadyIs DEF FireAndDel
<1>2. c \in Spokes /\ e \in ToSet(spokes[c])
  BY LinkedIs DEF FireAndDel
<1>3. Well("wheel", elem, queue, spokes) /\ spokeIndex \in Spokes
  BY DEF Typed
<1>4. Well("wheel", f, queue, ss)
  BY <1>2, <1>3, TakeFromSpoke
<1>5. Given(f) = Given(elem) \ {e} /\ \A d \in Given(f) : f[d] = elem[d]
  BY <1>3, GivenDel DEF Well, Given
<1>6. Given(f) \subseteq Allocated
  BY <1>5 DEF Given, Allocated
<1>7. /\ check.tmp \in ToSet(ss[spokeIndex])
      /\ \A a, b \in Given(f) : Before(ss[spokeIndex], a, b) <=> Before(s, a, b)
  <2>1. CASE c = spokeIndex
    <3>1. /\ ss[spokeIndex] = Unlinked(s, e) /\ e \in ToSet(s)
          /\ s \in Seq(Elems) /\ IsInjective(s)
      BY <1>2, <1>3, <2>1 DEF Well
    <3>2. /\ ToSet(Unlinked(s, e)) = ToSet(s) \ {e}
          /\ \A a, b : Before(Unlinked(s, e), a, b) <=> Before(s, a, b) /\ a # e /\ b # e
      BY <3>1, UnlinkedIs
    <3>3. \A a \in Given(f) : a # e
      BY <1>5
    <3> QED
      BY <1>1, <3>1, <3>2, <3>3
  <2>2. CASE c # spokeIndex
    <3>1. ss[spokeIndex] = s
      BY <1>3, <2>2 DEF Well
    <3> QED
      BY <1>1, <3>1
  <2> QED
    BY <2>1, <2>2
<1>8. Unlink(queue, ss, f)
  BY DEF FireAndDel, Unlink, OffSpoke
<1>9. elemCnt' \in Int /\ elemCnt' <= elemCnt - 1
  BY <1>1
<1> HIDE DEF ss, f, c
<1> QED
  BY <1>1, <1>4, <1>5, <1>6, <1>7, <1>8, <1>9, WheelUnlink

(* spoke_index goes to the spoke of the next tick. *)
LEMMA WheelTurn ==
    ASSUME Typed, Clocked, Waiting, Enough, Turn
    PROVE  Clocked' /\ Enough' /\ Waiting'
<1>1. /\ type = "wheel" /\ check.running /\ check.tmp = NoElem /\ check.i < TickCnt
      /\ spokeIndex' = NextSpoke /\ check'.i = check.i + 1
      /\ check'.tmp = IF check.i + 1 < TickCnt THEN FirstOf(spokes[NextSpoke]) ELSE NoElem
      /\ check'.running
      /\ check'.max = check.max /\ check'.cbCnt = check.cbCnt
      /\ UNCHANGED <<now, type, elem, spokes, createTime, lastCheck, elemCnt>>
      /\ Typed'
  BY AfterTurn
<1>2. lastCheck # Minus1
  BY <1>1 DEF Clocked
<1>3. /\ Base \in Nat /\ now \in Nat /\ createTime \in Nat /\ lastCheck \in Nat
      /\ check.i \in Nat
      /\ spokeIndex \in Nat /\ spokeIndex < WheelSize /\ WheelSize \in Nat /\ WheelSize > 0
      /\ spokeIndex' \in Spokes
  BY <1>1, NumbersAre, SizesAre DEF Typed
<1>4. Base' = Base + 1 /\ Base < now
  BY <1>1, <1>2, <1>3, ClockIs DEF Base
<1>5. TickCnt = now - createTime - lastCheck
  BY <1>1, <1>2, ClockIs
<1>6. check.i + 1 < TickCnt <=> Base' < now
  BY <1>3, <1>4, <1>5 DEF Base
<1>7. Allocated' = Allocated
  BY <1>1 DEF Allocated
<1>8. Clocked'
  <2> DEFINE gone == lastCheck + check.i
  <2>1. gone \in Int /\ lastCheck' + check'.i = gone + 1
    BY <1>1, <1>3
  <2>2. Multiple(WheelSize, gone - spokeIndex)
    BY <1>1, <1>2 DEF Clocked
  <2> HIDE DEF gone
  <2>3. Multiple(WheelSize, (spokeIndex + 1) - spokeIndex')
    BY <1>1, <1>3, MultipleOfMod DEF NextSpoke
  <2>4. /\ spokeIndex' \in Int /\ gone - spokeIndex \in Int
        /\ (spokeIndex + 1) - spokeIndex' \in Int
    BY <1>3, <2>1 DEF Spokes
  <2>5. Multiple(WheelSize, (gone - spokeIndex) + ((spokeIndex + 1) - spokeIndex'))
    BY <1>3, <2>2, <2>3, <2>4, MultipleSum
  <2>6. (gone - spokeIndex) + ((spokeIndex + 1) - spokeIndex') = (gone + 1) - spokeIndex'
    BY <1>3, <2>1, <2>4
  <2>7. Base' <= now
    BY <1>3, <1>4
  <2> QED
    BY <1>1, <1>2, <2>1, <2>5, <2>6, <2>7 DEF Clocked, Minus1
<1>9. Enough'
  <2>1. check'.tmp # NoElem => Base' < now
    BY <1>1, <1>6
  <2> QED
    BY <1>1, <2>1 DEF Enough
<1>10. ASSUME NEW e \in Allocated PROVE ~Passed(e)'
  <2> SUFFICES ASSUME Base' < now, elem[e].cursor = spokeIndex' PROVE ~Passed(e)'
    BY <1>1 DEF Passed
  <2>1. check'.tmp = FirstOf(spokes[spokeIndex'])
    BY <1>1, <1>6
  <2> QED
    BY <1>1, <1>3, <2>1, NonePassed DEF Passed
<1>11. ASSUME NEW e \in Allocated PROVE Waits(elem'[e], createTime', Base', Passed(e)')
  <2> DEFINE x == elem[e]
             b == x.rotation * WheelSize
             a == Comes(x) - Base
  <2>1. Waits(x, createTime, Base, Passed(e)) /\ x \in Fields
    BY <1>1, GivenAre DEF Waiting
  <2>2. b \in Int /\ a \in Int /\ Comes(x) \in Int /\ x.cursor \in Nat /\ x.cursor < WheelSize
    BY <1>3, <2>1, NumbersAre
  <2>3. Comes(x) - Base' = a - 1
    BY <1>3, <1>4, <2>2
  <2>4. b <= a - 1 /\ a - 1 < b + WheelSize
    <3>1. CASE x.cursor = spokeIndex
      <4>1. Passed(e)
        BY <1>1, <1>4, <3>1 DEF Passed
      <4>2. a = b + WheelSize
        BY <2>1, <4>1 DEF Waits
      <4> HIDE DEF a, b
      <4> QED
        BY <1>3, <2>2, <4>2
    <3>2. CASE x.cursor # spokeIndex
      <4>1. ~Passed(e)
        BY <3>2 DEF Passed
      <4>2. b <= a /\ a < b + WheelSize
        BY <2>1, <4>1 DEF Waits
      <4>3. a # b
        <5> SUFFICES ASSUME a = b PROVE FALSE
          OBVIOUS
        <5> DEFINE gone == lastCheck + check.i
                   due == Comes(x)
                   cur == x.cursor
        <5>1. /\ Multiple(WheelSize, due - createTime - cur)
              /\ Multiple(WheelSize, gone - spokeIndex)
              /\ a = due - (createTime + gone) /\ gone \in Int /\ due \in Int /\ cur \in Int
          BY <1>1, <1>2, <1>3, <2>1, <2>2 DEF Waits, Clocked, Base
        <5>2. Multiple(WheelSize, a)
          <6> DEFINE k == x.rotation
          <6>1. k \in Int /\ a = k * WheelSize
            BY <2>1, NumbersAre
          <6> HIDE DEF k
          <6>2. k * WheelSize = WheelSize * k
            BY <1>3, <6>1
          <6> QED
            BY <6>1, <6>2 DEF Multiple
        <5>3. spokeIndex \in Int /\ createTime \in Int
          BY <1>3
        <5> DEFINE u == due - createTime - cur
                   v == gone - spokeIndex
        <5>4. u \in Int /\ v \in Int /\ u - v \in Int
          BY <5>1, <5>3
        <5>5. (u - v) - a = spokeIndex - cur
          BY <5>1, <5>3
        <5> HIDE DEF gone, due, cur, a, x, b, u, v
        <5>6. Multiple(WheelSize, u - v)
          BY <1>3, <5>1, <5>4, MultipleSum DEF u, v
        <5>7. Multiple(WheelSize, (u - v) - a)
          BY <1>3, <2>2, <5>2, <5>4, <5>6, MultipleSum
        <5>8. Multiple(WheelSize, spokeIndex - cur)
          BY <5>5, <5>7
        <5>9. /\ cur \in Nat /\ cur < WheelSize /\ spokeIndex - cur \in Int
              /\ -WheelSize < spokeIndex - cur /\ spokeIndex - cur < WheelSize
          BY <1>3, <2>2 DEF cur
        <5>10. spokeIndex - cur = 0
          BY <1>3, <5>8, <5>9, SmallMultiple
        <5>11. cur = spokeIndex
          BY <1>3, <5>9, <5>10
        <5> QED
          BY <3>2, <5>11 DEF cur
      <4> HIDE DEF a, b
      <4> QED
        BY <1>3, <2>2, <4>2, <4>3
    <3> QED
      BY <3>1, <3>2
  <2>5. Waits(x, createTime, Base', FALSE)
    BY <2>1, <2>3, <2>4 DEF Waits
  <2> QED
    BY <1>1, <1>10, <2>5 DEF Waits
<1> QED
  BY <1>1, <1>7, <1>8, <1>9, <1>11 DEF Waiting

(* A check of a wheel that was not cut short has come to now. *)
LEMMA WheelReturn ==
    ASSUME Typed, Clocked, Waiting, Enough, Return, type = "wheel",
           IsFiniteSet(Elems), Counted
    PROVE  Clocked' /\ Enough' /\ Waiting'
<1>1. /\ check' = NoCheck /\ check.running /\ lastCheck' = (now - createTime) % Word
      /\ UNCHANGED <<now, type, elem, spokes, createTime, spokeIndex, elemCnt>>
  BY AfterReturn
<1>2. lastCheck # Minus1
  BY <1>1 DEF Clocked
<1>3. /\ Base \in Nat /\ now \in Nat /\ createTime \in Nat /\ lastCheck \in Nat
      /\ check.i \in Nat /\ check.cbCnt \in Nat
  BY NumbersAre DEF Typed, Looking, Checks
<1>4. check.cbCnt < check.max \/ ~Ready
  <2> SUFFICES ASSUME Ready PROVE check.cbCnt < check.max
    OBVIOUS
  <2>1. check.tmp \in Allocated
    BY ReadyIs DEF Allocated
  <2>2. IsFiniteSet(Allocated) /\ Allocated # {}
    BY <2>1, FS_Subset DEF Allocated
  <2>3. elemCnt \in Nat /\ elemCnt # 0
    BY <2>2, FS_CardinalityType, FS_EmptySet DEF Counted
  <2>4. Cardinality(Elems) \in Nat /\ check.max \in Nat
    BY FS_CardinalityType DEF Typed, Looking, Checks
  <2> QED
    BY <1>1, <1>3, <2>3, <2>4 DEF Enough
<1>5. check.tmp = NoElem /\ check.i >= TickCnt
  <2>1. check.max \in Nat
    BY DEF Typed, Looking, Checks
  <2> QED
    BY <1>3, <1>4, <2>1 DEF Return, AtElement
<1>6. Base = now
  <2>1. Base <= now /\ ~(Base < now)
    <3>1. ~(check.i < TickCnt)
      <4>1. TickCnt \in Int
        BY <1>2, <1>3, ClockIs
      <4> QED
        BY <1>3, <1>5, <4>1
    <3> QED
      BY <1>1, <1>2, <3>1, ClockIs DEF Clocked
  <2> QED
    BY <1>3, <2>1
<1>7. /\ lastCheck' = now - createTime /\ lastCheck' \in Nat /\ lastCheck' # Minus1
      /\ lastCheck' = lastCheck + check.i /\ check'.i = 0 /\ ~check'.running
  <2>1. now - createTime = lastCheck + check.i
    BY <1>3, <1>6 DEF Base
  <2> QED
    BY <1>1, <1>2, <2>1, ClockIs, NoCheckIs
<1>8. Base' = Base /\ Allocated' = Allocated
  <2>1. Base' = createTime + lastCheck'
    BY <1>1, <1>3, <1>7 DEF Base
  <2> QED
    BY <1>1, <1>3, <1>6, <1>7, <2>1 DEF Allocated
<1>9. Clocked'
  <2>1. lastCheck' + check'.i = lastCheck + check.i
    BY <1>3, <1>7
  <2>2. Multiple(WheelSize, (lastCheck' + check'.i) - spokeIndex')
    BY <1>1, <1>2, <2>1 DEF Clocked
  <2>3. Base' <= now'
    BY <1>1, <1>3, <1>6, <1>8
  <2> QED
    BY <1>1, <1>7, <2>2, <2>3 DEF Clocked, Minus1
<1>10. \A e : ~Passed(e) /\ ~Passed(e)'
  BY <1>3, <1>6, <1>7 DEF Passed
<1>11. ASSUME NEW e \in Allocated PROVE Waits(elem'[e], createTime', Base', Passed(e)')
  BY <1>1, <1>8, <1>10, WaitsOn
<1> QED
  BY <1>1, <1>7, <1>8, <1>9, <1>11 DEF Enough, Waiting

(* Callers whose callbacks on a wheel add nothing and whose max_cb_times   *)
(* cuts no check of a wheel short.                                         *)
Plain == /\ "wheel" \notin Rearming
         /\ \A max \in MaxCbTimes["wheel"] : max >= Cardinality(Elems)

LEMMA WheelKept ==
    ASSUME IsFiniteSet(Elems), Plain, Countable, Typed, Counted, Clocked, Enough, Waiting, [Next]_vars
    PROVE  Clocked' /\ Enough' /\ Waiting'
<1> DEFINE Goal == Clocked' /\ Enough' /\ Waiting'
<1>1. elemCnt \in Nat /\ elemCnt <= Cardinality(Elems)
  BY GivenAre, FS_Subset, FS_CardinalityType DEF Counted
<1>2. CASE Recreate
  BY <1>2, WheelRecreate
<1>3. CASE Tick
  BY <1>3, WheelTick
<1>4. CASE type = "queue" /\ ~Recreate /\ ~Tick
  <2> DEFINE Same == UNCHANGED <<now, type, createTime>>
  <2>1. ASSUME PassBy \/ Turn \/ Return PROVE Same
    BY <2>1 DEF PassBy, Turn, Return, wheelVars
  <2>2. ASSUME Fire PROVE Same
    BY <1>4, <2>2 DEF Fire, Unlink, wheelVars
  <2>3. ASSUME NEW max \in MaxCbTimes[type], Check(max) PROVE Same
    BY <2>3 DEF Check, wheelVars
  <2>4. ASSUME NEW e \in Elems, Del(e) \/ FireAndDel(e) PROVE Same
    BY <1>4, <2>4 DEF Del, OnQueue, OnWheel, FireAndDel, Unlink, wheelVars
  <2>5. ASSUME NEW e \in Elems, NEW t \in Timeouts, Add(e, t) \/ Reset(e, t) PROVE Same
    BY <1>4, <2>5
       DEF Add, AddToQueue, AddRefused, AddToWheel, Reset, OnQueue, OnWheel, wheelVars
  <2>6. ASSUME NEW e \in Elems, NEW t \in Timeouts, FireAndAdd(e, t) PROVE Same
    BY <1>4, <2>6 DEF FireAndAdd, Unlink, wheelVars
  <2>7. ASSUME UNCHANGED vars PROVE Same
    BY <2>7 DEF vars, wheelVars
  <2> HIDE DEF Same
  <2>8. Same
    BY <1>4, <2>1, <2>2, <2>3, <2>4, <2>5, <2>6, <2>7, StepCases, Zenon DEF Same
  <2> QED
    BY <1>4, <2>8 DEF Same, Clocked, Enough, Waiting, Minus1
<1>5. CASE type = "wheel" /\ ~Recreate /\ ~Tick
  <2>1. CASE PassBy \/ Turn
    BY <2>1, WheelPassBy, WheelTurn
  <2>2. CASE Fire
    BY <1>1, <1>5, <2>2, WheelFire
  <2>3. CASE Return
    BY <1>5, <2>3, WheelReturn
  <2>4. ASSUME NEW max \in MaxCbTimes[type], Check(max) PROVE Goal
    BY <1>1, <1>5, <2>4, WheelCheck DEF Plain
  <2>5. ASSUME NEW e \in Elems, Del(e) PROVE Goal
    BY <1>5, <2>5, WheelDel
  <2>6. ASSUME NEW e \in Elems, FireAndDel(e) PROVE Goal
    BY <1>1, <1>5, <2>6, WheelFireAndDel
  <2>7. ASSUME NEW e \in Elems, NEW t \in Timeouts, Add(e, t) \/ Reset(e, t) PROVE Goal
    BY <1>5, <2>7, WheelAddAndReset
  <2>8. ASSUME NEW e \in Elems, NEW t \in Timeouts, FireAndAdd(e, t) PROVE Goal
    BY <1>5, <2>8 DEF FireAndAdd, Plain
  <2>9. CASE UNCHANGED vars
    BY <2>9 DEF vars, queueVars, wheelVars, Clocked, Enough, Waiting, Waits, Passed, Base,
                Allocated, Minus1
  <2> HIDE DEF Goal
  <2>10. Goal
    BY <1>5, <2>1, <2>2, <2>3, <2>4, <2>5, <2>6, <2>7, <2>8, <2>9, StepCases, Zenon
       DEF Goal
  <2> QED
    BY <2>10 DEF Goal
<1>6. type \in {"queue", "wheel"}
  BY TimerAssumption DEF Typed
<1> QED
  BY <1>2, <1>3, <1>4, <1>5, <1>6

(* For any wheel and any timeouts whose rotations an int can count,        *)
(* whenever elements are added and reset: between two calls the rotations  *)
(* and the spokes an element has before it are the ticks until it comes,   *)
(* at the time it is due less the rounds it lost when it was placed.       *)
THEOREM RotationsAreExact ==
    ASSUME IsFiniteSet(Elems), Plain, Countable
    PROVE  Spec => []RotationExact
<1> DEFINE Inv == Typed /\ Counted /\ Clocked /\ Enough /\ Waiting
<1>1. Init => Inv
  <2> SUFFICES ASSUME Init PROVE Inv
    OBVIOUS
  <2>1. Typed /\ Counted /\ Allocated = {}
    BY InitTyped, FS_EmptySet DEF Counted
  <2>2. lastCheck = Minus1 /\ createTime = Minus1 /\ now = 1 /\ ~check.running
    BY NoCheckIs DEF Init
  <2>3. Minus1 >= 1
    BY TimerAssumption DEF Minus1
  <2> QED
    BY <2>1, <2>2, <2>3 DEF Clocked, Enough, Waiting
<1>2. Inv /\ [Next]_vars => Inv'
  BY TypedKept, CountedKept, WheelKept
<1>3. Inv => RotationExact
  <2> SUFFICES ASSUME Typed, Clocked, Waiting, ~check.running, type = "wheel",
                      NEW e \in Allocated
               PROVE  Comes(elem[e]) - (createTime + lastCheck)
                         = elem[e].rotation * WheelSize + SpokesAhead(e)
    BY DEF RotationExact, Idle
  <2> DEFINE x == elem[e]
             left == Comes(x) - (createTime + lastCheck)
             b == x.rotation * WheelSize
             y == x.cursor - spokeIndex
             s == y % WheelSize
             u == Comes(x) - createTime - x.cursor
             v == lastCheck - spokeIndex
  <2>1. lastCheck # Minus1 /\ x \in Fields /\ ~Passed(e)
    BY IdleIs, GivenAre DEF Clocked
  <2>2. Base = createTime + lastCheck /\ check.i = 0
    BY IdleIs
  <2>3. Waits(x, createTime, createTime + lastCheck, FALSE)
    BY <2>1, <2>2 DEF Waiting, Waits
  <2>4. /\ Comes(x) \in Int /\ x.cursor \in Int /\ x.rotation \in Int /\ b \in Int
        /\ createTime \in Int /\ lastCheck \in Int /\ spokeIndex \in Int
        /\ WheelSize \in Nat /\ WheelSize > 0
    BY <2>1, NumbersAre, SizesAre
  <2>5. b <= left /\ left < b + WheelSize /\ Multiple(WheelSize, u)
    BY <2>3 DEF Waits
  <2>6. Multiple(WheelSize, v)
    BY <2>1, <2>2, <2>4 DEF Clocked
  <2>7. Multiple(WheelSize, b)
    <3> DEFINE k == x.rotation
    <3>1. k \in Int
      BY <2>4
    <3> HIDE DEF k
    <3>2. k * WheelSize = WheelSize * k
      BY <2>4, <3>1
    <3>3. Multiple(WheelSize, k * WheelSize)
      BY <3>1, <3>2 DEF Multiple
    <3> QED
      BY <3>3 DEF k
  <2>8. u \in Int /\ v \in Int /\ y \in Int /\ left \in Int /\ left = (u - v) + y
    BY <2>4
  <2> HIDE DEF u, v, y, b, left
  <2>9. s \in 0 .. (WheelSize - 1) /\ Multiple(WheelSize, y - s)
    BY <2>4, <2>8, Euclid, MultipleOfMod
  <2>10. s \in Int /\ 0 <= s /\ s < WheelSize
    BY <2>4, <2>9
  <2> HIDE DEF s
  <2>11. Multiple(WheelSize, u - v) /\ u - v \in Int
    BY <2>4, <2>5, <2>6, <2>8, MultipleSum
  <2>12. Multiple(WheelSize, (u - v) + (y - s)) /\ (u - v) + (y - s) \in Int
    BY <2>4, <2>8, <2>9, <2>10, <2>11, MultipleSum
  <2>13. Multiple(WheelSize, left - s) /\ left - s \in Int
    <3>1. (u - v) + (y - s) = left - s
      BY <2>8, <2>10
    <3> QED
      BY <2>12, <3>1
  <2>14. Multiple(WheelSize, (left - s) - b)
    BY <2>4, <2>7, <2>13, MultipleSum
  <2>15. /\ (left - s) - b \in Int
         /\ -WheelSize < (left - s) - b /\ (left - s) - b < WheelSize
    BY <2>4, <2>5, <2>8, <2>10
  <2>16. (left - s) - b = 0
    BY <2>4, <2>14, <2>15, SmallMultiple
  <2>17. left = b + s
    BY <2>4, <2>8, <2>10, <2>16
  <2> QED
    BY <2>17 DEF left, b, s, y, SpokesAhead
<1> QED
  BY <1>1, <1>2, <1>3, PTL DEF Spec
-----------------------------------------------------------------------------
(* The timer as a set of alarms *)

(* A timer with elements el, queue q and spokes ss, as alarms.             *)
On(q, ss, e) == e \in ToSet(q) \/ \E s \in Spokes : e \in ToSet(ss[s])
Ahead(q, ss, a, b) == Before(q, a, b) \/ \E s \in Spokes : Before(ss[s], a, b)

DueOf(el, q, ss) == [e \in Elems |-> IF On(q, ss, e) THEN Comes(el[e]) ELSE -1]
OrderOf(el, q, ss) ==
    {p \in Elems \X Elems : Ahead(q, ss, p[1], p[2]) /\ Comes(el[p[1]]) = Comes(el[p[2]])}

LEMMA Viewed ==
    ASSUME Typed
    PROVE  Due = DueOf(elem, queue, spokes) /\ Earlier = OrderOf(elem, queue, spokes)
<1>1. ASSUME NEW e \in Elems PROVE Linked(e) <=> On(queue, spokes, e)
  BY ContainsIs DEF Typed, Well, Linked, On
<1>2. \A e \in Elems : Due[e] = DueOf(elem, queue, spokes)[e]
  BY <1>1 DEF Due, DueOf
<1>3. Due = DueOf(elem, queue, spokes)
  BY <1>1 DEF Due, DueOf
<1>4. Earlier = OrderOf(elem, queue, spokes)
  BY DEF Earlier, OrderOf, Ahead
<1> QED
  BY <1>3, <1>4

LEMMA ViewedNext == (Typed => /\ Due = DueOf(elem, queue, spokes)
                              /\ Earlier = OrderOf(elem, queue, spokes))'
BY Viewed, PTL

(* Lists of which e is taken out. *)
LEMMA TakenOut ==
    ASSUME NEW el, NEW f, NEW q, NEW r, NEW ss, NEW ts, NEW e,
           \A d \in Elems : On(r, ts, d) <=> On(q, ss, d) /\ d # e,
           \A a, b \in Elems : Ahead(r, ts, a, b) <=> Ahead(q, ss, a, b) /\ a # e /\ b # e,
           \A d \in Elems : d # e => f[d] = el[d]
    PROVE  /\ DueOf(f, r, ts) = A!DueWithout(DueOf(el, q, ss), e)
           /\ OrderOf(f, r, ts) = A!OrderWithout(OrderOf(el, q, ss), e)
<1>1. DueOf(f, r, ts) = A!DueWithout(DueOf(el, q, ss), e)
  <2> DEFINE g == A!DueWithout(DueOf(el, q, ss), e)
             h == DueOf(f, r, ts)
  <2>1. g = [d \in Elems |-> IF d = e THEN -1 ELSE DueOf(el, q, ss)[d]]
    BY DEF A!DueWithout, A!NotSet, DueOf
  <2>2. \A d \in Elems : DueOf(el, q, ss)[d] = IF On(q, ss, d) THEN Comes(el[d]) ELSE -1
    BY DEF DueOf
  <2>3. h = [d \in Elems |-> IF On(r, ts, d) THEN Comes(f[d]) ELSE -1]
    BY DEF DueOf
  <2> HIDE DEF g, h
  <2>4. \A d \in Elems : h[d] = g[d]
    BY <2>1, <2>2, <2>3
  <2>5. h = g
    BY <2>1, <2>3, <2>4
  <2> QED
    BY <2>5 DEF g, h
<1>2. ASSUME NEW p \in Elems \X Elems
      PROVE  p \in OrderOf(f, r, ts) <=> p \in A!OrderWithout(OrderOf(el, q, ss), e)
  BY DEF OrderOf, A!OrderWithout
<1>3. /\ OrderOf(f, r, ts) \subseteq Elems \X Elems
      /\ A!OrderWithout(OrderOf(el, q, ss), e) \subseteq Elems \X Elems
  BY DEF OrderOf, A!OrderWithout
<1>4. OrderOf(f, r, ts) = A!OrderWithout(OrderOf(el, q, ss), e)
  BY <1>2, <1>3
<1> QED
  BY <1>1, <1>4

(* Lists into which e is put for time t, behind those of `list', which     *)
(* holds all the others for that time.                                     *)
Joins(el, f, q, r, ss, ts, e, t, list) ==
    /\ \A d \in Elems : On(r, ts, d) <=> On(q, ss, d) \/ d = e
    /\ \A a, b \in Elems : Ahead(r, ts, a, b) <=> \/ Ahead(q, ss, a, b)
                                                  \/ a \in list /\ b = e
    /\ ~On(q, ss, e)
    /\ \A a, b \in Elems : Ahead(q, ss, a, b) => On(q, ss, a) /\ On(q, ss, b)
    /\ \A a \in Elems : a \in list => On(q, ss, a)
    /\ \A a \in Elems : On(q, ss, a) /\ Comes(el[a]) = t => a \in list
    /\ \A d \in Elems : d # e => f[d] = el[d]
    /\ Comes(f[e]) = t

LEMMA PutIn ==
    ASSUME NEW e \in Elems, NEW t \in Nat,
           NEW el, NEW f, NEW q, NEW r, NEW ss, NEW ts, NEW list,
           Joins(el, f, q, r, ss, ts, e, t, list)
    PROVE  /\ DueOf(f, r, ts) = A!DueWith(DueOf(el, q, ss), e, t)
           /\ OrderOf(f, r, ts) = A!OrderWith(OrderOf(el, q, ss), DueOf(el, q, ss), e, t)
<1> USE DEF Joins
<1> DEFINE old == DueOf(el, q, ss)
<1>1. \A d \in Elems : old[d] = IF On(q, ss, d) THEN Comes(el[d]) ELSE -1
  BY DEF DueOf
<1>2. DueOf(f, r, ts) = A!DueWith(old, e, t)
  <2> DEFINE g == A!DueWith(old, e, t)
             h == DueOf(f, r, ts)
  <2>1. g = [d \in Elems |-> IF d = e THEN t ELSE old[d]]
    BY DEF A!DueWith, DueOf
  <2>2. h = [d \in Elems |-> IF On(r, ts, d) THEN Comes(f[d]) ELSE -1]
    BY DEF DueOf
  <2> HIDE DEF g, h, old
  <2>3. \A d \in Elems : h[d] = g[d]
    BY <1>1, <2>1, <2>2
  <2>4. h = g
    BY <2>1, <2>2, <2>3
  <2> QED
    BY <2>4 DEF g, h
<1> DEFINE order == A!OrderWith(OrderOf(el, q, ss), old, e, t)
<1>3. order = OrderOf(el, q, ss) \cup {<<x, e>> : x \in {y \in Elems : old[y] = t}}
  BY DEF A!OrderWith
<1> HIDE DEF old, order
<1>4. \A x \in Elems : old[x] = t <=> x \in list /\ Comes(el[x]) = t
  BY <1>1
<1>5. ASSUME NEW a \in Elems, NEW b \in Elems
      PROVE  <<a, b>> \in OrderOf(f, r, ts) <=> <<a, b>> \in order
  <2>1. <<a, b>> \in OrderOf(f, r, ts) <=> /\ Ahead(q, ss, a, b) \/ (a \in list /\ b = e)
                                           /\ Comes(f[a]) = Comes(f[b])
    BY DEF OrderOf
  <2>2. <<a, b>> \in order <=> \/ Ahead(q, ss, a, b) /\ Comes(el[a]) = Comes(el[b])
                               \/ b = e /\ old[a] = t
    BY <1>3 DEF OrderOf
  <2>3. Ahead(q, ss, a, b) => a # e /\ b # e
    OBVIOUS
  <2>4. a \in list => a # e
    OBVIOUS
  <2> QED
    BY <1>4, <2>1, <2>2, <2>3, <2>4
<1>6. OrderOf(f, r, ts) \subseteq Elems \X Elems /\ order \subseteq Elems \X Elems
  BY <1>3 DEF OrderOf
<1>7. OrderOf(f, r, ts) = order
  <2>1. \A p \in Elems \X Elems : p \in OrderOf(f, r, ts) <=> p \in order
    BY <1>5
  <2> QED
    BY <1>6, <2>1
<1> QED
  BY <1>2, <1>7 DEF old, order
(* What is appended comes behind all the others. *)
LEMMA AppendBefore ==
    ASSUME NEW s \in Seq(Elems), NEW x \in Elems, x \notin ToSet(s)
    PROVE  \A a, b : Before(Append(s, x), a, b) <=>
                        Before(s, a, b) \/ (a \in ToSet(s) /\ b = x)
<1> DEFINE r == Append(s, x)
           n == Len(s)
<1>1. /\ n \in Nat /\ DOMAIN s = 1 .. n /\ DOMAIN r = 1 .. (n + 1) /\ r[n + 1] = x
      /\ \A i \in 1 .. n : r[i] = s[i]
  OBVIOUS
<1> HIDE DEF r, n
<1>2. ASSUME NEW a, NEW b, Before(r, a, b)
      PROVE  Before(s, a, b) \/ (a \in ToSet(s) /\ b = x)
  <2>1. PICK i, j \in DOMAIN r : i < j /\ r[i] = a /\ r[j] = b
    BY <1>2 DEF Before
  <2>2. i \in 1 .. n /\ s[i] = a
    BY <1>1, <2>1
  <2>3. CASE j = n + 1
    BY <1>1, <2>1, <2>2, <2>3 DEF ToSet
  <2>4. CASE j # n + 1
    <3>1. j \in 1 .. n /\ s[j] = b
      BY <1>1, <2>1, <2>4
    <3> QED
      BY <1>1, <2>1, <2>2, <3>1 DEF Before
  <2> QED
    BY <2>3, <2>4
<1>3. ASSUME NEW a, NEW b, Before(s, a, b) PROVE Before(r, a, b)
  <2>1. PICK i, j \in DOMAIN s : i < j /\ s[i] = a /\ s[j] = b
    BY <1>3 DEF Before
  <2>2. i \in DOMAIN r /\ j \in DOMAIN r /\ r[i] = a /\ r[j] = b
    BY <1>1, <2>1
  <2> QED
    BY <2>1, <2>2 DEF Before
<1>4. ASSUME NEW a \in ToSet(s) PROVE Before(r, a, x)
  <2>1. PICK i \in DOMAIN s : s[i] = a
    BY DEF ToSet
  <2>2. i \in DOMAIN r /\ n + 1 \in DOMAIN r /\ i < n + 1 /\ r[i] = a /\ r[n + 1] = x
    BY <1>1, <2>1
  <2> QED
    BY <2>2 DEF Before
<1> QED
  BY <1>2, <1>3, <1>4 DEF r

LEMMA BeforeIsIn ==
    ASSUME NEW s, NEW a, NEW b, Before(s, a, b)
    PROVE  a \in ToSet(s) /\ b \in ToSet(s)
BY DEF Before, ToSet

(* Where the elements of a queue, and of a wheel, are.  *)
LEMMA QueueOnly ==
    ASSUME NEW el, NEW q, NEW ss, Well("queue", el, q, ss)
    PROVE  /\ \A d : On(q, ss, d) <=> d \in ToSet(q)
           /\ \A a, b : Ahead(q, ss, a, b) <=> Before(q, a, b)
<1>1. \A s \in Spokes : ToSet(ss[s]) = {}
  BY DEF Well
<1> QED
  BY <1>1, BeforeIsIn DEF On, Ahead

LEMMA SpokesOnly ==
    ASSUME NEW el, NEW q, NEW ss, Well("wheel", el, q, ss)
    PROVE  /\ \A d : On(q, ss, d) <=> \E s \in Spokes : d \in ToSet(ss[s])
           /\ \A d : On(q, ss, d) => d \in Given(el) /\ d \in ToSet(ss[el[d].cursor])
           /\ \A d \in Given(el) : On(q, ss, d)
           /\ \A a, b : Ahead(q, ss, a, b) <=> \E s \in Spokes : Before(ss[s], a, b)
<1>1. /\ ToSet(q) = {} /\ \A d \in Given(el) : d \in ToSet(ss[el[d].cursor])
      /\ \A s \in Spokes : \A d \in ToSet(ss[s]) : d \in Given(el) /\ el[d].cursor = s
      /\ \A d \in Given(el) : el[d].cursor \in Spokes
  BY DEF Well, Given, Fields
<1>2. \A a, b : ~Before(q, a, b)
  BY <1>1, BeforeIsIn
<1>3. \A s \in Spokes : \A a, b : Before(ss[s], a, b) => a \in ToSet(ss[s]) /\ b \in ToSet(ss[s])
  BY BeforeIsIn
<1>4. \A d : On(q, ss, d) <=> \E s \in Spokes : d \in ToSet(ss[s])
  BY <1>1 DEF On
<1>5. \A a, b : Ahead(q, ss, a, b) <=> \E s \in Spokes : Before(ss[s], a, b)
  BY <1>2 DEF Ahead
<1> QED
  BY <1>1, <1>3, <1>4, <1>5

LEMMA ViewTakeQueue ==
    ASSUME NEW el, NEW f, NEW q, NEW ss, Well("queue", el, q, ss), NEW e \in ToSet(q),
           \A d \in Elems : d # e => f[d] = el[d]
    PROVE  /\ DueOf(f, Unlinked(q, e), ss) = A!DueWithout(DueOf(el, q, ss), e)
           /\ OrderOf(f, Unlinked(q, e), ss) = A!OrderWithout(OrderOf(el, q, ss), e)
<1> DEFINE r == Unlinked(q, e)
<1>1. /\ ToSet(r) = ToSet(q) \ {e}
      /\ \A a, b : Before(r, a, b) <=> Before(q, a, b) /\ a # e /\ b # e
  BY UnlinkedIs DEF Well
<1>2. Well("queue", el, r, ss)
  BY LeaveQueue
<1> HIDE DEF r
<1>3. /\ \A d \in Elems : On(r, ss, d) <=> On(q, ss, d) /\ d # e
      /\ \A a, b \in Elems : Ahead(r, ss, a, b) <=> Ahead(q, ss, a, b) /\ a # e /\ b # e
  BY <1>1, <1>2, QueueOnly
<1>4. /\ DueOf(f, r, ss) = A!DueWithout(DueOf(el, q, ss), e)
      /\ OrderOf(f, r, ss) = A!OrderWithout(OrderOf(el, q, ss), e)
  BY <1>3, TakenOut
<1> QED
  BY <1>4 DEF r

LEMMA ViewPutQueue ==
    ASSUME NEW e \in Elems, NEW x \in Fields, NEW el, NEW f, NEW q, NEW ss,
           Well("queue", el, q, ss), Well("queue", f, Append(q, e), ss), e \notin ToSet(q),
           f[e] = x, Comes(x) \in Nat, \A d \in Elems : d # e => f[d] = el[d]
    PROVE  /\ DueOf(f, Append(q, e), ss) = A!DueWith(DueOf(el, q, ss), e, Comes(x))
           /\ OrderOf(f, Append(q, e), ss)
                 = A!OrderWith(OrderOf(el, q, ss), DueOf(el, q, ss), e, Comes(x))
<1> DEFINE t == Comes(x)
           r == Append(q, e)
<1>3. /\ ToSet(r) = ToSet(q) \cup {e}
      /\ \A a, b : Before(r, a, b) <=> Before(q, a, b) \/ (a \in ToSet(q) /\ b = e)
  BY AppendIs, AppendBefore DEF Well
<1>4. t \in Nat
  OBVIOUS
<1> HIDE DEF r
<1>5. Comes(f[e]) = t
  OBVIOUS
<1> HIDE DEF t
<1>6. /\ \A d : On(r, ss, d) <=> d \in ToSet(r)
      /\ \A a, b : Ahead(r, ss, a, b) <=> Before(r, a, b)
      /\ \A d : On(q, ss, d) <=> d \in ToSet(q)
      /\ \A a, b : Ahead(q, ss, a, b) <=> Before(q, a, b)
      /\ \A a, b : Before(q, a, b) => a \in ToSet(q) /\ b \in ToSet(q)
  BY QueueOnly, BeforeIsIn DEF r
<1> DEFINE list == ToSet(q)
<1>7. Joins(el, f, q, r, ss, ss, e, t, list)
  BY <1>3, <1>5, <1>6 DEF Joins
<1> HIDE DEF list
<1>8. /\ DueOf(f, r, ss) = A!DueWith(DueOf(el, q, ss), e, t)
      /\ OrderOf(f, r, ss) = A!OrderWith(OrderOf(el, q, ss), DueOf(el, q, ss), e, t)
  BY <1>4, <1>7, PutIn
<1> QED
  BY <1>8 DEF t, r

LEMMA ViewTakeSpoke ==
    ASSUME NEW c \in Spokes, NEW e \in Elems, NEW el, NEW f, NEW q, NEW ss, NEW ts,
           Well("wheel", el, q, ss), Well("wheel", f, q, ts), e \in ToSet(ss[c]),
           \A d \in Elems : d # e => f[d] = el[d],
           ts[c] = Unlinked(ss[c], e), \A s \in Spokes : s # c => ts[s] = ss[s]
    PROVE  /\ DueOf(f, q, ts) = A!DueWithout(DueOf(el, q, ss), e)
           /\ OrderOf(f, q, ts) = A!OrderWithout(OrderOf(el, q, ss), e)
<1> DEFINE r == Unlinked(ss[c], e)
<1>2. /\ ToSet(r) = ToSet(ss[c]) \ {e}
      /\ \A a, b : Before(r, a, b) <=> Before(ss[c], a, b) /\ a # e /\ b # e
  BY UnlinkedIs DEF Well
<1>3. ts[c] = r
  OBVIOUS
<1> HIDE DEF r
<1>4. /\ \A d : On(q, ts, d) <=> \E s \in Spokes : d \in ToSet(ts[s])
      /\ \A a, b : Ahead(q, ts, a, b) <=> \E s \in Spokes : Before(ts[s], a, b)
  BY SpokesOnly
<1>5. /\ \A d : On(q, ss, d) <=> \E s \in Spokes : d \in ToSet(ss[s])
      /\ \A a, b : Ahead(q, ss, a, b) <=> \E s \in Spokes : Before(ss[s], a, b)
  BY SpokesOnly
<1>6. \A s \in Spokes : s # c => e \notin ToSet(ss[s])
  <2>1. \A s \in Spokes : \A d \in ToSet(ss[s]) : el[d].cursor = s
    BY DEF Well
  <2> QED
    BY <2>1
<1>7. \A s \in Spokes : s # c => \A a, b : Before(ss[s], a, b) => a # e /\ b # e
  BY <1>6, BeforeIsIn
<1>8. \A d \in Elems : On(q, ts, d) <=> On(q, ss, d) /\ d # e
  BY <1>2, <1>3, <1>4, <1>5, <1>6
<1>9. \A s \in Spokes : \A a, b : Before(ts[s], a, b) <=> Before(ss[s], a, b) /\ a # e /\ b # e
  BY <1>2, <1>3, <1>7
<1>10. \A a, b \in Elems : Ahead(q, ts, a, b) <=> Ahead(q, ss, a, b) /\ a # e /\ b # e
  <2> SUFFICES ASSUME NEW a \in Elems, NEW b \in Elems
               PROVE  Ahead(q, ts, a, b) <=> Ahead(q, ss, a, b) /\ a # e /\ b # e
    OBVIOUS
  <2>1. Ahead(q, ts, a, b) <=> \E s \in Spokes : Before(ts[s], a, b)
    BY <1>4
  <2>2. Ahead(q, ss, a, b) <=> \E s \in Spokes : Before(ss[s], a, b)
    BY <1>5
  <2> QED
    BY <1>9, <2>1, <2>2
<1>11. /\ DueOf(f, q, ts) = A!DueWithout(DueOf(el, q, ss), e)
       /\ OrderOf(f, q, ts) = A!OrderWithout(OrderOf(el, q, ss), e)
  BY <1>8, <1>10, TakenOut
<1> QED
  BY <1>11

(* What is due at one time waits on one spoke. *)
LEMMA ViewPutSpoke ==
    ASSUME NEW e \in Elems, NEW x \in Fields, NEW el, NEW f, NEW q, NEW ss, NEW ts,
           Well("wheel", el, q, ss), Well("wheel", f, q, ts), el[e] = NoElem,
           \A d \in Given(el) : Comes(el[d]) = Comes(x) => el[d].cursor = x.cursor,
           f[e] = x, Comes(x) \in Nat, \A d \in Elems : d # e => f[d] = el[d],
           ts[x.cursor] = Append(ss[x.cursor], e),
           \A s \in Spokes : s # x.cursor => ts[s] = ss[s]
    PROVE  /\ DueOf(f, q, ts) = A!DueWith(DueOf(el, q, ss), e, Comes(x))
           /\ OrderOf(f, q, ts) = A!OrderWith(OrderOf(el, q, ss), DueOf(el, q, ss), e, Comes(x))
<1> DEFINE c == x.cursor
           t == Comes(x)
           list == ToSet(ss[c])
           r == Append(ss[c], e)
<1>1. c \in Spokes /\ t \in Nat
  BY DEF Fields
<1>2. \A s \in Spokes : e \notin ToSet(ss[s])
  BY DEF Well, Given
<1>3. ts[c] = r /\ \A s \in Spokes : s # c => ts[s] = ss[s]
  OBVIOUS
<1> HIDE DEF c
<1>4. /\ ToSet(r) = list \cup {e}
      /\ \A a, b : Before(r, a, b) <=> Before(ss[c], a, b) \/ (a \in list /\ b = e)
  BY <1>1, <1>2, AppendIs, AppendBefore DEF Well
<1> HIDE DEF r
<1>6. /\ \A d : On(q, ts, d) <=> \E s \in Spokes : d \in ToSet(ts[s])
      /\ \A a, b : Ahead(q, ts, a, b) <=> \E s \in Spokes : Before(ts[s], a, b)
  BY SpokesOnly
<1>7. /\ \A d : On(q, ss, d) <=> \E s \in Spokes : d \in ToSet(ss[s])
      /\ \A a, b : Ahead(q, ss, a, b) <=> \E s \in Spokes : Before(ss[s], a, b)
      /\ \A d : On(q, ss, d) => d \in Given(el) /\ d \in ToSet(ss[el[d].cursor])
  BY SpokesOnly
<1>8. \A d \in Elems : On(q, ts, d) <=> On(q, ss, d) \/ d = e
  BY <1>1, <1>4, <1>3, <1>6, <1>7
<1>9. \A s \in Spokes : \A a, b : Before(ts[s], a, b)
         <=> Before(ss[s], a, b) \/ (s = c /\ a \in list /\ b = e)
  BY <1>4, <1>3
<1>10. \A a, b \in Elems : Ahead(q, ts, a, b) <=> \/ Ahead(q, ss, a, b)
                                                  \/ a \in list /\ b = e
  BY <1>1, <1>6, <1>7, <1>9
<1>11. ~On(q, ss, e)
  BY <1>2, <1>7
<1>12. \A a, b \in Elems : Ahead(q, ss, a, b) => On(q, ss, a) /\ On(q, ss, b)
  BY <1>7, BeforeIsIn
<1>13. \A a \in Elems : a \in list => On(q, ss, a)
  BY <1>1, <1>7
<1>14. \A a \in Elems : On(q, ss, a) /\ Comes(el[a]) = t => a \in list
  BY <1>7 DEF c
<1>15. Comes(f[e]) = t
  OBVIOUS
<1> HIDE DEF t, list
<1>16. Joins(el, f, q, q, ss, ts, e, t, list)
  BY <1>3, <1>8, <1>10, <1>11, <1>12, <1>13, <1>14, <1>15 DEF Joins
<1>17. /\ DueOf(f, q, ts) = A!DueWith(DueOf(el, q, ss), e, t)
       /\ OrderOf(f, q, ts) = A!OrderWith(OrderOf(el, q, ss), DueOf(el, q, ss), e, t)
  BY <1>1, <1>16, PutIn
<1> QED
  BY <1>17 DEF t

(* An alarm may be set before another is taken out. *)
LEMMA SetThenTaken ==
    ASSUME NEW f \in [Elems -> Int], NEW o \in SUBSET (Elems \X Elems),
           NEW x \in Elems, NEW e \in Elems, x # e, NEW t \in Nat
    PROVE  /\ A!DueWithout(A!DueWith(f, x, t), e) = A!DueWith(A!DueWithout(f, e), x, t)
           /\ A!OrderWithout(A!OrderWith(o, f, x, t), e)
                 = A!OrderWith(A!OrderWithout(o, e), A!DueWithout(f, e), x, t)
<1>1. A!DueWithout(A!DueWith(f, x, t), e) = A!DueWith(A!DueWithout(f, e), x, t)
  BY DEF A!DueWith, A!DueWithout
<1> DEFINE g == A!DueWithout(f, e)
           l == A!OrderWithout(A!OrderWith(o, f, x, t), e)
           r == A!OrderWith(A!OrderWithout(o, e), g, x, t)
<1>2. \A d \in Elems : g[d] = t <=> f[d] = t /\ d # e
  BY DEF A!DueWithout, A!NotSet
<1>3. \A p : p \in l <=> /\ p \in o \/ (\E d \in Elems : p = <<d, x>> /\ f[d] = t)
                         /\ p[1] # e /\ p[2] # e
  BY DEF A!OrderWithout, A!OrderWith
<1>4. \A p : p \in r <=> \/ p \in o /\ p[1] # e /\ p[2] # e
                         \/ \E d \in Elems : p = <<d, x>> /\ g[d] = t
  BY DEF A!OrderWithout, A!OrderWith
<1> HIDE DEF g, l, r
<1>5. \A d : <<d, x>>[1] = d /\ <<d, x>>[2] = x
  OBVIOUS
<1>6. \A p : p \in l <=> p \in r
  BY <1>2, <1>3, <1>4, <1>5
<1>7. l = r
  BY <1>6
<1> QED
  BY <1>1, <1>7 DEF l, r, g

(* Two alarms may be taken out in either order. *)
LEMMA TakenTwice ==
    ASSUME NEW f \in [Elems -> Int], NEW o, NEW x \in Elems, NEW e \in Elems
    PROVE  /\ A!DueWithout(A!DueWithout(f, x), e) = A!DueWithout(A!DueWithout(f, e), x)
           /\ A!OrderWithout(A!OrderWithout(o, x), e)
                 = A!OrderWithout(A!OrderWithout(o, e), x)
BY DEF A!DueWithout, A!OrderWithout, A!NotSet
-----------------------------------------------------------------------------
(* What else holds of a check *)

(* No element is due two rounds of unsigned long from now. *)
Near ==
    \A e \in Allocated :
        elem[e].due < Word + Word - 1 /\ (type = "queue" => elem[e].early = 0)

(* No more callbacks than max_cb_times. *)
InBudget == check.running => check.cbCnt <= check.max

(* A check of a queue looks at its first element. *)
AtFirst ==
    check.running /\ type = "queue" =>
        IF check.tmp = NoElem THEN ToSet(queue) = {}
        ELSE \A a : ~Before(queue, a, check.tmp)

LEMMA NearKept ==
    ASSUME Typed, Near, \A t \in Timeouts : t < Word, [Next]_vars
    PROVE  Near'
<1> DEFINE New(x) == \E t \in Timeouts : x = Element(t)
           Moved == \A e \in Allocated' :
                       \/ e \in Allocated /\ elem'[e].due = elem[e].due
                                         /\ elem'[e].early = elem[e].early
                       \/ New(elem'[e])
<1>1. /\ \A e : e \in Allocated <=> e \in Elems /\ elem[e] # NoElem
      /\ \A e : e \in Allocated' <=> e \in Elems /\ elem'[e] # NoElem
      /\ elem \in [Elems -> Fields \cup {NoElem}]
  BY DEF Allocated, Typed, Well
<1>2. ASSUME PassBy PROVE Moved
  <2> DEFINE d == check.tmp
             x == elem[d]
             r == AsInt(x.rotation - 1)
  <2>1. /\ x \in Fields /\ elem'[d] = [x EXCEPT !.rotation = r]
        /\ \A e \in Elems : e # d => elem'[e] = elem[e]
        /\ Allocated' = Allocated
    BY <1>2, AfterPassBy
  <2> HIDE DEF x, r
  <2>2. /\ [x EXCEPT !.rotation = r].due = x.due
        /\ [x EXCEPT !.rotation = r].early = x.early
    BY <2>1 DEF Fields
  <2> QED
    BY <1>1, <2>1, <2>2 DEF x
<1>3. ASSUME Fire PROVE Moved
  BY <1>1, <1>3, AfterFire
<1>4. ASSUME NEW e \in Elems, NEW t \in Timeouts, FireAndAdd(e, t) PROVE Moved
  <2> DEFINE x == Element(t)
             d == check.tmp
  <2>1. elem' = [elem EXCEPT ![e] = x, ![d] = NoElem]
    BY <1>4, AfterFireAndAdd
  <2> HIDE DEF x, d
  <2>2. \A y \in Elems : elem'[y] # NoElem =>
                            elem'[y] = x \/ (elem[y] # NoElem /\ elem'[y] = elem[y])
    BY <1>1, <2>1
  <2> QED
    BY <1>1, <2>2 DEF x
<1>5. ASSUME NEW e \in Elems, FireAndDel(e) PROVE Moved
  BY <1>1, <1>5, AfterFireAndDel
<1>6. ASSUME NEW e \in Elems, Del(e) PROVE Moved
  BY <1>1, <1>6, AfterDel
<1>7. ASSUME NEW e \in Elems, NEW t \in Timeouts, Add(e, t) \/ Reset(e, t) PROVE Moved
  <2> DEFINE x == Element(t)
  <2>1. elem' = [elem EXCEPT ![e] = x] \/ elem' = elem
    BY <1>7, AfterAdd, AfterReset
  <2> HIDE DEF x
  <2>2. \A y \in Elems : elem'[y] = x \/ elem'[y] = elem[y]
    BY <1>1, <2>1
  <2> QED
    BY <1>1, <2>2 DEF x
<1>8. ASSUME UNCHANGED elem PROVE Moved
  BY <1>1, <1>8
<1>9. ASSUME NEW max \in MaxCbTimes[type], Check(max) PROVE Moved
  BY <1>8, <1>9 DEF Check
<1>10. ASSUME Turn \/ Return \/ Tick \/ UNCHANGED vars PROVE Moved
  BY <1>8, <1>10 DEF Turn, Return, Tick, vars
<1>11. ASSUME Recreate PROVE Moved
  BY <1>11, AfterRecreate
<1> HIDE DEF Moved
<1>12. Moved
  BY <1>2, <1>3, <1>4, <1>5, <1>6, <1>7, <1>9, <1>10, <1>11, StepCases, Zenon
<1>13. ASSUME NEW x, New(x)
       PROVE  x.due < Word + Word - 1 /\ (type = "queue" => x.early = 0)
  <2>1. PICK t \in Timeouts : x = Element(t)
    BY <1>13
  <2>2. x.due = now + t /\ t \in Nat /\ t < Word /\ now \in Nat /\ now < Word
    BY <2>1, ElementIs, NumbersAre, TimerAssumption
  <2>3. type = "queue" => x.early = 0
    BY <2>1, ElementIs
  <2> QED
    BY <2>2, <2>3, SizesAre
<1> HIDE DEF New
<1>14. Allocated' = {} \/ type' = type
  BY StepCases, AfterRecreate, Zenon
     DEF PassBy, Fire, FireAndAdd, FireAndDel, Turn, Return, Tick, Check, Del, Add, Reset, vars
<1> QED
  BY <1>12, <1>13, <1>14 DEF Moved, Near

(* A callback is counted. *)
LEMMA UnlinkCounts ==
    ASSUME Typed, check.running, NEW q, NEW ss, NEW el, Unlink(q, ss, el)
    PROVE  /\ check'.running /\ check'.max = check.max /\ check'.cbCnt = check.cbCnt + 1
           /\ type = "queue" => check'.tmp = NextOf(q, check.tmp)
<1> DEFINE m == IF type = "queue" THEN NextOf(q, check.tmp)
                ELSE NextOf(ss[spokeIndex], check.tmp)
<1>1. check' = [check EXCEPT !.cbCnt = CbCntAfter, !.tmp = m]
  BY DEF Unlink
<1>2. check \in Checks /\ CbCntAfter = check.cbCnt + 1
  BY DEF Typed, Looking, CbCntAfter
<1> DEFINE n == CbCntAfter
<1> HIDE DEF m, n
<1>3. check' = [check EXCEPT !.cbCnt = n, !.tmp = m]
  BY <1>1 DEF n
<1>4. /\ check'.running = check.running /\ check'.max = check.max /\ check'.cbCnt = n
      /\ check'.tmp = m
  BY <1>2, <1>3 DEF Checks
<1> QED
  BY <1>2, <1>4 DEF m, n

LEMMA FireUnlinks ==
    ASSUME Typed, NEW e \in Elems,
           Fire \/ FireAndDel(e) \/ \E t \in Timeouts : FireAndAdd(e, t)
    PROVE  /\ Ready /\ check.running /\ check.cbCnt < check.max
           /\ \E q, ss, el : Unlink(q, ss, el)
           /\ UNCHANGED <<now, type, createTime, lastCheck>>
<1>1. /\ Ready /\ check.running /\ check.cbCnt < check.max
      /\ \E q, ss, el : Unlink(q, ss, el)
      /\ UNCHANGED <<now, type>>
  BY ReadyIs DEF Fire, FireAndDel, FireAndAdd
<1>2. UNCHANGED <<createTime, lastCheck>>
  BY <1>1 DEF Unlink, wheelVars
<1> QED
  BY <1>1, <1>2

LEMMA InBudgetKept ==
    ASSUME Typed, InBudget, [Next]_vars
    PROVE  InBudget'
<1>1. check.cbCnt \in Nat /\ check.max \in Nat
  BY DEF Typed, Looking, Checks
<1>2. ASSUME NEW e \in Elems,
             Fire \/ FireAndDel(e) \/ \E t \in Timeouts : FireAndAdd(e, t)
      PROVE  InBudget'
  <2>1. check.running /\ check.cbCnt < check.max
    BY <1>2, FireUnlinks
  <2>2. PICK q, ss, el : Unlink(q, ss, el)
    BY <1>2, FireUnlinks
  <2>3. check'.max = check.max /\ check'.cbCnt = check.cbCnt + 1
    BY <2>1, <2>2, UnlinkCounts
  <2> QED
    BY <1>1, <2>1, <2>3 DEF InBudget
<1>3. ASSUME Fire PROVE InBudget'
  <2>1. check.tmp \in Elems
    BY <1>3, ReadyIs DEF Fire
  <2> QED
    BY <1>2, <1>3, <2>1
<1>4. ASSUME PassBy \/ Turn PROVE InBudget'
  BY <1>4, AfterPassBy, AfterTurn DEF InBudget
<1>5. ASSUME Return PROVE InBudget'
  BY <1>5, AfterReturn, NoCheckIs DEF InBudget
<1>6. ASSUME NEW max \in MaxCbTimes[type], Check(max) PROVE InBudget'
  <2>1. max \in Nat
    BY TimerAssumption DEF Typed
  <2> QED
    BY <1>6, <2>1, AfterCheck DEF InBudget
<1>7. ASSUME UNCHANGED check PROVE InBudget'
  BY <1>7 DEF InBudget
<1>8. ASSUME Tick \/ Recreate \/ UNCHANGED vars PROVE InBudget'
  BY <1>7, <1>8 DEF Tick, Recreate, vars
<1>9. ASSUME NEW e \in Elems, Del(e) \/ \E t \in Timeouts : Add(e, t) \/ Reset(e, t)
      PROVE  InBudget'
  BY <1>7, <1>9 DEF Del, Add, Reset
<1> QED
  BY <1>2, <1>3, <1>4, <1>5, <1>6, <1>8, <1>9, StepCases, Zenon

(* The first of a queue leaves it, and the one behind it is the first.     *)
LEMMA FirstLeaves ==
    ASSUME NEW q \in Seq(Elems), IsInjective(q), NEW d \in ToSet(q),
           \A a : ~Before(q, a, d),
           queue' = Unlinked(q, d), check'.tmp = NextOf(q, d)
    PROVE  AtFirst'
<1>1. /\ ToSet(queue') = ToSet(q) \ {d}
      /\ \A a, b : Before(queue', a, b) <=> Before(q, a, b) /\ a # d /\ b # d
  BY UnlinkedIs
<1>2. CASE check'.tmp = NoElem
  BY <1>1, <1>2, NextIs DEF AtFirst
<1>3. CASE check'.tmp # NoElem
  <2>1. \A a : Before(q, a, check'.tmp) => a = d
    BY <1>3, NextIs
  <2>2. \A a : ~Before(queue', a, check'.tmp)
    BY <1>1, <2>1
  <2> QED
    BY <1>3, <2>2 DEF AtFirst
<1> QED
  BY <1>2, <1>3

LEMMA AtFirstKept ==
    ASSUME Typed, AtFirst, [Next]_vars
    PROVE  AtFirst'
<1>1. ASSUME ~check'.running \/ type' # "queue" PROVE AtFirst'
  BY <1>1 DEF AtFirst
<1>2. ASSUME PassBy \/ Turn PROVE AtFirst'
  <2>1. type' # "queue"
    BY <1>2 DEF PassBy, Turn, AtElement
  <2> QED
    BY <1>1, <2>1
<1>3. ASSUME Return PROVE AtFirst'
  BY <1>1, <1>3, AfterReturn, NoCheckIs
<1>4. ASSUME NEW max \in MaxCbTimes[type], Check(max), type = "queue" PROVE AtFirst'
  <2>1. check'.tmp = FirstOf(queue) /\ queue' = queue
    BY <1>4, AfterCheck DEF Check, queueVars
  <2>2. queue \in Seq(Elems) /\ IsInjective(queue)
    BY DEF Typed, Well
  <2> QED
    BY <2>1, <2>2, FirstIs DEF AtFirst
<1>5. ASSUME NEW max \in MaxCbTimes[type], Check(max) PROVE AtFirst'
  <2>1. CASE type = "queue"
    BY <1>4, <1>5, <2>1
  <2>2. CASE type # "queue"
    BY <1>1, <1>5, <2>2 DEF Check
  <2> QED
    BY <2>1, <2>2
<1>6. ASSUME UNCHANGED <<check, type, queue>> PROVE AtFirst'
  BY <1>6 DEF AtFirst
<1>7. ASSUME Tick \/ Recreate \/ UNCHANGED vars PROVE AtFirst'
  BY <1>1, <1>6, <1>7 DEF Tick, Recreate, vars, queueVars, Idle
<1>8. ASSUME NEW e \in Elems, Del(e) \/ \E t \in Timeouts : Add(e, t) \/ Reset(e, t)
      PROVE  AtFirst'
  BY <1>1, <1>8 DEF Del, Add, Reset, Idle
<1>9. ASSUME Ready, type = "queue"
      PROVE  /\ check.running /\ check.tmp \in ToSet(queue) /\ \A a : ~Before(queue, a, check.tmp)
             /\ queue \in Seq(Elems) /\ IsInjective(queue)
  BY <1>9, ReadyIs DEF AtFirst, Typed, Well
<1>10. ASSUME Fire PROVE AtFirst'
  <2>1. Ready /\ type' = type /\ Unlink(queue, spokes, elem)
    BY <1>10 DEF Fire
  <2>2. CASE type = "queue"
    <3>1. queue' = Unlinked(queue, check.tmp)
      BY <2>1, <2>2 DEF Unlink
    <3>2. check'.tmp = NextOf(queue, check.tmp)
      BY <1>9, <2>1, <2>2, UnlinkCounts
    <3> QED
      BY <1>9, <2>1, <2>2, <3>1, <3>2, FirstLeaves
  <2> QED
    BY <1>1, <2>1, <2>2
<1>11. ASSUME NEW e \in Elems, NEW t \in Timeouts, FireAndAdd(e, t) PROVE AtFirst'
  <2> DEFINE q == Append(queue, e)
             ss == [spokes EXCEPT ![Cursor(t)] = Append(@, e)]
             el == [elem EXCEPT ![e] = Element(t)]
  <2>1. Ready /\ type' = type /\ Unlink(q, ss, el) /\ e \notin ToSet(queue)
    BY <1>11, FreshIs DEF FireAndAdd
  <2> HIDE DEF ss, el
  <2>2. CASE type = "queue"
    <3>1. queue' = Unlinked(q, check.tmp)
      BY <2>1, <2>2 DEF Unlink
    <3>2. check'.tmp = NextOf(q, check.tmp)
      BY <1>9, <2>1, <2>2, UnlinkCounts
    <3>3. /\ q \in Seq(Elems) /\ IsInjective(q) /\ ToSet(q) = ToSet(queue) \cup {e}
          /\ \A a, b : Before(q, a, b) <=> Before(queue, a, b) \/ (a \in ToSet(queue) /\ b = e)
      BY <1>9, <2>1, <2>2, AppendIs, AppendBefore
    <3> HIDE DEF q
    <3>4. check.tmp \in ToSet(q) /\ \A a : ~Before(q, a, check.tmp)
      BY <1>9, <2>1, <2>2, <3>3
    <3> QED
      BY <3>1, <3>2, <3>3, <3>4, FirstLeaves
  <2> QED
    BY <1>1, <2>1, <2>2
<1>12. ASSUME NEW e \in Elems, FireAndDel(e) PROVE AtFirst'
  <2> DEFINE q == Unlinked(queue, e)
             ss == OffSpoke(e)
             el == [elem EXCEPT ![e] = NoElem]
  <2>1. Ready /\ type' = type /\ Unlink(q, ss, el) /\ e # check.tmp /\ Linked(e)
    BY <1>12 DEF FireAndDel
  <2> HIDE DEF ss, el
  <2>2. CASE type = "queue"
    <3>1. queue' = Unlinked(q, check.tmp)
      BY <2>1, <2>2 DEF Unlink
    <3>2. check'.tmp = NextOf(q, check.tmp)
      BY <1>9, <2>1, <2>2, UnlinkCounts
    <3>3. e \in ToSet(queue)
      BY <2>1, <2>2, LinkedIs
    <3>4. /\ q \in Seq(Elems) /\ IsInjective(q) /\ ToSet(q) = ToSet(queue) \ {e}
          /\ \A a, b : Before(q, a, b) <=> Before(queue, a, b) /\ a # e /\ b # e
      BY <1>9, <2>1, <2>2, <3>3, UnlinkedIs
    <3> HIDE DEF q
    <3>5. check.tmp \in ToSet(q) /\ \A a : ~Before(q, a, check.tmp)
      BY <1>9, <2>1, <2>2, <3>4
    <3> QED
      BY <3>1, <3>2, <3>4, <3>5, FirstLeaves
  <2> QED
    BY <1>1, <2>1, <2>2
<1> QED
  BY <1>2, <1>3, <1>5, <1>7, <1>8, <1>10, <1>11, <1>12, StepCases, Zenon
-----------------------------------------------------------------------------
(* Each step as one of alarms *)

Budget == IF Idle THEN -1 ELSE check.max - check.cbCnt
Late   == IF type = "queue" THEN 0 ELSE 1
Ticks  == IF type = "queue" \/ lastCheck = Minus1 THEN -1 ELSE TickCnt

LEMMA TicksStay ==
    ASSUME UNCHANGED <<now, type, createTime, lastCheck>>
    PROVE  Ticks' = Ticks
BY DEF Ticks, TickCnt, Minus1

LEMMA TicksAre ==
    ASSUME Typed, Clocked
    PROVE  /\ type = "queue" \/ lastCheck = Minus1 => Ticks = -1
           /\ type = "wheel" /\ lastCheck # Minus1
                 => Ticks = (now - createTime) - lastCheck /\ Ticks \in Nat
<1>1. CASE type = "queue" \/ lastCheck = Minus1
  BY <1>1 DEF Ticks, Typed
<1>2. CASE ~(type = "queue" \/ lastCheck = Minus1)
  <2>1. type = "wheel" /\ lastCheck # Minus1
    BY <1>2, TimerAssumption DEF Typed
  <2>2. Ticks = TickCnt
    BY <1>2 DEF Ticks
  <2>3. /\ TickCnt = now - createTime - lastCheck /\ Base <= now
        /\ Base = createTime + lastCheck + check.i
    BY <2>1, ClockIs DEF Clocked, Base
  <2>4. now \in Nat /\ createTime \in Nat /\ lastCheck \in Nat /\ check.i \in Nat
    BY NumbersAre
  <2> QED
    BY <1>2, <2>1, <2>2, <2>3, <2>4
<1> QED
  BY <1>1, <1>2

LEMMA TicksNext ==
    (Typed /\ Clocked =>
        /\ type = "queue" \/ lastCheck = Minus1 => Ticks = -1
        /\ type = "wheel" /\ lastCheck # Minus1
              => Ticks = (now - createTime) - lastCheck /\ Ticks \in Nat)'
<1>1. Typed /\ Clocked =>
        /\ type = "queue" \/ lastCheck = Minus1 => Ticks = -1
        /\ type = "wheel" /\ lastCheck # Minus1
              => Ticks = (now - createTime) - lastCheck /\ Ticks \in Nat
  BY TicksAre
<1> QED
  BY <1>1, PTL

(* Where an element is put, and the time of its alarm. *)
LEMMA TimeAfterIs ==
    ASSUME Typed, Clocked, Countable, ~check.running, NEW t \in Timeouts
    PROVE  Comes(Element(t)) = A!TimeAfter(t) /\ Comes(Element(t)) \in Nat
<1> DEFINE x == Element(t)
           r == t % WheelSize
<1>1. /\ x \in Fields /\ x.due = now + t /\ now + t \in Nat
      /\ type = "queue" => x.early = 0
      /\ type = "wheel" => x.early = Early(t)
      /\ type \in {"queue", "wheel"}
  BY ElementIs, TimerAssumption DEF Typed
<1>2. A!TimeAfter(t) = IF Ticks = -1 THEN now + t
                       ELSE now + t - WheelSize * ((Ticks + r) \div WheelSize)
  BY DEF A!TimeAfter, A!NotCounted, Ticks
<1>3. t \in Nat /\ r \in 0 .. (WheelSize - 1) /\ WheelSize \in Nat /\ WheelSize > 0
  BY TimerAssumption, SizesAre
<1> HIDE DEF x
<1>4. CASE type = "queue"
  <2>1. Ticks = -1 /\ x.early = 0
    BY <1>1, <1>4, TicksAre
  <2>2. Comes(x) = now + t
    BY <1>1, <2>1 DEF Comes
  <2> QED
    BY <1>1, <1>2, <2>1, <2>2 DEF x
<1>5. CASE type = "wheel"
  <2>1. Comes(x) \in Nat
    <3>1. Waits(x, Start, PutAt, FALSE)
      BY <1>5, ElementWaits DEF x
    <3>2. x.rotation >= 0 /\ x.rotation * WheelSize <= Comes(x) - PutAt
      BY <3>1 DEF Waits
    <3>3. x.rotation \in Int /\ Comes(x) \in Int /\ PutAt \in Nat
      BY <1>1, NumbersAre DEF PutAt
    <3>4. x.rotation * WheelSize >= 0 /\ x.rotation * WheelSize \in Int
      BY <1>3, <3>2, <3>3
    <3> DEFINE b == x.rotation * WheelSize
               c == Comes(x)
    <3> HIDE DEF b, c
    <3>5. c \in Nat
      BY <3>2, <3>3, <3>4 DEF b, c
    <3> QED
      BY <3>5 DEF c
  <2>2. Comes(x) = A!TimeAfter(t)
    <3>1. Comes(x) = now + t - WheelSize * ((Behind + r) \div WheelSize)
      <4> DEFINE l == WheelSize * ((Behind + r) \div WheelSize)
      <4>1. x.early = l /\ l \in Int /\ now \in Nat
        BY <1>1, <1>5, NumbersAre DEF Early, r, Fields
      <4> HIDE DEF l
      <4>2. Comes(x) = now + t - l
        BY <1>1, <1>3, <4>1 DEF Comes
      <4> QED
        BY <4>2 DEF l
    <3>2. CASE lastCheck = Minus1
      <4>1. Behind = 0 /\ Ticks = -1
        BY <3>2, TicksAre DEF Behind
      <4>2. (Behind + r) \div WheelSize = 0
        <5> DEFINE q == r \div WheelSize
        <5>1. r \in Nat /\ Behind + r = r
          BY <1>3, <4>1
        <5>2. r % WheelSize = r /\ q \in Int /\ r % WheelSize = r - WheelSize * q
          BY <1>3, <5>1, ModSmall, Euclid
        <5> HIDE DEF q, r
        <5>3. WheelSize * q = 0
          BY <1>3, <5>1, <5>2
        <5>4. q = 0
          BY <1>3, <5>2, <5>3
        <5> QED
          BY <5>1, <5>4 DEF q
      <4> QED
        BY <1>1, <1>2, <1>3, <3>1, <4>1, <4>2
    <3>3. CASE lastCheck # Minus1
      <4>1. check.i = 0 /\ Ticks \in Nat /\ Ticks = TickCnt
        BY <1>5, <3>3, IdleIs, TicksAre DEF Ticks
      <4>2. Behind = Ticks /\ Ticks # -1
        BY <3>3, <4>1 DEF Behind
      <4> QED
        BY <1>2, <3>1, <4>2
    <3> QED
      BY <3>2, <3>3
  <2> QED
    BY <2>1, <2>2 DEF x
<1> QED
  BY <1>1, <1>4, <1>5

(* On a wheel, elements that are due at one time are on one spoke.         *)
LEMMA OneSpoke ==
    ASSUME Typed, Waiting, type = "wheel", NEW a \in Allocated, NEW b \in Allocated,
           Comes(elem[a]) = Comes(elem[b])
    PROVE  elem[a].cursor = elem[b].cursor
<1> DEFINE x == elem[a]
           y == elem[b]
           u == Comes(x) - createTime - x.cursor
           v == Comes(y) - createTime - y.cursor
<1>1. /\ Multiple(WheelSize, u) /\ Multiple(WheelSize, v)
      /\ x \in Fields /\ y \in Fields
  BY GivenAre DEF Waiting, Waits
<1>2. /\ Comes(x) \in Int /\ x.cursor \in Nat /\ x.cursor < WheelSize
      /\ Comes(y) \in Int /\ y.cursor \in Nat /\ y.cursor < WheelSize
      /\ createTime \in Nat /\ WheelSize \in Nat /\ WheelSize > 0
  BY <1>1, NumbersAre, SizesAre
<1>3. u \in Int /\ v \in Int /\ u - v = y.cursor - x.cursor
  BY <1>2
<1> DEFINE w == y.cursor - x.cursor
<1>4. w \in Int /\ -WheelSize < w /\ w < WheelSize
  BY <1>2
<1> HIDE DEF u, v
<1>5. Multiple(WheelSize, w)
  BY <1>1, <1>2, <1>3, MultipleSum
<1> HIDE DEF w
<1>6. w = 0
  BY <1>2, <1>4, <1>5, SmallMultiple
<1> QED
  BY <1>2, <1>6 DEF w

LEMMA OneSpokeNext ==
    (Typed /\ Waiting /\ type = "wheel" =>
        \A a, b \in Allocated :
            Comes(elem[a]) = Comes(elem[b]) => elem[a].cursor = elem[b].cursor)'
<1>1. Typed /\ Waiting /\ type = "wheel" =>
         \A a, b \in Allocated :
            Comes(elem[a]) = Comes(elem[b]) => elem[a].cursor = elem[b].cursor
  BY OneSpoke
<1> QED
  BY <1>1, PTL

(* All a queue holds is due at the last tick of unsigned long. *)
LEMMA QueueDue ==
    ASSUME Typed, QueueHoldsLastTick, Near, type = "queue", NEW e \in ToSet(queue)
    PROVE  Comes(elem[e]) = Minus1 /\ Expire(Comes(elem[e])) = Minus1
<1> DEFINE d == Comes(elem[e])
           q == d \div Word
<1>1. e \in Allocated /\ elem[e] \in Fields
  BY DEF Typed, Well, Given, Allocated
<1>2. d \in Nat /\ d < Word + Word - 1 /\ d % Word = Word - 1 /\ Word \in Nat /\ Word > 1
  <2>1. elem[e].due \in Nat /\ elem[e].early = 0
    BY <1>1 DEF Near, Fields
  <2>2. d = elem[e].due
    BY <2>1 DEF Comes
  <2>3. d < Word + Word - 1 /\ Expire(d) = Minus1
    BY <1>1, <2>2 DEF QueueHoldsLastTick, Near
  <2> QED
    BY <2>1, <2>2, <2>3, SizesAre DEF Expire, Minus1
<1> HIDE DEF d
<1>3. q \in Int /\ d % Word = d - Word * q
  BY <1>2, Euclid
<1> HIDE DEF q
<1>4. d - (Word - 1) = Word * q
  BY <1>2, <1>3
<1>5. Multiple(Word, d - (Word - 1))
  BY <1>3, <1>4 DEF Multiple
<1>6. d - (Word - 1) \in Int /\ -Word < d - (Word - 1) /\ d - (Word - 1) < Word
  BY <1>2
<1>7. d - (Word - 1) = 0
  BY <1>2, <1>5, <1>6, SmallMultiple
<1> QED
  BY <1>2, <1>7 DEF d, Minus1, Expire

(* A step that does not touch the lists, nor the times of their elements.  *)
LEMMA SameLists ==
    ASSUME NEW el, NEW f, NEW q, NEW ss, NEW ty, Well(ty, el, q, ss),
           \A e \in Given(el) : Comes(f[e]) = Comes(el[e])
    PROVE  DueOf(f, q, ss) = DueOf(el, q, ss) /\ OrderOf(f, q, ss) = OrderOf(el, q, ss)
<1>1. /\ \A e : e \in ToSet(q) => e \in Given(el)
      /\ \A s \in Spokes : \A e : e \in ToSet(ss[s]) => e \in Given(el)
  BY DEF Well
<1>2. \A e : On(q, ss, e) => e \in Given(el)
  BY <1>1 DEF On
<1>3. \A a, b : Ahead(q, ss, a, b) => a \in Given(el) /\ b \in Given(el)
  BY <1>1, BeforeIsIn DEF Ahead
<1>4. DueOf(f, q, ss) = DueOf(el, q, ss)
  BY <1>2 DEF DueOf
<1>5. OrderOf(f, q, ss) = OrderOf(el, q, ss)
  <2>1. \A a, b \in Elems : <<a, b>> \in OrderOf(f, q, ss) <=> <<a, b>> \in OrderOf(el, q, ss)
    BY <1>3 DEF OrderOf
  <2>2. /\ OrderOf(f, q, ss) \subseteq Elems \X Elems
        /\ OrderOf(el, q, ss) \subseteq Elems \X Elems
    BY DEF OrderOf
  <2>3. \A p \in Elems \X Elems : p \in OrderOf(f, q, ss) <=> p \in OrderOf(el, q, ss)
    BY <2>1
  <2> QED
    BY <2>2, <2>3
<1> QED
  BY <1>4, <1>5

LEMMA NoLists ==
    ASSUME NEW el, NEW q, NEW ss, q = <<>>, ss = [s \in Spokes |-> <<>>]
    PROVE  DueOf(el, q, ss) = [e \in Elems |-> -1] /\ OrderOf(el, q, ss) = {}
<1>1. ToSet(<<>>) = {} /\ \A s \in Spokes : ss[s] = <<>>
  BY DEF ToSet
<1>2. (\A e : ~On(q, ss, e)) /\ \A a, b : ~Ahead(q, ss, a, b)
  BY <1>1, BeforeIsIn DEF On, Ahead
<1> QED
  BY <1>2 DEF DueOf, OrderOf

(* An element that is not allocated is no alarm; one that is linked is due *)
(* when the timer comes to it.                                             *)
LEMMA AlarmIs ==
    ASSUME Typed, NEW e \in Elems
    PROVE  /\ elem[e] = NoElem => Due[e] = -1
           /\ Linked(e) => Due[e] = Comes(elem[e])
           /\ Due[e] \in Int
           /\ Due[e] # -1 => Linked(e)
<1>1. Due[e] = IF Linked(e) THEN Comes(elem[e]) ELSE -1
  BY DEF Due
<1>2. Linked(e) => elem[e] # NoElem
  BY LinkedIs
<1>3. Linked(e) => Comes(elem[e]) \in Int
  <2>1. Linked(e) => elem[e] \in Fields
    BY <1>2 DEF Typed, Well
  <2> QED
    BY <2>1, NumbersAre
<1> QED
  BY <1>1, <1>2, <1>3

(* Elements of a queue are not placed early. *)
LEMMA QueueComes ==
    ASSUME Typed, Near, type = "queue", NEW e \in Allocated
    PROVE  Comes(elem[e]) = elem[e].due /\ Comes(elem[e]) \in Nat
<1>1. elem[e].due \in Nat /\ elem[e].early = 0
  BY GivenAre DEF Near, Fields
<1> QED
  BY <1>1 DEF Comes

LEMMA IdleBudget ==
    ASSUME Typed, ~check.running
    PROVE  Budget = -1
BY DEF Budget, Idle

(* The other steps of zx_timer_check change nothing that can be seen. *)
LEMMA HiddenAre ==
    ASSUME Typed, PassBy \/ Turn \/ UNCHANGED vars
    PROVE  /\ Due' = Due /\ Earlier' = Earlier /\ now' = now
           /\ Budget' = Budget /\ Late' = Late /\ Ticks' = Ticks
<1>1. CASE UNCHANGED vars
  <2>1. Ticks' = Ticks
    BY <1>1, TicksStay DEF vars, wheelVars
  <2> QED
    BY <1>1, <2>1 DEF vars, queueVars, wheelVars, Due, Earlier, Linked, Budget, Late, Idle
<1>2. CASE Turn
  <2>1. /\ UNCHANGED <<now, type, elem, queue, spokes>>
        /\ UNCHANGED <<createTime, lastCheck>>
    BY <1>2 DEF Turn, queueVars
  <2>3. Ticks' = Ticks
    BY <2>1, TicksStay
  <2>2. /\ check'.running /\ check.running /\ check'.max = check.max
        /\ check'.cbCnt = check.cbCnt
    BY <1>2, AfterTurn
  <2> QED
    BY <2>1, <2>2, <2>3 DEF Due, Earlier, Linked, Budget, Late, Idle
<1>3. CASE PassBy
  <2> DEFINE d == check.tmp
             x == elem[d]
             r == AsInt(x.rotation - 1)
  <2>1. UNCHANGED <<now, type, queue, spokes, createTime, lastCheck>>
    BY <1>3 DEF PassBy, queueVars, wheelVars
  <2>2. /\ check'.running /\ check.running /\ check'.max = check.max
        /\ check'.cbCnt = check.cbCnt
    BY <1>3, AfterPassBy
  <2>3. /\ x \in Fields /\ elem'[d] = [x EXCEPT !.rotation = r]
        /\ \A e \in Elems : e # d => elem'[e] = elem[e]
    BY <1>3, AfterPassBy
  <2> HIDE DEF x, r
  <2>4. Comes([x EXCEPT !.rotation = r]) = Comes(x)
    BY <2>3 DEF Fields, Comes
  <2>5. \A e \in Given(elem) : Comes(elem'[e]) = Comes(elem[e])
    BY <2>3, <2>4 DEF x, Given
  <2>6. /\ DueOf(elem', queue, spokes) = DueOf(elem, queue, spokes)
        /\ OrderOf(elem', queue, spokes) = OrderOf(elem, queue, spokes)
    BY <2>5, SameLists DEF Typed
  <2>7. Typed'
    BY <1>3, AfterPassBy
  <2>8. Due' = DueOf(elem', queue', spokes') /\ Earlier' = OrderOf(elem', queue', spokes')
    BY <2>7, ViewedNext
  <2>9. Ticks' = Ticks
    BY <2>1, TicksStay
  <2> QED
    BY <2>1, <2>2, <2>6, <2>8, <2>9, Viewed DEF Budget, Late, Idle
<1> QED
  BY <1>1, <1>2, <1>3

(* Nothing on a wheel is due before the tick a check has come to, and what *)
(* the check has passed by is due a round later.                           *)
LEMMA NotBefore ==
    ASSUME Typed, Waiting, type = "wheel", NEW e \in Allocated
    PROVE  /\ Base <= Comes(elem[e]) /\ Comes(elem[e]) \in Nat /\ Base \in Nat
           /\ Passed(e) => Base < Comes(elem[e])
<1> DEFINE x == elem[e]
           k == x.rotation
           b == k * WheelSize
           d == Comes(x)
<1>1. x \in Fields /\ Waits(x, createTime, Base, Passed(e))
  BY GivenAre DEF Waiting
<1>2. /\ Base \in Nat /\ d \in Int /\ k \in Int /\ WheelSize \in Nat /\ WheelSize > 0
  BY <1>1, NumbersAre, SizesAre
<1>3. /\ k >= 0
      /\ IF Passed(e) THEN d - Base = b + WheelSize
         ELSE b <= d - Base /\ d - Base < b + WheelSize
  BY <1>1 DEF Waits
<1> HIDE DEF x, k, d
<1>5. b \in Int /\ b >= 0
  BY <1>2, <1>3
<1> HIDE DEF b
<1>4. Base <= d /\ (Passed(e) => Base < d)
  BY <1>2, <1>3, <1>5
<1>6. d \in Nat
  BY <1>2, <1>4
<1> QED
  BY <1>2, <1>4, <1>6 DEF x, d

(* No time is before the clock began. *)
LEMMA LinkedNat ==
    ASSUME Typed, Waiting, Near, NEW e \in Elems, Linked(e)
    PROVE  e \in Allocated /\ Due[e] = Comes(elem[e]) /\ Due[e] \in Nat
<1>1. e \in Allocated /\ Due[e] = Comes(elem[e]) /\ type \in {"queue", "wheel"}
  BY LinkedIs, AlarmIs, TimerAssumption DEF Allocated, Typed
<1> QED
  BY <1>1, NotBefore, QueueComes

LEMMA ReadyLinked ==
    ASSUME Typed, Ready
    PROVE  check.tmp \in Elems /\ Linked(check.tmp)
<1>1. /\ check.tmp \in Elems /\ type \in {"queue", "wheel"}
      /\ type = "queue" => check.tmp \in ToSet(queue)
      /\ type = "wheel" => check.tmp \in ToSet(spokes[spokeIndex])
  BY ReadyIs
<1>2. queue \in Seq(Elems) /\ spokeIndex \in Spokes /\ spokes[spokeIndex] \in Seq(Elems)
  BY DEF Typed, Well
<1> QED
  BY <1>1, <1>2, ContainsIs DEF Linked

(* What a check has come to is due, and nothing that is due comes before.  *)
LEMMA FirstDue ==
    ASSUME Typed, Clocked, Waiting, Enough, QueueHoldsLastTick, Near, AtFirst, Ready
    PROVE  A!IsDue(check.tmp) /\ A!IsFirst(check.tmp)
<1> DEFINE d == check.tmp
<1>1. d \in Elems /\ Linked(d) /\ type \in {"queue", "wheel"} /\ check.running /\ d # NoElem
  BY ReadyLinked, ReadyIs
<1>2. Due[d] = Comes(elem[d]) /\ Due[d] \in Nat /\ now \in Nat
  BY <1>1, LinkedNat, NumbersAre
<1>3. ASSUME NEW x \in Elems, A!IsDue(x)
      PROVE  Linked(x) /\ Due[x] = Comes(elem[x]) /\ Due[x] \in Nat /\ x \in Allocated
  <2>1. Due[x] # -1
    BY <1>3 DEF A!IsDue, A!IsSet, A!NotSet
  <2> QED
    BY <2>1, AlarmIs, LinkedNat
<1>4. CASE type = "queue"
  <2>1. \A x \in Elems : Linked(x) => /\ Comes(elem[x]) = Minus1
                                      /\ Expire(Comes(elem[x])) = Minus1
    BY <1>4, LinkedIs, QueueDue
  <2>2. now >= Minus1
    <3>1. Comes(elem[d]) = elem[d].due /\ Expire(Comes(elem[d])) = Minus1
      BY <1>1, <1>4, <2>1, LinkedNat, QueueComes
    <3> QED
      BY <1>1, <1>4, <3>1 DEF Ready, AtElement, Expired, Current
  <2>3. A!IsDue(d)
    BY <1>1, <1>2, <1>4, <2>1, <2>2, SizesAre DEF A!IsDue, A!IsSet, A!NotSet
  <2>4. ASSUME NEW x \in Elems, A!IsDue(x) PROVE Due[d] <= Due[x]
    BY <1>1, <1>2, <1>3, <2>1, <2>4, SizesAre
  <2>5. \A x : ~Before(queue, x, d)
    BY <1>1, <1>4 DEF AtFirst
  <2>6. \A s \in Spokes : \A x : ~Before(spokes[s], x, d)
    BY <1>4, BeforeIsIn DEF Typed, Well
  <2>7. \A x \in Elems : <<x, d>> \notin Earlier
    BY <2>5, <2>6 DEF Earlier
  <2> QED
    BY <2>3, <2>4, <2>7 DEF A!IsFirst
<1>5. CASE type = "wheel"
  <2>1. /\ d \in Allocated /\ d \in ToSet(spokes[spokeIndex]) /\ elem[d].cursor = spokeIndex
        /\ Base < now /\ Comes(elem[d]) - Base = elem[d].rotation * WheelSize
    BY <1>1, <1>5, CurrentWaits
  <2>2. elem[d].rotation = 0
    BY <1>5 DEF Ready, AtElement, TurnsLeft, Current
  <2>3. Comes(elem[d]) = Base /\ Base \in Nat
    BY <1>1, <1>2, <2>1, <2>2, NumbersAre, SizesAre
  <2>4. A!IsDue(d)
    BY <1>1, <1>2, <1>5, <2>1, <2>3 DEF A!IsDue, A!IsSet, A!NotSet
  <2>5. ASSUME NEW x \in Elems, A!IsDue(x) PROVE Due[d] <= Due[x]
    BY <1>2, <1>3, <1>5, <2>3, <2>5, NotBefore
  <2>6. ASSUME NEW x \in Elems, <<x, d>> \in Earlier PROVE FALSE
    <3>1. Comes(elem[x]) = Comes(elem[d]) /\ Ahead(queue, spokes, x, d)
      BY <2>6 DEF Earlier, Ahead
    <3>2. PICK s \in Spokes : Before(spokes[s], x, d)
      BY <1>5, <3>1, SpokesOnly DEF Typed
    <3>3. /\ x \in Given(elem) /\ elem[x].cursor = s /\ elem[d].cursor = s
      <4>1. x \in ToSet(spokes[s]) /\ d \in ToSet(spokes[s])
        BY <3>2, BeforeIsIn
      <4> QED
        BY <4>1 DEF Typed, Well
    <3>4. Passed(x) /\ x \in Allocated
      BY <1>1, <2>1, <3>2, <3>3, GivenAre DEF Passed
    <3>5. Base < Comes(elem[x])
      BY <1>5, <3>4, NotBefore
    <3> QED
      BY <2>3, <3>1, <3>5
  <2> QED
    BY <2>4, <2>5, <2>6 DEF A!IsFirst
<1> QED
  BY <1>1, <1>4, <1>5

(* A check that leaves its loop by itself has left nothing out.            *)
LEMMA NoneDue ==
    ASSUME Typed, Clocked, Waiting, QueueHoldsLastTick, Near, AtFirst, check.running,
           \/ type = "queue" /\ check.tmp = NoElem
           \/ AtElement("queue") /\ ~Expired
           \/ type = "wheel" /\ check.tmp = NoElem /\ check.i >= TickCnt
    PROVE  \A e \in Elems : ~A!IsDue(e)
<1> SUFFICES ASSUME NEW e \in Elems, A!IsDue(e) PROVE FALSE
  OBVIOUS
<1>1. Due[e] # -1 /\ Due[e] + Late <= now
  BY DEF A!IsDue, A!IsSet, A!NotSet, Late
<1>2. Linked(e) /\ Due[e] = Comes(elem[e]) /\ Due[e] \in Nat /\ e \in Allocated /\ now \in Nat
  BY <1>1, AlarmIs, LinkedNat, NumbersAre
<1>3. CASE type = "queue"
  <2>1. e \in ToSet(queue) /\ Comes(elem[e]) = Minus1
    BY <1>2, <1>3, LinkedIs, QueueDue
  <2>2. check.tmp # NoElem
    BY <1>3, <2>1 DEF AtFirst
  <2>3. ~Expired
    BY <1>3, <2>2
  <2>4. check.tmp \in ToSet(queue)
    BY <1>3, <2>2 DEF Typed, Looking, Looked
  <2>5. now < Minus1
    <3>1. check.tmp \in Allocated
      BY <2>4 DEF Typed, Well, Given, Allocated
    <3>2. /\ Expire(Comes(elem[check.tmp])) = Minus1
          /\ Comes(elem[check.tmp]) = elem[check.tmp].due
      BY <1>3, <2>4, <3>1, QueueDue, QueueComes
    <3> QED
      BY <1>2, <2>3, <3>2, SizesAre DEF Expired, Current
  <2> QED
    BY <1>1, <1>2, <1>3, <2>1, <2>5, SizesAre DEF Late
<1>4. CASE type = "wheel"
  <2>1. ~(check.i < TickCnt) /\ lastCheck # Minus1
    <3>1. check.i >= TickCnt
      BY <1>4 DEF AtElement
    <3>2. lastCheck # Minus1
      BY <1>4 DEF Clocked
    <3>3. TickCnt \in Int /\ check.i \in Int
      BY <1>2, <1>4, <3>2, ClockIs, NumbersAre
    <3> QED
      BY <3>1, <3>2, <3>3
  <2>2. Base >= now /\ Base \in Nat
    BY <1>2, <1>4, <2>1, ClockIs, NumbersAre
  <2>3. Base <= Comes(elem[e])
    BY <1>2, <1>4, NotBefore
  <2> QED
    BY <1>1, <1>2, <1>4, <2>2, <2>3 DEF Late
<1> QED
  BY <1>3, <1>4 DEF AtElement

(* The clock, a new timer and the beginning of a check. *)
LEMMA CallsAreSteps ==
    ASSUME Typed, Clocked, (Typed /\ Clocked)',
           Tick \/ Recreate \/ \E max \in MaxCbTimes[type] : Check(max)
    PROVE  A!AlarmsNext
<1>1. CASE Tick
  <2>1. /\ ~check.running /\ now' = now + 1
        /\ UNCHANGED <<type, elem, queue, spokes, check, createTime, lastCheck>>
    BY <1>1 DEF Tick, Idle, queueVars, wheelVars
  <2>4. Ticks' = IF Ticks = -1 THEN -1 ELSE Ticks + 1
    <3>1. CASE type = "queue" \/ lastCheck = Minus1
      <4>1. Ticks = -1 /\ Ticks' = -1
        BY <2>1, <3>1 DEF Ticks, Minus1
      <4> QED
        BY <4>1
    <3>2. CASE ~(type = "queue" \/ lastCheck = Minus1)
      <4>1. type = "wheel" /\ type' = "wheel" /\ lastCheck # Minus1
        BY <2>1, <3>2, TimerAssumption DEF Typed
      <4>2. lastCheck' # Minus1'
        BY <2>1, <4>1 DEF Minus1
      <4>3. Ticks' = (now' - createTime') - lastCheck'
        BY <4>1, <4>2, TicksNext
      <4>4. Ticks = (now - createTime) - lastCheck /\ Ticks \in Nat
        BY <4>1, TicksAre
      <4>5. now \in Int /\ createTime \in Int /\ lastCheck \in Int
        BY NumbersAre
      <4> QED
        BY <2>1, <4>3, <4>4, <4>5
    <3> QED
      BY <3>1, <3>2
  <2>2. Due' = Due /\ Earlier' = Earlier
    BY <2>1 DEF Due, Earlier, Linked
  <2>3. A!Elapse
    BY <2>1, <2>2, <2>4 DEF A!Elapse, A!Idle, A!NotChecking, A!NotCounted, Idle, Ticks
  <2> QED
    BY <2>3 DEF A!AlarmsNext
<1>2. CASE Recreate
  <2>1. /\ ~check.running /\ now' = now /\ check' = check
        /\ queue' = <<>> /\ spokes' = [s \in Spokes |-> <<>>]
    BY <1>2 DEF Recreate, Idle
  <2>2. Typed'
    BY <1>2, AfterRecreate
  <2>3. Due' = DueOf(elem', queue', spokes') /\ Earlier' = OrderOf(elem', queue', spokes')
    BY <2>2, ViewedNext
  <2>4. Due' = [e \in Elems |-> -1] /\ Earlier' = {}
    BY <2>1, <2>3, NoLists
  <2>6. Ticks' = -1
    BY <1>2 DEF Recreate, Ticks, Minus1
  <2>5. A!CancelAll
    BY <2>1, <2>4, <2>6 DEF A!CancelAll, A!Idle, A!NotChecking, A!NotSet, A!NotCounted, Idle, Ticks
  <2> QED
    BY <2>5 DEF A!AlarmsNext
<1>3. ASSUME NEW max \in MaxCbTimes[type], Check(max) PROVE A!AlarmsNext
  <2>1. UNCHANGED <<now, type, elem, queue, spokes, createTime, lastCheck>>
    BY <1>3 DEF Check, queueVars, wheelVars
  <2>6. Ticks' = Ticks
    BY <2>1, TicksStay
  <2>2. Due' = Due /\ Earlier' = Earlier
    BY <2>1 DEF Due, Earlier, Linked
  <2>3. ~check.running /\ check'.running /\ check'.max = max /\ check'.cbCnt = 0 /\ max \in Nat
    BY <1>3, AfterCheck, TimerAssumption DEF Typed
  <2>4. max \in UNION {MaxCbTimes[tm] : tm \in Types}
    BY DEF Typed
  <2>5. A!BeginCheck(max)
    BY <2>1, <2>2, <2>3, <2>6 DEF A!BeginCheck, A!Idle, A!NotChecking, Idle, Ticks
  <2> QED
    BY <2>4, <2>5 DEF A!AlarmsNext
<1> QED
  BY <1>1, <1>2, <1>3

LEMMA AddIsStep ==
    ASSUME Typed, Clocked, Countable, (Typed /\ Clocked /\ Waiting)', NEW e \in Elems, NEW t \in Timeouts, Add(e, t)
    PROVE  A!AlarmsNext \/ UNCHANGED A!alarmVars
<1> DEFINE x == Element(t)
<1>1. /\ ~check.running /\ elem[e] = NoElem /\ UNCHANGED <<now, type, check>>
  BY DEF Add, Idle
<1>2. /\ x \in Fields /\ Comes(x) = A!TimeAfter(t) /\ Comes(x) \in Nat
      /\ type = "wheel" => x.cursor = Cursor(t)
  BY <1>1, ElementIs, TimeAfterIs
<1>3. e \notin ToSet(queue) /\ \A s \in Spokes : e \notin ToSet(spokes[s])
  BY <1>1, FreshIs
<1>4. Due = DueOf(elem, queue, spokes) /\ Earlier = OrderOf(elem, queue, spokes)
  BY Viewed
<1>5. Due' = DueOf(elem', queue', spokes') /\ Earlier' = OrderOf(elem', queue', spokes')
  BY ViewedNext
<1>6. Due[e] = -1
  BY <1>1, AlarmIs
<1>11. /\ Well(type, elem, queue, spokes) /\ Well(type, elem', queue', spokes')
      /\ elem \in [Elems -> Fields \cup {NoElem}] /\ spokes \in [Spokes -> Seq(Elems)]
  <2>1. Well(type, elem, queue, spokes) /\ Well(type, elem', queue', spokes')
    BY <1>1 DEF Typed
  <2> QED
    BY <2>1 DEF Well
<1>7. ASSUME Due' = A!DueWith(Due, e, Comes(x)), Earlier' = A!OrderWith(Earlier, Due, e, Comes(x)),
             Ticks' = IF Late > 0 /\ Ticks = -1 THEN 0 ELSE Ticks
      PROVE  A!AlarmsNext
  <2>1. A!Set(e, t)
    BY <1>1, <1>2, <1>6, <1>7
       DEF A!Set, A!Counted, A!Idle, A!NotChecking, A!IsSet, A!NotSet, A!NotCounted,
           Idle, Late, Ticks
  <2> QED
    BY <2>1 DEF A!AlarmsNext
<1> HIDE DEF x
<1>8. CASE AddToQueue(e, t)
  <2>1. /\ type = "queue" /\ spokes' = spokes
        /\ elem' = [elem EXCEPT ![e] = x] /\ queue' = Append(queue, e)
    BY <1>8 DEF AddToQueue, OnQueue, QueueAdd, wheelVars, x
  <2>2. /\ Due' = A!DueWith(Due, e, Comes(x))
        /\ Earlier' = A!OrderWith(Earlier, Due, e, Comes(x))
    <3>1. /\ Well("queue", elem, queue, spokes) /\ Well("queue", elem', Append(queue, e), spokes)
          /\ elem'[e] = x /\ \A d \in Elems : d # e => elem'[d] = elem[d]
      BY <1>11, <2>1
    <3>2. /\ DueOf(elem', Append(queue, e), spokes)
                = A!DueWith(DueOf(elem, queue, spokes), e, Comes(x))
          /\ OrderOf(elem', Append(queue, e), spokes)
                = A!OrderWith(OrderOf(elem, queue, spokes), DueOf(elem, queue, spokes), e, Comes(x))
      BY <1>2, <1>3, <3>1, ViewPutQueue
    <3> QED
      BY <1>4, <1>5, <2>1, <3>2
  <2>3. Ticks' = IF Late > 0 /\ Ticks = -1 THEN 0 ELSE Ticks
    BY <1>1, <2>1 DEF Ticks, Late
  <2> QED
    BY <1>7, <2>2, <2>3
<1>9. CASE AddToWheel(e, t)
  <2>1. /\ type = "wheel" /\ queue' = queue
        /\ elem' = [elem EXCEPT ![e] = x]
        /\ spokes' = [spokes EXCEPT ![x.cursor] = Append(@, e)]
    BY <1>2, <1>9 DEF AddToWheel, OnWheel, WheelAdd, queueVars, x
  <2>2. \A d \in Given(elem) : Comes(elem[d]) = Comes(x) => elem[d].cursor = x.cursor
    <3>1. elem'[e] = x /\ \A d \in Given(elem) : d # e /\ elem'[d] = elem[d]
      BY <1>1, <2>1 DEF Typed, Well, Given
    <3>2. x # NoElem
      BY <1>2, SizesAre
    <3>3. e \in Allocated' /\ \A d \in Given(elem) : d \in Allocated'
      BY <3>1, <3>2 DEF Allocated, Given
    <3>4. type' = "wheel"
      BY <1>1, <2>1
    <3>5. \A a, b \in Allocated' : Comes(elem'[a]) = Comes(elem'[b])
                                     => elem'[a].cursor = elem'[b].cursor
      BY <3>4, OneSpokeNext
    <3> QED
      BY <3>1, <3>3, <3>5
  <2>3. /\ Due' = A!DueWith(Due, e, Comes(x))
        /\ Earlier' = A!OrderWith(Earlier, Due, e, Comes(x))
    <3>1. /\ Well("wheel", elem, queue, spokes) /\ Well("wheel", elem', queue, spokes')
          /\ elem'[e] = x /\ \A d \in Elems : d # e => elem'[d] = elem[d]
      BY <1>11, <2>1
    <3>2. /\ spokes'[x.cursor] = Append(spokes[x.cursor], e)
          /\ \A s \in Spokes : s # x.cursor => spokes'[s] = spokes[s]
      BY <1>2, <1>11, <2>1 DEF Fields
    <3>3. /\ DueOf(elem', queue, spokes') = A!DueWith(DueOf(elem, queue, spokes), e, Comes(x))
          /\ OrderOf(elem', queue, spokes')
                = A!OrderWith(OrderOf(elem, queue, spokes), DueOf(elem, queue, spokes), e, Comes(x))
      BY <1>1, <1>2, <2>2, <3>1, <3>2, ViewPutSpoke
    <3> QED
      BY <1>4, <1>5, <2>1, <3>3
  <2>4. Ticks' = IF Late > 0 /\ Ticks = -1 THEN 0 ELSE Ticks
    <3>1. Late = 1
      BY <2>1 DEF Late
    <3>2. CASE lastCheck = Minus1
      <4>1. createTime' = now /\ lastCheck' = 0 /\ Ticks = -1
        BY <1>9, <3>2, TicksAre DEF AddToWheel, Start
      <4>2. type' = "wheel" /\ lastCheck' # Minus1' /\ now' = now /\ now \in Nat
        BY <1>1, <2>1, <4>1, NumbersAre, SizesAre DEF Minus1
      <4>3. Ticks' = (now - now) - 0
        BY <4>1, <4>2, TicksNext
      <4> QED
        BY <3>1, <4>1, <4>2, <4>3
    <3>3. CASE lastCheck # Minus1
      <4>1. UNCHANGED <<now, type, createTime, lastCheck>>
        BY <1>1, <1>9, <3>3 DEF AddToWheel, Start
      <4>2. Ticks' = Ticks /\ Ticks \in Nat
        BY <2>1, <3>3, <4>1, TicksStay, TicksAre
      <4> QED
        BY <4>2
    <3> QED
      BY <3>2, <3>3
  <2> QED
    BY <1>7, <2>3, <2>4
<1>10. CASE AddRefused(t)
  <2>1. UNCHANGED <<now, type, elem, queue, spokes, check, createTime, lastCheck>>
    BY <1>1, <1>10 DEF AddRefused, OnQueue, wheelVars
  <2>2. Ticks' = Ticks
    BY <2>1, TicksStay
  <2> QED
    BY <2>1, <2>2 DEF A!alarmVars, Due, Earlier, Linked, Idle, Ticks
<1> QED
  BY <1>8, <1>9, <1>10 DEF Add

(* An element is taken off its spoke. *)
Freed(e) == [elem EXCEPT ![e] = NoElem]

LEMMA ViewOffSpoke ==
    ASSUME Typed, type = "wheel", NEW e \in Elems, Linked(e),
           NEW el, NEW ss, el = Freed(e), ss = OffSpoke(e)
    PROVE  /\ Well("wheel", el, queue, ss) /\ el[e] = NoElem
           /\ \A d \in Elems : d # e => el[d] = elem[d]
           /\ DueOf(el, queue, ss) = A!DueWithout(Due, e)
           /\ OrderOf(el, queue, ss) = A!OrderWithout(Earlier, e)
<1>1. PICK c \in Spokes : c = elem[e].cursor /\ e \in ToSet(spokes[c])
  BY LinkedIs
<1>2. Well("wheel", elem, queue, spokes)
  BY DEF Typed
<1>3. el[e] = NoElem /\ \A d \in Elems : d # e => el[d] = elem[d]
  BY <1>2 DEF Well, Freed
<1>4. ss = [spokes EXCEPT ![c] = Unlinked(@, e)]
  BY <1>1 DEF OffSpoke
<1>5. ss[c] = Unlinked(spokes[c], e) /\ \A s \in Spokes : s # c => ss[s] = spokes[s]
  BY <1>2, <1>4 DEF Well
<1>6. Well("wheel", [elem EXCEPT ![e] = NoElem], queue, [spokes EXCEPT ![c] = Unlinked(@, e)])
  BY <1>1, <1>2, TakeFromSpoke
<1>7. Well("wheel", el, queue, ss)
  BY <1>4, <1>6 DEF Freed
<1>8. /\ DueOf(el, queue, ss) = A!DueWithout(DueOf(elem, queue, spokes), e)
      /\ OrderOf(el, queue, ss) = A!OrderWithout(OrderOf(elem, queue, spokes), e)
  <2>1. e \in ToSet(spokes[c])
    BY <1>1
  <2> QED
    BY <1>2, <1>3, <1>5, <1>7, <2>1, ViewTakeSpoke
<1> QED
  BY <1>3, <1>7, <1>8, Viewed

LEMMA DelIsStep ==
    ASSUME Typed, NEW e \in Elems, Del(e)
    PROVE  A!AlarmsNext
<1>1. /\ ~check.running /\ UNCHANGED <<now, type, check>>
      /\ elem' = [elem EXCEPT ![e] = NoElem] /\ Typed'
  BY AfterDel DEF Del, Idle
<1>2. type = "queue" => e \in ToSet(queue)
  BY LinkedIs DEF Del
<1>3. Due = DueOf(elem, queue, spokes) /\ Earlier = OrderOf(elem, queue, spokes)
  BY Viewed
<1>4. Due' = DueOf(elem', queue', spokes') /\ Earlier' = OrderOf(elem', queue', spokes')
  BY <1>1, ViewedNext
<1>5. Due' = A!DueWithout(Due, e) /\ Earlier' = A!OrderWithout(Earlier, e)
  <2>1. CASE OnQueue /\ queue' = Unlinked(queue, e)
    <3>1. type = "queue" /\ spokes' = spokes
      BY <2>1 DEF OnQueue, wheelVars
    <3>2. \A d \in Elems : d # e => elem'[d] = elem[d]
      BY <1>1 DEF Typed, Well
    <3>3. Well("queue", elem, queue, spokes)
      BY <3>1 DEF Typed
    <3>4. /\ DueOf(elem', Unlinked(queue, e), spokes)
                = A!DueWithout(DueOf(elem, queue, spokes), e)
          /\ OrderOf(elem', Unlinked(queue, e), spokes)
                = A!OrderWithout(OrderOf(elem, queue, spokes), e)
      BY <1>2, <3>1, <3>2, <3>3, ViewTakeQueue
    <3> QED
      BY <1>3, <1>4, <2>1, <3>1, <3>4
  <2>2. CASE OnWheel /\ spokes' = [spokes EXCEPT ![elem[e].cursor] = Unlinked(@, e)]
    <3>1. type = "wheel" /\ queue' = queue
      BY <2>2 DEF OnWheel, queueVars
    <3>2. spokes' = OffSpoke(e)
      BY <2>2 DEF OffSpoke
    <3>3. /\ DueOf(elem', queue, spokes') = A!DueWithout(Due, e)
          /\ OrderOf(elem', queue, spokes') = A!OrderWithout(Earlier, e)
      BY <1>1, <3>1, <3>2, ViewOffSpoke DEF Del, Freed
    <3> QED
      BY <1>4, <3>1, <3>3
  <2> QED
    BY <2>1, <2>2 DEF Del
<1>7. Ticks' = Ticks
  <2>1. UNCHANGED <<now, type, createTime, lastCheck>>
    BY <1>1 DEF Del, OnQueue, wheelVars
  <2> QED
    BY <2>1, TicksStay
<1>6. A!Cancel(e)
  BY <1>1, <1>5, <1>7 DEF A!Cancel, A!Idle, A!NotChecking, Idle, Ticks
<1> QED
  BY <1>6 DEF A!AlarmsNext

LEMMA ResetIsStep ==
    ASSUME Typed, Clocked, Countable, (Typed /\ Waiting)', NEW e \in Elems, NEW t \in Timeouts, Reset(e, t)
    PROVE  A!AlarmsNext
<1> DEFINE x == Element(t)
           f == A!DueWithout(Due, e)
           order == A!OrderWithout(Earlier, e)
<1>1. ~check.running /\ UNCHANGED <<now, type, check, createTime, lastCheck>>
  BY DEF Reset, OnQueue, wheelVars, Idle
<1>2. /\ x \in Fields /\ Comes(x) = A!TimeAfter(t) /\ Comes(x) \in Nat
      /\ type = "wheel" => x.cursor = Cursor(t)
  BY <1>1, ElementIs, TimeAfterIs
<1>11. Ticks' = Ticks
  BY <1>1, TicksStay
<1>3. /\ type = "queue" => e \in ToSet(queue)
      /\ type = "wheel" => /\ elem[e].cursor \in Spokes
                           /\ e \in ToSet(spokes[elem[e].cursor])
      /\ elem[e] # NoElem
  BY LinkedIs DEF Reset
<1>4. Due = DueOf(elem, queue, spokes) /\ Earlier = OrderOf(elem, queue, spokes)
  BY Viewed
<1>5. Due' = DueOf(elem', queue', spokes') /\ Earlier' = OrderOf(elem', queue', spokes')
  BY ViewedNext
<1>6. /\ Well(type, elem, queue, spokes) /\ Well(type, elem', queue', spokes')
      /\ elem \in [Elems -> Fields \cup {NoElem}] /\ spokes \in [Spokes -> Seq(Elems)]
  <2>1. Well(type, elem, queue, spokes) /\ Well(type, elem', queue', spokes')
    BY <1>1 DEF Typed
  <2> QED
    BY <2>1 DEF Well
<1>7. ASSUME Due' = A!DueWith(f, e, Comes(x)), Earlier' = A!OrderWith(order, f, e, Comes(x))
      PROVE  A!AlarmsNext
  <2>1. A!SetAgain(e, t)
    BY <1>1, <1>2, <1>7, <1>11 DEF A!SetAgain, A!Idle, A!NotChecking, Idle, Ticks
  <2> QED
    BY <2>1 DEF A!AlarmsNext
<1>8. ASSUME Due' = f, Earlier' = order PROVE A!AlarmsNext
  <2>1. A!Cancel(e)
    BY <1>1, <1>8, <1>11 DEF A!Cancel, A!Idle, A!NotChecking, Idle, Ticks
  <2> QED
    BY <2>1 DEF A!AlarmsNext
<1> HIDE DEF x, f, order
<1>9. CASE OnQueue
  <2> DEFINE q == Unlinked(queue, e)
  <2>1. /\ type = "queue" /\ spokes' = spokes
        /\ \/ /\ elem' = [elem EXCEPT ![e] = x] /\ queue' = Append(q, e)
           \/ queue' = q /\ elem' = elem
    BY <1>9 DEF Reset, OnQueue, OnWheel, QueueAdd, wheelVars, x
  <2>2. /\ DueOf(elem, q, spokes) = f /\ OrderOf(elem, q, spokes) = order
        /\ Well("queue", elem, q, spokes) /\ ToSet(q) = ToSet(queue) \ {e}
    BY <1>3, <1>4, <1>6, <2>1, ViewTakeQueue, LeaveQueue DEF f, order
  <2> HIDE DEF q
  <2>3. CASE queue' = q /\ elem' = elem
    BY <1>5, <1>8, <2>1, <2>2, <2>3
  <2>4. CASE elem' = [elem EXCEPT ![e] = x] /\ queue' = Append(q, e)
    <3>1. /\ Well("queue", elem', Append(q, e), spokes)
          /\ elem'[e] = x /\ \A d \in Elems : d # e => elem'[d] = elem[d]
      BY <1>6, <2>1, <2>4
    <3>2. /\ DueOf(elem', Append(q, e), spokes)
                = A!DueWith(DueOf(elem, q, spokes), e, Comes(x))
          /\ OrderOf(elem', Append(q, e), spokes)
                = A!OrderWith(OrderOf(elem, q, spokes), DueOf(elem, q, spokes), e, Comes(x))
      BY <1>2, <2>2, <3>1, ViewPutQueue
    <3> QED
      BY <1>5, <1>7, <2>1, <2>2, <2>4, <3>2
  <2> QED
    BY <2>1, <2>3, <2>4
<1>10. CASE OnWheel
  <2> DEFINE ss == OffSpoke(e)
             el == [elem EXCEPT ![e] = NoElem]
  <2>1. /\ type = "wheel" /\ queue' = queue
        /\ elem' = [elem EXCEPT ![e] = x]
        /\ spokes' = [ss EXCEPT ![x.cursor] = Append(@, e)]
    BY <1>2, <1>10 DEF Reset, OnQueue, OnWheel, WheelAdd, queueVars, x
  <2>2. /\ Well("wheel", el, queue, ss) /\ el[e] = NoElem
        /\ \A d \in Elems : d # e => el[d] = elem[d]
        /\ DueOf(el, queue, ss) = f /\ OrderOf(el, queue, ss) = order
    BY <2>1, ViewOffSpoke DEF Reset, f, order, Freed
  <2>3. elem'[e] = x /\ \A d \in Elems : d # e => elem'[d] = el[d]
    BY <1>6, <2>1, <2>2
  <2>4. /\ spokes'[x.cursor] = Append(ss[x.cursor], e)
        /\ \A s \in Spokes : s # x.cursor => spokes'[s] = ss[s]
    BY <1>2, <2>1, <2>2 DEF Well, Fields
  <2> HIDE DEF ss, el
  <2>6. \A d \in Given(el) : Comes(el[d]) = Comes(x) => el[d].cursor = x.cursor
    <3>1. \A d \in Given(el) : d # e /\ d \in Elems /\ elem'[d] = el[d] /\ el[d] # NoElem
      BY <2>2, <2>3 DEF Given
    <3>2. x # NoElem
      BY <1>2, SizesAre
    <3>3. e \in Allocated' /\ \A d \in Given(el) : d \in Allocated'
      BY <2>3, <3>1, <3>2 DEF Allocated
    <3>4. type' = "wheel"
      BY <1>1, <2>1
    <3>5. \A a, b \in Allocated' : Comes(elem'[a]) = Comes(elem'[b])
                                     => elem'[a].cursor = elem'[b].cursor
      BY <3>4, OneSpokeNext
    <3> QED
      BY <2>3, <3>1, <3>3, <3>5
  <2>7. Well("wheel", elem', queue, spokes')
    BY <1>6, <2>1
  <2>8. /\ DueOf(elem', queue, spokes') = A!DueWith(DueOf(el, queue, ss), e, Comes(x))
        /\ OrderOf(elem', queue, spokes')
              = A!OrderWith(OrderOf(el, queue, ss), DueOf(el, queue, ss), e, Comes(x))
    <3>1. Well("wheel", el, queue, ss) /\ el[e] = NoElem /\ x \in Fields /\ Comes(x) \in Nat
      BY <1>2, <2>2
    <3> QED
      BY <2>3, <2>4, <2>6, <2>7, <3>1, ViewPutSpoke
  <2> QED
    BY <1>5, <1>7, <2>1, <2>2, <2>8
<1> QED
  BY <1>9, <1>10 DEF Reset

(* What is left once an alarm has fired: times f and their order, but for  *)
(* what its callback does.                                                 *)
Left(f, order) ==
    \/ Due' = f /\ Earlier' = order
    \/ \E x \in Elems : /\ Due' = A!DueWithout(f, x)
                        /\ Earlier' = A!OrderWithout(order, x)
    \/ \E x \in Elems, t \in Timeouts :
          /\ Ticks = -1 /\ ~A!IsSet(x)
          /\ Due' = A!DueWith(f, x, now + t)
          /\ Earlier' = A!OrderWith(order, f, x, now + t)

LEMMA FiresNext ==
    ASSUME Typed, Clocked, Waiting, Enough, QueueHoldsLastTick, Near, AtFirst,
           NEW e \in Elems, Fire \/ FireAndDel(e) \/ \E t \in Timeouts : FireAndAdd(e, t),
           Left(A!DueWithout(Due, check.tmp), A!OrderWithout(Earlier, check.tmp))
    PROVE  A!AlarmsNext
<1> DEFINE d == check.tmp
           f == A!DueWithout(Due, d)
           order == A!OrderWithout(Earlier, d)
<1>1. /\ Ready /\ check.running /\ check.cbCnt < check.max
      /\ UNCHANGED <<now, type, createTime, lastCheck>>
      /\ \E q, ss, el : Unlink(q, ss, el)
  BY FireUnlinks
<1>2. d \in Elems /\ A!IsDue(d) /\ A!IsFirst(d)
  BY <1>1, FirstDue, ReadyLinked
<1>3. check'.running /\ check'.max = check.max /\ check'.cbCnt = check.cbCnt + 1
  BY <1>1, UnlinkCounts
<1>4. check.max \in Nat /\ check.cbCnt \in Nat
  BY DEF Typed, Looking, Checks
<1>5. /\ Budget > 0 /\ Budget' = Budget - 1 /\ Late' = Late /\ Ticks' = Ticks
  BY <1>1, <1>3, <1>4, TicksStay DEF Budget, Late, Idle
<1>6. \/ Due' = f /\ Earlier' = order
      \/ \E x \in Elems : Due' = A!DueWithout(f, x) /\ Earlier' = A!OrderWithout(order, x)
      \/ \E x \in Elems, t \in Timeouts :
            /\ Ticks = -1 /\ ~A!IsSet(x)
            /\ Due' = A!DueWith(f, x, now + t)
            /\ Earlier' = A!OrderWith(order, f, x, now + t)
  BY DEF Left
<1>7. A!FireNext
  BY <1>1, <1>2, <1>5, <1>6, Zenon DEF A!FireNext, A!NotCounted, Budget, Late, Ticks
<1> QED
  BY <1>7 DEF A!AlarmsNext

LEMMA FireIsStep ==
    ASSUME Typed, Typed', Fire
    PROVE  Left(A!DueWithout(Due, check.tmp), A!OrderWithout(Earlier, check.tmp))
<1> DEFINE d == check.tmp
<1>1. /\ type' = type /\ Unlink(queue, spokes, elem) /\ d \in Elems
      /\ type \in {"queue", "wheel"}
      /\ type = "queue" => d \in ToSet(queue)
      /\ type = "wheel" => d \in ToSet(spokes[spokeIndex])
  BY ReadyIs DEF Fire
<1>2. /\ Well(type, elem, queue, spokes) /\ Well(type, elem', queue', spokes')
      /\ spokeIndex \in Spokes
  BY <1>1 DEF Typed
<1>3. Due' = DueOf(elem', queue', spokes') /\ Earlier' = OrderOf(elem', queue', spokes')
  BY ViewedNext
<1>4. elem' = [elem EXCEPT ![d] = NoElem]
  BY AfterFire
<1>5. \A x \in Elems : x # d => elem'[x] = elem[x]
  BY <1>2, <1>4 DEF Well
<1>6. Due' = A!DueWithout(Due, d) /\ Earlier' = A!OrderWithout(Earlier, d)
  <2>1. CASE type = "queue"
    <3>1. queue' = Unlinked(queue, d) /\ spokes' = spokes
      BY <1>1, <2>1 DEF Unlink, wheelVars
    <3>2. /\ DueOf(elem', Unlinked(queue, d), spokes)
                = A!DueWithout(DueOf(elem, queue, spokes), d)
          /\ OrderOf(elem', Unlinked(queue, d), spokes)
                = A!OrderWithout(OrderOf(elem, queue, spokes), d)
      BY <1>1, <1>2, <1>5, <2>1, ViewTakeQueue
    <3> QED
      BY <1>3, <3>1, <3>2, Viewed
  <2>2. CASE type = "wheel"
    <3>1. PICK c \in Spokes : c = spokeIndex /\ d \in ToSet(spokes[c])
      BY <1>1, <1>2, <2>2
    <3>2. queue' = queue /\ spokes' = [spokes EXCEPT ![c] = Unlinked(@, d)]
      BY <1>1, <2>2, <3>1 DEF Unlink, queueVars
    <3>3. /\ spokes'[c] = Unlinked(spokes[c], d)
          /\ \A s \in Spokes : s # c => spokes'[s] = spokes[s]
      BY <1>2, <3>1, <3>2 DEF Well
    <3>4. Well("wheel", elem, queue, spokes) /\ Well("wheel", elem', queue, spokes')
      BY <1>2, <2>2, <3>2
    <3>5. d \in ToSet(spokes[c])
      BY <3>1
    <3>6. /\ DueOf(elem', queue, spokes') = A!DueWithout(DueOf(elem, queue, spokes), d)
          /\ OrderOf(elem', queue, spokes') = A!OrderWithout(OrderOf(elem, queue, spokes), d)
      BY <1>1, <1>5, <3>3, <3>4, <3>5, ViewTakeSpoke
    <3> QED
      BY <1>3, <3>2, <3>6, Viewed
  <2> QED
    BY <1>1, <2>1, <2>2
<1> QED
  BY <1>6 DEF Left

LEMMA FireAndDelIsStep ==
    ASSUME Typed, Typed', NEW e \in Elems, FireAndDel(e)
    PROVE  Left(A!DueWithout(Due, check.tmp), A!OrderWithout(Earlier, check.tmp))
<1> DEFINE d == check.tmp
<1>1. /\ type' = type /\ d \in Elems /\ e # d /\ Linked(e)
      /\ Unlink(Unlinked(queue, e), OffSpoke(e), [elem EXCEPT ![e] = NoElem])
      /\ type \in {"queue", "wheel"}
      /\ type = "queue" => d \in ToSet(queue) /\ e \in ToSet(queue)
      /\ type = "wheel" => d \in ToSet(spokes[spokeIndex])
  BY ReadyIs, LinkedIs DEF FireAndDel
<1>2. /\ Well(type, elem, queue, spokes) /\ Well(type, elem', queue', spokes')
      /\ spokeIndex \in Spokes
  BY <1>1 DEF Typed
<1>3. Due' = DueOf(elem', queue', spokes') /\ Earlier' = OrderOf(elem', queue', spokes')
  BY ViewedNext
<1>4. /\ Due' = A!DueWithout(A!DueWithout(Due, e), d)
      /\ Earlier' = A!OrderWithout(A!OrderWithout(Earlier, e), d)
  <2>1. CASE type = "queue"
    <3>1. PICK q : q = Unlinked(queue, e)
      OBVIOUS
    <3>2. PICK el : el = [elem EXCEPT ![e] = NoElem]
      OBVIOUS
    <3>3. /\ Well("queue", el, q, spokes) /\ ToSet(q) = ToSet(queue) \ {e}
          /\ \A x \in Elems : x # e => el[x] = elem[x]
      <4>1. /\ Well("queue", [elem EXCEPT ![e] = NoElem], Unlinked(queue, e), spokes)
            /\ ToSet(Unlinked(queue, e)) = ToSet(queue) \ {e}
        BY <1>1, <1>2, <2>1, TakeFromQueue, LeaveQueue
      <4>2. \A x \in Elems : x # e => el[x] = elem[x]
        BY <1>2, <3>2 DEF Well
      <4> QED
        BY <3>1, <3>2, <4>1, <4>2
    <3>4. /\ queue' = Unlinked(q, d) /\ spokes' = spokes
          /\ elem' = [el EXCEPT ![d] = NoElem] /\ d \in ToSet(q)
      BY <1>1, <2>1, <3>1, <3>2, <3>3 DEF Unlink, wheelVars
    <3>5. \A x \in Elems : x # d => elem'[x] = el[x]
      BY <3>3, <3>4 DEF Well
    <3>6. /\ DueOf(el, Unlinked(queue, e), spokes)
                = A!DueWithout(DueOf(elem, queue, spokes), e)
          /\ OrderOf(el, Unlinked(queue, e), spokes)
                = A!OrderWithout(OrderOf(elem, queue, spokes), e)
      BY <1>1, <1>2, <2>1, <3>3, ViewTakeQueue
    <3>7. /\ DueOf(elem', Unlinked(q, d), spokes) = A!DueWithout(DueOf(el, q, spokes), d)
          /\ OrderOf(elem', Unlinked(q, d), spokes) = A!OrderWithout(OrderOf(el, q, spokes), d)
      <4>1. Well("queue", el, q, spokes) /\ d \in ToSet(q)
        BY <3>3, <3>4
      <4> QED
        BY <3>5, <4>1, ViewTakeQueue
    <3> QED
      BY <1>3, <3>1, <3>4, <3>6, <3>7, Viewed
  <2>2. CASE type = "wheel"
    <3>1. PICK ss : ss = OffSpoke(e)
      OBVIOUS
    <3>2. PICK el : el = [elem EXCEPT ![e] = NoElem]
      OBVIOUS
    <3>3. /\ Well("wheel", el, queue, ss)
          /\ DueOf(el, queue, ss) = A!DueWithout(Due, e)
          /\ OrderOf(el, queue, ss) = A!OrderWithout(Earlier, e)
      BY <1>1, <2>2, <3>1, <3>2, ViewOffSpoke DEF Freed
    <3>4. PICK c \in Spokes : c = spokeIndex
      BY <1>2
    <3>5. /\ queue' = queue /\ elem' = [el EXCEPT ![d] = NoElem]
          /\ spokes' = [ss EXCEPT ![c] = Unlinked(@, d)]
      BY <1>1, <2>2, <3>1, <3>2, <3>4 DEF Unlink, queueVars
    <3>6. /\ spokes'[c] = Unlinked(ss[c], d)
          /\ \A s \in Spokes : s # c => spokes'[s] = ss[s]
          /\ \A x \in Elems : x # d => elem'[x] = el[x]
      BY <3>3, <3>5 DEF Well
    <3>7. d \in ToSet(ss[c])
      <4>1. d \in Given(el) /\ el[d].cursor = c
        <5>1. d \in Given(elem) /\ elem[d].cursor = c
          BY <1>1, <1>2, <2>2, <3>4 DEF Well
        <5>2. el[d] = elem[d]
          BY <1>1, <1>2, <3>2 DEF Well
        <5> QED
          BY <5>1, <5>2 DEF Given
      <4> QED
        BY <3>3, <4>1 DEF Well
    <3>8. Well("wheel", elem', queue, spokes')
      BY <1>2, <2>2, <3>5
    <3>9. /\ DueOf(elem', queue, spokes') = A!DueWithout(DueOf(el, queue, ss), d)
          /\ OrderOf(elem', queue, spokes') = A!OrderWithout(OrderOf(el, queue, ss), d)
      <4>1. Well("wheel", el, queue, ss) /\ d \in Elems
        BY <1>1, <3>3
      <4> QED
        BY <3>6, <3>7, <3>8, <4>1, ViewTakeSpoke
    <3> QED
      BY <1>3, <3>3, <3>5, <3>9
  <2> QED
    BY <1>1, <2>1, <2>2
<1>5. Due \in [Elems -> Int]
  <2>1. \A x \in Elems : Due[x] \in Int
    BY AlarmIs
  <2> QED
    BY <2>1 DEF Due
<1>6. /\ Due' = A!DueWithout(A!DueWithout(Due, d), e)
      /\ Earlier' = A!OrderWithout(A!OrderWithout(Earlier, d), e)
  BY <1>1, <1>4, <1>5, TakenTwice
<1> QED
  BY <1>6 DEF Left

LEMMA FireAndAddIsStep ==
    ASSUME Typed, Typed', Plain, NEW e \in Elems, NEW t \in Timeouts, FireAndAdd(e, t)
    PROVE  Left(A!DueWithout(Due, check.tmp), A!OrderWithout(Earlier, check.tmp))
<1> DEFINE d == check.tmp
           u == now + t
<1>1. /\ type' = type /\ type = "queue" /\ d \in ToSet(queue) /\ d \in Elems /\ e # d
      /\ elem[e] = NoElem
      /\ \E ss : Unlink(Append(queue, e), ss, [elem EXCEPT ![e] = Element(t)])
  BY ReadyIs, TimerAssumption DEF FireAndAdd, Plain
<1>2. /\ Well("queue", elem, queue, spokes) /\ Well("queue", elem', queue', spokes')
      /\ e \notin ToSet(queue)
  <2>1. Well("queue", elem, queue, spokes) /\ Well("queue", elem', queue', spokes')
    BY <1>1 DEF Typed
  <2> QED
    BY <1>1, <2>1, FreshIs
<1>3. Due' = DueOf(elem', queue', spokes') /\ Earlier' = OrderOf(elem', queue', spokes')
  BY ViewedNext
<1>4. PICK x \in Fields : x = Element(t) /\ Comes(x) = u /\ u \in Nat
  <2>1. Element(t) \in Fields /\ Element(t).due = u /\ u \in Nat /\ Element(t).early = 0
    BY <1>1, ElementIs
  <2>2. Comes(Element(t)) = u
    BY <2>1 DEF Comes
  <2> QED
    BY <2>1, <2>2
<1>5. PICK el : el = [elem EXCEPT ![e] = x]
  OBVIOUS
<1>6. /\ Well("queue", el, Append(queue, e), spokes)
      /\ el[e] = x /\ \A y \in Elems : y # e => el[y] = elem[y]
  <2>1. Well("queue", [elem EXCEPT ![e] = x], Append(queue, e), spokes)
    BY <1>2, PutOnQueue
  <2>2. el[e] = x /\ \A y \in Elems : y # e => el[y] = elem[y]
    BY <1>2, <1>5 DEF Well
  <2> QED
    BY <1>5, <2>1, <2>2
<1>7. /\ DueOf(el, Append(queue, e), spokes) = A!DueWith(DueOf(elem, queue, spokes), e, Comes(x))
      /\ OrderOf(el, Append(queue, e), spokes)
            = A!OrderWith(OrderOf(elem, queue, spokes), DueOf(elem, queue, spokes), e, Comes(x))
  <2>1. Comes(x) \in Nat
    BY <1>4
  <2> QED
    BY <1>2, <1>6, <2>1, ViewPutQueue
<1>8. PICK q : q = Append(queue, e)
  OBVIOUS
<1>9. /\ queue' = Unlinked(q, d) /\ spokes' = spokes /\ elem' = [el EXCEPT ![d] = NoElem]
  BY <1>1, <1>4, <1>5, <1>8 DEF Unlink, wheelVars
<1>10. d \in ToSet(q) /\ Well("queue", el, q, spokes)
  BY <1>1, <1>2, <1>6, <1>8, AppendIs DEF Well
<1>11. \A y \in Elems : y # d => elem'[y] = el[y]
  BY <1>9, <1>10 DEF Well
<1>12. /\ DueOf(elem', Unlinked(q, d), spokes) = A!DueWithout(DueOf(el, q, spokes), d)
       /\ OrderOf(elem', Unlinked(q, d), spokes) = A!OrderWithout(OrderOf(el, q, spokes), d)
  BY <1>10, <1>11, ViewTakeQueue
<1>13. /\ Due' = A!DueWithout(A!DueWith(Due, e, u), d)
       /\ Earlier' = A!OrderWithout(A!OrderWith(Earlier, Due, e, u), d)
  BY <1>3, <1>4, <1>7, <1>8, <1>9, <1>12, Viewed
<1>14. Due \in [Elems -> Int] /\ Earlier \in SUBSET (Elems \X Elems)
  <2>1. \A y \in Elems : Due[y] \in Int
    BY AlarmIs
  <2> QED
    BY <2>1 DEF Due, Earlier
<1> HIDE DEF u
<1>15. /\ Due' = A!DueWith(A!DueWithout(Due, d), e, u)
       /\ Earlier' = A!OrderWith(A!OrderWithout(Earlier, d), A!DueWithout(Due, d), e, u)
  BY <1>1, <1>4, <1>13, <1>14, SetThenTaken
<1>16. Ticks = -1 /\ ~A!IsSet(e)
  BY <1>1, AlarmIs DEF Ticks, A!IsSet, A!NotSet
<1> QED
  BY <1>15, <1>16 DEF Left, u

LEMMA ReturnIsStep ==
    ASSUME Typed, Clocked, (Typed /\ Clocked)', Waiting, QueueHoldsLastTick, Near, AtFirst,
           InBudget, Return
    PROVE  A!AlarmsNext
<1>1. /\ UNCHANGED <<now, type, elem, queue, spokes>> /\ check' = NoCheck /\ check.running
      /\ ~check'.running
  BY AfterReturn, NoCheckIs
<1>2. Due' = Due /\ Earlier' = Earlier
  BY <1>1 DEF Due, Earlier, Linked
<1>3. check.max \in Nat /\ check.cbCnt \in Nat /\ check.cbCnt <= check.max
  BY <1>1 DEF Typed, Looking, Checks, InBudget
<1>4. Budget = check.max - check.cbCnt /\ Budget # -1 /\ Budget' = -1 /\ Late' = Late
  BY <1>1, <1>3 DEF Budget, Late, Idle
<1>5. Budget = 0 \/ \A e \in Elems : ~A!IsDue(e)
  <2>1. CASE Ready /\ check.cbCnt >= check.max
    BY <1>3, <1>4, <2>1
  <2>2. CASE \/ type = "queue" /\ check.tmp = NoElem
             \/ AtElement("queue") /\ ~Expired
             \/ type = "wheel" /\ check.tmp = NoElem /\ check.i >= TickCnt
    BY <1>1, <2>2, NoneDue
  <2> QED
    BY <2>1, <2>2 DEF Return
<1>7. Ticks' = IF Ticks = -1 THEN -1 ELSE 0
  <2>1. CASE type = "queue"
    <3>1. Ticks = -1 /\ Ticks' = -1
      BY <1>1, <2>1 DEF Ticks
    <3> QED
      BY <3>1
  <2>2. CASE type = "wheel"
    <3>1. lastCheck # Minus1 /\ type' = "wheel"
      BY <1>1, <2>2 DEF Clocked
    <3>2. /\ lastCheck' = now - createTime /\ now - createTime # Minus1
          /\ createTime' = createTime /\ now' = now
      BY <1>1, <2>2, <3>1, ClockIs DEF Return
    <3>3. lastCheck' # Minus1'
      BY <3>2 DEF Minus1
    <3>4. Ticks' = (now - createTime) - (now - createTime)
      BY <3>1, <3>2, <3>3, TicksNext
    <3>5. Ticks' = 0 /\ Ticks # -1
      <4>1. now \in Int /\ createTime \in Int
        BY NumbersAre
      <4>2. Ticks \in Nat
        BY <2>2, <3>1, TicksAre
      <4> QED
        BY <3>4, <4>1, <4>2
    <3> QED
      BY <3>5
  <2> QED
    BY <2>1, <2>2, TimerAssumption DEF Typed
<1>6. A!EndCheck
  BY <1>1, <1>2, <1>4, <1>5, <1>7, Zenon
     DEF A!EndCheck, A!Idle, A!NotChecking, A!NotCounted, Budget, Late, Ticks
<1> QED
  BY <1>6 DEF A!AlarmsNext

(* What every state of a timer satisfies. *)
Timed ==
    /\ Typed /\ Counted /\ Clocked /\ Enough /\ Waiting
    /\ QueueHoldsLastTick /\ Near /\ InBudget /\ AtFirst

LEMMA TimedInit ==
    ASSUME Init PROVE Timed /\ A!AlarmsInit
<1>1. Typed /\ Counted /\ Allocated = {}
  BY InitTyped, FS_EmptySet DEF Counted
<1>2. /\ lastCheck = Minus1 /\ createTime = Minus1 /\ now = 1 /\ ~check.running
      /\ queue = <<>> /\ spokes = [s \in Spokes |-> <<>>] /\ lastExpire = Minus1
  BY NoCheckIs DEF Init
<1>3. Minus1 >= 1
  BY TimerAssumption DEF Minus1
<1>4. Clocked /\ Enough /\ Waiting /\ Near /\ InBudget /\ AtFirst
  BY <1>1, <1>2, <1>3 DEF Clocked, Enough, Waiting, Near, InBudget, AtFirst
<1>5. QueueHoldsLastTick
  BY <1>2 DEF QueueHoldsLastTick, ToSet
<1>6. Due = [e \in Elems |-> -1] /\ Earlier = {}
  BY <1>1, <1>2, Viewed, NoLists
<1>7. Budget = -1 /\ Late \in {0, 1} /\ Ticks = -1
  BY <1>2 DEF Budget, Late, Idle, Ticks
<1>8. A!AlarmsInit
  BY <1>2, <1>6, <1>7
     DEF A!AlarmsInit, A!NotSet, A!NotChecking, A!NotCounted, Budget, Late, Ticks
<1> QED
  BY <1>1, <1>4, <1>5, <1>8 DEF Timed

LEMMA TimedKept ==
    ASSUME IsFiniteSet(Elems), Plain, Countable, \A t \in Timeouts : t < Word, Timed,
           [Next]_vars
    PROVE  Timed'
<1>1. Typed' /\ Counted'
  BY TypedKept, CountedKept DEF Timed
<1>2. Clocked' /\ Enough' /\ Waiting'
  BY WheelKept DEF Timed
<1>3. QueueHoldsLastTick'
  BY QueueKept DEF Timed
<1>4. Near' /\ InBudget' /\ AtFirst'
  BY NearKept, InBudgetKept, AtFirstKept DEF Timed
<1> QED
  BY <1>1, <1>2, <1>3, <1>4 DEF Timed

LEMMA TimedIsStep ==
    ASSUME Plain, Countable, Timed, Timed', [Next]_vars
    PROVE  [A!AlarmsNext]_(A!alarmVars)
<1>1. /\ Typed /\ Clocked /\ Waiting /\ Enough /\ QueueHoldsLastTick /\ Near /\ AtFirst
      /\ InBudget /\ Typed' /\ (Typed /\ Waiting)' /\ (Typed /\ Clocked)'
      /\ (Typed /\ Clocked /\ Waiting)'
  BY DEF Timed
<1>2. CASE PassBy \/ Turn \/ UNCHANGED vars
  <2>1. /\ Due' = Due /\ Earlier' = Earlier /\ now' = now
        /\ Budget' = Budget /\ Late' = Late /\ Ticks' = Ticks
    BY <1>1, <1>2, HiddenAre
  <2> QED
    BY <2>1 DEF A!alarmVars, Budget, Late, Ticks
<1>3. CASE Return
  BY <1>1, <1>3, ReturnIsStep
<1>4. ASSUME Tick \/ Recreate \/ \E max \in MaxCbTimes[type] : Check(max)
      PROVE  A!AlarmsNext
  BY <1>1, <1>4, CallsAreSteps
<1>5. CASE Fire
  <2>1. check.tmp \in Elems
    BY <1>1, <1>5, ReadyIs DEF Fire
  <2> QED
    BY <1>1, <1>5, <2>1, FireIsStep, FiresNext
<1>6. ASSUME NEW e \in Elems, Del(e) \/ FireAndDel(e) PROVE A!AlarmsNext
  BY <1>1, <1>6, DelIsStep, FireAndDelIsStep, FiresNext
<1>7. ASSUME NEW e \in Elems, NEW t \in Timeouts,
             Add(e, t) \/ Reset(e, t) \/ FireAndAdd(e, t)
      PROVE  A!AlarmsNext \/ UNCHANGED A!alarmVars
  <2>1. CASE Add(e, t)
    BY <1>1, <2>1, AddIsStep
  <2>2. CASE Reset(e, t)
    BY <1>1, <2>2, ResetIsStep
  <2>3. CASE FireAndAdd(e, t)
    BY <1>1, <2>3, FireAndAddIsStep, FiresNext
  <2> QED
    BY <1>7, <2>1, <2>2, <2>3
<1> QED
  BY <1>2, <1>3, <1>4, <1>5, <1>6, <1>7, StepCases, Zenon

(* A timer of either type, of any size, is a set of alarms: each fires     *)
(* once, in a check at or after its time, the earliest first and of equal  *)
(* ones the one set first, and a check leaves out none whose time has come *)
(* unless max_cb_times stops it.  The time is that of the add or reset     *)
(* plus the timeout, less the rounds it loses if the wheel is behind.  A   *)
(* timeout is an unsigned long, its rotations an int; of a wheel, no check *)
(* is cut short and no callback adds.                                      *)
THEOREM Refinement ==
    ASSUME IsFiniteSet(Elems), Plain, Countable, \A t \in Timeouts : t < Word
    PROVE  Spec => ImplementsAlarms
<1>1. Init => Timed /\ A!AlarmsInit
  BY TimedInit
<1>2. Timed /\ [Next]_vars => Timed'
  BY TimedKept
<1>3. Timed /\ Timed' /\ [Next]_vars => [A!AlarmsNext]_(A!alarmVars)
  BY TimedIsStep
<1> QED
  BY <1>1, <1>2, <1>3, PTL DEF Spec, ImplementsAlarms, A!AlarmsSpec
=============================================================================
