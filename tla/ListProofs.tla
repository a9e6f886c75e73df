----------------------------- MODULE ListProofs -----------------------------
(***************************************************************************)
(* Proofs about the list, for any nodes.  The nodes of the list have an    *)
(* order (Chain), which the walk along next from the head finds; it says   *)
(* what all other walks find.  Each operation gives the new order from the *)
(* old one, from which the list implements NodeSequence.  The iterator has *)
(* a place in the order, and what it owes is ahead of it (Ahead).          *)
(***************************************************************************)
EXTENDS List, Arithmetic, TLAPS

(* Following links: a recursive function is the one its equation chooses;  *)
(* that there is one, and no other, is shown by taking the least number of *)
(* steps for which it would not be so.                                     *)

(* f tells where the links lead from p in up to k steps. *)
IsTrail(f, link, p, k) ==
    f = [j \in 0 .. k |-> IF j = 0 THEN p
                          ELSE IF f[j - 1] = NULL THEN NULL
                          ELSE link[f[j - 1]]]

LEMMA TrailStep ==
    ASSUME NEW f, NEW link, NEW p, NEW k \in Nat, IsTrail(f, link, p, k)
    PROVE  /\ f[0] = p
           /\ \A j \in 1 .. k : f[j] = IF f[j - 1] = NULL THEN NULL ELSE link[f[j - 1]]
<1> DEFINE g == [j \in 0 .. k |-> IF j = 0 THEN p
                        ELSE IF f[j - 1] = NULL THEN NULL
                        ELSE link[f[j - 1]]]
<1>1. f = g
  BY DEF IsTrail
<1>2. \A j \in 0 .. k : g[j] = IF j = 0 THEN p
                        ELSE IF f[j - 1] = NULL THEN NULL
                        ELSE link[f[j - 1]]
  OBVIOUS
<1> HIDE DEF g
<1>3. QED BY <1>1, <1>2

LEMMA TrailExists ==
    ASSUME NEW link, NEW p, NEW k \in Nat
    PROVE  \E f : IsTrail(f, link, p, k)
<1> DEFINE Bad == {m \in Nat : ~ \E f : IsTrail(f, link, p, m)}
<1> SUFFICES ASSUME Bad # {} PROVE FALSE
  BY Zenon
<1>1. PICK m \in Bad : \A j \in Bad : m <= j
  BY NatMin
<1>2. m # 0
  <2> DEFINE f == [j \in 0 .. 0 |-> p]
  <2>1. IsTrail(f, link, p, 0)
    BY DEF IsTrail
  <2> QED BY <2>1
<1>3. m - 1 \in Nat /\ m - 1 \notin Bad
  BY <1>1, <1>2
<1>4. PICK f : IsTrail(f, link, p, m - 1)
  BY <1>3
<1> DEFINE g == [j \in 0 .. m |-> IF j = 0 THEN p
                        ELSE IF f[j - 1] = NULL THEN NULL
                        ELSE link[f[j - 1]]]
<1>5. \A j \in 0 .. (m - 1) : g[j] = f[j]
  BY <1>4, <1>3, TrailStep
<1>6. IsTrail(g, link, p, m)
  <2>1. \A j \in 0 .. m : j # 0 => g[j - 1] = f[j - 1]
    BY <1>5
  <2> QED BY <2>1 DEF IsTrail
<1>7. QED BY <1>6

LEMMA TrailUnique ==
    ASSUME NEW link, NEW p, NEW k \in Nat, NEW n \in Nat, k <= n,
           NEW f, IsTrail(f, link, p, k),
           NEW g, IsTrail(g, link, p, n)
    PROVE  \A j \in 0 .. k : f[j] = g[j]
<1> DEFINE Bad == {j \in 0 .. k : f[j] # g[j]}
<1> SUFFICES ASSUME Bad # {} PROVE FALSE
  BY Zenon
<1>1. PICK m \in Bad : \A j \in Bad : m <= j
  <2>1. Bad \in SUBSET Nat
    OBVIOUS
  <2> QED BY <2>1, NatMin
<1>2. m # 0
  BY TrailStep
<1>3. m - 1 \in 0 .. k /\ f[m - 1] = g[m - 1]
  BY <1>1, <1>2
<1>4. f[m] = g[m]
  <2>1. m \in 1 .. k /\ m \in 1 .. n
    BY <1>1, <1>2
  <2> QED BY <2>1, <1>3, TrailStep
<1>5. QED BY <1>4

LEMMA FollowIsTrail ==
    ASSUME NEW link, NEW p, NEW k \in Nat, NEW f, IsTrail(f, link, p, k)
    PROVE  Follow(link, p, k) = f[k]
<1> DEFINE at == CHOOSE h : IsTrail(h, link, p, k)
<1>1. IsTrail(at, link, p, k)
  BY TrailExists, Zenon
<1>2. Follow(link, p, k) = at[k]
  BY Zenon DEF Follow, IsTrail
<1>3. at[k] = f[k]
  <2> HIDE DEF at
  <2> QED BY <1>1, TrailUnique
<1>4. QED BY <1>2, <1>3

(* The two equations that the definition of Follow stands for. *)
LEMMA FollowNone ==
    ASSUME NEW link, NEW p
    PROVE  Follow(link, p, 0) = p
<1>1. PICK f : IsTrail(f, link, p, 0)
  BY TrailExists
<1>2. QED BY <1>1, FollowIsTrail, TrailStep

LEMMA FollowOn ==
    ASSUME NEW link, NEW p, NEW k \in Nat
    PROVE  Follow(link, p, k + 1) =
              IF Follow(link, p, k) = NULL THEN NULL ELSE link[Follow(link, p, k)]
<1>1. PICK f : IsTrail(f, link, p, k + 1)
  BY TrailExists
<1>2. PICK g : IsTrail(g, link, p, k)
  BY TrailExists
<1>3. f[k] = g[k]
  BY <1>1, <1>2, TrailUnique
<1>4. f[k + 1] = IF f[k] = NULL THEN NULL ELSE link[f[k]]
  BY <1>1, TrailStep
<1>5. QED BY <1>1, <1>2, <1>3, <1>4, FollowIsTrail

----------------------------------------------------------------------------
(* The order of the nodes *)

Types ==
    /\ len \in Nat
    /\ {head, tail} \subseteq Nodes \cup {NULL}
    /\ prev \in [Nodes -> Nodes \cup {NULL}]
    /\ next \in [Nodes -> Nodes \cup {NULL}]
    /\ it \in [live : BOOLEAN, next : Nodes \cup {NULL}, direction : Directions]
    /\ owed \subseteq Nodes

(* The links lead from p through s[1] ... s[n] and then to NULL. *)
Leads(link, p, s, n) ==
    /\ p = IF n = 0 THEN NULL ELSE s[1]
    /\ \A k \in 1 .. n : link[s[k]] = IF k = n THEN NULL ELSE s[k + 1]

Reversed(s, n) == [k \in 1 .. n |-> s[n + 1 - k]]

(* The list holds s[1] ... s[len], in this order: what every operation has *)
(* to keep, and what a walk along next alone does not say of prev, or of   *)
(* tail.                                                                   *)
Chain(s) ==
    /\ s \in [1 .. len -> Nodes]
    /\ \A j, k \in 1 .. len : s[j] = s[k] => j = k
    /\ head = IF len = 0 THEN NULL ELSE s[1]
    /\ tail = IF len = 0 THEN NULL ELSE s[len]
    /\ \A k \in 1 .. len : next[s[k]] = IF k = len THEN NULL ELSE s[k + 1]
    /\ \A k \in 1 .. len : prev[s[k]] = IF k = 1 THEN NULL ELSE s[k - 1]

LEMMA FollowLeads ==
    ASSUME NEW n \in Nat, NEW s \in [1 .. n -> Nodes], NEW link, NEW p,
           Leads(link, p, s, n)
    PROVE  \A k \in 0 .. n : Follow(link, p, k) = IF k = n THEN NULL ELSE s[k + 1]
<1> DEFINE Due(k) == IF k = n THEN NULL ELSE s[k + 1]
           Bad == {k \in 0 .. n : Follow(link, p, k) # Due(k)}
<1> SUFFICES ASSUME Bad # {} PROVE FALSE
  BY Zenon
<1>1. PICK m \in Bad : \A j \in Bad : m <= j
  <2>1. Bad \in SUBSET Nat
    OBVIOUS
  <2> QED BY <2>1, NatMin
<1>2. m # 0
  BY FollowNone DEF Leads
<1> DEFINE k == m - 1
<1>3. k \in 0 .. n /\ k # n /\ m = k + 1 /\ Follow(link, p, k) = Due(k)
  BY <1>1, <1>2
<1>4. Follow(link, p, k) = s[m] /\ m \in 1 .. n
  BY <1>3
<1>5. Follow(link, p, m) = link[s[m]]
  <2>1. s[m] # NULL
    BY <1>4, ListAssumption
  <2> HIDE DEF k
  <2>2. k \in Nat
    BY <1>3
  <2> QED BY <2>1, <2>2, <1>3, <1>4, FollowOn
<1>6. Follow(link, p, m) = Due(m)
  BY <1>4, <1>5 DEF Leads
<1> QED BY <1>1, <1>6

(* list_at counts along s from either end. *)
LEMMA ChainAhead ==
    ASSUME len \in Nat, NEW s, Chain(s)
    PROVE  \A k \in 0 .. len : AtHead(k) = IF k = len THEN NULL ELSE s[k + 1]
<1>1. Leads(next, head, s, len)
  BY DEF Chain, Leads
<1> QED BY <1>1, FollowLeads DEF Chain, AtHead

LEMMA ChainBack ==
    ASSUME len \in Nat, NEW s, Chain(s)
    PROVE  \A k \in 0 .. len : AtTail(k) = IF k = len THEN NULL ELSE s[len - k]
<1> DEFINE r == Reversed(s, len)
<1>1. r \in [1 .. len -> Nodes] /\ \A k \in 1 .. len : r[k] = s[len + 1 - k]
  BY DEF Chain, Reversed
<1> HIDE DEF r
<1>2. Leads(prev, tail, r, len)
  <2>1. tail = IF len = 0 THEN NULL ELSE r[1]
    BY <1>1 DEF Chain
  <2>2. ASSUME NEW k \in 1 .. len
        PROVE  prev[r[k]] = IF k = len THEN NULL ELSE r[k + 1]
    <3> DEFINE j == len + 1 - k
    <3>1. j \in 1 .. len /\ r[k] = s[j] /\ (j = 1 <=> k = len) /\ (k # len => r[k + 1] = s[j - 1])
      BY <1>1
    <3> HIDE DEF j
    <3> QED BY <3>1 DEF Chain
  <2> QED BY <2>1, <2>2 DEF Leads
<1>3. \A k \in 0 .. len : AtTail(k) = IF k = len THEN NULL ELSE r[k + 1]
  BY <1>1, <1>2, FollowLeads DEF AtTail
<1> QED BY <1>1, <1>3

(* There is no other such order than the one a walk from the head finds. *)
Order == Walk(next, head, len)

LEMMA ChainIsOrder ==
    ASSUME len \in Nat, NEW s, Chain(s)
    PROVE  Order = s
<1>1. \A k \in 1 .. len : Follow(next, head, k - 1) = s[k]
  BY ChainAhead DEF AtHead
<1>2. s = [k \in 1 .. len |-> s[k]]
  BY DEF Chain
<1> QED BY <1>1, <1>2 DEF Order, Walk

LEMMA InListIff ==
    ASSUME len \in Nat, NEW s, Chain(s), NEW n
    PROVE  InList(n) <=> \E k \in 1 .. len : s[k] = n
<1>1. \A k \in 1 .. len : Follow(next, head, k - 1) = s[k]
  BY ChainAhead DEF AtHead
<1> QED BY <1>1 DEF InList

----------------------------------------------------------------------------
(* What the order says of list_at and list_find *)

LEMMA ChainLooksAgree ==
    ASSUME len \in Nat, NEW s, Chain(s)
    PROVE  LooksAgree
<1>1. \A k \in 0 .. len : AtHead(k) = IF k = len THEN NULL ELSE s[k + 1]
  BY ChainAhead
<1>2. \A k \in 0 .. len : AtTail(k) = IF k = len THEN NULL ELSE s[len - k]
  BY ChainBack
<1>3. \A k \in 1 .. len : s[k] \in Nodes /\ s[k] # NULL
  BY ListAssumption DEF Chain
<1>4. \A k \in 0 .. (len - 1) : AtHead(k) = AtTail((len - 1) - k) /\ AtHead(k) # NULL
  <2> TAKE k \in 0 .. (len - 1)
  <2>1. AtHead(k) = s[k + 1] /\ k + 1 \in 1 .. len
    BY <1>1
  <2>2. AtTail((len - 1) - k) = s[k + 1]
    <3>1. (len - 1) - k \in 0 .. len /\ (len - 1) - k # len /\ len - ((len - 1) - k) = k + 1
      OBVIOUS
    <3> QED BY <3>1, <1>2
  <2> QED BY <2>1, <2>2, <1>3
<1>5. AtHead(len) = NULL /\ AtTail(len) = NULL
  BY <1>1, <1>2
<1>6. ASSUME NEW wanted \in SUBSET Nodes
      PROVE  LET found == list_find(wanted)
                 nearer(k) == AtTail(len - 1 - k) \notin wanted
             IN  IF found = NULL THEN \A k \in 0 .. (len - 1) : nearer(k)
                 ELSE \E k \in 0 .. (len - 1) :
                         found = AtTail(len - 1 - k) /\ found \in wanted
                         /\ \A j \in 0 .. (k - 1) : nearer(j)
  <2> DEFINE met == {k \in 0 .. len : AtHead(k) \in wanted}
             first == CHOOSE k \in met : \A j \in met : k <= j
  <2>1. list_find(wanted) = IF met = {} THEN NULL ELSE AtHead(first)
    BY DEF list_find
  <2>2. \A k \in met : k \in 0 .. (len - 1) /\ AtHead(k) \in wanted
    BY <1>5, ListAssumption
  <2>3. \A k \in 0 .. (len - 1) : k \notin met => AtTail((len - 1) - k) \notin wanted
    BY <1>4
  <2>4. CASE met = {}
    BY <2>1, <2>3, <2>4
  <2>5. CASE met # {}
    <3>1. met \in SUBSET Nat
      OBVIOUS
    <3>2. \E k \in met : \A j \in met : k <= j
      <4> HIDE DEF met
      <4> QED BY <2>5, <3>1, NatMin
    <3>3. first \in met /\ \A j \in met : first <= j
      <4> HIDE DEF met
      <4> QED BY <3>2
    <3> HIDE DEF first
    <3>4. first \in 0 .. (len - 1) /\ AtHead(first) \in wanted
      BY <2>2, <3>3
    <3>5. \A j \in 0 .. (first - 1) : AtTail((len - 1) - j) \notin wanted
      <4>1. \A j \in 0 .. (first - 1) : j \in 0 .. (len - 1) /\ j \notin met
        <5> HIDE DEF met
        <5> QED BY <3>3, <3>4, <3>1
      <4> QED BY <4>1, <2>3
    <3>6. AtHead(first) = AtTail((len - 1) - first) /\ AtHead(first) # NULL
      BY <1>4, <3>4
    <3> HIDE DEF met
    <3> QED BY <2>1, <2>5, <3>4, <3>5, <3>6
  <2> QED BY <2>4, <2>5
<1> QED BY <1>4, <1>5, <1>6 DEF LooksAgree

----------------------------------------------------------------------------
(* The operations and the order of the nodes *)

(* The iterator meets position p no later than position k. *)
InOrder(p, k) == IF it.direction = "LIST_HEAD" THEN p <= k ELSE k <= p

(* Where the iterator is, and that the nodes it owes are ahead of it: the  *)
(* links after its own node still change.                                  *)
Ahead(s) ==
    it.live =>
        IF it.next = NULL THEN owed = {}
        ELSE \E p \in 1 .. len :
                /\ s[p] = it.next
                /\ \A n \in owed : \E k \in 1 .. len : s[k] = n /\ InOrder(p, k)

(* A node more at either end, and the node at p less. *)
WithLast(s, n)  == [k \in 1 .. len + 1 |-> IF k = len + 1 THEN n ELSE s[k]]
WithFirst(s, n) == [k \in 1 .. len + 1 |-> IF k = 1 THEN n ELSE s[k - 1]]
Cutting(s, p)   == [k \in 1 .. len - 1 |-> IF k < p THEN s[k] ELSE s[k + 1]]

LEMMA RPushChain ==
    ASSUME Types, NEW s, Chain(s), NEW n \in Nodes, list_rpush(n),
           NEW r, r = WithLast(s, n)
    PROVE  Types' /\ Chain(r)'
<1>1. \A k \in 1 .. len : s[k] # n
  BY InListIff DEF list_rpush, Types
<1>2. /\ r \in [1 .. len + 1 -> Nodes]
      /\ r[len + 1] = n
      /\ \A k \in 1 .. len : r[k] = s[k]
  BY DEF WithLast, Types, Chain
<1>3. CASE len = 0
  BY <1>1, <1>2, <1>3 DEF Types, Chain, list_rpush
<1>4. CASE len > 0
  <2>1. tail = s[len] /\ head = s[1] /\ tail # n /\ len \in 1 .. len /\ 1 \in 1 .. len
    BY <1>1, <1>4 DEF Chain, Types
  <2>2. tail \in Nodes
    BY <2>1 DEF Chain
  <2>3. /\ len' = len + 1 /\ tail' = n /\ head' = head
        /\ prev' \in [Nodes -> Nodes \cup {NULL}]
        /\ next' \in [Nodes -> Nodes \cup {NULL}]
        /\ prev'[n] = tail /\ next'[n] = NULL /\ next'[tail] = n
        /\ \A m \in Nodes : (m # n => prev'[m] = prev[m]) /\ (m # n /\ m # tail => next'[m] = next[m])
    BY <1>4, <2>1, <2>2 DEF list_rpush, Types
  <2>4. Types'
    BY <2>3, <2>2 DEF Types, list_rpush
  <2>5. \A j, k \in 1 .. len' : r[j] = r[k] => j = k
    BY <1>1, <1>2, <2>3 DEF Chain, Types
  <2>6. head' = r[1] /\ tail' = r[len'] /\ len' # 0
    BY <1>2, <2>1, <2>3 DEF Types
  <2>7. ASSUME NEW k \in 1 .. len' 
        PROVE  /\ next'[r[k]] = IF k = len' THEN NULL ELSE r[k + 1]
               /\ prev'[r[k]] = IF k = 1 THEN NULL ELSE r[k - 1]
    <3>1. CASE k = len + 1
      BY <3>1, <1>2, <1>4, <2>1, <2>3 DEF Types
    <3>2. CASE k = len
      BY <3>2, <1>1, <1>2, <1>4, <2>1, <2>2, <2>3 DEF Types, Chain
    <3>3. CASE k \in 1 .. len /\ k # len
      <4>1. s[k] # tail /\ s[k] # n /\ s[k] \in Nodes
        BY <3>3, <1>1, <2>1 DEF Chain
      <4> QED BY <4>1, <3>3, <1>2, <2>3 DEF Types, Chain
    <3> QED BY <3>1, <3>2, <3>3, <2>3 DEF Types
  <2>8. r \in [1 .. len' -> Nodes]
    BY <1>2, <2>3
  <2> QED BY <2>4, <2>5, <2>6, <2>7, <2>8 DEF Chain
<1> QED BY <1>3, <1>4 DEF Types

LEMMA LPushChain ==
    ASSUME Types, NEW s, Chain(s), NEW n \in Nodes, list_lpush(n),
           NEW r, r = WithFirst(s, n)
    PROVE  Types' /\ Chain(r)'
<1>1. \A k \in 1 .. len : s[k] # n
  BY InListIff DEF list_lpush, Types
<1>2. /\ r \in [1 .. len + 1 -> Nodes]
      /\ r[1] = n
      /\ \A k \in 1 .. len : r[k + 1] = s[k]
      /\ \A k \in 2 .. len + 1 : r[k] = s[k - 1]
  BY DEF WithFirst, Types, Chain
<1>3. CASE len = 0
  BY <1>1, <1>2, <1>3 DEF Types, Chain, list_lpush
<1>4. CASE len > 0
  <2>1. tail = s[len] /\ head = s[1] /\ head # n /\ len \in 1 .. len /\ 1 \in 1 .. len
    BY <1>1, <1>4 DEF Chain, Types
  <2>2. head \in Nodes
    BY <2>1 DEF Chain
  <2>3. /\ len' = len + 1 /\ head' = n /\ tail' = tail
        /\ prev' \in [Nodes -> Nodes \cup {NULL}]
        /\ next' \in [Nodes -> Nodes \cup {NULL}]
        /\ next'[n] = head /\ prev'[n] = NULL /\ prev'[head] = n
        /\ \A m \in Nodes : (m # n => next'[m] = next[m]) /\ (m # n /\ m # head => prev'[m] = prev[m])
    BY <1>4, <2>1, <2>2 DEF list_lpush, Types
  <2>4. Types'
    BY <2>3, <2>2 DEF Types, list_lpush
  <2>5. \A j, k \in 1 .. len' : r[j] = r[k] => j = k
    <3> SUFFICES ASSUME NEW j \in 1 .. len + 1, NEW k \in 1 .. len + 1, r[j] = r[k]
                 PROVE  j = k
      BY <2>3
    <3>1. CASE j = 1 \/ k = 1
      <4>1. ASSUME NEW m \in 2 .. len + 1 PROVE r[m] # n
        <5>1. m - 1 \in 1 .. len
          BY DEF Types
        <5> QED BY <5>1, <1>1, <1>2
      <4> QED BY <3>1, <4>1, <1>2 DEF Types
    <3>2. CASE j # 1 /\ k # 1
      <4>1. j - 1 \in 1 .. len /\ k - 1 \in 1 .. len /\ s[j - 1] = s[k - 1]
        BY <3>2, <1>2 DEF Types
      <4> QED BY <4>1 DEF Chain
    <3> QED BY <3>1, <3>2
  <2>6. head' = r[1] /\ tail' = r[len'] /\ len' # 0
    BY <1>2, <2>1, <2>3 DEF Types
  <2>7. ASSUME NEW k \in 1 .. len' 
        PROVE  /\ next'[r[k]] = IF k = len' THEN NULL ELSE r[k + 1]
               /\ prev'[r[k]] = IF k = 1 THEN NULL ELSE r[k - 1]
    <3>1. CASE k = 1
      BY <3>1, <1>2, <1>4, <2>1, <2>3 DEF Types
    <3>2. CASE k = 2
      BY <3>2, <1>1, <1>2, <1>4, <2>1, <2>2, <2>3 DEF Types, Chain
    <3>3. CASE k \in 3 .. len + 1
      <4> DEFINE j == k - 1
      <4>1. j \in 2 .. len /\ k = j + 1 /\ r[k] = s[j] /\ r[k - 1] = s[j - 1] /\ j \in 1 .. len
            /\ (k # len + 1 => r[k + 1] = s[j + 1])
        BY <3>3, <1>2 DEF Types
      <4>2. s[j] # head /\ s[j] # n /\ s[j] \in Nodes
        BY <4>1, <1>1, <2>1 DEF Chain
      <4>3. next[s[j]] = (IF j = len THEN NULL ELSE s[j + 1]) /\ prev[s[j]] = s[j - 1]
        BY <4>1 DEF Chain
      <4> HIDE DEF j
      <4> QED BY <4>1, <4>2, <4>3, <2>3 DEF Types
    <3> QED BY <3>1, <3>2, <3>3, <2>3 DEF Types
  <2>8. r \in [1 .. len' -> Nodes]
    BY <1>2, <2>3
  <2> QED BY <2>4, <2>5, <2>6, <2>7, <2>8 DEF Chain
<1> QED BY <1>3, <1>4 DEF Types

(* What list_rpop, list_lpop and list_remove have in common: the neighbours *)
(* of the node at p are linked to each other.                              *)
Closes(s, p) ==
    /\ len' = len - 1
    /\ head' = IF p = 1 THEN next[s[1]] ELSE head
    /\ tail' = IF p = len THEN prev[s[len]] ELSE tail
    /\ next' \in [Nodes -> Nodes \cup {NULL}]
    /\ prev' \in [Nodes -> Nodes \cup {NULL}]
    /\ p > 1 => next'[s[p - 1]] = next[s[p]]
    /\ p < len => prev'[s[p + 1]] = prev[s[p]]
    /\ \A k \in 1 .. len : k # p =>
          /\ k # p - 1 => next'[s[k]] = next[s[k]]
          /\ k # p + 1 => prev'[s[k]] = prev[s[k]]

LEMMA ClosedChain ==
    ASSUME Types, NEW s, Chain(s), NEW p \in 1 .. len, Closes(s, p),
           it' = it, owed' \subseteq Nodes,
           NEW r, r = Cutting(s, p)
    PROVE  Types' /\ Chain(r)'
<1> DEFINE old(k) == IF k < p THEN k ELSE k + 1
<1>1. /\ r \in [1 .. len' -> Nodes]
      /\ \A k \in 1 .. len' : r[k] = s[old(k)] /\ old(k) \in 1 .. len /\ old(k) # p
      /\ len' = len - 1 /\ len' \in Nat /\ len \in Nat
  <2>1. len' = len - 1 /\ len' \in Nat /\ len \in Nat
    BY DEF Closes, Types
  <2>2. \A k \in 1 .. len' : old(k) \in 1 .. len /\ old(k) # p
    BY <2>1
  <2>3. r = [k \in 1 .. len' |-> s[old(k)]]
    BY <2>1 DEF Cutting
  <2>4. s \in [1 .. len -> Nodes]
    BY DEF Chain
  <2> HIDE DEF old
  <2> QED BY <2>1, <2>2, <2>3, <2>4
<1>2. \A j, k \in 1 .. len' : r[j] = r[k] => j = k
  <2> SUFFICES ASSUME NEW j \in 1 .. len', NEW k \in 1 .. len', r[j] = r[k] PROVE j = k
    OBVIOUS
  <2>1. old(j) = old(k)
    <3> HIDE DEF old
    <3> QED BY <1>1 DEF Chain
  <2> QED BY <2>1, <1>1
<1>3. head' = (IF len' = 0 THEN NULL ELSE r[1]) /\ tail' = (IF len' = 0 THEN NULL ELSE r[len'])
  <2>1. 1 \in 1 .. len /\ len \in 1 .. len
    BY <1>1
  <2>2. CASE len' = 0
    <3>1. len = 1 /\ p = 1
      BY <2>2, <1>1
    <3> QED BY <3>1, <2>1, <2>2 DEF Closes, Chain
  <2>3. CASE len' # 0
    <3>1. 1 \in 1 .. len' /\ len' \in 1 .. len' /\ len > 1
      BY <2>3, <1>1
    <3>2. r[1] = (IF p = 1 THEN s[2] ELSE s[1]) /\ r[len'] = (IF p = len THEN s[len - 1] ELSE s[len])
      <4>1. old(1) = (IF p = 1 THEN 2 ELSE 1) /\ old(len') = (IF p = len THEN len - 1 ELSE len)
        BY <3>1, <1>1
      <4> HIDE DEF old
      <4> QED BY <4>1, <3>1, <1>1
    <3>3. next[s[1]] = s[2] /\ prev[s[len]] = s[len - 1]
      BY <3>1, <2>1, <1>1 DEF Chain
    <3> QED BY <2>3, <3>1, <3>2, <3>3, <1>1 DEF Closes, Chain
  <2> QED BY <2>2, <2>3
<1>4. ASSUME NEW k \in 1 .. len'
      PROVE  next'[r[k]] = IF k = len' THEN NULL ELSE r[k + 1]
  <2>1. k # len' => k + 1 \in 1 .. len'
    BY <1>1
  <2>2. CASE k = p - 1
    <3>1. old(k) = p - 1 /\ p > 1 /\ (k # len' => old(k + 1) = p + 1) /\ (k = len' <=> p = len)
      BY <2>2, <1>1
    <3>2. next'[r[k]] = next[s[p]]
      <4> HIDE DEF old
      <4> QED BY <3>1, <1>1 DEF Closes
    <3>3. k # len' => r[k + 1] = s[p + 1]
      <4> HIDE DEF old
      <4> QED BY <2>1, <3>1, <1>1
    <3>4. next[s[p]] = IF p = len THEN NULL ELSE s[p + 1]
      BY DEF Chain
    <3> QED BY <3>1, <3>2, <3>3, <3>4
  <2>3. CASE k # p - 1
    <3>1. old(k) # p - 1 /\ (k = len' <=> old(k) = len) /\ (k # len' => old(k + 1) = old(k) + 1)
      BY <2>3, <1>1
    <3> HIDE DEF old
    <3>2. next'[r[k]] = next[s[old(k)]]
      BY <3>1, <1>1 DEF Closes
    <3>3. next[s[old(k)]] = IF old(k) = len THEN NULL ELSE s[old(k) + 1]
      BY <1>1 DEF Chain
    <3>4. k # len' => r[k + 1] = s[old(k) + 1]
      BY <2>1, <3>1, <1>1
    <3> QED BY <3>1, <3>2, <3>3, <3>4
  <2> QED BY <2>2, <2>3
<1>5. ASSUME NEW k \in 1 .. len'
      PROVE  prev'[r[k]] = IF k = 1 THEN NULL ELSE r[k - 1]
  <2>1. k # 1 => k - 1 \in 1 .. len'
    BY <1>1
  <2>2. CASE k = p
    <3>1. old(k) = p + 1 /\ p < len /\ (k # 1 => old(k - 1) = p - 1)
      BY <2>2, <1>1
    <3>2. prev'[r[k]] = prev[s[p]]
      <4> HIDE DEF old
      <4> QED BY <3>1, <1>1 DEF Closes
    <3>3. k # 1 => r[k - 1] = s[p - 1]
      <4> HIDE DEF old
      <4> QED BY <2>1, <3>1, <1>1
    <3>4. prev[s[p]] = IF p = 1 THEN NULL ELSE s[p - 1]
      BY DEF Chain
    <3> QED BY <2>2, <3>1, <3>2, <3>3, <3>4
  <2>3. CASE k # p
    <3>1. old(k) # p + 1 /\ (k = 1 <=> old(k) = 1) /\ (k # 1 => old(k - 1) = old(k) - 1)
      BY <2>3, <1>1
    <3> HIDE DEF old
    <3>2. prev'[r[k]] = prev[s[old(k)]]
      BY <3>1, <1>1 DEF Closes
    <3>3. prev[s[old(k)]] = IF old(k) = 1 THEN NULL ELSE s[old(k) - 1]
      BY <1>1 DEF Chain
    <3>4. k # 1 => r[k - 1] = s[old(k) - 1]
      BY <2>1, <3>1, <1>1
    <3> QED BY <3>1, <3>2, <3>3, <3>4
  <2> QED BY <2>2, <2>3
<1>6. Types'
  <2>1. s[1] \in Nodes /\ s[len] \in Nodes
    BY <1>1 DEF Chain
  <2>2. {head', tail'} \subseteq Nodes \cup {NULL}
    BY <2>1 DEF Closes, Types
  <2> QED BY <1>1, <2>2 DEF Closes, Types
<1> HIDE DEF old
<1> QED BY <1>1, <1>2, <1>3, <1>4, <1>5, <1>6 DEF Chain

LEMMA RPopCloses ==
    ASSUME Types, NEW s, Chain(s), list_rpop
    PROVE  len > 0 /\ tail = s[len] /\ Closes(s, len)
<1>1. len > 0 /\ len \in 1 .. len /\ tail = s[len] /\ head = s[1] /\ 1 \in 1 .. len
  BY DEF list_rpop, Chain, Types
<1>2. \A k \in 1 .. len : s[k] \in Nodes /\ (k # len => s[k] # tail)
  BY <1>1 DEF Chain
<1>3. prev[tail] = (IF len = 1 THEN NULL ELSE s[len - 1]) /\ next[tail] = NULL
  BY <1>1 DEF Chain
<1>4. CASE len > 1
  <2>1. prev[tail] = s[len - 1] /\ len - 1 \in 1 .. len /\ s[len - 1] \in Nodes /\ tail # s[len - 1]
    BY <1>3, <1>4, <1>2 DEF Types
  <2>2. /\ len' = len - 1 /\ tail' = prev[tail] /\ head' = head
        /\ next' = [next EXCEPT ![s[len - 1]] = NULL, ![tail] = NULL]
        /\ prev' = [prev EXCEPT ![tail] = NULL]
    BY <1>4, <2>1 DEF list_rpop, EndCut, OneLess
  <2>3. \A k \in 1 .. len : k # len - 1 => s[k] # s[len - 1]
    BY <2>1 DEF Chain
  <2> QED BY <1>1, <1>2, <1>3, <1>4, <2>1, <2>2, <2>3 DEF Closes, Types
<1>5. CASE len = 1
  BY <1>1, <1>2, <1>3, <1>5 DEF Closes, Types, list_rpop, OneLess
<1> QED BY <1>1, <1>4, <1>5 DEF Types

LEMMA LPopCloses ==
    ASSUME Types, NEW s, Chain(s), list_lpop
    PROVE  len > 0 /\ head = s[1] /\ Closes(s, 1)
<1>1. len > 0 /\ len \in 1 .. len /\ tail = s[len] /\ head = s[1] /\ 1 \in 1 .. len
  BY DEF list_lpop, Chain, Types
<1>2. \A k \in 1 .. len : s[k] \in Nodes /\ (k # 1 => s[k] # head)
  BY <1>1 DEF Chain
<1>3. next[head] = (IF len = 1 THEN NULL ELSE s[2]) /\ prev[head] = NULL
  BY <1>1 DEF Chain
<1>4. CASE len > 1
  <2>1. next[head] = s[2] /\ 2 \in 1 .. len /\ s[2] \in Nodes /\ head # s[2]
    BY <1>3, <1>4, <1>2 DEF Types
  <2>2. /\ len' = len - 1 /\ head' = next[head] /\ tail' = tail
        /\ prev' = [prev EXCEPT ![s[2]] = NULL, ![head] = NULL]
        /\ next' = [next EXCEPT ![head] = NULL]
    BY <1>4, <2>1 DEF list_lpop, EndCut, OneLess
  <2>3. \A k \in 1 .. len : k # 2 => s[k] # s[2]
    BY <2>1 DEF Chain
  <2> QED BY <1>1, <1>2, <1>3, <1>4, <2>1, <2>2, <2>3 DEF Closes, Types
<1>5. CASE len = 1
  BY <1>1, <1>2, <1>3, <1>5 DEF Closes, Types, list_lpop, OneLess
<1> QED BY <1>1, <1>4, <1>5 DEF Types

LEMMA RemoveCloses ==
    ASSUME Types, NEW s, Chain(s), NEW p \in 1 .. len, list_remove(s[p])
    PROVE  Closes(s, p)
<1> DEFINE n == s[p]
<1>1. n \in Nodes /\ \A k \in 1 .. len : s[k] \in Nodes /\ s[k] # NULL /\ (k # p => s[k] # n)
  BY ListAssumption DEF Chain
<1>2. /\ prev[n] = IF p = 1 THEN NULL ELSE s[p - 1]
      /\ next[n] = IF p = len THEN NULL ELSE s[p + 1]
  BY DEF Chain
<1>3. /\ p # 1 => p - 1 \in 1 .. len
      /\ p # len => p + 1 \in 1 .. len
      /\ len \in Nat /\ p \in Nat
  BY DEF Types
<1>4. /\ prev[n] = NULL <=> p = 1
      /\ next[n] = NULL <=> p = len
  BY <1>1, <1>2, <1>3
<1>5. /\ next' = IF p = 1 THEN [next EXCEPT ![n] = NULL]
                 ELSE [next EXCEPT ![s[p - 1]] = next[n], ![n] = NULL]
      /\ prev' = IF p = len THEN [prev EXCEPT ![n] = NULL]
                 ELSE [prev EXCEPT ![s[p + 1]] = prev[n], ![n] = NULL]
      /\ head' = IF p = 1 THEN next[n] ELSE head
      /\ tail' = IF p = len THEN prev[n] ELSE tail
      /\ len' = len - 1
  BY <1>2, <1>4 DEF list_remove, Bypass, OneLess
<1>6. /\ prev \in [Nodes -> Nodes \cup {NULL}] /\ next \in [Nodes -> Nodes \cup {NULL}]
      /\ prev[n] \in Nodes \cup {NULL} /\ next[n] \in Nodes \cup {NULL}
  BY <1>1 DEF Types
<1>7. \A j, k \in 1 .. len : j # k => s[j] # s[k]
  BY DEF Chain
<1>8. /\ next' \in [Nodes -> Nodes \cup {NULL}]
      /\ prev' \in [Nodes -> Nodes \cup {NULL}]
  <2> HIDE DEF n
  <2>1. \A j \in Nodes, v \in Nodes \cup {NULL}, f \in [Nodes -> Nodes \cup {NULL}] :
           [f EXCEPT ![j] = v] \in [Nodes -> Nodes \cup {NULL}]
    OBVIOUS
  <2> QED BY <1>5, <1>6
<1>9. /\ p > 1 => next'[s[p - 1]] = next[n]
      /\ \A k \in 1 .. len : k # p /\ k # p - 1 => next'[s[k]] = next[s[k]]
  <2>1. CASE p = 1
    BY <2>1, <1>1, <1>3, <1>5, <1>6
  <2>2. CASE p # 1
    <3> DEFINE m == s[p - 1]
    <3>1. m \in Nodes /\ m # n /\ p - 1 \in 1 .. len
      BY <2>2, <1>1, <1>3
    <3>2. next' = [next EXCEPT ![m] = next[n], ![n] = NULL]
      BY <2>2, <1>5
    <3>3. \A k \in 1 .. len : k # p /\ k # p - 1 => s[k] # m /\ s[k] # n
      BY <3>1, <1>1, <1>7
    <3> HIDE DEF m, n
    <3> QED BY <3>1, <3>2, <3>3, <1>1, <1>6 DEF m
  <2> QED BY <2>1, <2>2
<1>10. /\ p < len => prev'[s[p + 1]] = prev[n]
       /\ \A k \in 1 .. len : k # p /\ k # p + 1 => prev'[s[k]] = prev[s[k]]
  <2>1. CASE p = len
    BY <2>1, <1>1, <1>3, <1>5, <1>6
  <2>2. CASE p # len
    <3> DEFINE m == s[p + 1]
    <3>1. m \in Nodes /\ m # n /\ p + 1 \in 1 .. len
      BY <2>2, <1>1, <1>3
    <3>2. prev' = [prev EXCEPT ![m] = prev[n], ![n] = NULL]
      BY <2>2, <1>5
    <3>3. \A k \in 1 .. len : k # p /\ k # p + 1 => s[k] # m /\ s[k] # n
      BY <3>1, <1>1, <1>7
    <3> HIDE DEF m, n
    <3> QED BY <3>1, <3>2, <3>3, <1>1, <1>6 DEF m
  <2> QED BY <2>1, <2>2
<1> QED BY <1>5, <1>8, <1>9, <1>10 DEF Closes

----------------------------------------------------------------------------
(* The operations and the iterator *)

(* The nodes an iterator owes stay ahead of it if a step keeps them and its *)
(* own in order, e telling where they go.                                  *)
LEMMA MovedAhead ==
    ASSUME Types, NEW s, Ahead(s), it' = it, owed' \subseteq owed, NEW r, NEW e,
           \A k \in 1 .. len : s[k] \in owed' \/ (it.live /\ s[k] = it.next)
               => e[k] \in 1 .. len' /\ r[e[k]] = s[k],
           \A j, k \in 1 .. len : j <= k => e[j] <= e[k]
    PROVE  Ahead(r)'
<1> SUFFICES ASSUME it.live, it.next # NULL
             PROVE  \E p \in 1 .. len' :
                       /\ r[p] = it.next
                       /\ \A n \in owed' : \E k \in 1 .. len' : r[k] = n /\ InOrder(p, k)'
  BY DEF Ahead
<1>1. PICK p \in 1 .. len :
         /\ s[p] = it.next
         /\ \A n \in owed : \E k \in 1 .. len : s[k] = n /\ InOrder(p, k)
  BY DEF Ahead
<1>2. e[p] \in 1 .. len' /\ r[e[p]] = it.next
  BY <1>1
<1>3. ASSUME NEW n \in owed'
      PROVE  \E k \in 1 .. len' : r[k] = n /\ InOrder(e[p], k)'
  <2>1. PICK k \in 1 .. len : s[k] = n /\ InOrder(p, k)
    BY <1>1
  <2>2. e[k] \in 1 .. len' /\ r[e[k]] = n
    BY <2>1
  <2>3. InOrder(e[p], e[k])'
    BY <2>1 DEF InOrder, Types
  <2> QED BY <2>2, <2>3
<1> QED BY <1>2, <1>3

LEMMA RPushAhead ==
    ASSUME Types, NEW s, Chain(s), Ahead(s), NEW n \in Nodes, list_rpush(n),
           NEW r, r = WithLast(s, n)
    PROVE  Ahead(r)'
<1> DEFINE e == [k \in 1 .. len |-> k]
<1>1. it' = it /\ owed' \subseteq owed /\ len' = len + 1
  BY DEF list_rpush
<1>2. \A k \in 1 .. len : e[k] \in 1 .. len' /\ r[e[k]] = s[k]
  BY <1>1 DEF Types, WithLast
<1>3. \A j, k \in 1 .. len : j <= k => e[j] <= e[k]
  OBVIOUS
<1> HIDE DEF e
<1> QED BY <1>1, <1>2, <1>3, MovedAhead

LEMMA LPushAhead ==
    ASSUME Types, NEW s, Chain(s), Ahead(s), NEW n \in Nodes, list_lpush(n),
           NEW r, r = WithFirst(s, n)
    PROVE  Ahead(r)'
<1> DEFINE e == [k \in 1 .. len |-> k + 1]
<1>1. it' = it /\ owed' \subseteq owed /\ len' = len + 1
  BY DEF list_lpush
<1>2. \A k \in 1 .. len : e[k] \in 1 .. len' /\ r[e[k]] = s[k]
  BY <1>1 DEF Types, WithFirst
<1>3. \A j, k \in 1 .. len : j <= k => e[j] <= e[k]
  BY DEF Types
<1> HIDE DEF e
<1> QED BY <1>1, <1>2, <1>3, MovedAhead

LEMMA ClosedAhead ==
    ASSUME Types, NEW s, Chain(s), Ahead(s), NEW p \in 1 .. len, len' = len - 1,
           MayLeave(s[p]), Left(s[p]),
           NEW r, r = Cutting(s, p)
    PROVE  Ahead(r)'
<1> DEFINE e == [k \in 1 .. len |-> IF k < p THEN k ELSE k - 1]
<1>1. it' = it /\ owed' \subseteq owed /\ s[p] \notin owed'
  BY DEF Left
<1>2. ASSUME NEW k \in 1 .. len, s[k] \in owed' \/ (it.live /\ s[k] = it.next)
      PROVE  e[k] \in 1 .. len' /\ r[e[k]] = s[k]
  <2>1. k # p
    BY <1>1, <1>2 DEF MayLeave
  <2>2. e[k] \in 1 .. len - 1 /\ k = IF e[k] < p THEN e[k] ELSE e[k] + 1
    BY <2>1 DEF Types
  <2> HIDE DEF e
  <2> QED BY <2>2 DEF Cutting
<1>3. \A j, k \in 1 .. len : j <= k => e[j] <= e[k]
  BY DEF Types
<1> HIDE DEF e
<1> QED BY <1>1, <1>2, <1>3, MovedAhead

(* Following the links from the iterator comes to every node ahead of it. *)
LEMMA AheadOwesNothing ==
    ASSUME Types, NEW s, Chain(s), Ahead(s)
    PROVE  IteratorOwesNothing
<1> DEFINE link == IF it.direction = "LIST_HEAD" THEN next ELSE prev
<1> SUFFICES ASSUME it.live, NEW n \in owed
             PROVE  \E k \in 0 .. len : Follow(link, it.next, k) = n
  BY DEF IteratorOwesNothing
<1>1. PICK p \in 1 .. len, j \in 1 .. len : s[p] = it.next /\ s[j] = n /\ InOrder(p, j)
  BY DEF Ahead
<1>2. it.direction \in Directions /\ len \in Nat /\ s \in [1 .. len -> Nodes]
  BY DEF Types, Chain
<1>3. CASE it.direction = "LIST_HEAD"
  <2> DEFINE m == len - p + 1
             t == [k \in 1 .. m |-> s[p - 1 + k]]
  <2>1. m \in Nat /\ t \in [1 .. m -> Nodes] /\ \A k \in 1 .. m : t[k] = s[p - 1 + k]
    BY <1>2
  <2>2. Leads(next, it.next, t, m)
    <3>1. it.next = t[1] /\ m # 0
      BY <1>1, <1>2, <2>1
    <3>2. ASSUME NEW k \in 1 .. m
          PROVE  next[t[k]] = IF k = m THEN NULL ELSE t[k + 1]
      <4> DEFINE i == p - 1 + k
      <4>1. i \in 1 .. len /\ (i = len <=> k = m) /\ t[k] = s[i] /\ (k # m => t[k + 1] = s[i + 1])
        BY <1>2, <2>1
      <4> HIDE DEF i, m, t
      <4> QED BY <4>1 DEF Chain
    <3> HIDE DEF m, t
    <3> QED BY <3>1, <3>2 DEF Leads
  <2>3. \A k \in 0 .. m : Follow(next, it.next, k) = IF k = m THEN NULL ELSE t[k + 1]
    <3> HIDE DEF m, t
    <3> QED BY <2>1, <2>2, FollowLeads
  <2> DEFINE d == j - p
  <2>4. d \in 0 .. len /\ d \in 0 .. m /\ d # m /\ t[d + 1] = s[j]
    BY <1>1, <1>2, <1>3, <2>1 DEF InOrder
  <2>5. Follow(link, it.next, d) = n
    <3> HIDE DEF m, t, d
    <3> QED BY <1>1, <1>3, <2>3, <2>4
  <2> QED BY <2>4, <2>5
<1>4. CASE it.direction = "LIST_TAIL"
  <2> DEFINE t == [k \in 1 .. p |-> s[p + 1 - k]]
  <2>1. p \in Nat /\ t \in [1 .. p -> Nodes] /\ \A k \in 1 .. p : t[k] = s[p + 1 - k]
    BY <1>2
  <2>2. Leads(prev, it.next, t, p)
    <3>1. it.next = t[1] /\ p # 0
      BY <1>1, <1>2, <2>1
    <3>2. ASSUME NEW k \in 1 .. p
          PROVE  prev[t[k]] = IF k = p THEN NULL ELSE t[k + 1]
      <4> DEFINE i == p + 1 - k
      <4>1. i \in 1 .. len /\ (i = 1 <=> k = p) /\ t[k] = s[i] /\ (k # p => t[k + 1] = s[i - 1])
        BY <1>2, <2>1
      <4> HIDE DEF i, t
      <4> QED BY <4>1 DEF Chain
    <3> HIDE DEF t
    <3> QED BY <3>1, <3>2 DEF Leads
  <2>3. \A k \in 0 .. p : Follow(prev, it.next, k) = IF k = p THEN NULL ELSE t[k + 1]
    <3> HIDE DEF t
    <3> QED BY <2>1, <2>2, FollowLeads
  <2> DEFINE d == p - j
  <2>4. d \in 0 .. len /\ d \in 0 .. p /\ d # p /\ t[d + 1] = s[j]
    BY <1>1, <1>2, <1>4, <2>1 DEF InOrder
  <2>5. link = prev
    BY <1>4
  <2>6. Follow(link, it.next, d) = n
    <3> HIDE DEF t, d, link
    <3> QED BY <1>1, <2>5, <2>3, <2>4
  <2> QED BY <2>4, <2>6
<1> QED BY <1>2, <1>3, <1>4 DEF Directions

----------------------------------------------------------------------------
(* The inductive invariant.  IteratorOwesNothing alone is not inductive: it *)
(* does not say that the links it follows are those of the list.           *)
ListInv == Types /\ Chain(Order) /\ Ahead(Order)

(* What a step makes of the order s: r, and which call it is, with what    *)
(* result.                                                                 *)
Rearranged(s, r) ==
    \/ r = s /\ last' = last
    \/ r = s /\ len = 0 /\ \E name \in {"list_rpop", "list_lpop"} : last' = Call(name, NULL, {})
    \/ r = <<>> /\ last' = Call("list_destroy", NULL, {s[k] : k \in 1 .. len})
    \/ \E n \in Nodes :
          /\ \A k \in 1 .. len : s[k] # n
          /\ \/ r = WithLast(s, n) /\ last' = Call("list_rpush", n, {})
             \/ r = WithFirst(s, n) /\ last' = Call("list_lpush", n, {})
    \/ \E p \in 1 .. len :
          /\ r = Cutting(s, p)
          /\ \/ p = len /\ last' = Call("list_rpop", s[p], {})
             \/ p = 1 /\ last' = Call("list_lpop", s[p], {})
             \/ last' = Call("list_remove", s[p], {s[p]})

Holds(s, r) == Types' /\ Chain(r)' /\ Ahead(r)' /\ Rearranged(s, r)

LEMMA PushHolds ==
    ASSUME Types, NEW s, Chain(s), Ahead(s), NEW n \in Nodes,
           list_rpush(n) \/ list_lpush(n)
    PROVE  \E r : Holds(s, r)
<1>1. \A k \in 1 .. len : s[k] # n
  BY InListIff DEF list_lpush, list_rpush, Types
<1>2. CASE list_rpush(n)
  <2>1. PICK r : r = WithLast(s, n)
    OBVIOUS
  <2>2. Types' /\ Chain(r)' /\ Ahead(r)'
    BY <1>2, <2>1, RPushChain, RPushAhead
  <2>3. Rearranged(s, r)
    BY <1>2, <2>1, <1>1 DEF Rearranged, list_rpush
  <2> QED BY <2>2, <2>3 DEF Holds
<1>3. CASE list_lpush(n)
  <2>1. PICK r : r = WithFirst(s, n)
    OBVIOUS
  <2>2. Types' /\ Chain(r)' /\ Ahead(r)'
    BY <1>3, <2>1, LPushChain, LPushAhead
  <2>3. Rearranged(s, r)
    BY <1>3, <2>1, <1>1 DEF Rearranged, list_lpush
  <2> QED BY <2>2, <2>3 DEF Holds
<1> QED BY <1>2, <1>3

LEMMA CloseHolds ==
    ASSUME Types, NEW s, Chain(s), Ahead(s),
           list_rpop \/ list_lpop \/ \E n \in Nodes : list_remove(n)
    PROVE  \E r : Holds(s, r)
<1> DEFINE Named(p) == \/ p = len /\ last' = Call("list_rpop", s[p], {})
                       \/ p = 1 /\ last' = Call("list_lpop", s[p], {})
                       \/ last' = Call("list_remove", s[p], {s[p]})
<1>1. PICK p \in 1 .. len : Closes(s, p) /\ MayLeave(s[p]) /\ Left(s[p]) /\ Named(p)
  <2>1. CASE list_rpop
    <3>1. len \in 1 .. len /\ tail = s[len]
      BY <2>1 DEF list_rpop, Types, Chain
    <3> QED BY <2>1, <3>1, RPopCloses DEF list_rpop
  <2>2. CASE list_lpop
    <3>1. 1 \in 1 .. len /\ head = s[1]
      BY <2>2 DEF list_lpop, Types, Chain
    <3> QED BY <2>2, <3>1, LPopCloses DEF list_lpop
  <2>3. CASE \E n \in Nodes : list_remove(n)
    <3>1. PICK n \in Nodes : list_remove(n)
      BY <2>3
    <3>2. PICK p \in 1 .. len : s[p] = n
      BY <3>1, InListIff DEF list_remove, Types
    <3>3. list_remove(s[p])
      BY <3>1, <3>2
    <3>4. Closes(s, p)
      BY <3>3, RemoveCloses
    <3> QED BY <3>3, <3>4 DEF list_remove
  <2> QED BY <2>1, <2>2, <2>3
<1>2. PICK r : r = Cutting(s, p)
  OBVIOUS
<1>3. it' = it /\ owed' \subseteq Nodes /\ len' = len - 1
  BY <1>1 DEF Left, Types, Closes
<1>4. Types' /\ Chain(r)'
  BY <1>1, <1>2, <1>3, ClosedChain
<1>5. Ahead(r)'
  BY <1>1, <1>2, <1>3, ClosedAhead
<1>6. Rearranged(s, r)
  BY <1>1, <1>2 DEF Rearranged
<1> QED BY <1>4, <1>5, <1>6 DEF Holds

LEMMA DestroyHolds ==
    ASSUME Types, NEW s, Chain(s), Ahead(s), list_destroy
    PROVE  \E r : Holds(s, r)
<1>1. /\ len' = 0 /\ head' = NULL /\ tail' = NULL /\ it' = it /\ owed' = owed /\ ~it.live
      /\ prev' \in [Nodes -> Nodes \cup {NULL}]
      /\ next' \in [Nodes -> Nodes \cup {NULL}]
  BY DEF list_destroy, Types
<1>2. Types'
  BY <1>1 DEF Types
<1>3. Chain(<<>>)'
  BY <1>1 DEF Chain
<1>4. Ahead(<<>>)'
  BY <1>1 DEF Ahead
<1>5. Freed = {s[k] : k \in 1 .. len}
  <2>1. \A k \in 1 .. len : Follow(next, head, k - 1) = s[k]
    BY ChainAhead DEF AtHead, Types
  <2> QED BY <2>1 DEF Freed
<1>6. Rearranged(s, <<>>)
  BY <1>5 DEF Rearranged, list_destroy
<1> QED BY <1>2, <1>3, <1>4, <1>6 DEF Holds

(* A pop that finds the list empty. *)
LEMMA NothingHolds ==
    ASSUME Types, NEW s, Chain(s), Ahead(s), PopNothing
    PROVE  \E r : Holds(s, r)
<1>1. Types' /\ Ahead(s)'
  BY DEF PopNothing, listVars, Types, Ahead, InOrder
<1>2. Chain(s)'
  BY DEF PopNothing, Chain, listVars
<1>3. Rearranged(s, s)
  BY DEF Rearranged, PopNothing
<1> QED BY <1>1, <1>2, <1>3 DEF Holds

LEMMA SameChain ==
    ASSUME Types, NEW s, Chain(s), UNCHANGED listVars
    PROVE  Chain(s)'
  BY DEF Chain, listVars

LEMMA IteratorHolds ==
    ASSUME Types, NEW s, Chain(s), Ahead(s),
           \/ list_iterator_next \/ list_iterator_destroy
           \/ \E dir \in Directions : list_iterator_new(dir)
    PROVE  \E r : Holds(s, r)
<1>1. UNCHANGED listVars
  BY DEF list_iterator_next, list_iterator_destroy, list_iterator_new
<1>2. Chain(s)' /\ s \in [1 .. len -> Nodes] /\ len' = len /\ len \in Nat
  BY <1>1, SameChain DEF Chain, listVars, Types
<1>3. Types' /\ Ahead(s)'
  <2>1. ASSUME NEW dir \in Directions, list_iterator_new(dir)
        PROVE  Types' /\ Ahead(s)'
    <3>1. it' = [live |-> TRUE, next |-> IF dir = "LIST_HEAD" THEN head ELSE tail,
                 direction |-> dir]
      BY <2>1 DEF list_iterator_new
    <3>2. Types'
      BY <3>1, <2>1, <1>1 DEF Types, list_iterator_new, listVars
    <3>3. \A n \in owed' : \E k \in 1 .. len : s[k] = n
      BY <2>1, InListIff, <1>2 DEF list_iterator_new
    <3>4. CASE len = 0
      <4>1. owed' = {} /\ it'.next = NULL
        BY <3>4, <3>1, <3>3, <1>2 DEF Chain
      <4> QED BY <4>1, <3>2 DEF Ahead
    <3>5. CASE len # 0
      <4>1. head = s[1] /\ tail = s[len] /\ 1 \in 1 .. len /\ len \in 1 .. len
        BY <3>5, <1>2 DEF Chain
      <4>2. it'.next # NULL
        BY <4>1, <3>1, <1>2, ListAssumption
      <4>3. PICK p \in 1 .. len : p = IF dir = "LIST_HEAD" THEN 1 ELSE len
        BY <4>1
      <4>4. s[p] = it'.next
        BY <4>1, <4>3, <3>1
      <4>5. \A k \in 1 .. len : InOrder(p, k)'
        BY <4>3, <3>1, <1>2 DEF InOrder
      <4> QED BY <4>2, <4>4, <4>5, <3>2, <3>3, <1>2 DEF Ahead
    <3> QED BY <3>2, <3>4, <3>5
  <2>2. ASSUME list_iterator_next
        PROVE  Types' /\ Ahead(s)'
    <3>1. it.next \in Nodes /\ it.live /\ it.direction \in Directions
      BY <2>2 DEF list_iterator_next, Types
    <3>2. Onward(it.next) \in Nodes \cup {NULL}
      BY <3>1 DEF Onward, Types
    <3>3. it' = [it EXCEPT !.next = Onward(it.next)] /\ owed' = owed \ {it.next}
      BY <2>2 DEF list_iterator_next
    <3>4. it'.next = Onward(it.next) /\ it'.direction = it.direction /\ it'.live
      BY <3>1, <3>3 DEF Types
    <3>5. Types'
      BY <3>2, <3>3, <1>1 DEF Types, listVars
    <3>6. PICK p \in 1 .. len :
             /\ s[p] = it.next
             /\ \A n \in owed : \E k \in 1 .. len : s[k] = n /\ InOrder(p, k)
      BY <3>1, ListAssumption DEF Ahead
    <3>7. PICK q \in Int : q = IF it.direction = "LIST_HEAD" THEN p + 1 ELSE p - 1
      BY <1>2
    <3>8. Onward(it.next) = IF q \in 1 .. len THEN s[q] ELSE NULL
      BY <3>1, <3>6, <3>7, <1>2 DEF Onward, Chain, Directions
    <3>9. ASSUME NEW n \in owed'
          PROVE  \E k \in 1 .. len : s[k] = n /\ InOrder(q, k)' /\ q \in 1 .. len
      <4>1. PICK k \in 1 .. len : s[k] = n /\ InOrder(p, k)
        BY <3>3, <3>6
      <4>2. k # p
        BY <4>1, <3>6, <3>3
      <4>3. InOrder(q, k)' /\ q \in 1 .. len
        BY <4>1, <4>2, <3>1, <3>4, <3>7, <1>2 DEF InOrder, Directions
      <4> QED BY <4>1, <4>3
    <3>10. CASE q \in 1 .. len
      <4>1. s[q] # NULL
        BY <3>10, <1>2, ListAssumption
      <4> QED BY <4>1, <3>10, <3>4, <3>5, <3>8, <3>9, <1>2 DEF Ahead
    <3>11. CASE q \notin 1 .. len
      BY <3>11, <3>4, <3>5, <3>8, <3>9 DEF Ahead
    <3> QED BY <3>10, <3>11
  <2>3. ASSUME list_iterator_destroy
        PROVE  Types' /\ Ahead(s)'
    BY <2>3, <1>1 DEF list_iterator_destroy, Types, Ahead, listVars, NoIterator, Directions
  <2> QED BY <2>1, <2>2, <2>3
<1>4. last' = last
  BY DEF list_iterator_next, list_iterator_destroy, list_iterator_new
<1> QED BY <1>2, <1>3, <1>4 DEF Holds, Rearranged

LEMMA StepHolds ==
    ASSUME ListInv, [Next]_vars
    PROVE  \E s, r : Chain(s) /\ s = Order /\ Holds(s, r)
<1>1. PICK s : s = Order
  OBVIOUS
<1>2. Types /\ Chain(s) /\ Ahead(s)
  BY <1>1 DEF ListInv
<1>3. CASE Next
  BY <1>2, <1>3, <1>1, PushHolds, CloseHolds, NothingHolds, DestroyHolds, IteratorHolds DEF Next
<1>4. CASE UNCHANGED vars
  <2>1. Types' /\ Ahead(s)'
    BY <1>2, <1>4 DEF vars, listVars, Types, Ahead, InOrder
  <2>2. Chain(s)'
    BY <1>2, <1>4, SameChain DEF vars
  <2>3. last' = last
    BY <1>4 DEF vars
  <2> QED BY <2>1, <2>2, <2>3, <1>1, <1>2 DEF Holds, Rearranged
<1> QED BY <1>3, <1>4

LEMMA ChainsAreOrder == \A s : len \in Nat /\ Chain(s) => Order = s
BY ChainIsOrder

LEMMA ChainsAreOrderNext == (\A s : len \in Nat /\ Chain(s) => Order = s)'
BY ChainsAreOrder, PTL

LEMMA OrderAfter ==
    ASSUME NEW s, NEW r, Holds(s, r)
    PROVE  Order' = r
<1>1. len' \in Nat /\ Chain(r)'
  BY DEF Holds, Types
<1> QED BY <1>1, ChainsAreOrderNext

LEMMA InitHolds ==
    ASSUME Init
    PROVE  ListInv /\ Order = <<>>
<1>1. Types /\ Chain(<<>>) /\ Ahead(<<>>)
  BY DEF Init, Types, Chain, Ahead, Unlinked, NoIterator, Directions
<1>2. Order = <<>>
  BY <1>1, ChainIsOrder DEF Types
<1> QED BY <1>1, <1>2 DEF ListInv

(* Every step rearranges the order as Rearranged says, so it stays one. *)
LEMMA Inductive == ListInv /\ [Next]_vars => ListInv'
<1> SUFFICES ASSUME ListInv, [Next]_vars PROVE ListInv'
  OBVIOUS
<1>1. PICK s, r : Holds(s, r)
  BY StepHolds
<1>2. Order' = r
  BY <1>1, OrderAfter
<1> QED BY <1>1, <1>2 DEF ListInv, Holds

(* The list has an order at all times, and its iterator a place in it. *)
THEOREM Induction == Spec => []ListInv
<1>1. Init => ListInv
  BY InitHolds
<1> QED BY <1>1, Inductive, PTL DEF Spec

(* The links back mirror the links forward, whatever is pushed, popped and *)
(* removed, so list_at and list_find find the same nodes from either end   *)
(* (list.c:137-182).                                                       *)
THEOREM BothWays == Spec => []LooksAgree
<1>1. ListInv => LooksAgree
  BY ChainLooksAgree DEF ListInv, Types
<1> QED BY <1>1, Induction, PTL

(* An iterator leaves out no node that stays in the list while it is used  *)
(* (list_iterator.c:43-52), for lists and uses of any length.              *)
THEOREM IteratorComplete == Spec => []IteratorOwesNothing
<1>1. ListInv => IteratorOwesNothing
  BY AheadOwesNothing DEF ListInv
<1> QED BY <1>1, Induction, PTL

----------------------------------------------------------------------------
(* The list is a sequence. *)

LEMMA OrderIsSeq ==
    ASSUME Types, NEW s, Chain(s)
    PROVE  s \in Seq(Nodes) /\ Len(s) = len /\ DOMAIN s = 1 .. len
<1>1. len \in Nat /\ s \in [1 .. len -> Nodes]
  BY DEF Types, Chain
<1> QED BY <1>1

(* A sequence is what it is at each place. *)
LEMMA SameSeq ==
    ASSUME NEW m \in Nat, NEW a, NEW b, a \in [1 .. m -> Nodes], b \in [1 .. m -> Nodes],
           \A k \in 1 .. m : a[k] = b[k]
    PROVE  a = b
<1>1. a = [k \in 1 .. m |-> a[k]] /\ b = [k \in 1 .. m |-> b[k]]
  OBVIOUS
<1>2. [k \in 1 .. m |-> a[k]] = [k \in 1 .. m |-> b[k]]
  OBVIOUS
<1> QED BY <1>1, <1>2, Zenon

LEMMA PushedLast ==
    ASSUME Types, NEW s, Chain(s), NEW n \in Nodes
    PROVE  WithLast(s, n) = Append(s, n)
<1>1. s \in Seq(Nodes) /\ Len(s) = len /\ len + 1 \in Nat
  BY OrderIsSeq DEF Types
<1> DEFINE a == Append(s, n)
           w == WithLast(s, n)
<1>2. Len(a) = len + 1 /\ a \in Seq(Nodes)
      /\ \A k \in 1 .. len + 1 : a[k] = IF k = len + 1 THEN n ELSE s[k]
  BY <1>1
<1>3. a \in [1 .. len + 1 -> Nodes]
  <2> HIDE DEF a
  <2> QED BY <1>2
<1>4. w \in [1 .. len + 1 -> Nodes]
      /\ \A k \in 1 .. len + 1 : w[k] = IF k = len + 1 THEN n ELSE s[k]
  BY <1>1 DEF WithLast
<1> HIDE DEF a, w
<1>5. w = a
  BY <1>1, <1>2, <1>3, <1>4, SameSeq
<1> QED BY <1>5 DEF a, w

LEMMA PushedFirst ==
    ASSUME Types, NEW s, Chain(s), NEW n \in Nodes
    PROVE  WithFirst(s, n) = <<n>> \o s
<1>1. s \in Seq(Nodes) /\ Len(s) = len /\ len + 1 \in Nat /\ len \in Nat
  BY OrderIsSeq DEF Types
<1> DEFINE a == <<n>> \o s
           w == WithFirst(s, n)
<1>2. Len(a) = len + 1 /\ a \in Seq(Nodes)
      /\ \A k \in 1 .. len + 1 : a[k] = IF k = 1 THEN n ELSE s[k - 1]
  BY <1>1
<1>3. a \in [1 .. len + 1 -> Nodes]
  <2> HIDE DEF a
  <2> QED BY <1>2
<1>4. w \in [1 .. len + 1 -> Nodes]
      /\ \A k \in 1 .. len + 1 : w[k] = IF k = 1 THEN n ELSE s[k - 1]
  BY <1>1 DEF WithFirst
<1> HIDE DEF a, w
<1>5. w = a
  BY <1>1, <1>2, <1>3, <1>4, SameSeq
<1> QED BY <1>5 DEF a, w

(* Taking out the last node, and the first. *)
LEMMA PoppedLast ==
    ASSUME Types, NEW s, Chain(s), len > 0
    PROVE  Cutting(s, len) = SubSeq(s, 1, len - 1)
<1>1. s \in Seq(Nodes) /\ Len(s) = len /\ len - 1 \in Nat /\ len \in Nat
  BY OrderIsSeq DEF Types
<1> DEFINE a == SubSeq(s, 1, len - 1)
           w == Cutting(s, len)
<1>2. Len(a) = len - 1 /\ a \in Seq(Nodes) /\ \A k \in 1 .. len - 1 : a[k] = s[k]
  BY <1>1
<1>3. a \in [1 .. len - 1 -> Nodes]
  <2> HIDE DEF a
  <2> QED BY <1>2
<1>4. w \in [1 .. len - 1 -> Nodes] /\ \A k \in 1 .. len - 1 : w[k] = s[k]
  BY <1>1 DEF Cutting
<1> HIDE DEF a, w
<1>5. w = a
  BY <1>1, <1>2, <1>3, <1>4, SameSeq
<1> QED BY <1>5 DEF a, w

LEMMA PoppedFirst ==
    ASSUME Types, NEW s, Chain(s), len > 0
    PROVE  Cutting(s, 1) = Tail(s)
<1>1. s \in Seq(Nodes) /\ Len(s) = len /\ len - 1 \in Nat /\ len \in Nat
  BY OrderIsSeq DEF Types
<1> DEFINE a == Tail(s)
           w == Cutting(s, 1)
<1>2. Len(a) = len - 1 /\ a \in Seq(Nodes) /\ \A k \in 1 .. len - 1 : a[k] = s[k + 1]
  BY <1>1
<1>3. a \in [1 .. len - 1 -> Nodes]
  <2> HIDE DEF a
  <2> QED BY <1>2
<1>4. w \in [1 .. len - 1 -> Nodes] /\ \A k \in 1 .. len - 1 : w[k] = s[k + 1]
  BY <1>1 DEF Cutting
<1> HIDE DEF a, w
<1>5. w = a
  BY <1>1, <1>2, <1>3, <1>4, SameSeq
<1> QED BY <1>5 DEF a, w

LEMMA RearrangedIsStep ==
    ASSUME Types, NEW s, Chain(s), s = Order, NEW r, r = Order', Rearranged(s, r)
    PROVE  [S!SeqNext]_<<Order, last>>
<1>1. s \in Seq(Nodes) /\ Len(s) = len /\ DOMAIN s = 1 .. len /\ len \in Nat
      /\ s \in [1 .. len -> Nodes]
  BY OrderIsSeq DEF Types, Chain
<1>2. s = Walk(next, head, len) /\ r = Walk(next, head, len)'
  BY DEF Order
<1>3. S!Members = {s[k] : k \in 1 .. len}
  BY <1>1, <1>2 DEF S!Members
<1>4. CASE r = s /\ last' = last
  BY <1>4
<1>5. CASE r = s /\ len = 0 /\ \E name \in {"list_rpop", "list_lpop"} : last' = Call(name, NULL, {})
  <2>1. s = <<>>
    BY <1>1, <1>5
  <2> QED BY <1>2, <1>5, <2>1 DEF S!SeqNext, S!PopLast, S!PopFirst, S!Called, Call
<1>6. CASE r = <<>> /\ last' = Call("list_destroy", NULL, {s[k] : k \in 1 .. len})
  <2>1. S!Destroy
    BY <1>2, <1>3, <1>6 DEF S!Destroy, S!Called, Call
  <2> QED BY <2>1 DEF S!SeqNext
<1>7. ASSUME NEW n \in Nodes, \A k \in 1 .. len : s[k] # n,
             \/ r = WithLast(s, n) /\ last' = Call("list_rpush", n, {})
             \/ r = WithFirst(s, n) /\ last' = Call("list_lpush", n, {})
      PROVE  S!SeqNext
  <2>1. n \notin S!Members
    BY <1>3, <1>7
  <2>2. S!PushLast(n) \/ S!PushFirst(n)
    BY <1>2, <1>7, <2>1, PushedLast, PushedFirst DEF S!PushLast, S!PushFirst, S!Called, Call
  <2> QED BY <2>2 DEF S!SeqNext
<1>8. ASSUME NEW p \in 1 .. len, r = Cutting(s, p),
             \/ p = len /\ last' = Call("list_rpop", s[p], {})
             \/ p = 1 /\ last' = Call("list_lpop", s[p], {})
             \/ last' = Call("list_remove", s[p], {s[p]})
      PROVE  S!SeqNext
  <2>1. len > 0 /\ s # <<>> /\ Head(s) = s[1]
    BY <1>1
  <2>2. CASE p = len /\ last' = Call("list_rpop", s[p], {})
    <3>1. S!PopLast
      BY <1>1, <1>2, <1>8, <2>1, <2>2, PoppedLast DEF S!PopLast, S!Called, Call
    <3> QED BY <3>1 DEF S!SeqNext
  <2>3. CASE p = 1 /\ last' = Call("list_lpop", s[p], {})
    <3>1. S!PopFirst
      BY <1>1, <1>2, <1>8, <2>1, <2>3, PoppedFirst DEF S!PopFirst, S!Called, Call
    <3> QED BY <3>1 DEF S!SeqNext
  <2>4. CASE last' = Call("list_remove", s[p], {s[p]})
    <3> DEFINE n == s[p]
    <3>1. n \in Nodes /\ n \in S!Members
      BY <1>1, <1>3
    <3>2. (CHOOSE k \in DOMAIN s : s[k] = n) = p
      BY <1>1 DEF Chain
    <3>3. S!Without(n) = Cutting(s, p)
      BY <3>2, <1>1, <1>2 DEF S!Without, Cutting
    <3>4. S!Remove(n)
      BY <1>2, <1>8, <2>4, <3>1, <3>3 DEF S!Remove, S!Called, Call
    <3> QED BY <3>1, <3>4 DEF S!SeqNext
  <2> QED BY <1>8, <2>2, <2>3, <2>4
<1> QED BY <1>4, <1>5, <1>6, <1>7, <1>8 DEF Rearranged

(* Every function of list.c does to the order of the nodes what its name   *)
(* says, at its own end, and nothing else; it returns the node it took     *)
(* out, and frees no node but those it has to: the list implements         *)
(* NodeSequence.                                                           *)
THEOREM Refinement == Spec => ImplementsSequence
<1>1. Init => Order = <<>> /\ last = Call("list_new", NULL, {})
  BY InitHolds DEF Init
<1>2. ListInv /\ [Next]_vars => [S!SeqNext]_<<Order, last>>
  <2> SUFFICES ASSUME ListInv, [Next]_vars PROVE [S!SeqNext]_<<Order, last>>
    OBVIOUS
  <2>1. PICK s, r : Chain(s) /\ s = Order /\ Holds(s, r)
    BY StepHolds
  <2>2. Order' = r
    BY <2>1, OrderAfter
  <2> QED BY <2>1, <2>2, RearrangedIsStep DEF ListInv, Holds
<1>3. Spec => (Order = <<>> /\ last = Call("list_new", NULL, {}))
              /\ [][S!SeqNext]_<<Order, last>>
  BY <1>1, <1>2, Induction, PTL DEF Spec
<1> QED BY <1>3 DEF ImplementsSequence, S!SeqSpec, S!SeqInit, S!seqVars, Order, Call
=============================================================================
