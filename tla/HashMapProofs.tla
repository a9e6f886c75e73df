--------------------------- MODULE HashMapProofs ---------------------------
(***************************************************************************)
(* Proofs about the hash map, for any keys, hash functions, table sizes    *)
(* and chain lengths: its gets find what it holds, its `size' is right,    *)
(* its iteration visits all, and it implements the map of KeyValueMap.     *)
(*                                                                         *)
(* An element is in one of many places while tables move: a slot of the    *)
(* table, or a slot, not yet passed, of an old table that some activation  *)
(* of the stack empties.  These are the cells.  The argument is that every *)
(* step moves elements from cell to cell without making two of one key.    *)
(* That fails for callers that both remove and overwrite, so it is proved  *)
(* for the others.                                                         *)
(***************************************************************************)
EXTENDS HashMapProperties, FiniteSetTheorems, TLAPS

Elements == [key : Keys, data : Data]
Slots == Elements \cup {Free}
Arrays == UNION {[0 .. (n - 1) -> Slots] : n \in Nat}
Activations ==
    [key : Keys, data : Data, rehashing : BOOLEAN, curr : Arrays, i : Nat]
Iterations ==
    [i : Int, calls : Nat, owed : SUBSET Keys, visited : SUBSET Keys,
     again : BOOLEAN, grown : BOOLEAN]

(* The types of the variables. *)
Typed ==
    /\ usage \in Usages
    /\ hash \in [Keys -> Nat]
    /\ tableSize \in Nat \ {0}
    /\ table \in [0 .. (tableSize - 1) -> Slots]
    /\ size \in Int
    /\ puts \in Seq(Activations)
    /\ iter \in Iterations

(* Only the innermost put may be looking for a slot; the put on top of     *)
(* another has the element that one has come to.                           *)
Stacked ==
    /\ \A n \in 1 .. Depth :
          ~puts[n].rehashing =>
             n = Depth /\ puts[n].i = 0 /\ DOMAIN puts[n].curr = {}
    /\ \A n \in 1 .. (Depth - 1) :
          /\ puts[n].i \in DOMAIN puts[n].curr
          /\ puts[n].curr[puts[n].i] # Free
          /\ puts[n + 1].key = puts[n].curr[puts[n].i].key
          /\ puts[n + 1].data = puts[n].curr[puts[n].i].data

(* The cells that hold elements: slot s of the table, for n = 0, or of the *)
(* old table the n-th activation empties, from where it has come to.       *)
Live(n, s) ==
    IF n = 0 THEN s \in DOMAIN table /\ table[s] # Free
    ELSE /\ n \in 1 .. Depth
         /\ s \in DOMAIN puts[n].curr /\ s >= puts[n].i
         /\ puts[n].curr[s] # Free
Item(n, s) == IF n = 0 THEN table[s] ELSE puts[n].curr[s]

(* No key is in two cells, nor, for callers that never put a key that is   *)
(* present, both in one and with the put under way.                        *)
Single ==
    \A m, n, s, t :
       Live(m, s) /\ Live(n, t) /\ Item(m, s).key = Item(n, t).key => m = n /\ s = t
CallerNew ==
    usage = "removing" /\ ~Idle =>
       \A n, s : Live(n, s) => Item(n, s).key # puts[1].key

(* An element is on the chain of its key and, if none is ever removed, the *)
(* chain has no hole before it.                                            *)
Chained(s, j) ==
    /\ s = Slot(table[s].key, j)
    /\ usage = "overwriting" =>
          \A m \in Chain : m < j => table[Slot(table[s].key, m)] # Free
Placed == \A s \in Used : \E j \in Chain : Chained(s, j)

(* For callers that never both remove and overwrite. *)
Orderly == usage # "both" => Single /\ CallerNew

(* `size' is at least the number of slots in use, and that number if no    *)
(* key that is present is put.                                             *)
Counted ==
    /\ Cardinality(Used) <= size
    /\ size <= tableSize \div 2
    /\ usage = "removing" => size = Cardinality(Used)

(* Unless the table has grown, the keys owed are ahead of the iteration    *)
(* and those visited are not.                                              *)
Visiting ==
    /\ usage # "both" => ~iter.again
    /\ iter.i < 0 \/ iter.grown => iter.owed = {} /\ iter.visited = {}
    /\ iter.i < 0 => ~iter.grown
    /\ iter.i >= 0 /\ ~iter.grown =>
          /\ \A k \in iter.owed : \E s \in Used : s > iter.i /\ table[s].key = k
          /\ \A k \in iter.visited : \E s \in Used : s <= iter.i /\ table[s].key = k

----------------------------------------------------------------------------
(* Lemmas about the operators of the model *)

(* The least of a set of numbers is one of them and below all.             *)
LEMMA MinIsLeast ==
    ASSUME NEW S \in SUBSET Nat, S # {}
    PROVE  Min(S) \in S /\ \A y \in S : Min(S) <= y
<1>1. PICK x \in S : \A y \in S : <<y, x>> \notin OpToRel(<, Nat)
  BY NatLessThanWellFounded, WFMin, Zenon
<1>2. \A y \in S : ~(y < x)
  BY <1>1, Zenon DEF OpToRel
<1>3. \A y \in S : x <= y
  BY <1>2
<1> QED
  BY <1>3, Zenon DEF Min

(* The loop of hashmap_rehash goes on with the next index (line 192).      *)
LEMMA AdvancedIs ==
    ASSUME NEW a \in Activations
    PROVE  /\ Advanced(a) \in Activations
           /\ Advanced(a).key = a.key /\ Advanced(a).data = a.data
           /\ Advanced(a).rehashing = a.rehashing
           /\ Advanced(a).curr = a.curr /\ Advanced(a).i = a.i + 1
BY DEF Advanced, Activations

(* A put begins by looking for a slot (lines 210-213).                     *)
LEMMA ActivationIs ==
    ASSUME NEW k \in Keys, NEW d \in Data
    PROVE  /\ Activation(k, d) \in Activations
           /\ Activation(k, d).key = k /\ Activation(k, d).data = d
           /\ ~Activation(k, d).rehashing
           /\ DOMAIN Activation(k, d).curr = {} /\ Activation(k, d).i = 0
<1>1. <<>> \in [0 .. (0 - 1) -> Slots] /\ DOMAIN <<>> = {}
  <2> 0 .. (0 - 1) = {}
    OBVIOUS
  <2> QED
    OBVIOUS
<1>2. <<>> \in Arrays
  BY <1>1 DEF Arrays
<1> QED
  BY <1>1, <1>2 DEF Activation, Activations

(* The slots of a chain are slots of the table (lines 147, 157).           *)
LEMMA SlotInTable ==
    ASSUME Typed, NEW k \in Keys, NEW j \in Chain
    PROVE  Slot(k, j) \in 0 .. (tableSize - 1)
<1>1. hash[k] % tableSize \in Nat /\ j \in Nat
  BY DEF Typed, Chain
<1> DEFINE h == hash[k] % tableSize
<1>2. (h + j) % tableSize \in 0 .. (tableSize - 1)
  <2> h + j \in Nat
    BY <1>1
  <2> HIDE DEF h
  <2> QED
    BY DEF Typed
<1> QED
  BY <1>2 DEF Slot, SlotIn

LEMMA ChainIsNat == Chain \subseteq Nat
BY HashMapAssumption DEF Chain

(* hashmap_hash stops at the first suitable slot.                          *)
LEMMA PlaceIs ==
    ASSUME Typed, NEW k \in Keys, Suitable(k) # {}
    PROVE  \E j \in Suitable(k) :
              /\ j \in Chain /\ Place(k) = Slot(k, j)
              /\ Place(k) \in 0 .. (tableSize - 1)
              /\ \A m \in Suitable(k) : j <= m
<1>1. Suitable(k) \subseteq Chain
  BY DEF Suitable
<1>2. Min(Suitable(k)) \in Suitable(k) /\ \A m \in Suitable(k) : Min(Suitable(k)) <= m
  BY <1>1, ChainIsNat, MinIsLeast
<1> QED
  BY <1>1, <1>2, SlotInTable DEF Place

(* hashmap_get and hashmap_remove find a slot of the table that holds k.   *)
LEMMA HitIs ==
    ASSUME Typed, NEW k \in Keys, Found(table, tableSize, k)
    PROVE  LET h == Hit(table, tableSize, k) IN
              h \in 0 .. (tableSize - 1) /\ table[h] # Free /\ table[h].key = k
<1> DEFINE H == Hits(table, tableSize, k)
<1>1. H \subseteq Chain /\ H # {}
  BY DEF Hits, Found
<1>2. Min(H) \in H
  BY <1>1, ChainIsNat, MinIsLeast
<1> QED
  BY <1>1, <1>2, SlotInTable DEF Hit, Hits, HoldsKey, Slot

(* The innermost activation is one of the stack. *)
LEMMA TopIs ==
    ASSUME Typed, ~Idle
    PROVE  /\ Depth \in Nat \ {0} /\ Depth \in 1 .. Len(puts) /\ Depth = Len(puts)
           /\ Top \in Activations /\ Top = puts[Depth]
           /\ Top.key \in Keys /\ Top.data \in Data
           /\ \A n \in 1 .. Depth : puts[n] \in Activations
<1>1. Len(puts) # 0
  BY DEF Idle, Typed
<1>2. Depth \in Nat \ {0} /\ Depth \in 1 .. Len(puts) /\ Depth = Len(puts)
  BY <1>1 DEF Typed, Depth
<1>3. \A n \in 1 .. Depth : puts[n] \in Activations
  BY <1>2 DEF Typed
<1> QED
  BY <1>2, <1>3 DEF Top, Activations

(* One put is under way, and has just begun (line 210).                    *)
LEMMA PutsAfterPut ==
    ASSUME Typed, NEW k \in Keys, NEW d \in Data, Put(k, d)
    PROVE  /\ puts' \in Seq(Activations) /\ Len(puts') = 1
           /\ puts'[1] = Activation(k, d)
BY ActivationIs DEF Put

(* The loop goes on, with the other activations as they were.              *)
LEMMA PutsAfterSkip ==
    ASSUME Typed, SkipUnused
    PROVE  /\ puts' \in Seq(Activations) /\ Len(puts') = Depth
           /\ \A n \in 1 .. (Depth - 1) : puts'[n] = puts[n]
           /\ puts'[Depth] = Advanced(puts[Depth])
<1>1. ~Idle
  BY DEF SkipUnused, Rehashing
<1> QED
  BY <1>1, TopIs, AdvancedIs DEF SkipUnused, Typed

(* hashmap_rehash has swapped the tables (lines 178-188).                  *)
LEMMA PutsAfterGrow ==
    ASSUME Typed, Grow
    PROVE  /\ puts' \in Seq(Activations) /\ Len(puts') = Depth
           /\ \A n \in 1 .. (Depth - 1) : puts'[n] = puts[n]
           /\ puts'[Depth] \in Activations
           /\ puts'[Depth].key = Top.key /\ puts'[Depth].data = Top.data
           /\ puts'[Depth].rehashing
           /\ puts'[Depth].curr = table /\ puts'[Depth].i = Top.i
<1>1. ~Idle
  BY DEF Grow, Searching
<1>2. table \in Arrays
  BY DEF Typed, Arrays
<1>3. /\ Moving \in Activations
      /\ Moving.key = Top.key /\ Moving.data = Top.data
      /\ Moving.rehashing /\ Moving.curr = table /\ Moving.i = Top.i
  BY <1>1, <1>2, TopIs DEF Moving, Activations
<1> QED
  BY <1>1, <1>3, TopIs DEF Grow, Typed

(* The put of an element of the old table has begun (lines 194-195).       *)
LEMMA PutsAfterAgain ==
    ASSUME Typed, PutAgain, Top.curr[Top.i] \in Elements
    PROVE  LET e == Top.curr[Top.i] IN
           /\ puts' \in Seq(Activations) /\ Len(puts') = Depth + 1
           /\ \A n \in 1 .. Depth : puts'[n] = puts[n]
           /\ puts'[Depth + 1] = Activation(e.key, e.data)
<1>1. ~Idle
  BY DEF PutAgain, Rehashing
<1> DEFINE a == Activation(Top.curr[Top.i].key, Top.curr[Top.i].data)
<1>2. a \in Activations
  BY ActivationIs DEF Elements
<1>3. puts' = Append(puts, a)
  BY DEF PutAgain
<1> HIDE DEF a
<1>4. /\ puts' \in Seq(Activations) /\ Len(puts') = Depth + 1
      /\ \A n \in 1 .. Depth : puts'[n] = puts[n]
      /\ puts'[Depth + 1] = a
  BY <1>1, <1>2, <1>3, TopIs DEF Typed
<1> QED
  BY <1>4 DEF a

(* The search begins anew in the table that has grown (line 217).          *)
LEMMA PutsAfterRehash ==
    ASSUME Typed, RehashDone
    PROVE  /\ puts' \in Seq(Activations) /\ Len(puts') = Depth
           /\ \A n \in 1 .. (Depth - 1) : puts'[n] = puts[n]
           /\ puts'[Depth] = Activation(Top.key, Top.data)
<1>1. ~Idle
  BY DEF RehashDone, Rehashing
<1>2. Activation(Top.key, Top.data) \in Activations
  BY <1>1, TopIs, ActivationIs
<1> QED
  BY <1>1, <1>2, TopIs DEF RehashDone, Typed

(* The put returns, to the caller or to the loop that moved its element.   *)
LEMMA PutsAfterStore ==
    ASSUME Typed, Store
    PROVE  /\ puts' \in Seq(Activations) /\ Len(puts') = Depth - 1
           /\ \A n \in 1 .. (Depth - 2) : puts'[n] = puts[n]
           /\ Depth > 1 => puts'[Depth - 1] = Advanced(puts[Depth - 1])
<1>1. ~Idle
  BY DEF Store, Searching
<1>2. puts' = Returned
  BY DEF Store
<1>3. CASE Depth = 1
  BY <1>1, <1>2, <1>3, TopIs DEF Returned
<1>4. CASE Depth > 1
  <2> DEFINE below == SubSeq(puts, 1, Depth - 1)
  <2>1. /\ below \in Seq(Activations) /\ Len(below) = Depth - 1
        /\ Depth - 1 \in 1 .. Len(below)
        /\ \A n \in 1 .. (Depth - 1) : below[n] = puts[n]
    BY <1>1, <1>4, TopIs DEF Typed
  <2> DEFINE a == Advanced(below[Depth - 1])
  <2>2. Depth # 1
    BY <1>4
  <2>3. Returned = [below EXCEPT ![Depth - 1] = a]
    BY <2>2, Zenon DEF Returned
  <2>4. Depth - 1 \in 1 .. Depth
    BY <1>1, <1>4, TopIs
  <2>5. below[Depth - 1] = puts[Depth - 1] /\ puts[Depth - 1] \in Activations
    BY <1>1, <1>4, <2>1, <2>4, TopIs
  <2>6. a = Advanced(puts[Depth - 1]) /\ a \in Activations
    BY <2>5, AdvancedIs
  <2> HIDE DEF below, a
  <2>7. /\ puts' \in Seq(Activations) /\ Len(puts') = Depth - 1
        /\ \A n \in 1 .. (Depth - 1) :
              puts'[n] = IF n = Depth - 1 THEN a ELSE below[n]
    BY <1>2, <2>1, <2>3, <2>6
  <2> QED
    BY <1>1, <1>4, <2>1, <2>6, <2>7, TopIs
<1> QED
  BY <1>1, <1>3, <1>4, TopIs

(* The loop of hashmap_rehash runs over the slots of the old table (189).  *)
LEMMA OldSizeIs ==
    ASSUME Typed, ~Idle
    PROVE  /\ OldSize \in Nat
           /\ DOMAIN Top.curr = 0 .. (OldSize - 1)
           /\ Top.curr \in [0 .. (OldSize - 1) -> Slots]
           /\ Top.i \in Nat
<1>1. Top \in Activations
  BY TopIs
<1>2. PICK n \in Nat : Top.curr \in [0 .. (n - 1) -> Slots]
  BY <1>1 DEF Activations, Arrays
<1>3. Cardinality(0 .. (n - 1)) = n
  <2>1. Cardinality(0 .. (n - 1)) = IF 0 > n - 1 THEN 0 ELSE (n - 1) - 0 + 1
    BY FS_Interval
  <2> QED
    BY <2>1
<1>4. OldSize = n
  BY <1>2, <1>3 DEF OldSize
<1> QED
  BY <1>1, <1>2, <1>4 DEF Activations

LEMMA MovedIsElement ==
    ASSUME Typed, PutAgain
    PROVE  Top.curr[Top.i] \in Elements /\ Top.i \in DOMAIN Top.curr
<1>1. ~Idle /\ Top.i < OldSize /\ Top.curr[Top.i] # Free
  BY DEF PutAgain, Rehashing
<1>2. Top.i \in 0 .. (OldSize - 1)
  BY <1>1, OldSizeIs
<1> QED
  BY <1>1, <1>2, OldSizeIs DEF Slots

LEMMA PresentAreKeys == Typed => Present \subseteq Keys
BY DEF Typed, Present, Slots, Elements

(* hashmap_iterate goes on to the first slot ahead that is in use.         *)
LEMMA NextIs ==
    ASSUME Typed, NEW i \in Nat, Ahead(i) # {}
    PROVE  /\ Min(Ahead(i)) \in Ahead(i)
           /\ \A s \in Ahead(i) : Min(Ahead(i)) <= s
<1>1. Ahead(i) \subseteq Nat
  BY DEF Ahead, Typed
<1> QED
  BY <1>1, MinIsLeast

----------------------------------------------------------------------------
(* Types and the stack *)

(* The loop of hashmap_iterate has come to its end. *)
LEMMA IterAfterEnd ==
    ASSUME Typed, NEW it \in Iterations, NEW i \in Nat, GoOn(it, i), Ahead(i) = {}
    PROVE  /\ iter' \in Iterations /\ iter'.i = -1
           /\ iter'.owed = it.owed /\ iter'.visited = {}
           /\ iter'.again = it.again /\ ~iter'.grown
<1> DEFINE a == -1
<1>1. a \in Int /\ a = -1
  OBVIOUS
<1>2. iter' = [it EXCEPT !.i = a, !.calls = 0, !.visited = {}, !.grown = FALSE]
  BY DEF GoOn
<1> HIDE DEF a
<1> QED
  BY <1>1, <1>2 DEF Iterations

(* The loop goes on to the first used slot ahead.                          *)
LEMMA IterAfterNext ==
    ASSUME Typed, NEW it \in Iterations, NEW i \in Nat, GoOn(it, i), Ahead(i) # {}
    PROVE  LET k == table[Min(Ahead(i))].key IN
           /\ iter' \in Iterations /\ iter'.i = Min(Ahead(i))
           /\ iter'.grown = it.grown
           /\ it.grown => /\ iter'.owed = it.owed /\ iter'.visited = it.visited
                          /\ iter'.again = it.again
           /\ ~it.grown => /\ iter'.owed = it.owed \ {k}
                           /\ iter'.visited = it.visited \cup {k}
                           /\ (iter'.again <=> (it.again \/ k \in it.visited))
<1> DEFINE next == Min(Ahead(i))
           k    == table[next].key
           b    == it.again \/ k \in it.visited
<1>1. next \in Ahead(i)
  BY NextIs
<1>2. next \in Int /\ k \in Keys
  BY <1>1 DEF Ahead, Typed, Slots, Elements
<1>3. b \in BOOLEAN
  BY DEF Iterations
<1>4. iter' = IF it.grown THEN [it EXCEPT !.i = next]
              ELSE [it EXCEPT !.i = next, !.owed = @ \ {k},
                              !.visited = @ \cup {k}, !.again = b]
  BY DEF GoOn
<1>5. k = table[next].key /\ next = Min(Ahead(i)) /\ b = (it.again \/ k \in it.visited)
  OBVIOUS
<1> HIDE DEF next, k, b
<1>6. CASE it.grown
  BY <1>2, <1>4, <1>5, <1>6 DEF Iterations
<1>7. CASE ~it.grown
  <2>1. iter' = [it EXCEPT !.i = next, !.owed = @ \ {k},
                           !.visited = @ \cup {k}, !.again = b]
    BY <1>4, <1>7
  <2>2. /\ iter' \in Iterations /\ iter'.i = next /\ iter'.grown = it.grown
        /\ iter'.owed = it.owed \ {k} /\ iter'.visited = it.visited \cup {k}
        /\ iter'.again = b
    BY <1>2, <1>3, <2>1 DEF Iterations
  <2> QED
    BY <1>5, <1>7, <2>2
<1> QED
  BY <1>6, <1>7

(* The table has grown under the iteration, if one is under way.           *)
LEMMA IterAfterGrow ==
    ASSUME Typed, Grow
    PROVE  /\ iter' \in Iterations /\ iter'.i = iter.i
           /\ iter'.owed = {} /\ iter'.visited = {}
           /\ (iter'.again <=> iter.again) /\ (iter'.grown <=> iter.i >= 0)
<1> DEFINE b == iter.i >= 0
<1>1. b \in BOOLEAN /\ b = (iter.i >= 0)
  OBVIOUS
<1>2. iter' = [iter EXCEPT !.owed = {}, !.visited = {}, !.grown = b]
  BY DEF Grow
<1>3. iter \in Iterations
  BY DEF Typed
<1> HIDE DEF b
<1>4. /\ iter' \in Iterations /\ iter'.i = iter.i
      /\ iter'.owed = {} /\ iter'.visited = {}
      /\ iter'.again = iter.again /\ iter'.grown = b
  BY <1>1, <1>2, <1>3 DEF Iterations
<1> QED
  BY <1>1, <1>4

LEMMA IterAfterRemove ==
    ASSUME Typed, NEW k \in Keys, Remove(k)
    PROVE  /\ iter' \in Iterations /\ iter'.i = iter.i
           /\ iter'.owed = iter.owed \ {k} /\ iter'.visited = iter.visited \ {k}
           /\ iter'.again = iter.again /\ iter'.grown = iter.grown
<1>1. CallsAfter \in Nat
  BY DEF CallsAfter, Typed, Iterations
<1> QED
  BY <1>1 DEF Remove, Typed, Iterations

LEMMA IterAfterPut ==
    ASSUME Typed, NEW k \in Keys, NEW d \in Data, Put(k, d)
    PROVE  /\ iter' \in Iterations /\ iter'.i = iter.i
           /\ iter'.owed = iter.owed /\ iter'.visited = iter.visited
           /\ iter'.again = iter.again /\ iter'.grown = iter.grown
<1>1. CallsAfter \in Nat
  BY DEF CallsAfter, Typed, Iterations
<1> QED
  BY <1>1 DEF Put, Typed, Iterations

LEMMA IterationIs ==
    ASSUME Typed, NEW n \in Int
    PROVE  LET it == Iteration(n, Present) IN
           /\ it \in Iterations /\ it.i = n /\ it.owed = Present
           /\ it.visited = {} /\ ~it.again /\ ~it.grown
BY PresentAreKeys DEF Iteration, Iterations

LEMMA NotIteratingIs ==
    /\ NotIterating \in Iterations /\ NotIterating.i = -1
    /\ NotIterating.owed = {} /\ NotIterating.visited = {}
    /\ ~NotIterating.again /\ ~NotIterating.grown
BY DEF NotIterating, Iteration, Iterations

LEMMA InitTyped == Init => Typed /\ Stacked
<1> SUFFICES ASSUME Init PROVE Typed /\ Stacked
  OBVIOUS
<1>1. puts = <<>> /\ Depth = 0
  BY DEF Init, Depth
<1>2. Stacked
  BY <1>1 DEF Stacked
<1>3. iter \in Iterations
  BY NotIteratingIs DEF Init
<1>4. tableSize \in Nat \ {0} /\ table \in [0 .. (tableSize - 1) -> Slots]
  BY HashMapAssumption DEF Init, Slots
<1>5. puts \in Seq(Activations)
  BY <1>1
<1> QED
  BY <1>2, <1>3, <1>4, <1>5, HashMapAssumption DEF Typed, Init

LEMMA TypedStep == Typed /\ [Next]_vars => Typed'
<1> SUFFICES ASSUME Typed, [Next]_vars PROVE Typed'
  OBVIOUS
<1>1. ASSUME Store PROVE Typed'
  <2>1. ~Idle /\ Suitable(Top.key) # {}
    BY <1>1 DEF Store, Searching, Full
  <2>2. Place(Top.key) \in 0 .. (tableSize - 1)
    BY <2>1, TopIs, PlaceIs
  <2>3. [key |-> Top.key, data |-> Top.data] \in Slots
    BY <2>1, TopIs DEF Slots, Elements
  <2>4. table' \in [0 .. (tableSize - 1) -> Slots] /\ size' \in Int
    BY <1>1, <2>2, <2>3 DEF Store, Typed
  <2> QED
    BY <1>1, <2>4, PutsAfterStore DEF Store, Typed
<1>2. ASSUME Grow PROVE Typed'
  <2>1. table' \in [0 .. (tableSize' - 1) -> Slots] /\ tableSize' \in Nat \ {0}
    BY <1>2 DEF Grow, NewTableSize, Typed, Slots
  <2>2. iter' \in Iterations
    BY <1>2, IterAfterGrow
  <2>3. size' \in Int /\ UNCHANGED <<usage, hash>>
    BY <1>2 DEF Grow, SizeOfNewTable
  <2> QED
    BY <1>2, <2>1, <2>2, <2>3, PutsAfterGrow DEF Typed
<1>3. ASSUME GrowFails PROVE Typed'
  BY <1>3 DEF GrowFails, AfterOutOfMemory, Typed
<1>4. ASSUME SkipUnused PROVE Typed'
  BY <1>4, PutsAfterSkip DEF SkipUnused, Typed
<1>5. ASSUME PutAgain PROVE Typed'
  BY <1>5, MovedIsElement, PutsAfterAgain DEF PutAgain, Typed
<1>6. ASSUME RehashDone PROVE Typed'
  BY <1>6, PutsAfterRehash DEF RehashDone, Typed
<1>7. ASSUME NEW k \in Keys, Remove(k) PROVE Typed'
  <2>1. table' \in [0 .. (tableSize - 1) -> Slots] /\ size' \in Int
    <3> DEFINE h == Hit(table, tableSize, k)
    <3>1. \/ table' = table /\ size' = size
          \/ /\ table' = [table EXCEPT ![h] = Free] /\ size' = size - 1
             /\ h \in 0 .. (tableSize - 1)
      BY <1>7, HitIs DEF Remove
    <3>2. Free \in Slots
      BY DEF Slots
    <3>3. table \in [0 .. (tableSize - 1) -> Slots] /\ size \in Int
      BY DEF Typed
    <3> HIDE DEF h
    <3>4. CASE table' = table /\ size' = size
      BY <3>3, <3>4
    <3>5. CASE /\ table' = [table EXCEPT ![h] = Free] /\ size' = size - 1
               /\ h \in 0 .. (tableSize - 1)
      BY <3>2, <3>3, <3>5
    <3> QED
      BY <3>1, <3>4, <3>5
  <2> QED
    BY <1>7, <2>1, IterAfterRemove DEF Remove, Typed
<1>8. ASSUME NEW k \in Keys, NEW d \in Data, Put(k, d) PROVE Typed'
  BY <1>8, IterAfterPut, PutsAfterPut DEF Put, Typed
<1>9. ASSUME Iterate PROVE Typed'
  <2>1. Iteration(-1, Present) \in Iterations /\ Iteration(0, Present) \in Iterations
    BY IterationIs
  <2>2. iter' \in Iterations
    BY <1>9, <2>1, IterAfterEnd, IterAfterNext DEF Iterate
  <2> QED
    BY <1>9, <2>2 DEF Iterate, Typed
<1>10. ASSUME CallbackReturns PROVE Typed'
  <2>1. NotIterating \in Iterations
    BY NotIteratingIs
  <2>2. iter.i + 1 \in Nat
    BY <1>10 DEF CallbackReturns, Typed, Iterations
  <2>3. iter' \in Iterations
    BY <1>10, <2>1, <2>2, IterAfterEnd, IterAfterNext DEF CallbackReturns, Typed
  <2> QED
    BY <1>10, <2>3 DEF CallbackReturns, Typed
<1>11. ASSUME UNCHANGED vars PROVE Typed'
  BY <1>11 DEF vars, Typed
<1> QED
  BY <1>1, <1>2, <1>3, <1>4, <1>5, <1>6, <1>7, <1>8, <1>9, <1>10, <1>11
  DEF Next, Step

(* A step that changes the innermost put only, and not what it is to store. *)
LEMMA StackedIfTopStays ==
    ASSUME Stacked, Len(puts) \in Nat \ {0}, Len(puts') = Len(puts),
           \A n \in 1 .. (Len(puts) - 1) : puts'[n] = puts[n],
           puts'[Len(puts)].key = puts[Len(puts)].key,
           puts'[Len(puts)].data = puts[Len(puts)].data,
           puts'[Len(puts)].rehashing
             \/ (puts'[Len(puts)].i = 0 /\ DOMAIN puts'[Len(puts)].curr = {})
    PROVE  Stacked'
<1> USE DEF Depth
<1>1. \A n \in 1 .. (Len(puts) - 1) : puts[n].rehashing
  BY DEF Stacked
<1>2. \A n \in 1 .. Len(puts) :
         puts'[n].key = puts[n].key /\ puts'[n].data = puts[n].data
  OBVIOUS
<1>3. ASSUME NEW n \in 1 .. (Len(puts) - 1)
      PROVE  /\ puts'[n].i \in DOMAIN puts'[n].curr
             /\ puts'[n].curr[puts'[n].i] # Free
             /\ puts'[n + 1].key = puts'[n].curr[puts'[n].i].key
             /\ puts'[n + 1].data = puts'[n].curr[puts'[n].i].data
  <2>1. n + 1 \in 1 .. Len(puts) /\ puts'[n] = puts[n]
    OBVIOUS
  <2> QED
    BY <1>2, <2>1 DEF Stacked
<1> QED
  BY <1>1, <1>3 DEF Stacked

LEMMA StackedStep == Typed /\ Stacked /\ [Next]_vars => Stacked'
<1> SUFFICES ASSUME Typed, Stacked, [Next]_vars PROVE Stacked'
  OBVIOUS
<1> USE DEF Depth
<1>1. ASSUME Store PROVE Stacked'
  <2>1. Len(puts) \in Nat \ {0}
    BY <1>1, TopIs DEF Store, Searching
  <2>2. CASE Len(puts) = 1
    BY <1>1, <2>2, PutsAfterStore DEF Stacked
  <2>3. CASE Len(puts) # 1
    <3> DEFINE n == Len(puts) - 1
    <3>1. n \in Nat \ {0} /\ Len(puts') = n /\ n \in 1 .. Len(puts)
      BY <1>1, <2>1, <2>3, PutsAfterStore
    <3>2. /\ \A m \in 1 .. (n - 1) : puts'[m] = puts[m]
          /\ puts'[n] = Advanced(puts[n])
      BY <1>1, <2>3, PutsAfterStore
    <3>3. puts[n].rehashing /\ \A m \in 1 .. (n - 1) : puts[m].rehashing
      BY <3>1 DEF Stacked
    <3>4. puts[n] \in Activations
      BY <3>1 DEF Typed
    <3>5. puts'[n].rehashing /\ puts'[n].key = puts[n].key /\ puts'[n].data = puts[n].data
      BY <3>2, <3>3, <3>4, AdvancedIs
    <3> HIDE DEF n
    <3>6. \A m \in 1 .. n : puts'[m].rehashing
      BY <3>1, <3>2, <3>3, <3>5
    <3>7. \A m \in 1 .. n : puts'[m].key = puts[m].key /\ puts'[m].data = puts[m].data
      BY <3>1, <3>2, <3>5
    <3>8. ASSUME NEW m \in 1 .. (n - 1)
          PROVE  /\ puts'[m].i \in DOMAIN puts'[m].curr
                 /\ puts'[m].curr[puts'[m].i] # Free
                 /\ puts'[m + 1].key = puts'[m].curr[puts'[m].i].key
                 /\ puts'[m + 1].data = puts'[m].curr[puts'[m].i].data
      <4>1. m \in 1 .. (Len(puts) - 1) /\ puts'[m] = puts[m] /\ m + 1 \in 1 .. n
        BY <3>1, <3>2
      <4> QED
        BY <3>7, <4>1 DEF Stacked
    <3> QED
      BY <3>1, <3>6, <3>8 DEF Stacked
  <2> QED
    BY <2>1, <2>2, <2>3
<1>2. ASSUME Grow PROVE Stacked'
  <2>1. Len(puts) \in Nat \ {0}
    BY <1>2, TopIs DEF Grow, Searching
  <2>2. /\ Len(puts') = Len(puts)
        /\ \A n \in 1 .. (Len(puts) - 1) : puts'[n] = puts[n]
        /\ puts'[Len(puts)].key = puts[Len(puts)].key
        /\ puts'[Len(puts)].data = puts[Len(puts)].data
        /\ puts'[Len(puts)].rehashing
             \/ (puts'[Len(puts)].i = 0 /\ DOMAIN puts'[Len(puts)].curr = {})
    BY <1>2, PutsAfterGrow DEF Top
  <2> QED
    BY <2>1, <2>2, StackedIfTopStays
<1>3. ASSUME GrowFails PROVE Stacked'
  <2>1. puts' = <<>>
    BY <1>3 DEF GrowFails, AfterOutOfMemory
  <2> QED
    BY <2>1 DEF Stacked
<1>4. ASSUME SkipUnused PROVE Stacked'
  <2>1. /\ Len(puts) \in Nat \ {0} /\ puts[Len(puts)] \in Activations
        /\ puts[Len(puts)].rehashing
    BY <1>4, TopIs DEF SkipUnused, Rehashing, Top
  <2>2. /\ Len(puts') = Len(puts)
        /\ \A n \in 1 .. (Len(puts) - 1) : puts'[n] = puts[n]
        /\ puts'[Len(puts)].key = puts[Len(puts)].key
        /\ puts'[Len(puts)].data = puts[Len(puts)].data
        /\ puts'[Len(puts)].rehashing
             \/ (puts'[Len(puts)].i = 0 /\ DOMAIN puts'[Len(puts)].curr = {})
    BY <1>4, <2>1, PutsAfterSkip, AdvancedIs
  <2> QED
    BY <2>1, <2>2, StackedIfTopStays
<1>5. ASSUME PutAgain PROVE Stacked'
  <2>1. /\ Len(puts) \in Nat \ {0} /\ puts[Len(puts)].rehashing
        /\ Top = puts[Len(puts)]
    BY <1>5, TopIs DEF PutAgain, Rehashing, Top
  <2>2. /\ Top.curr[Top.i] \in Elements /\ Top.i \in DOMAIN Top.curr
        /\ Top.curr[Top.i] # Free
    BY <1>5, MovedIsElement DEF PutAgain
  <2> DEFINE e == Top.curr[Top.i]
             n == Len(puts)
  <2>3. /\ Len(puts') = n + 1
        /\ \A m \in 1 .. n : puts'[m] = puts[m]
        /\ puts'[n + 1].key = e.key /\ puts'[n + 1].data = e.data
        /\ puts'[n + 1].i = 0 /\ DOMAIN puts'[n + 1].curr = {}
    BY <1>5, <2>2, PutsAfterAgain, ActivationIs DEF Elements
  <2>4. \A m \in 1 .. n : puts[m].rehashing
    BY <2>1 DEF Stacked
  <2>5. /\ puts'[n].i \in DOMAIN puts'[n].curr
        /\ puts'[n].curr[puts'[n].i] = e
    BY <2>1, <2>2, <2>3
  <2> HIDE DEF e, n
  <2>6. n = Len(puts) /\ n \in Nat \ {0} /\ e # Free
    BY <2>1, <2>2 DEF n, e
  <2>7. \A m \in 1 .. (n + 1) :
           ~puts'[m].rehashing =>
              m = n + 1 /\ puts'[m].i = 0 /\ DOMAIN puts'[m].curr = {}
    BY <2>3, <2>4, <2>6
  <2>8. ASSUME NEW m \in 1 .. n
        PROVE  /\ puts'[m].i \in DOMAIN puts'[m].curr
               /\ puts'[m].curr[puts'[m].i] # Free
               /\ puts'[m + 1].key = puts'[m].curr[puts'[m].i].key
               /\ puts'[m + 1].data = puts'[m].curr[puts'[m].i].data
    <3>1. CASE m = n
      BY <2>3, <2>5, <2>6, <3>1
    <3>2. CASE m # n
      <4>1. m \in 1 .. (n - 1) /\ m + 1 \in 1 .. n
        BY <2>6, <3>2
      <4>2. puts'[m] = puts[m] /\ puts'[m + 1] = puts[m + 1]
        BY <2>3, <4>1
      <4> QED
        BY <2>6, <4>1, <4>2 DEF Stacked
    <3> QED
      BY <3>1, <3>2
  <2> QED
    BY <2>3, <2>6, <2>7, <2>8 DEF Stacked
<1>6. ASSUME RehashDone PROVE Stacked'
  <2>1. /\ Len(puts) \in Nat \ {0} /\ Top = puts[Len(puts)]
        /\ Top.key \in Keys /\ Top.data \in Data
    BY <1>6, TopIs DEF RehashDone, Rehashing
  <2>2. /\ Len(puts') = Len(puts)
        /\ \A n \in 1 .. (Len(puts) - 1) : puts'[n] = puts[n]
        /\ puts'[Len(puts)].key = puts[Len(puts)].key
        /\ puts'[Len(puts)].data = puts[Len(puts)].data
        /\ puts'[Len(puts)].rehashing
             \/ (puts'[Len(puts)].i = 0 /\ DOMAIN puts'[Len(puts)].curr = {})
    BY <1>6, <2>1, PutsAfterRehash, ActivationIs
  <2> QED
    BY <2>1, <2>2, StackedIfTopStays
<1>7. ASSUME NEW k \in Keys, NEW d \in Data, Put(k, d) PROVE Stacked'
  <2>1. Len(puts') = 1 /\ puts'[1].i = 0 /\ DOMAIN puts'[1].curr = {}
    BY <1>7, PutsAfterPut, ActivationIs
  <2> QED
    BY <2>1 DEF Stacked
<1>8. ASSUME UNCHANGED puts PROVE Stacked'
  BY <1>8 DEF Stacked
<1> QED
  BY <1>1, <1>2, <1>3, <1>4, <1>5, <1>6, <1>7, <1>8
  DEF Next, Step, Remove, Iterate, CallbackReturns, vars

----------------------------------------------------------------------------
(* What each step does to the cells *)

SameCells ==
    \A n, s : /\ Live(n, s)' <=> Live(n, s)
              /\ Live(n, s) => Item(n, s)' = Item(n, s)

(* The steps of the loop but one leave all cells as they are: a slot that  *)
(* is skipped is unused, an element stays where it is while its put is     *)
(* under way, and the loop ends when no slot is left (lines 189-197).      *)
LEMMA CellsStay ==
    ASSUME Typed, Stacked,
           \/ SkipUnused \/ PutAgain \/ RehashDone \/ Iterate \/ CallbackReturns
           \/ UNCHANGED vars \/ \E k \in Keys, d \in Data : Put(k, d)
    PROVE  SameCells
<1> USE DEF Depth, Live, Item
<1>1. ASSUME NEW k \in Keys, NEW d \in Data, Put(k, d) PROVE SameCells
  <2>1. /\ Len(puts') = 1 /\ DOMAIN puts'[1].curr = {} /\ Len(puts) = 0
        /\ table' = table
    BY <1>1, PutsAfterPut, ActivationIs DEF Put, Calling, Idle
  <2> QED
    BY <2>1 DEF SameCells
<1>2. ASSUME SkipUnused PROVE SameCells
  <2>1. /\ Len(puts) \in Nat \ {0} /\ puts[Len(puts)] \in Activations
        /\ Top = puts[Len(puts)] /\ Top.curr[Top.i] = Free
        /\ Top.i \in Nat
    BY <1>2, TopIs, OldSizeIs DEF SkipUnused, Rehashing
  <2>2. /\ table' = table /\ Len(puts') = Len(puts)
        /\ \A n \in 1 .. (Len(puts) - 1) : puts'[n] = puts[n]
        /\ puts'[Len(puts)].curr = Top.curr /\ puts'[Len(puts)].i = Top.i + 1
    BY <1>2, <2>1, PutsAfterSkip, AdvancedIs DEF SkipUnused
  <2>3. DOMAIN Top.curr \subseteq Nat
    BY <1>2, OldSizeIs DEF SkipUnused, Rehashing
  <2> QED
    BY <2>1, <2>2, <2>3 DEF SameCells
<1>3. ASSUME PutAgain PROVE SameCells
  <2>1. Len(puts) \in Nat \ {0}
    BY <1>3, TopIs DEF PutAgain, Rehashing
  <2>2. /\ table' = table /\ Len(puts') = Len(puts) + 1
        /\ \A n \in 1 .. Len(puts) : puts'[n] = puts[n]
        /\ DOMAIN puts'[Len(puts) + 1].curr = {}
    BY <1>3, MovedIsElement, PutsAfterAgain, ActivationIs DEF PutAgain, Elements
  <2> QED
    BY <2>1, <2>2 DEF SameCells
<1>4. ASSUME RehashDone PROVE SameCells
  <2>1. /\ Len(puts) \in Nat \ {0} /\ Top = puts[Len(puts)]
        /\ Top.key \in Keys /\ Top.data \in Data
    BY <1>4, TopIs DEF RehashDone, Rehashing
  <2>2. /\ table' = table /\ Len(puts') = Len(puts)
        /\ \A n \in 1 .. (Len(puts) - 1) : puts'[n] = puts[n]
        /\ DOMAIN puts'[Len(puts)].curr = {}
    BY <1>4, <2>1, PutsAfterRehash, ActivationIs DEF RehashDone
  <2>3. \A s \in DOMAIN Top.curr : ~(s >= Top.i)
    BY <1>4, OldSizeIs DEF RehashDone, Rehashing
  <2> QED
    BY <2>1, <2>2, <2>3 DEF SameCells
<1>5. ASSUME UNCHANGED <<table, puts>> PROVE SameCells
  BY <1>5 DEF SameCells
<1> QED
  BY <1>1, <1>2, <1>3, <1>4, <1>5 DEF Iterate, CallbackReturns, vars

(* The table becomes the old table of the put that grew it (lines 178-188). *)
LEMMA CellsAfterGrow ==
    ASSUME Typed, Stacked, Grow
    PROVE  /\ \A n, s : Live(n, s)' <=> (\/ n = Depth /\ Live(0, s)
                                         \/ n \in 1 .. (Depth - 1) /\ Live(n, s))
           /\ \A n, s : n = Depth => Item(n, s)' = Item(0, s)
           /\ \A n, s : n \in 1 .. (Depth - 1) => Item(n, s)' = Item(n, s)
<1> USE DEF Depth, Live, Item
<1>1. /\ Len(puts) \in Nat \ {0} /\ Top = puts[Len(puts)] /\ ~Top.rehashing
  BY TopIs DEF Grow, Searching
<1>2. Top.i = 0
  BY <1>1 DEF Stacked
<1>3. /\ Len(puts') = Len(puts)
      /\ \A n \in 1 .. (Len(puts) - 1) : puts'[n] = puts[n]
      /\ puts'[Len(puts)].curr = table /\ puts'[Len(puts)].i = 0
  BY <1>2, PutsAfterGrow
<1>4. \A s \in DOMAIN table : s >= 0
  BY DEF Typed
<1>5. \A s \in DOMAIN table' : table'[s] = Free
  BY DEF Grow
<1>6. ASSUME NEW n, NEW s
      PROVE  Live(n, s)' <=> (\/ n = Len(puts) /\ Live(0, s)
                              \/ n \in 1 .. (Len(puts) - 1) /\ Live(n, s))
  <2>1. CASE n = 0
    BY <1>1, <1>5, <2>1
  <2>2. CASE n = Len(puts)
    BY <1>1, <1>3, <1>4, <2>2
  <2>3. CASE n # 0 /\ n # Len(puts)
    BY <1>1, <1>3, <2>3
  <2> QED
    BY <2>1, <2>2, <2>3
<1> QED
  BY <1>1, <1>3, <1>6

(* Every activation returns; what the old tables held is lost.             *)
LEMMA CellsAfterFailure ==
    ASSUME Typed, GrowFails
    PROVE  /\ \A n, s : Live(n, s)' <=> (n = 0 /\ Live(n, s))
           /\ \A s : Item(0, s)' = Item(0, s)
<1>1. table' = table /\ Len(puts') = 0
  BY DEF GrowFails, AfterOutOfMemory
<1> QED
  BY <1>1 DEF Live, Item, Depth

(* A put on top of another has the element that one has come to.           *)
LEMMA CarriedIs ==
    ASSUME Typed, Stacked, ~Idle, Depth # 1
    PROVE  LET c == puts[Depth - 1].curr
               i == puts[Depth - 1].i
           IN  /\ Depth - 1 \in Nat \ {0} /\ puts[Depth - 1] \in Activations
               /\ i \in DOMAIN c /\ c[i] # Free
               /\ c[i] = [key |-> Top.key, data |-> Top.data]
               /\ i \in Nat /\ DOMAIN c \subseteq Nat
<1> DEFINE n == Depth - 1
           c == puts[n].curr
           i == puts[n].i
<1>1. /\ n \in Nat \ {0} /\ n \in 1 .. (Depth - 1) /\ n + 1 = Depth
      /\ puts[n] \in Activations /\ Top = puts[Depth]
  BY TopIs
<1>2. /\ i \in DOMAIN c /\ c[i] # Free
      /\ Top.key = c[i].key /\ Top.data = c[i].data
  BY <1>1 DEF Stacked
<1>3. PICK len \in Nat : c \in [0 .. (len - 1) -> Slots]
  BY <1>1 DEF Activations, Arrays
<1>4. c[i] \in Elements
  BY <1>2, <1>3 DEF Slots
<1>5. c[i] = [key |-> Top.key, data |-> Top.data]
  BY <1>2, <1>4 DEF Elements
<1>6. i \in Nat /\ DOMAIN c \subseteq Nat
  BY <1>1, <1>3 DEF Activations
<1> HIDE DEF c, i
<1> QED
  BY <1>1, <1>2, <1>5, <1>6 DEF c, i

(* What a put stores is the caller's element, or the one its rehashing     *)
(* loop has come to, which leaves the old table in the same step.          *)
LEMMA StoreWrites ==
    ASSUME Typed, Store
    PROVE  LET e == [key |-> Top.key, data |-> Top.data]
               p == Place(Top.key)
           IN  /\ e \in Elements /\ e # Free /\ e.key = Top.key /\ e.data = Top.data
               /\ p \in DOMAIN table /\ DOMAIN table' = DOMAIN table
               /\ table'[p] = e
               /\ \A s \in DOMAIN table : s # p => table'[s] = table[s]
<1> DEFINE e == [key |-> Top.key, data |-> Top.data]
           p == Place(Top.key)
<1>1. Top.key \in Keys /\ Top.data \in Data
  BY TopIs DEF Store, Searching
<1>2. p \in 0 .. (tableSize - 1)
  BY <1>1, PlaceIs DEF Store, Full
<1>3. e \in Elements /\ e # Free /\ e.key = Top.key /\ e.data = Top.data
  BY <1>1, HashMapAssumption DEF Elements
<1>4. table' = [table EXCEPT ![p] = e]
  BY DEF Store
<1> HIDE DEF e, p
<1>5. /\ p \in DOMAIN table /\ DOMAIN table' = DOMAIN table /\ table'[p] = e
      /\ \A s \in DOMAIN table : s # p => table'[s] = table[s]
  BY <1>2, <1>4 DEF Typed
<1> QED
  BY <1>3, <1>5 DEF e, p

LEMMA CellsAfterStore ==
    ASSUME Typed, Stacked, Store
    PROVE  LET e == [key |-> Top.key, data |-> Top.data]
               p == Place(Top.key)
               l == puts[Depth - 1].i
           IN  /\ \A s : Live(0, s)' <=> (s = p \/ Live(0, s))
               /\ \A s : s = p => Item(0, s)' = e
               /\ \A s : s # p /\ Live(0, s) => Item(0, s)' = Item(0, s)
               /\ \A n, s : n # 0 /\ Live(n, s)' =>
                     Live(n, s) /\ Item(n, s)' = Item(n, s) /\ Depth # 1
               /\ \A n, s : n # 0 /\ Live(n, s) =>
                     Live(n, s)' \/ (n = Depth - 1 /\ s = l)
               /\ \A n, s : n = Depth - 1 /\ s = l /\ n # 0 => ~Live(n, s)'
               /\ Depth # 1 => /\ Live(Depth - 1, l) /\ Item(Depth - 1, l) = e
                               /\ Depth - 1 # 0
<1> DEFINE e == [key |-> Top.key, data |-> Top.data]
           p == Place(Top.key)
           l == puts[Depth - 1].i
<1>1. /\ Depth \in Nat \ {0} /\ Top = puts[Depth] /\ ~Top.rehashing
      /\ \A m \in 1 .. Depth : puts[m] \in Activations
      /\ ~Idle /\ Depth = Len(puts)
  BY TopIs DEF Store, Searching
<1>2. /\ e # Free /\ p \in DOMAIN table /\ DOMAIN table' = DOMAIN table
      /\ table'[p] = e
      /\ \A s \in DOMAIN table : s # p => table'[s] = table[s]
  BY StoreWrites
<1>3. /\ Depth' = Depth - 1
      /\ \A m \in 1 .. (Depth - 2) : puts'[m] = puts[m]
      /\ Depth > 1 => puts'[Depth - 1] = Advanced(puts[Depth - 1])
  BY PutsAfterStore DEF Depth
<1>4. DOMAIN puts[Depth].curr = {}
  BY <1>1 DEF Stacked
<1> HIDE DEF e, p
<1>5. /\ \A s : Live(0, s)' <=> (s = p \/ Live(0, s))
      /\ \A s : s = p => Item(0, s)' = e
      /\ \A s : s # p /\ Live(0, s) => Item(0, s)' = Item(0, s)
  BY <1>2 DEF Live, Item
<1>6. CASE Depth = 1
  <2>1. \A n, s : n # 0 => ~Live(n, s)' /\ ~Live(n, s)
    BY <1>1, <1>3, <1>4, <1>6 DEF Live
  <2> QED
    BY <1>5, <1>6, <2>1 DEF e, p
<1>7. CASE Depth # 1
  <2>1. Depth > 1
    BY <1>1, <1>7
  <2> DEFINE d == Depth - 1
             c == puts[d].curr
  <2>2. /\ d \in Nat \ {0} /\ l \in DOMAIN c /\ c[l] # Free /\ c[l] = e
        /\ l \in Nat /\ DOMAIN c \subseteq Nat /\ puts[d] \in Activations
    BY <1>1, <1>7, CarriedIs DEF e
  <2>3. puts'[d].curr = c /\ puts'[d].i = l + 1
    BY <1>3, <2>1, <2>2, AdvancedIs
  <2>4. /\ \A m \in 1 .. (d - 1) : puts'[m] = puts[m]
        /\ Depth = d + 1 /\ Depth' = d
    BY <1>1, <1>3
  <2>5. c = puts[d].curr /\ l = puts[d].i
    OBVIOUS
  <2> HIDE DEF d, c, l
  <2>6. ASSUME NEW n, n # 0, NEW s
        PROVE  /\ Live(n, s)' <=> (Live(n, s) /\ ~(n = d /\ s = l))
               /\ Live(n, s)' => Item(n, s)' = Item(n, s)
    <3>1. CASE n = d
      BY <2>2, <2>3, <2>4, <2>5, <2>6, <3>1 DEF Live, Item
    <3>2. CASE n = Depth
      BY <1>4, <2>2, <2>4, <2>6, <3>2 DEF Live, Item
    <3>3. CASE n # d /\ n # Depth
      <4>1. n \in 1 .. (d - 1) <=> n \in 1 .. Depth
        BY <2>2, <2>4, <3>3
      <4>2. n \in 1 .. (d - 1) <=> n \in 1 .. Depth'
        BY <2>2, <2>4, <3>3
      <4> QED
        BY <2>4, <2>6, <4>1, <4>2 DEF Live, Item
    <3> QED
      BY <3>1, <3>2, <3>3
  <2>7. Live(d, l) /\ Item(d, l) = e /\ d # 0
    BY <2>2, <2>4, <2>5 DEF Live, Item
  <2> QED
    BY <1>5, <1>7, <2>6, <2>7 DEF e, p, d, l
<1> QED
  BY <1>6, <1>7

(* A removal empties one slot of the table. *)
LEMMA CellsAfterRemove ==
    ASSUME Typed, NEW k \in Keys, Remove(k)
    PROVE  LET h == Hit(table, tableSize, k) IN
           /\ \A n, s : Live(n, s)' <=>
                 (Live(n, s) /\ ~(Found(table, tableSize, k) /\ s = h))
           /\ \A n, s : Live(n, s)' => Item(n, s)' = Item(n, s)
           /\ \A n, s : Live(n, s) => n = 0
           /\ Found(table, tableSize, k) => Live(0, h) /\ Item(0, h).key = k
<1> USE DEF Depth, Live, Item
<1>1. Len(puts) = 0 /\ puts' = puts
  BY DEF Remove, Calling, Idle
<1> DEFINE h == Hit(table, tableSize, k)
<1>2. CASE Found(table, tableSize, k)
  <2>1. /\ h \in 0 .. (tableSize - 1) /\ table[h] # Free /\ table[h].key = k
    BY <1>2, HitIs
  <2>2. table' = [table EXCEPT ![h] = Free]
    BY <1>2 DEF Remove
  <2> HIDE DEF h
  <2>3. /\ DOMAIN table' = DOMAIN table /\ h \in DOMAIN table /\ table'[h] = Free
        /\ \A s \in DOMAIN table : s # h => table'[s] = table[s]
    BY <2>1, <2>2 DEF Typed
  <2>4. /\ \A n, s : Live(n, s)' <=> (Live(n, s) /\ s # h)
        /\ \A n, s : Live(n, s)' => Item(n, s)' = Item(n, s)
        /\ \A n, s : Live(n, s) => n = 0
        /\ Live(0, h) /\ Item(0, h).key = k
    BY <1>1, <2>1, <2>3
  <2> QED
    BY <1>2, <2>4, Zenon DEF h
<1>3. CASE ~Found(table, tableSize, k)
  <2>1. table' = table
    BY <1>3 DEF Remove
  <2>2. /\ \A n, s : Live(n, s)' <=> Live(n, s)
        /\ \A n, s : Live(n, s)' => Item(n, s)' = Item(n, s)
        /\ \A n, s : Live(n, s) => n = 0
    BY <1>1, <2>1
  <2> HIDE DEF Live, Item
  <2> QED
    BY <1>3, <2>2, Zenon
<1> QED
  BY <1>2, <1>3

----------------------------------------------------------------------------
(* Elements are on their chains, and keys are in one cell each *)

LEMMA InitPlaced == Init => Placed
BY DEF Init, Placed, Used

LEMMA PlacedStep == Typed /\ Placed /\ [Next]_vars => Placed'
<1> SUFFICES ASSUME Typed, Placed, [Next]_vars PROVE Placed'
  OBVIOUS
<1>1. ASSUME Store PROVE Placed'
  <2> DEFINE k == Top.key
             p == Place(k)
             e == [key |-> Top.key, data |-> Top.data]
  <2>1. k \in Keys /\ Suitable(k) # {}
    BY <1>1, TopIs DEF Store, Searching, Full
  <2>2. PICK j \in Chain : p = Slot(k, j) /\ \A m \in Suitable(k) : j <= m
    BY <2>1, PlaceIs
  <2>3. \A m \in Chain : m < j => table[Slot(k, m)] # Free
    BY <2>2, ChainIsNat DEF Suitable
  <2>4. /\ e # Free /\ e.key = k /\ p \in DOMAIN table /\ DOMAIN table' = DOMAIN table
        /\ table'[p] = e
        /\ \A s \in DOMAIN table : s # p => table'[s] = table[s]
    BY <1>1, StoreWrites
  <2>5. \A s \in DOMAIN table : table[s] # Free => table'[s] # Free
    BY <2>4
  <2>6. UNCHANGED <<usage, hash, tableSize>>
    BY <1>1 DEF Store
  <2>7. \A x, m : Slot(x, m)' = Slot(x, m)
    BY <2>6 DEF Slot, SlotIn
  <2> HIDE DEF k, p, e
  <2>8. ASSUME NEW s \in Used'
        PROVE  \E i \in Chain : Chained(s, i)'
    <3>1. CASE s = p
      <4>1. table'[s].key = k
        BY <2>4, <3>1
      <4>2. \A m \in Chain : m < j => table'[Slot(k, m)] # Free
        BY <2>1, <2>3, <2>5, SlotInTable DEF Typed
      <4>3. Chained(s, j)'
        BY <2>2, <2>7, <3>1, <4>1, <4>2 DEF Chained
      <4> QED
        BY <4>3
    <3>2. CASE s # p
      <4>1. s \in Used /\ table'[s] = table[s]
        BY <2>4, <3>2 DEF Used
      <4>2. PICK i \in Chain : Chained(s, i)
        BY <4>1 DEF Placed
      <4>3. table[s].key \in Keys
        BY <4>1 DEF Used, Typed, Slots, Elements
      <4>4. \A m \in Chain : Slot(table[s].key, m) \in DOMAIN table
        BY <4>3, SlotInTable DEF Typed
      <4>5. Chained(s, i)'
        BY <2>5, <2>6, <2>7, <4>1, <4>2, <4>4 DEF Chained
      <4> QED
        BY <4>5
    <3> QED
      BY <3>1, <3>2
  <2> QED
    BY <2>8 DEF Placed, Chain
<1>2. ASSUME Grow PROVE Placed'
  <2>1. Used' = {}
    BY <1>2 DEF Grow, Used
  <2> QED
    BY <2>1 DEF Placed
<1>3. ASSUME NEW k \in Keys, Remove(k) PROVE Placed'
  <2>1. /\ usage # "overwriting" /\ UNCHANGED <<usage, hash, tableSize>>
    BY <1>3 DEF Remove
  <2>2. \A x, m : Slot(x, m)' = Slot(x, m)
    BY <2>1 DEF Slot, SlotIn
  <2>3. \A s \in Used' : s \in Used /\ table'[s] = table[s]
    BY <1>3, HitIs DEF Remove, Used, Typed
  <2>4. ASSUME NEW s \in Used'
        PROVE  \E i \in Chain : Chained(s, i)'
    BY <2>1, <2>2, <2>3 DEF Placed, Chained
  <2> QED
    BY <2>4 DEF Placed, Chain
<1>4. ASSUME UNCHANGED <<usage, hash, table, tableSize>> PROVE Placed'
  BY <1>4 DEF Placed, Chained, Used, Slot, SlotIn, Chain
<1> QED
  BY <1>1, <1>2, <1>3, <1>4
  DEF Next, Step, GrowFails, SkipUnused, PutAgain, RehashDone, Put, Iterate,
      CallbackReturns, vars

(* hashmap_get finds a key if it is anywhere in the table.                 *)
LEMMA FoundIfUsed ==
    ASSUME Typed, Placed, NEW k \in Keys
    PROVE  Found(table, tableSize, k) <=> \E s \in Used : table[s].key = k
<1>1. ASSUME NEW s \in Used, table[s].key = k PROVE Found(table, tableSize, k)
  <2>1. PICK j \in Chain : s = Slot(k, j)
    BY <1>1 DEF Placed, Chained
  <2>2. j \in Hits(table, tableSize, k)
    BY <1>1, <2>1 DEF Hits, HoldsKey, Used, Slot
  <2> QED
    BY <2>2 DEF Found
<1>2. ASSUME Found(table, tableSize, k) PROVE \E s \in Used : table[s].key = k
  BY <1>2, HitIs DEF Used, Typed
<1> QED
  BY <1>1, <1>2

(* For callers that never remove, a put of a key that is present finds it. *)
LEMMA PlaceOfPresent ==
    ASSUME Typed, Placed, usage = "overwriting", NEW k \in Keys, Suitable(k) # {},
           NEW s \in Used, table[s].key = k,
           \A t \in Used : table[t].key = k => t = s
    PROVE  Place(k) = s
<1>1. PICK i \in Chain : s = Slot(k, i)
                         /\ \A m \in Chain : m < i => table[Slot(k, m)] # Free
  BY DEF Placed, Chained
<1>2. PICK j \in Suitable(k) :
         j \in Chain /\ Place(k) = Slot(k, j) /\ \A m \in Suitable(k) : j <= m
  BY PlaceIs
<1>3. i \in Suitable(k)
  BY <1>1 DEF Suitable, HoldsKey, Used
<1>4. i \in Nat /\ j \in Nat /\ j <= i
  BY <1>2, <1>3, ChainIsNat
<1>5. CASE j = i
  BY <1>1, <1>2, <1>5
<1>6. CASE j # i
  <2>1. table[Slot(k, j)] # Free
    BY <1>1, <1>2, <1>4, <1>6
  <2>2. table[Slot(k, j)].key = k
    BY <1>2, <2>1 DEF Suitable, HoldsKey
  <2>3. Slot(k, j) \in Used
    BY <1>2, <2>1, SlotInTable DEF Used, Typed
  <2> QED
    BY <1>2, <2>2, <2>3
<1> QED
  BY <1>5, <1>6

LEMMA LiveInTable == \A s : Live(0, s) <=> s \in Used
BY DEF Live, Used

LEMMA InitOrderly == Init => Orderly
<1> SUFFICES ASSUME Init PROVE Orderly
  OBVIOUS
<1>1. puts = <<>> /\ Depth = 0 /\ \A s : s \notin Used
  BY DEF Init, Depth, Used
<1>2. \A n, s : ~Live(n, s)
  BY <1>1, LiveInTable DEF Live
<1> QED
  BY <1>2 DEF Orderly, Single, CallerNew

(* The caller of a put that is not new under "removing" would have found   *)
(* its key.                                                                *)
LEMMA PutIsNew ==
    ASSUME Typed, Placed, NEW k \in Keys, NEW d \in Data, Put(k, d),
           usage = "removing"
    PROVE  \A n, s : Live(n, s) => Item(n, s).key # k
<1>1. Get(k) = Missing /\ Depth = 0
  BY DEF Put, Calling, Idle, Depth
<1>2. ~Found(table, tableSize, k)
  <2> SUFFICES ASSUME Found(table, tableSize, k) PROVE FALSE
    OBVIOUS
  <2> DEFINE h == Hit(table, tableSize, k)
  <2>1. h \in 0 .. (tableSize - 1) /\ table[h] # Free
    BY HitIs
  <2>2. table[h].data \in Data
    BY <2>1 DEF Typed, Slots, Elements
  <2>3. Get(k) = table[h].data
    BY DEF Get, Lookup
  <2> QED
    BY <1>1, <2>2, <2>3, HashMapAssumption
<1>3. \A s : Live(0, s) => Item(0, s).key # k
  BY <1>2, FoundIfUsed, LiveInTable DEF Item
<1>4. \A n, s : Live(n, s) => n = 0
  BY <1>1 DEF Live
<1> QED
  BY <1>3, <1>4

(* No other cell has the key that is stored: the loop's element was its    *)
(* only one, and the caller's is new or replaces the one there is.         *)
LEMMA StoredAlone ==
    ASSUME Typed, Stacked, Placed, Orderly, usage # "both", Store
    PROVE  \A n, s : Live(n, s)' /\ ~(n = 0 /\ s = Place(Top.key))
                       => Item(n, s)'.key # Top.key
<1> DEFINE k == Top.key
           p == Place(k)
           e == [key |-> Top.key, data |-> Top.data]
           l == puts[Depth - 1].i
<1>1. /\ ~Idle /\ k \in Keys /\ Suitable(k) # {} /\ Top = puts[Depth]
      /\ Depth \in Nat \ {0}
  BY TopIs DEF Store, Searching, Full
<1>2. e.key = k
  OBVIOUS
<1>3. /\ \A s : Live(0, s)' <=> (s = p \/ Live(0, s))
      /\ \A s : s # p /\ Live(0, s) => Item(0, s)' = Item(0, s)
      /\ \A n, s : n # 0 /\ Live(n, s)' =>
            Live(n, s) /\ Item(n, s)' = Item(n, s) /\ Depth # 1
      /\ \A n, s : n = Depth - 1 /\ s = l /\ n # 0 => ~Live(n, s)'
      /\ Depth # 1 => /\ Live(Depth - 1, l) /\ Item(Depth - 1, l) = e
                      /\ Depth - 1 # 0
  BY CellsAfterStore
<1>4. Single /\ CallerNew
  BY DEF Orderly
<1> SUFFICES ASSUME NEW n, NEW s, Live(n, s)', ~(n = 0 /\ s = p), Item(n, s)'.key = k
             PROVE  FALSE
  OBVIOUS
<1> HIDE DEF k, p, e, l
<1>5. Live(n, s) /\ Item(n, s).key = k /\ (n # 0 => Depth # 1)
  BY <1>3
<1>6. CASE Depth # 1
  <2>1. Live(Depth - 1, l) /\ Item(Depth - 1, l).key = k /\ Depth - 1 # 0
    BY <1>2, <1>3, <1>6
  <2>2. n = Depth - 1 /\ s = l
    BY <1>4, <1>5, <2>1 DEF Single
  <2> QED
    BY <1>3, <2>1, <2>2
<1>7. CASE Depth = 1
  <2>1. n = 0 /\ k = puts[1].key
    BY <1>1, <1>5, <1>7 DEF k
  <2>2. usage = "overwriting"
    BY <1>1, <1>4, <1>5, <2>1, HashMapAssumption DEF CallerNew, Typed
  <2>3. s \in Used /\ table[s].key = k
    BY <1>5, <2>1, LiveInTable DEF Item
  <2>4. \A t \in Used : table[t].key = k => t = s
    BY <1>4, <1>5, <2>1, LiveInTable DEF Single, Item
  <2>5. p = s
    BY <1>1, <2>2, <2>3, <2>4, PlaceOfPresent DEF p
  <2> QED
    BY <2>1, <2>5
<1> QED
  BY <1>6, <1>7

(* The put of the caller keeps its arguments until it returns.             *)
LEMMA CallerStays ==
    ASSUME Typed, Stacked, ~Idle,
           Store \/ Grow \/ SkipUnused \/ PutAgain \/ RehashDone, ~Idle'
    PROVE  puts'[1].key = puts[1].key /\ puts'[1].data = puts[1].data
<1>1. /\ Depth \in Nat \ {0} /\ Depth = Len(puts) /\ Top = puts[Depth]
      /\ \A n \in 1 .. Depth : puts[n] \in Activations
      /\ Top.key \in Keys /\ Top.data \in Data
  BY TopIs
<1>2. CASE Store
  <2>1. Depth # 1
    BY <1>1, <1>2, PutsAfterStore DEF Idle
  <2> QED
    BY <1>1, <1>2, <2>1, PutsAfterStore, AdvancedIs
<1>3. CASE Grow
  BY <1>1, <1>3, PutsAfterGrow
<1>4. CASE SkipUnused
  BY <1>1, <1>4, PutsAfterSkip, AdvancedIs
<1>5. CASE PutAgain
  BY <1>1, <1>5, MovedIsElement, PutsAfterAgain
<1>6. CASE RehashDone
  BY <1>1, <1>6, PutsAfterRehash, ActivationIs
<1> QED
  BY <1>2, <1>3, <1>4, <1>5, <1>6

LEMMA OrderlyStep ==
    Typed /\ Stacked /\ Placed /\ Orderly /\ [Next]_vars => Orderly'
<1> SUFFICES ASSUME Typed, Stacked, Placed, Orderly, [Next]_vars, (usage # "both")'
             PROVE  (Single /\ CallerNew)'
  BY DEF Orderly
<1>1. usage' = usage
  BY DEF Next, Step, Store, Grow, GrowFails, SkipUnused, PutAgain, RehashDone,
     Remove, Put, Iterate, CallbackReturns, vars
<1>2. Single /\ CallerNew /\ usage # "both"
  BY <1>1 DEF Orderly
<1>3. ASSUME Store PROVE (Single /\ CallerNew)'
  <2> DEFINE k == Top.key
             p == Place(k)
             e == [key |-> Top.key, data |-> Top.data]
             l == puts[Depth - 1].i
  <2>1. \A n, s : Live(n, s)' /\ ~(n = 0 /\ s = p) => Item(n, s)'.key # k
    BY <1>2, <1>3, StoredAlone
  <2>2. /\ \A s : Live(0, s)' <=> (s = p \/ Live(0, s))
        /\ \A s : s = p => Item(0, s)' = e
        /\ \A s : s # p /\ Live(0, s) => Item(0, s)' = Item(0, s)
        /\ \A n, s : n # 0 /\ Live(n, s)' =>
              Live(n, s) /\ Item(n, s)' = Item(n, s) /\ Depth # 1
        /\ Depth # 1 => Live(Depth - 1, l) /\ Item(Depth - 1, l) = e
    BY <1>3, CellsAfterStore
  <2>3. e.key = k /\ ~Idle
    BY <1>3 DEF Store, Searching
  <2> HIDE DEF k, p, e, l
  <2>4. \A n, s : Live(n, s)' /\ ~(n = 0 /\ s = p) =>
           Live(n, s) /\ Item(n, s)' = Item(n, s)
    BY <2>2
  <2>5. Single'
    <3> SUFFICES ASSUME NEW m, NEW n, NEW s, NEW t, Live(m, s)', Live(n, t)',
                        Item(m, s)'.key = Item(n, t)'.key
                 PROVE  m = n /\ s = t
      BY DEF Single
    <3>1. CASE ~(m = 0 /\ s = p) /\ ~(n = 0 /\ t = p)
      BY <1>2, <2>4, <3>1 DEF Single
    <3>2. CASE (m = 0 /\ s = p) \/ (n = 0 /\ t = p)
      BY <2>1, <2>2, <2>3, <3>2
    <3> QED
      BY <3>1, <3>2
  <2>6. CallerNew'
    <3> SUFFICES ASSUME usage = "removing", ~Idle', NEW n, NEW s, Live(n, s)'
                 PROVE  Item(n, s)'.key # puts'[1].key
      BY <1>1 DEF CallerNew
    <3>1. puts'[1].key = puts[1].key
      BY <1>3, <2>3, CallerStays
    <3>2. Depth # 1
      BY <1>3, PutsAfterStore DEF Idle
    <3>3. k # puts[1].key
      BY <1>2, <2>2, <2>3, <3>2 DEF CallerNew
    <3> QED
      BY <1>2, <2>2, <2>3, <2>4, <3>1, <3>3 DEF CallerNew
  <2> QED
    BY <2>5, <2>6
<1>4. ASSUME Grow PROVE (Single /\ CallerNew)'
  <2>1. /\ \A n, s : Live(n, s)' <=> (\/ n = Depth /\ Live(0, s)
                                      \/ n \in 1 .. (Depth - 1) /\ Live(n, s))
        /\ \A n, s : n = Depth => Item(n, s)' = Item(0, s)
        /\ \A n, s : n \in 1 .. (Depth - 1) => Item(n, s)' = Item(n, s)
    BY <1>4, CellsAfterGrow
  <2>2. Depth \in Nat \ {0} /\ ~Idle
    BY <1>4, TopIs DEF Grow, Searching
  <2>3. Depth \notin 1 .. (Depth - 1) /\ 0 \notin 1 .. (Depth - 1)
    BY <2>2
  <2>4. Single'
    <3> SUFFICES ASSUME NEW m, NEW n, NEW s, NEW t, Live(m, s)', Live(n, t)',
                        Item(m, s)'.key = Item(n, t)'.key
                 PROVE  m = n /\ s = t
      BY DEF Single
    <3> DEFINE old(i) == IF i = Depth THEN 0 ELSE i
    <3>1. /\ Live(old(m), s) /\ Item(m, s)' = Item(old(m), s)
          /\ Live(old(n), t) /\ Item(n, t)' = Item(old(n), t)
      BY <2>1, <2>3
    <3>2. old(m) = old(n) /\ s = t
      BY <1>2, <3>1, Zenon DEF Single
    <3> QED
      BY <2>1, <2>3, <3>2
  <2>5. CallerNew'
    <3> SUFFICES ASSUME usage = "removing", ~Idle', NEW n, NEW s, Live(n, s)'
                 PROVE  Item(n, s)'.key # puts'[1].key
      BY <1>1 DEF CallerNew
    <3>1. puts'[1].key = puts[1].key
      BY <1>4, <2>2, CallerStays
    <3> QED
      BY <1>2, <2>1, <2>2, <3>1 DEF CallerNew
  <2> QED
    BY <2>4, <2>5
<1>5. ASSUME GrowFails PROVE (Single /\ CallerNew)'
  <2>1. /\ \A n, s : Live(n, s)' <=> (n = 0 /\ Live(n, s))
        /\ \A s : Item(0, s)' = Item(0, s)
    BY <1>5, CellsAfterFailure
  <2>2. Idle'
    BY <1>5 DEF GrowFails, AfterOutOfMemory, Idle
  <2> QED
    BY <1>2, <2>1, <2>2 DEF Single, CallerNew
<1>6. ASSUME NEW k \in Keys, Remove(k) PROVE (Single /\ CallerNew)'
  <2>1. /\ \A n, s : Live(n, s)' => Live(n, s) /\ Item(n, s)' = Item(n, s)
        /\ Idle'
    BY <1>6, CellsAfterRemove DEF Remove, Calling, Idle
  <2> QED
    BY <1>2, <2>1 DEF Single, CallerNew
<1>7. ASSUME NEW k \in Keys, NEW d \in Data, Put(k, d) PROVE (Single /\ CallerNew)'
  <2>1. SameCells
    BY <1>7, CellsStay
  <2>2. puts'[1].key = k
    BY <1>7, PutsAfterPut, ActivationIs
  <2>3. usage = "removing" => \A n, s : Live(n, s) => Item(n, s).key # k
    BY <1>7, PutIsNew
  <2> QED
    BY <1>1, <1>2, <2>1, <2>2, <2>3 DEF Single, CallerNew, SameCells
<1>8. ASSUME SkipUnused \/ PutAgain \/ RehashDone PROVE (Single /\ CallerNew)'
  <2>1. SameCells
    BY <1>8, CellsStay
  <2>2. ~Idle
    BY <1>8 DEF SkipUnused, PutAgain, RehashDone, Rehashing
  <2>3. ~Idle' => puts'[1].key = puts[1].key
    BY <1>8, <2>2, CallerStays
  <2> QED
    BY <1>1, <1>2, <2>1, <2>2, <2>3 DEF Single, CallerNew, SameCells
<1>9. ASSUME Iterate \/ CallbackReturns \/ UNCHANGED vars PROVE (Single /\ CallerNew)'
  <2>1. SameCells
    BY <1>9, CellsStay
  <2>2. puts' = puts
    BY <1>9 DEF Iterate, CallbackReturns, vars
  <2> QED
    BY <1>1, <1>2, <2>1, <2>2 DEF Single, CallerNew, SameCells, Idle
<1> QED
  BY <1>3, <1>4, <1>5, <1>6, <1>7, <1>8, <1>9 DEF Next, Step

----------------------------------------------------------------------------
(* The number of slots in use *)

LEMMA UsedIsFinite == Typed => IsFiniteSet(Used) /\ Cardinality(Used) \in Nat
<1> SUFFICES ASSUME Typed PROVE IsFiniteSet(Used) /\ Cardinality(Used) \in Nat
  OBVIOUS
<1>1. IsFiniteSet(0 .. (tableSize - 1))
  BY FS_Interval DEF Typed
<1>2. Used \in SUBSET (0 .. (tableSize - 1))
  BY DEF Used, Typed
<1>3. IsFiniteSet(Used)
  BY <1>1, <1>2, FS_Subset
<1> QED
  BY <1>3, FS_CardinalityType

LEMMA InitCounted == Init => Counted
<1> SUFFICES ASSUME Init PROVE Counted
  OBVIOUS
<1>1. Used = {}
  BY DEF Init, Used
<1>2. Cardinality(Used) = 0
  BY <1>1, FS_EmptySet
<1> QED
  BY <1>2, HashMapAssumption DEF Init, Counted

(* The element a put stores for a caller that puts new keys goes to an     *)
(* unused slot.                                                            *)
LEMMA PlaceIsUnused ==
    ASSUME Typed, Stacked, Placed, Orderly, usage = "removing", Store
    PROVE  Place(Top.key) \notin Used
<1> DEFINE k == Top.key
           p == Place(k)
<1>1. /\ ~Idle /\ k \in Keys /\ Suitable(k) # {} /\ Top = puts[Depth]
      /\ Depth \in Nat \ {0} /\ ~Top.rehashing
  BY TopIs DEF Store, Searching, Full
<1> SUFFICES ASSUME p \in Used PROVE FALSE
  OBVIOUS
<1>2. table[p].key = k
  BY <1>1, PlaceIs DEF Used, Suitable, HoldsKey
<1>3. Live(0, p) /\ Item(0, p).key = k
  BY <1>2, LiveInTable DEF Item
<1>4. Single /\ CallerNew
  BY DEF Orderly
<1>5. CASE Depth = 1
  BY <1>1, <1>3, <1>4, <1>5 DEF CallerNew
<1>6. CASE Depth # 1
  <2> DEFINE l == puts[Depth - 1].i
  <2>1. /\ Live(Depth - 1, l) /\ Depth - 1 # 0
        /\ Item(Depth - 1, l) = [key |-> Top.key, data |-> Top.data]
    BY <1>6, CellsAfterStore
  <2> HIDE DEF l, p
  <2>2. Item(Depth - 1, l).key = k
    BY <2>1
  <2> QED
    BY <1>3, <1>4, <2>1, <2>2 DEF Single
<1> QED
  BY <1>5, <1>6

LEMMA CountedStep ==
    Typed /\ Stacked /\ Placed /\ Orderly /\ Counted /\ [Next]_vars => Counted'
<1> SUFFICES ASSUME Typed, Stacked, Placed, Orderly, Counted, [Next]_vars
             PROVE  Counted'
  OBVIOUS
<1>1. IsFiniteSet(Used) /\ Cardinality(Used) \in Nat /\ size \in Int /\ tableSize \in Nat
  BY UsedIsFinite DEF Typed
<1>2. ASSUME Store PROVE Counted'
  <2> DEFINE p == Place(Top.key)
  <2>1. Used' = Used \cup {p}
    BY <1>2, StoreWrites DEF Used
  <2>2. usage = "removing" => p \notin Used
    BY <1>2, PlaceIsUnused
  <2>3. /\ size' = size + 1 /\ UNCHANGED <<usage, tableSize>>
        /\ ~(size >= tableSize \div 2)
    BY <1>2 DEF Store, Full
  <2> HIDE DEF p
  <2>4. Cardinality(Used') = IF p \in Used THEN Cardinality(Used)
                             ELSE Cardinality(Used) + 1
    BY <1>1, <2>1, FS_AddElement
  <2>5. size' <= tableSize' \div 2
    BY <1>1, <2>3
  <2> QED
    BY <1>1, <2>2, <2>3, <2>4, <2>5 DEF Counted
<1>3. ASSUME Grow PROVE Counted'
  <2>1. Used' = {} /\ size' = 0 /\ tableSize' = 2 * tableSize
    BY <1>3 DEF Grow, Used, SizeOfNewTable, NewTableSize
  <2>2. Cardinality(Used') = 0
    BY <2>1, FS_EmptySet
  <2>3. 0 <= (2 * tableSize) \div 2
    BY <1>1
  <2> QED
    BY <2>1, <2>2, <2>3 DEF Counted
<1>4. ASSUME NEW k \in Keys, Remove(k) PROVE Counted'
  <2> DEFINE h == Hit(table, tableSize, k)
  <2>1. CASE Found(table, tableSize, k)
    <3>1. h \in Used
      BY <2>1, HitIs DEF Used, Typed
    <3>2. table' = [table EXCEPT ![h] = Free] /\ size' = size - 1
      BY <1>4, <2>1 DEF Remove
    <3>3. UNCHANGED <<usage, tableSize>>
      BY <1>4 DEF Remove
    <3> HIDE DEF h
    <3>4. Used' = Used \ {h}
      BY <3>1, <3>2 DEF Used
    <3>5. Cardinality(Used') = Cardinality(Used) - 1
      BY <1>1, <3>1, <3>4, FS_RemoveElement
    <3>6. size' <= tableSize' \div 2
      BY <1>1, <3>2, <3>3 DEF Counted
    <3> QED
      BY <1>1, <3>2, <3>3, <3>5, <3>6 DEF Counted
  <2>2. CASE ~Found(table, tableSize, k)
    BY <1>4, <2>2 DEF Remove, Counted, Used
  <2> QED
    BY <2>1, <2>2
<1>5. ASSUME UNCHANGED <<usage, table, tableSize, size>> PROVE Counted'
  BY <1>5 DEF Counted, Used
<1> QED
  BY <1>2, <1>3, <1>4, <1>5
  DEF Next, Step, GrowFails, SkipUnused, PutAgain, RehashDone, Put, Iterate,
      CallbackReturns, vars

----------------------------------------------------------------------------
(* Iterating *)

LEMMA InitVisiting == Init => Visiting
BY NotIteratingIs DEF Init, Visiting

LEMMA PresentIs == Present = {table[s].key : s \in Used}
BY DEF Present, Used

(* One step of the loop, from slot i on, where `it' is as it should be     *)
(* before slot i.                                                          *)
LEMMA VisitingAfterGoOn ==
    ASSUME Typed, Orderly, NEW it \in Iterations, NEW i \in Nat, GoOn(it, i),
           UNCHANGED <<usage, table>>,
           usage # "both" => ~it.again,
           it.grown => it.owed = {} /\ it.visited = {},
           ~it.grown => \A k \in it.owed : \E s \in Used : s >= i /\ table[s].key = k,
           ~it.grown => \A k \in it.visited : \E s \in Used : s < i /\ table[s].key = k,
           Idle
    PROVE  Visiting'
<1>1. Used' = Used /\ Used \subseteq Nat
  BY DEF Used, Typed
<1>2. \A s : s \in Ahead(i) <=> s \in Used /\ s >= i
  BY <1>1 DEF Ahead, Used, Typed
<1>3. CASE Ahead(i) = {}
  <2>1. it.owed = {}
    BY <1>2, <1>3
  <2> QED
    BY <1>3, <2>1, IterAfterEnd DEF Visiting
<1>4. CASE Ahead(i) # {}
  <2> DEFINE n == Min(Ahead(i))
             k == table[n].key
  <2>1. n \in Ahead(i) /\ \A s \in Ahead(i) : n <= s
    BY <1>4, NextIs
  <2>2. n \in Used /\ n >= i /\ n \in Nat
    <3> HIDE DEF n
    <3> QED
      BY <1>1, <1>2, <2>1
  <2>3. /\ iter'.i = n /\ iter'.grown = it.grown
        /\ it.grown => /\ iter'.owed = it.owed /\ iter'.visited = it.visited
                       /\ iter'.again = it.again
        /\ ~it.grown => /\ iter'.owed = it.owed \ {k}
                        /\ iter'.visited = it.visited \cup {k}
                        /\ (iter'.again <=> (it.again \/ k \in it.visited))
    BY <1>4, IterAfterNext
  <2>4. k = table[n].key
    OBVIOUS
  <2> HIDE DEF n, k
  <2>5. CASE it.grown
    BY <2>2, <2>3, <2>5 DEF Visiting
  <2>6. CASE ~it.grown
    <3>1. ASSUME NEW x \in it.owed \ {k}
          PROVE  \E s \in Used' : s > n /\ table'[s].key = x
      <4>1. PICK s \in Used : s >= i /\ table[s].key = x
        BY <2>6, <3>1
      <4>2. s \in Ahead(i) /\ s # n
        BY <1>2, <2>4, <4>1
      <4>3. s > n
        BY <1>1, <2>1, <2>2, <4>2
      <4> QED
        BY <1>1, <4>1, <4>3
    <3>2. ASSUME NEW x \in it.visited \cup {k}
          PROVE  \E s \in Used' : s <= n /\ table'[s].key = x
      <4>1. CASE x = k
        BY <1>1, <2>2, <2>4, <4>1
      <4>2. CASE x \in it.visited
        <5>1. PICK s \in Used : s < i /\ table[s].key = x
          BY <2>6, <4>2
        <5>2. s <= n
          BY <1>1, <2>2, <5>1
        <5> QED
          BY <1>1, <5>1, <5>2
      <4> QED
        BY <4>1, <4>2
    <3>3. usage # "both" => k \notin it.visited
      <4> SUFFICES ASSUME usage # "both", k \in it.visited PROVE FALSE
        OBVIOUS
      <4>1. PICK s \in Used : s < i /\ table[s].key = k
        BY <2>6
      <4>2. Single
        BY DEF Orderly
      <4>3. s = n
        BY <2>2, <2>4, <4>1, <4>2, LiveInTable DEF Single, Item
      <4> QED
        BY <1>1, <2>2, <4>1, <4>3
    <3>4. /\ iter'.i = n /\ n >= 0 /\ ~iter'.grown
          /\ iter'.owed = it.owed \ {k} /\ iter'.visited = it.visited \cup {k}
          /\ usage' # "both" => ~iter'.again
      BY <2>2, <2>3, <2>6, <3>3
    <3> QED
      BY <2>2, <3>1, <3>2, <3>4 DEF Visiting
  <2> QED
    BY <2>5, <2>6
<1> QED
  BY <1>3, <1>4

LEMMA VisitingStep ==
    Typed /\ Stacked /\ Placed /\ Orderly /\ Counted /\ Visiting /\ [Next]_vars
      => Visiting'
<1> SUFFICES ASSUME Typed, Stacked, Placed, Orderly, Counted, Visiting, [Next]_vars
             PROVE  Visiting'
  OBVIOUS
<1>1. iter \in Iterations /\ iter.i \in Int /\ Used \subseteq Nat
  BY DEF Typed, Iterations, Used
<1>2. ASSUME Store PROVE Visiting'
  <2> DEFINE k == Top.key
             p == Place(k)
  <2>1. k \in Keys /\ Suitable(k) # {}
    BY <1>2, TopIs DEF Store, Searching, Full
  <2>2. p \in Used => table[p].key = k
    BY <2>1, PlaceIs DEF Used, Suitable, HoldsKey
  <2>3. /\ p \in DOMAIN table /\ DOMAIN table' = DOMAIN table
        /\ table'[p] # Free /\ table'[p].key = k
        /\ \A s \in DOMAIN table : s # p => table'[s] = table[s]
    BY <1>2, StoreWrites
  <2> HIDE DEF k, p
  <2>4. \A s \in Used : s \in Used' /\ table'[s].key = table[s].key
    BY <2>2, <2>3 DEF Used
  <2>5. iter' = iter /\ usage' = usage
    BY <1>2 DEF Store
  <2> QED
    BY <2>4, <2>5 DEF Visiting
<1>3. ASSUME Grow PROVE Visiting'
  <2>1. usage' = usage
    BY <1>3 DEF Grow
  <2>2. /\ iter'.i = iter.i /\ iter'.owed = {} /\ iter'.visited = {}
        /\ iter'.again <=> iter.again
        /\ iter'.grown <=> iter.i >= 0
    BY <1>3, IterAfterGrow
  <2> QED
    BY <1>1, <2>1, <2>2 DEF Visiting
<1>4. ASSUME NEW k \in Keys, Remove(k) PROVE Visiting'
  <2>1. \A s \in Used : table[s].key # k => s \in Used' /\ table'[s] = table[s]
    <3>1. CASE Found(table, tableSize, k)
      <4> DEFINE h == Hit(table, tableSize, k)
      <4>1. table[h].key = k
        BY <3>1, HitIs
      <4>2. table' = [table EXCEPT ![h] = Free]
        BY <1>4, <3>1 DEF Remove
      <4> HIDE DEF h
      <4> QED
        BY <4>1, <4>2 DEF Used
    <3>2. CASE ~Found(table, tableSize, k)
      BY <1>4, <3>2 DEF Remove, Used
    <3> QED
      BY <3>1, <3>2
  <2>2. usage' = usage
    BY <1>4 DEF Remove
  <2>3. /\ iter'.i = iter.i /\ iter'.again = iter.again /\ iter'.grown = iter.grown
        /\ iter'.owed = iter.owed \ {k} /\ iter'.visited = iter.visited \ {k}
    BY <1>4, IterAfterRemove
  <2>4. ASSUME iter.i >= 0, ~iter.grown, NEW x \in iter.owed \ {k}
        PROVE  \E s \in Used' : s > iter.i /\ table'[s].key = x
    BY <2>1, <2>4 DEF Visiting
  <2>5. ASSUME iter.i >= 0, ~iter.grown, NEW x \in iter.visited \ {k}
        PROVE  \E s \in Used' : s <= iter.i /\ table'[s].key = x
    BY <2>1, <2>5 DEF Visiting
  <2> QED
    BY <2>2, <2>3, <2>4, <2>5 DEF Visiting
<1>5. ASSUME NEW k \in Keys, NEW d \in Data, Put(k, d) PROVE Visiting'
  <2>1. UNCHANGED <<usage, table>> /\ Used' = Used
    BY <1>5 DEF Put, Used
  <2> QED
    BY <1>5, <2>1, IterAfterPut DEF Visiting
<1>6. ASSUME Iterate PROVE Visiting'
  <2>1. UNCHANGED <<usage, table>> /\ Idle
    BY <1>6 DEF Iterate
  <2>2. CASE size <= 0
    <3>1. Cardinality(Used) = 0
      BY <2>2, UsedIsFinite DEF Counted, Typed
    <3>2. Used = {}
      BY <3>1, UsedIsFinite, FS_EmptySet
    <3>3. Present = {}
      BY <3>2, PresentIs
    <3>4. iter' = Iteration(-1, Present)
      BY <1>6, <2>2 DEF Iterate
    <3>5. /\ iter'.i = -1 /\ iter'.owed = {} /\ iter'.visited = {}
          /\ ~iter'.again /\ ~iter'.grown
      BY <3>3, <3>4 DEF Iteration
    <3> QED
      BY <3>5 DEF Visiting
  <2>3. CASE ~(size <= 0)
    <3> DEFINE it == Iteration(0, Present)
    <3>1. /\ it \in Iterations /\ it.owed = Present /\ it.visited = {}
          /\ ~it.again /\ ~it.grown
      BY IterationIs
    <3>2. GoOn(it, 0)
      BY <1>6, <2>3 DEF Iterate
    <3> HIDE DEF it
    <3>3. \A k \in it.owed : \E s \in Used : s >= 0 /\ table[s].key = k
      BY <1>1, <3>1, PresentIs
    <3> QED
      BY <2>1, <3>1, <3>2, <3>3, VisitingAfterGoOn
  <2> QED
    BY <2>2, <2>3
<1>7. ASSUME CallbackReturns PROVE Visiting'
  <2>1. UNCHANGED <<usage, table>> /\ Idle /\ iter.i >= 0
    BY <1>7 DEF CallbackReturns
  <2>2. CASE GoOn(iter, iter.i + 1)
    <3>1. iter.i + 1 \in Nat
      BY <1>1, <2>1
    <3>2. ~iter.grown => \A k \in iter.owed :
             \E s \in Used : s >= iter.i + 1 /\ table[s].key = k
      <4> SUFFICES ASSUME ~iter.grown, NEW k \in iter.owed
                   PROVE  \E s \in Used : s >= iter.i + 1 /\ table[s].key = k
        OBVIOUS
      <4>1. PICK s \in Used : s > iter.i /\ table[s].key = k
        BY <2>1 DEF Visiting
      <4>2. s >= iter.i + 1
        BY <1>1, <4>1
      <4> QED
        BY <4>1, <4>2
    <3>3. ~iter.grown => \A k \in iter.visited :
             \E s \in Used : s < iter.i + 1 /\ table[s].key = k
      <4> SUFFICES ASSUME ~iter.grown, NEW k \in iter.visited
                   PROVE  \E s \in Used : s < iter.i + 1 /\ table[s].key = k
        OBVIOUS
      <4>1. PICK s \in Used : s <= iter.i /\ table[s].key = k
        BY <2>1 DEF Visiting
      <4>2. s < iter.i + 1
        BY <1>1, <4>1
      <4> QED
        BY <4>1, <4>2
    <3>4. /\ usage # "both" => ~iter.again
          /\ iter.grown => iter.owed = {} /\ iter.visited = {}
      BY DEF Visiting
    <3> QED
      BY <1>1, <2>1, <2>2, <3>1, <3>2, <3>3, <3>4, VisitingAfterGoOn
  <2>3. CASE iter' = NotIterating
    BY <2>3, NotIteratingIs DEF Visiting
  <2> QED
    BY <1>7, <2>2, <2>3 DEF CallbackReturns
<1>8. ASSUME UNCHANGED <<usage, table, iter>> PROVE Visiting'
  BY <1>8 DEF Visiting, Used
<1> QED
  BY <1>2, <1>3, <1>4, <1>5, <1>6, <1>7, <1>8
  DEF Next, Step, GrowFails, SkipUnused, PutAgain, RehashDone, vars

----------------------------------------------------------------------------
(* The invariant, and the theorems on what callers see *)

IInv == Typed /\ Stacked /\ Placed /\ Orderly /\ Counted /\ Visiting

LEMMA Invariant == Spec => []IInv
<1>1. Init => IInv
  BY InitTyped, InitPlaced, InitOrderly, InitCounted, InitVisiting DEF IInv
<1>2. IInv /\ [Next]_vars => IInv'
  BY TypedStep, StackedStep, PlacedStep, OrderlyStep, CountedStep, VisitingStep
  DEF IInv
<1> QED
  BY <1>1, <1>2, PTL DEF Spec

(* GetFindsAll holds for callers that do not both remove and overwrite:    *)
(* a get finds what the table holds, under any hash function, however      *)
(* often the table has grown and slots were emptied (lines 234-262).       *)
THEOREM GetFinds == ASSUME "both" \notin Usages PROVE Spec => []GetFindsAll
<1>1. IInv => GetFindsAll
  <2> SUFFICES ASSUME IInv, NEW k \in Keys
               PROVE  Get(k) = IF \E s \in Used : table[s].key = k
                               THEN (CHOOSE e \in {table[s] : s \in Used} :
                                        e.key = k).data
                               ELSE Missing
    BY DEF GetFindsAll
  <2>1. Typed /\ Placed /\ Single
    BY DEF IInv, Orderly, Typed
  <2>2. CASE Found(table, tableSize, k)
    <3> DEFINE h == Hit(table, tableSize, k)
               E == {table[s] : s \in Used}
    <3>1. h \in Used /\ table[h].key = k
      BY <2>1, <2>2, HitIs DEF Used, Typed
    <3>2. \A e \in E : e.key = k => e = table[h]
      <4> HIDE DEF h
      <4> QED
        BY <2>1, <3>1, LiveInTable DEF Single, Item
    <3>3. table[h] \in E
      BY <3>1
    <3> HIDE DEF h, E
    <3>4. (CHOOSE e \in E : e.key = k) = table[h]
      BY <3>1, <3>2, <3>3
    <3>5. Get(k) = table[h].data
      BY <2>2 DEF Get, Lookup, h
    <3>6. \E s \in Used : table[s].key = k
      BY <3>1
    <3> QED
      BY <3>4, <3>5, <3>6 DEF E
  <2>3. CASE ~Found(table, tableSize, k)
    <3>1. ~\E s \in Used : table[s].key = k
      BY <2>1, <2>3, FoundIfUsed
    <3>2. Get(k) = Missing
      BY <2>3 DEF Get, Lookup
    <3> QED
      BY <3>1, <3>2
  <2> QED
    BY <2>2, <2>3
<1> QED
  BY <1>1, Invariant, PTL

(* IterateVisitsEachOnce holds for such callers: whatever the callbacks    *)
(* put and remove, no element that stays is left out or visited twice, as  *)
(* long as the table does not grow (lines 264-284).                        *)
THEOREM IterateVisits ==
    ASSUME "both" \notin Usages PROVE Spec => []IterateVisitsEachOnce
<1>1. IInv => IterateVisitsEachOnce
  BY DEF IInv, Visiting, IterateVisitsEachOnce, Typed
<1> QED
  BY <1>1, Invariant, PTL

----------------------------------------------------------------------------
(* The map the cells stand for *)

LEMMA StoredIs ==
    Typed => \A e : e \in Stored <=> \E n, s : Live(n, s) /\ e = Item(n, s)
<1> SUFFICES ASSUME Typed, NEW e
             PROVE  e \in Stored <=> \E n, s : Live(n, s) /\ e = Item(n, s)
  OBVIOUS
<1>1. Depth \in Nat
  BY DEF Typed, Depth
<1>2. ASSUME e \in Stored PROVE \E n, s : Live(n, s) /\ e = Item(n, s)
  <2>1. CASE e \in Pending
    <3>1. e # Free
      BY <2>1 DEF Pending
    <3>2. PICK n \in 1 .. Depth :
             e \in {puts[n].curr[s] : s \in {s \in DOMAIN puts[n].curr : s >= puts[n].i}}
      BY <2>1 DEF Pending
    <3>3. PICK s \in DOMAIN puts[n].curr : s >= puts[n].i /\ e = puts[n].curr[s]
      BY <3>2
    <3>4. n # 0
      BY <1>1
    <3> QED
      BY <3>1, <3>3, <3>4 DEF Live, Item
  <2>2. CASE e \in {table[s] : s \in Used}
    BY <2>2, LiveInTable DEF Item
  <2> QED
    BY <1>2, <2>1, <2>2 DEF Stored
<1>3. ASSUME NEW n, NEW s, Live(n, s), e = Item(n, s) PROVE e \in Stored
  <2>1. CASE n = 0
    BY <1>3, <2>1, LiveInTable DEF Item, Stored
  <2>2. CASE n # 0
    <3>1. /\ n \in 1 .. Depth /\ s \in DOMAIN puts[n].curr /\ s >= puts[n].i
          /\ e = puts[n].curr[s] /\ e # Free
      BY <1>3, <2>2 DEF Live, Item
    <3>2. e \in Pending
      BY <3>1 DEF Pending
    <3> QED
      BY <3>2 DEF Stored
  <2> QED
    BY <2>1, <2>2
<1> QED
  BY <1>2, <1>3

(* If each key is in one cell, the map has the elements of the cells.      *)
Represented ==
    /\ Contents = [k \in DOMAIN Contents |-> Contents[k]]
    /\ \A k : k \in DOMAIN Contents <=> \E e \in Stored : e.key = k
    /\ \A e \in Stored : Contents[e.key] = e.data

LEMMA ContentsIs == Typed /\ Single => Represented
<1> SUFFICES ASSUME Typed, Single PROVE Represented
  OBVIOUS
<1>1. \A k : k \in DOMAIN Contents <=> \E e \in Stored : e.key = k
  BY DEF Contents
<1>2. Contents = [k \in DOMAIN Contents |-> Contents[k]]
  BY DEF Contents
<1>3. ASSUME NEW e \in Stored PROVE Contents[e.key] = e.data
  <2>1. \A f \in Stored : f.key = e.key => f = e
    BY StoredIs DEF Single
  <2>2. (CHOOSE f \in Stored : f.key = e.key) = e
    BY <2>1
  <2>3. Contents[e.key] = (CHOOSE f \in Stored : f.key = e.key).data
    BY DEF Contents
  <2> QED
    BY <2>2, <2>3
<1> QED
  BY <1>1, <1>2, <1>3 DEF Represented

(* SizeIsLoad holds whatever callers do: `size' is never below the number  *)
(* of slots in use, nor above half of the table, so that hashmap_hash      *)
(* stops a put in time (line 143); and it is the number of keys for        *)
(* callers that do not overwrite (hashmap.h:54).                           *)
THEOREM SizeIsRight == Spec => []SizeIsLoad
<1>1. IInv => SizeIsLoad
  <2> SUFFICES ASSUME IInv PROVE SizeIsLoad
    OBVIOUS
  <2>1. Typed /\ Orderly /\ Counted
    BY DEF IInv
  <2>2. ASSUME Idle, usage = "removing" PROVE size = Cardinality(DOMAIN Contents)
    <3>1. Single
      BY <2>1, <2>2 DEF Orderly
    <3> DEFINE f == [s \in Used |-> table[s].key]
               D == DOMAIN Contents
    <3>2. \A n, s : Live(n, s) => n = 0
      BY <2>2 DEF Live, Idle, Depth
    <3>3. \A k : k \in D <=> \E s \in Used : table[s].key = k
      <4>1. \A k : k \in D <=> \E e \in Stored : e.key = k
        BY <2>1, <3>1, ContentsIs DEF Represented
      <4>2. \A e : e \in Stored <=> \E s \in Used : e = table[s]
        BY <2>1, <3>2, StoredIs, LiveInTable DEF Item
      <4> HIDE DEF D
      <4> QED
        BY <4>1, <4>2
    <3> HIDE DEF D
    <3>4. f \in [Used -> D] /\ \A k \in D : \E s \in Used : f[s] = k
      BY <3>3
    <3>5. \A s, t \in Used : f[s] = f[t] => s = t
      BY <3>1, LiveInTable DEF Single, Item
    <3>6. ExistsBijection(Used, D)
      <4> HIDE DEF f
      <4>1. f \in Bijection(Used, D)
        BY <3>4, <3>5 DEF Bijection, Injection, Surjection, IsInjective
      <4> QED
        BY <4>1 DEF ExistsBijection
    <3>7. Cardinality(D) = Cardinality(Used)
      BY <2>1, <3>6, UsedIsFinite, FS_Bijection
    <3> QED
      BY <2>1, <2>2, <3>7 DEF Counted, D
  <2> QED
    BY <2>1, <2>2 DEF Counted, SizeIsLoad
<1> QED
  BY <1>1, Invariant, PTL

----------------------------------------------------------------------------
(* The hash map implements the map *)

LEMMA MovingIs == Typed /\ Stacked => (IsMoving <=> ~Idle /\ puts[1].rehashing)
<1> SUFFICES ASSUME Typed, Stacked PROVE IsMoving <=> ~Idle /\ puts[1].rehashing
  OBVIOUS
<1>1. Depth \in Nat /\ (Idle <=> Depth = 0)
  BY DEF Typed, Depth, Idle
<1> QED
  BY <1>1 DEF IsMoving, Stacked

(* A put waits for a larger table until its own rehashing has ended.       *)
LEMMA FirstStays ==
    ASSUME Typed, Stacked, ~Idle
    PROVE  /\ Store => IF Depth = 1 THEN Idle' /\ ~puts[1].rehashing
                       ELSE ~Idle' /\ puts[1].rehashing /\ puts'[1].rehashing
           /\ Grow => /\ ~Idle' /\ puts'[1].rehashing
                      /\ puts[1].rehashing <=> Depth # 1
           /\ SkipUnused \/ PutAgain =>
                 ~Idle' /\ puts'[1].rehashing /\ puts[1].rehashing
           /\ RehashDone => /\ ~Idle' /\ puts[1].rehashing
                            /\ puts'[1].rehashing <=> Depth # 1
<1>1. /\ Depth \in Nat \ {0} /\ Depth = Len(puts) /\ Top = puts[Depth]
      /\ \A n \in 1 .. Depth : puts[n] \in Activations
      /\ Top.key \in Keys /\ Top.data \in Data
      /\ Depth # 1 => puts[1].rehashing
  BY TopIs DEF Stacked
<1>2. \A q : Len(q) # 0 => q # <<>>
  OBVIOUS
<1>3. ASSUME Store
      PROVE  IF Depth = 1 THEN Idle' /\ ~puts[1].rehashing
             ELSE ~Idle' /\ puts[1].rehashing /\ puts'[1].rehashing
  <2>1. ~Top.rehashing /\ Len(puts') = Depth - 1 /\ puts' \in Seq(Activations)
    BY <1>3, PutsAfterStore DEF Store, Searching
  <2>2. CASE Depth = 1
    BY <1>1, <2>1, <2>2 DEF Idle
  <2>3. CASE Depth # 1
    BY <1>1, <1>2, <1>3, <2>1, <2>3, PutsAfterStore, AdvancedIs DEF Idle
  <2> QED
    BY <2>2, <2>3
<1>4. ASSUME Grow
      PROVE  /\ ~Idle' /\ puts'[1].rehashing
             /\ puts[1].rehashing <=> Depth # 1
  <2>1. ~Top.rehashing
    BY <1>4 DEF Grow, Searching
  <2> QED
    BY <1>1, <1>2, <1>4, <2>1, PutsAfterGrow DEF Idle
<1>5. ASSUME SkipUnused \/ PutAgain
      PROVE  ~Idle' /\ puts'[1].rehashing /\ puts[1].rehashing
  <2>1. Top.rehashing
    BY <1>5 DEF SkipUnused, PutAgain, Rehashing
  <2>2. CASE SkipUnused
    BY <1>1, <1>2, <2>1, <2>2, PutsAfterSkip, AdvancedIs DEF Idle
  <2>3. CASE PutAgain
    BY <1>1, <1>2, <2>1, <2>3, MovedIsElement, PutsAfterAgain DEF Idle
  <2> QED
    BY <1>5, <2>2, <2>3
<1>6. ASSUME RehashDone
      PROVE  /\ ~Idle' /\ puts[1].rehashing
             /\ puts'[1].rehashing <=> Depth # 1
  <2>1. Top.rehashing
    BY <1>6 DEF RehashDone, Rehashing
  <2> QED
    BY <1>1, <1>2, <1>6, <2>1, PutsAfterRehash, ActivationIs DEF Idle
<1> QED
  BY <1>3, <1>4, <1>5, <1>6

(* What a step that moves no element leaves as it is. *)
LEMMA ContentsStay ==
    ASSUME Typed, Typed', SameCells
    PROVE  Contents' = Contents
<1>1. \A e : e \in Stored <=> \E n, s : Live(n, s) /\ e = Item(n, s)
  BY StoredIs
<1>2. (\A e : e \in Stored <=> \E n, s : Live(n, s) /\ e = Item(n, s))'
  BY StoredIs, PTL
<1>3. Stored' = Stored
  BY <1>1, <1>2 DEF SameCells
<1> QED
  BY <1>3 DEF Contents

(* Nor does growing, which moves all elements of the table at once.        *)
LEMMA ContentsAfterGrow ==
    ASSUME Typed, Stacked, Typed', Grow
    PROVE  Contents' = Contents
<1>1. \A e : e \in Stored <=> \E n, s : Live(n, s) /\ e = Item(n, s)
  BY StoredIs
<1>2. (\A e : e \in Stored <=> \E n, s : Live(n, s) /\ e = Item(n, s))'
  BY StoredIs, PTL
<1>3. Depth \in Nat \ {0}
  BY TopIs DEF Grow, Searching
<1>4. /\ \A n, s : Live(n, s)' <=> (\/ n = Depth /\ Live(0, s)
                                    \/ n \in 1 .. (Depth - 1) /\ Live(n, s))
      /\ \A n, s : n = Depth => Item(n, s)' = Item(0, s)
      /\ \A n, s : n \in 1 .. (Depth - 1) => Item(n, s)' = Item(n, s)
  BY CellsAfterGrow
<1>5. ASSUME NEW e \in Stored PROVE e \in Stored'
  <2>1. PICK n, s : Live(n, s) /\ e = Item(n, s)
    BY <1>1, <1>5
  <2>2. n = 0 \/ n \in 1 .. (Depth - 1)
    <3>1. n = Depth => ~Live(n, s)
      <4>1. Top = puts[Depth] /\ ~Top.rehashing /\ Depth \in 1 .. Depth
        BY TopIs DEF Grow, Searching
      <4>2. DOMAIN puts[Depth].curr = {}
        BY <4>1 DEF Stacked
      <4> QED
        BY <1>3, <4>2 DEF Live
    <3> QED
      BY <1>3, <2>1, <3>1 DEF Live
  <2>3. CASE n = 0
    BY <1>2, <1>4, <2>1, <2>3
  <2>4. CASE n \in 1 .. (Depth - 1)
    BY <1>2, <1>4, <2>1, <2>4
  <2> QED
    BY <2>2, <2>3, <2>4
<1>6. ASSUME NEW e \in Stored' PROVE e \in Stored
  BY <1>1, <1>2, <1>4, <1>6
<1>7. Stored' = Stored
  BY <1>5, <1>6
<1> QED
  BY <1>7 DEF Contents

(* What the stack holds besides the table belongs to rehashing activations *)
(* below the top.                                                          *)
LEMMA OnlyTable ==
    ASSUME Typed, Stacked, Depth = 1, ~Top.rehashing
    PROVE  \A n, s : Live(n, s) => n = 0
<1>1. Top = puts[1]
  BY DEF Top
<1>2. DOMAIN puts[1].curr = {}
  BY <1>1 DEF Stacked
<1> QED
  BY <1>2 DEF Live

(* A put that fails leaves the map as it is, if its own search failed, or  *)
(* else some part of it, unchanged.                                        *)
LEMMA ContentsAfterFailure ==
    ASSUME Typed, Stacked, Single, Typed', Single', GrowFails
    PROVE  /\ Depth = 1 => Contents' = Contents
           /\ \E kept \in SUBSET DOMAIN Contents :
                 Contents' = [k \in kept |-> Contents[k]]
<1>1. \A e : e \in Stored <=> \E n, s : Live(n, s) /\ e = Item(n, s)
  BY StoredIs
<1>2. (\A e : e \in Stored <=> \E n, s : Live(n, s) /\ e = Item(n, s))'
  BY StoredIs, PTL
<1>3. /\ \A n, s : Live(n, s)' <=> (n = 0 /\ Live(n, s))
      /\ \A s : Item(0, s)' = Item(0, s)
  BY CellsAfterFailure
<1>4. Stored' \subseteq Stored
  BY <1>1, <1>2, <1>3
<1>5. Represented /\ Represented'
  BY ContentsIs, PTL
<1>6. ASSUME Depth = 1 PROVE Contents' = Contents
  <2>1. \A n, s : Live(n, s) => n = 0
    BY <1>6, OnlyTable DEF GrowFails, Searching
  <2>2. Stored' = Stored
    BY <1>1, <1>2, <1>3, <2>1
  <2> QED
    BY <2>2 DEF Contents
<1>7. Contents' = [k \in DOMAIN Contents' |-> Contents[k]]
  <2>1. ASSUME NEW k \in DOMAIN Contents' PROVE Contents'[k] = Contents[k]
    <3>1. PICK e \in Stored' : e.key = k
      BY <1>5 DEF Represented
    <3> QED
      BY <1>4, <1>5, <3>1 DEF Represented
  <2> QED
    BY <1>5, <2>1 DEF Represented
<1>8. DOMAIN Contents' \subseteq DOMAIN Contents
  BY <1>4, <1>5 DEF Represented
<1> QED
  BY <1>6, <1>7, <1>8

(* A removal takes its key out of the map (lines 300-317).                 *)
LEMMA ContentsAfterRemove ==
    ASSUME Typed, Stacked, Placed, Single, Typed', Single', NEW k \in Keys, Remove(k)
    PROVE  Contents' = [x \in DOMAIN Contents \ {k} |-> Contents[x]]
<1> DEFINE h == Hit(table, tableSize, k)
           F == Found(table, tableSize, k)
<1>1. \A e : e \in Stored <=> \E n, s : Live(n, s) /\ e = Item(n, s)
  BY StoredIs
<1>2. (\A e : e \in Stored <=> \E n, s : Live(n, s) /\ e = Item(n, s))'
  BY StoredIs, PTL
<1>3. /\ \A n, s : Live(n, s)' <=> (Live(n, s) /\ ~(F /\ s = h))
      /\ \A n, s : Live(n, s)' => Item(n, s)' = Item(n, s)
      /\ \A n, s : Live(n, s) => n = 0
      /\ F => Live(0, h) /\ Item(0, h).key = k
  BY CellsAfterRemove
<1>4. F <=> \E s : Live(0, s) /\ Item(0, s).key = k
  BY FoundIfUsed, LiveInTable DEF Item
<1> HIDE DEF h, F
<1>5. \A n, s : Live(n, s)' <=> (Live(n, s) /\ Item(n, s).key # k)
  BY <1>3, <1>4 DEF Single
<1>6. \A e : e \in Stored' <=> (e \in Stored /\ e.key # k)
  BY <1>1, <1>2, <1>3, <1>5
<1>7. Represented /\ Represented'
  BY ContentsIs, PTL
<1>8. DOMAIN Contents' = DOMAIN Contents \ {k}
  <2>1. \A x : x \in DOMAIN Contents' => x \in DOMAIN Contents /\ x # k
    BY <1>6, <1>7 DEF Represented
  <2>2. \A x : x \in DOMAIN Contents /\ x # k => x \in DOMAIN Contents'
    BY <1>6, <1>7 DEF Represented
  <2> QED
    BY <2>1, <2>2
<1>9. ASSUME NEW x \in DOMAIN Contents' PROVE Contents'[x] = Contents[x]
  <2>1. PICK e \in Stored' : e.key = x
    BY <1>7 DEF Represented
  <2> QED
    BY <1>6, <1>7, <2>1 DEF Represented
<1>10. Contents' = [x \in DOMAIN Contents' |-> Contents'[x]]
  BY <1>7 DEF Represented
<1> QED
  BY <1>8, <1>9, <1>10

(* The caller's put changes the map at its key; the puts of the rehashing  *)
(* loop leave the map as it is.                                            *)
LEMMA ContentsAfterStore ==
    ASSUME Typed, Stacked, Placed, Orderly, usage # "both", Typed', Single', Store
    PROVE  /\ Depth # 1 => Contents' = Contents
           /\ Depth = 1 =>
                 Contents' = [x \in DOMAIN Contents \cup {Top.key} |->
                                 IF x = Top.key THEN Top.data ELSE Contents[x]]
<1>1. \A e : e \in Stored <=> \E n, s : Live(n, s) /\ e = Item(n, s)
  BY StoredIs
<1>2. (\A e : e \in Stored <=> \E n, s : Live(n, s) /\ e = Item(n, s))'
  BY StoredIs, PTL
<1> DEFINE k == Top.key
           p == Place(k)
           e == [key |-> Top.key, data |-> Top.data]
           l == puts[Depth - 1].i
<1>3. /\ \A s : Live(0, s)' <=> (s = p \/ Live(0, s))
      /\ \A s : s = p => Item(0, s)' = e
      /\ \A s : s # p /\ Live(0, s) => Item(0, s)' = Item(0, s)
      /\ \A n, s : n # 0 /\ Live(n, s)' =>
            Live(n, s) /\ Item(n, s)' = Item(n, s) /\ Depth # 1
      /\ \A n, s : n # 0 /\ Live(n, s) =>
            Live(n, s)' \/ (n = Depth - 1 /\ s = l)
      /\ Depth # 1 => Live(Depth - 1, l) /\ Item(Depth - 1, l) = e /\ Depth - 1 # 0
  BY CellsAfterStore
<1>4. \A n, s : Live(n, s)' /\ ~(n = 0 /\ s = p) => Item(n, s)'.key # k
  BY StoredAlone
<1>5. Live(0, p) => Item(0, p).key = k
  <2>1. k \in Keys /\ Suitable(k) # {}
    BY TopIs DEF Store, Searching, Full
  <2>2. p \in Used => table[p].key = k
    BY <2>1, PlaceIs DEF Used, Suitable, HoldsKey
  <2> QED
    BY <2>2, LiveInTable DEF Item
<1>6. Represented /\ Represented' /\ Single
  BY ContentsIs, PTL DEF Orderly
<1>7. e.key = k /\ e.data = Top.data
  OBVIOUS
<1> HIDE DEF k, p, e, l
<1>8. \A x : x \in Stored' => x = e \/ (x \in Stored /\ x.key # k)
  <2> SUFFICES ASSUME NEW x \in Stored' PROVE x = e \/ (x \in Stored /\ x.key # k)
    OBVIOUS
  <2>1. PICK n, s : Live(n, s)' /\ x = Item(n, s)'
    BY <1>2
  <2>2. CASE n = 0 /\ s = p
    BY <1>3, <2>1, <2>2
  <2>3. CASE ~(n = 0 /\ s = p)
    <3>1. Live(n, s) /\ Item(n, s)' = Item(n, s)
      BY <1>3, <2>1, <2>3
    <3> QED
      BY <1>1, <1>4, <2>1, <2>3, <3>1
  <2> QED
    BY <2>2, <2>3
<1>9. e \in Stored'
  BY <1>2, <1>3
<1>10. \A x \in Stored : x.key # k => x \in Stored'
  <2> SUFFICES ASSUME NEW x \in Stored, x.key # k PROVE x \in Stored'
    OBVIOUS
  <2>1. PICK n, s : Live(n, s) /\ x = Item(n, s)
    BY <1>1
  <2>2. CASE n = 0
    BY <1>2, <1>3, <1>5, <2>1, <2>2
  <2>3. CASE n # 0
    BY <1>2, <1>3, <1>7, <2>1, <2>3
  <2> QED
    BY <2>2, <2>3
<1>11. CASE Depth # 1
  <2>1. e \in Stored
    BY <1>1, <1>3, <1>11
  <2>2. \A x \in Stored : x.key = k => x = e
    BY <1>1, <1>6, <1>7, <2>1 DEF Single
  <2>3. Stored' = Stored
    BY <1>8, <1>9, <1>10, <2>1, <2>2
  <2>4. Contents' = Contents
    BY <2>3 DEF Contents
  <2> QED
    BY <1>11, <2>4
<1>12. CASE Depth = 1
  <2>1. DOMAIN Contents' = DOMAIN Contents \cup {k}
    <3>1. \A x : x \in DOMAIN Contents' => x = k \/ x \in DOMAIN Contents
      BY <1>6, <1>7, <1>8 DEF Represented
    <3>2. k \in DOMAIN Contents'
      BY <1>6, <1>7, <1>9 DEF Represented
    <3>3. \A x : x \in DOMAIN Contents => x = k \/ x \in DOMAIN Contents'
      BY <1>6, <1>10 DEF Represented
    <3> QED
      BY <3>1, <3>2, <3>3
  <2>2. ASSUME NEW x \in DOMAIN Contents'
        PROVE  Contents'[x] = IF x = k THEN Top.data ELSE Contents[x]
    <3>1. CASE x = k
      BY <1>6, <1>7, <1>9, <3>1 DEF Represented
    <3>2. CASE x # k
      <4>1. PICK f \in Stored' : f.key = x
        BY <1>6 DEF Represented
      <4>2. f \in Stored
        BY <1>7, <1>8, <3>2, <4>1
      <4> QED
        BY <1>6, <3>2, <4>1, <4>2 DEF Represented
    <3> QED
      BY <3>1, <3>2
  <2>3. Contents' = [x \in DOMAIN Contents' |-> Contents'[x]]
    BY <1>6 DEF Represented
  <2>4. Contents' = [x \in DOMAIN Contents \cup {k} |->
                        IF x = k THEN Top.data ELSE Contents[x]]
    BY <2>1, <2>2, <2>3
  <2> QED
    BY <1>12, <2>4 DEF k
<1> QED
  BY <1>11, <1>12

LEMMA RequestIs ==
    /\ Idle => Request = Free
    /\ Typed /\ ~Idle => /\ Request # Free
                         /\ Request.key = puts[1].key /\ Request.data = puts[1].data
                         /\ Request = [key |-> puts[1].key, data |-> puts[1].data]
<1>1. Idle => Request = Free
  BY DEF Request
<1>2. ASSUME Typed, ~Idle
      PROVE  /\ Request # Free
             /\ Request.key = puts[1].key /\ Request.data = puts[1].data
             /\ Request = [key |-> puts[1].key, data |-> puts[1].data]
  <2>1. puts[1] \in Activations
    BY <1>2, TopIs
  <2>2. puts[1].key \in Keys /\ puts[1].data \in Data
    BY <2>1 DEF Activations
  <2>3. Request = [key |-> puts[1].key, data |-> puts[1].data]
    BY <1>2 DEF Request
  <2> QED
    BY <2>2, <2>3, HashMapAssumption
<1> QED
  BY <1>1, <1>2

(* A put that is going on keeps its request. *)
LEMMA RequestStays ==
    ASSUME Typed, Stacked, Typed', ~Idle,
           Store \/ Grow \/ SkipUnused \/ PutAgain \/ RehashDone, ~Idle'
    PROVE  Request' = Request
BY CallerStays DEF Request

(* Every step of the hash map is a step of the map, or none.               *)
LEMMA MapStep ==
    IInv /\ IInv' /\ usage # "both" /\ [Next]_vars => [KV!MapNext]_(KV!mapVars)
<1> SUFFICES ASSUME IInv, IInv', usage # "both", [Next]_vars
             PROVE  [KV!MapNext]_(KV!mapVars)
  OBVIOUS
<1>1. /\ Typed /\ Stacked /\ Placed /\ Orderly /\ Single
      /\ Typed' /\ Stacked'
  BY DEF IInv, Orderly
<1>2. usage' = usage
  BY DEF Next, Step, Store, Grow, GrowFails, SkipUnused, PutAgain, RehashDone,
     Remove, Put, Iterate, CallbackReturns, vars
<1>3. Single'
  BY <1>2 DEF IInv, Orderly
<1>4. /\ IsMoving <=> ~Idle /\ puts[1].rehashing
      /\ IsMoving' <=> ~Idle' /\ puts'[1].rehashing
      /\ IsMoving \in BOOLEAN /\ IsMoving' \in BOOLEAN
  <2>1. IsMoving <=> ~Idle /\ puts[1].rehashing
    BY <1>1, MovingIs
  <2>2. (Typed /\ Stacked => (IsMoving <=> ~Idle /\ puts[1].rehashing))'
    BY MovingIs, PTL
  <2>3. IsMoving' <=> ~Idle' /\ puts'[1].rehashing
    BY <1>1, <2>2
  <2>4. IsMoving \in BOOLEAN /\ IsMoving' \in BOOLEAN
    BY DEF IsMoving
  <2> QED
    BY <2>1, <2>3, <2>4
<1>5. ASSUME Store PROVE [KV!MapNext]_(KV!mapVars)
  <2>1. ~Idle /\ Depth \in Nat \ {0} /\ Top = puts[Depth]
    BY <1>1, <1>5, TopIs DEF Store, Searching
  <2>2. CASE Depth = 1
    <3>1. Idle' /\ ~IsMoving /\ ~IsMoving'
      BY <1>1, <1>4, <1>5, <2>1, <2>2, FirstStays
    <3>2. Request' = Free
      BY <3>1 DEF Request
    <3>3. /\ Request # Free
          /\ Request.key = Top.key /\ Request.data = Top.data
      BY <1>1, <2>1, <2>2, RequestIs
    <3>4. Contents' = [x \in DOMAIN Contents \cup {Top.key} |->
                          IF x = Top.key THEN Top.data ELSE Contents[x]]
      BY <1>1, <1>3, <1>5, <2>2, ContentsAfterStore
    <3>5. IsMoving' = IsMoving
      BY <1>4, <3>1
    <3>6. KV!MapPutDone
      BY <3>1, <3>2, <3>3, <3>4, <3>5 DEF KV!MapPutDone
    <3> QED
      BY <3>6 DEF KV!MapNext
  <2>3. CASE Depth # 1
    <3>1. ~Idle' /\ IsMoving /\ IsMoving'
      BY <1>1, <1>4, <1>5, <2>1, <2>3, FirstStays
    <3>2. Request' = Request /\ Contents' = Contents /\ IsMoving' = IsMoving
      BY <1>1, <1>3, <1>4, <1>5, <2>1, <2>3, <3>1, RequestStays, ContentsAfterStore
    <3> QED
      BY <3>2 DEF KV!mapVars
  <2> QED
    BY <2>2, <2>3
<1>6. ASSUME Grow PROVE [KV!MapNext]_(KV!mapVars)
  <2>1. ~Idle
    BY <1>6 DEF Grow, Searching
  <2>2. ~Idle' /\ IsMoving' /\ (IsMoving <=> Depth # 1)
    BY <1>1, <1>4, <1>6, <2>1, FirstStays
  <2>3. Request' = Request /\ Contents' = Contents /\ Request # Free
    BY <1>1, <1>6, <2>1, <2>2, RequestStays, ContentsAfterGrow, RequestIs
  <2>4. CASE Depth = 1
    <3>1. IsMoving' = ~IsMoving
      BY <1>4, <2>2, <2>4
    <3>2. KV!MapMakeRoom
      BY <2>3, <3>1 DEF KV!MapMakeRoom
    <3> QED
      BY <3>2 DEF KV!MapNext
  <2>5. CASE Depth # 1
    BY <1>4, <2>2, <2>3, <2>5 DEF KV!mapVars
  <2> QED
    BY <2>4, <2>5
<1>7. ASSUME GrowFails PROVE [KV!MapNext]_(KV!mapVars)
  <2>1. /\ ~Idle /\ Depth \in Nat \ {0} /\ Top = puts[Depth] /\ ~Top.rehashing
        /\ Idle'
    BY <1>1, <1>7, TopIs DEF GrowFails, Searching, AfterOutOfMemory, Idle
  <2>2. Request # Free /\ Request' = Free /\ ~IsMoving'
    BY <1>1, <1>4, <2>1, RequestIs DEF Request
  <2>3. /\ Depth = 1 => Contents' = Contents
        /\ \E kept \in SUBSET DOMAIN Contents :
              Contents' = [k \in kept |-> Contents[k]]
    BY <1>1, <1>3, <1>7, ContentsAfterFailure
  <2>4. CASE Depth = 1
    <3>1. ~IsMoving /\ IsMoving' = IsMoving
      BY <1>4, <2>1, <2>2, <2>4
    <3>2. KV!MapPutFails
      BY <2>2, <2>3, <2>4, <3>1 DEF KV!MapPutFails
    <3> QED
      BY <3>2 DEF KV!MapNext
  <2>5. CASE Depth # 1
    <3>1. puts[1].rehashing
      BY <1>1, <2>1, <2>5 DEF Stacked
    <3>2. IsMoving /\ IsMoving' = FALSE
      BY <1>4, <2>1, <2>2, <3>1
    <3>3. KV!MapPutFails
      BY <2>2, <2>3, <3>2 DEF KV!MapPutFails
    <3> QED
      BY <3>3 DEF KV!MapNext
  <2> QED
    BY <2>4, <2>5
<1>8. ASSUME SkipUnused \/ PutAgain PROVE [KV!MapNext]_(KV!mapVars)
  <2>1. ~Idle
    BY <1>8 DEF SkipUnused, PutAgain, Rehashing
  <2>2. ~Idle' /\ IsMoving /\ IsMoving'
    BY <1>1, <1>4, <1>8, <2>1, FirstStays
  <2>3. Request' = Request /\ Contents' = Contents /\ IsMoving' = IsMoving
    BY <1>1, <1>4, <1>8, <2>1, <2>2, RequestStays, CellsStay, ContentsStay
  <2> QED
    BY <2>3 DEF KV!mapVars
<1>9. ASSUME RehashDone PROVE [KV!MapNext]_(KV!mapVars)
  <2>1. ~Idle
    BY <1>9 DEF RehashDone, Rehashing
  <2>2. ~Idle' /\ IsMoving /\ (IsMoving' <=> Depth # 1)
    BY <1>1, <1>4, <1>9, <2>1, FirstStays
  <2>3. Request' = Request /\ Contents' = Contents /\ Request # Free
    BY <1>1, <1>9, <2>1, <2>2, RequestStays, CellsStay, ContentsStay, RequestIs
  <2>4. CASE Depth = 1
    <3>1. IsMoving' = ~IsMoving
      BY <1>4, <2>2, <2>4
    <3>2. KV!MapMakeRoom
      BY <2>3, <3>1 DEF KV!MapMakeRoom
    <3> QED
      BY <3>2 DEF KV!MapNext
  <2>5. CASE Depth # 1
    BY <1>4, <2>2, <2>3, <2>5 DEF KV!mapVars
  <2> QED
    BY <2>4, <2>5
<1>10. ASSUME NEW k \in Keys, Remove(k) PROVE [KV!MapNext]_(KV!mapVars)
  <2>1. Idle /\ Idle'
    BY <1>10 DEF Remove, Calling, Idle
  <2>2. Request = Free /\ Request' = Free /\ IsMoving' = IsMoving
    BY <1>4, <2>1 DEF Request
  <2>3. Contents' = [x \in DOMAIN Contents \ {k} |-> Contents[x]]
    BY <1>1, <1>3, <1>10, ContentsAfterRemove
  <2>4. KV!MapRemove(k)
    BY <2>2, <2>3 DEF KV!MapRemove
  <2> QED
    BY <2>4 DEF KV!MapNext
<1>11. ASSUME NEW k \in Keys, NEW d \in Data, Put(k, d)
       PROVE  [KV!MapNext]_(KV!mapVars)
  <2>1. Idle /\ puts' = <<Activation(k, d)>>
    BY <1>11 DEF Put, Calling
  <2>2. ~Idle' /\ ~puts'[1].rehashing
    BY <2>1, ActivationIs DEF Idle
  <2>3. IsMoving' = IsMoving
    BY <1>4, <2>1, <2>2
  <2>4. Request = Free /\ Request' = [key |-> k, data |-> d]
    BY <2>1, <2>2, ActivationIs DEF Request
  <2>5. Contents' = Contents
    BY <1>1, <1>11, CellsStay, ContentsStay
  <2>6. KV!MapPut(k, d)
    BY <2>3, <2>4, <2>5 DEF KV!MapPut
  <2> QED
    BY <2>6 DEF KV!MapNext
<1>12. ASSUME Iterate \/ CallbackReturns \/ UNCHANGED vars
       PROVE  [KV!MapNext]_(KV!mapVars)
  <2>1. puts' = puts
    BY <1>12 DEF Iterate, CallbackReturns, vars
  <2>2. Contents' = Contents
    BY <1>1, <1>12, CellsStay, ContentsStay
  <2>3. Request' = Request /\ IsMoving' = IsMoving
    BY <2>1 DEF Request, IsMoving, Idle, Depth
  <2> QED
    BY <2>2, <2>3 DEF KV!mapVars
<1> QED
  BY <1>5, <1>6, <1>7, <1>8, <1>9, <1>10, <1>11, <1>12 DEF Next, Step

(* ImplementsMap: for callers that do not both remove and overwrite, the   *)
(* hash map is a map, through any growing, any nested growing and any      *)
(* failure of calloc (lines 140-321).                                      *)
THEOREM Implements == ASSUME "both" \notin Usages PROVE Spec => ImplementsMap
<1>1. Init => KV!MapInit
  <2> SUFFICES ASSUME Init PROVE KV!MapInit
    OBVIOUS
  <2>1. puts = <<>> /\ Depth = 0 /\ Used = {}
    BY DEF Init, Depth, Used
  <2>2. Pending = {}
    BY <2>1 DEF Pending
  <2>3. Stored = {}
    BY <2>1, <2>2 DEF Stored
  <2>4. Contents = [k \in {} |-> k]
    BY <2>3 DEF Contents
  <2>5. Request = Free /\ IsMoving = FALSE
    BY <2>1 DEF Request, Idle, IsMoving
  <2> QED
    BY <2>4, <2>5 DEF KV!MapInit
<1>2. IInv => usage # "both"
  BY DEF IInv, Typed
<1>3. IInv /\ IInv' /\ [Next]_vars => [KV!MapNext]_(KV!mapVars)
  BY <1>2, MapStep
<1> QED
  BY <1>1, <1>3, Invariant, PTL DEF Spec, ImplementsMap, KV!MapSpec
=============================================================================
