------------------------------ MODULE HashMap ------------------------------
(***************************************************************************)
(* The hash map of hashmap.{h,c}: linear probing over at most MaxChain     *)
(* slots, and a table that doubles when a put finds no place.              *)
(*                                                                         *)
(* Doubling puts every element of the old table again with hashmap_put,    *)
(* which may itself find no place and double the table once more; so a put *)
(* is a stack of activations, the caller's at the bottom, each at one of   *)
(* two places: looking for a slot, or in the loop of hashmap_rehash.  The  *)
(* code is sequential; other operations start when the stack is empty, or  *)
(* in the callback of hashmap_iterate, which reads the table anew for each *)
(* of its steps.                                                           *)
(***************************************************************************)
EXTENDS Integers, Sequences, FiniteSets, FiniteSetsExt

CONSTANTS
    Keys,           \* the strings used as keys
    Data,           \* what is stored
    Missing,        \* what hashmap_get delivers for a key it does not find
    Free,           \* a slot with in_use = 0
    HashFunctions,  \* what the strings may hash to, before the modulus
    InitialSize,    \* INITIAL_SIZE
    MaxChain,       \* MAX_CHAIN_LENGTH
    MaxTable,       \* the largest table there is memory for
    FailDepths,     \* the depths of nested puts at which calloc may fail
    MaxCalls,       \* bound: puts and removals made during an iteration
    Usages          \* what callers do: "removing" and never putting a key
                    \*   that is present, "overwriting" such keys and never
                    \*   removing any, or "both"

ASSUME HashMapAssumption ==
    /\ InitialSize \in Nat /\ InitialSize >= 2
    /\ MaxChain \in 1 .. InitialSize
    /\ MaxTable \in Nat /\ MaxCalls \in Nat
    /\ HashFunctions \subseteq [Keys -> Nat]
    /\ FailDepths \subseteq Nat
    /\ Usages \subseteq {"removing", "overwriting", "both"}
    /\ Missing \notin Data
    /\ Free \notin [key : Keys, data : Data]

VARIABLES
    usage,          \* what the program that uses the map does
    hash,           \* crc32 and the mixing of hashmap_hash_int
    table,          \* m->data
    tableSize,      \* m->table_size
    size,           \* m->size
    puts,           \* the activations of hashmap_put, the innermost last
    iter            \* hashmap_iterate in its callback, with its history

vars == <<usage, hash, table, tableSize, size, puts, iter>>

----------------------------------------------------------------------------
(* Probing *)

Chain == 0 .. (MaxChain - 1)

(* The j-th slot of a table of n that is tried for key k. *)
SlotIn(n, k, j) == ((hash[k] % n) + j) % n

Slot(k, j) == SlotIn(tableSize, k, j)

HoldsKey(e, k) == e # Free /\ e.key = k

(* A fault: hashmap_hash looks for an unused slot only. *)
FirstUnused(k) == {j \in Chain : table[Slot(k, j)] = Free}

(* The positions of k's chain at which hashmap_hash stops: the first slot  *)
(* that is unused or holds k, whichever comes first.                       *)
Suitable(k) ==
    {j \in Chain : table[Slot(k, j)] = Free \/ HoldsKey(table[Slot(k, j)], k)}

(* hashmap_hash returns MAP_FULL. *)
Full(k) == size >= tableSize \div 2 \/ Suitable(k) = {}

(* hashmap_hash returns an index. *)
Place(k) == Slot(k, Min(Suitable(k)))

(* A fault: the probing stops at the first hole, as if nothing were ever   *)
(* removed.                                                                *)
HitsUpToHole(f, n, k) ==
    {j \in Chain : /\ HoldsKey(f[SlotIn(n, k, j)], k)
                   /\ \A m \in 0 .. j : f[SlotIn(n, k, m)] # Free}

(* The positions of k's chain in table f that hold k, for get and remove.  *)
Hits(f, n, k) == {j \in Chain : HoldsKey(f[SlotIn(n, k, j)], k)}

Found(f, n, k) == Hits(f, n, k) # {}
Hit(f, n, k)   == SlotIn(n, k, Min(Hits(f, n, k)))

(* What hashmap_get delivers from a table f of n slots. *)
Lookup(f, n, k) == IF Found(f, n, k) THEN f[Hit(f, n, k)].data ELSE Missing

Get(k) == Lookup(table, tableSize, k)

----------------------------------------------------------------------------

(* i: the slot whose element the callback has; calls: made by callbacks so  *)
(* far.  The history: the keys that are in the map since the iteration     *)
(* began and not yet visited, those visited, whether one was visited       *)
(* again, whether the table has grown.                                     *)
Iteration(i, owed) ==
    [i |-> i, calls |-> 0, owed |-> owed, visited |-> {}, again |-> FALSE,
     grown |-> FALSE]
NotIterating == Iteration(-1, {})

(* hashmap_new *)
Init ==
    /\ usage \in Usages
    /\ hash \in HashFunctions
    /\ table = [s \in 0 .. (InitialSize - 1) |-> Free]
    /\ tableSize = InitialSize
    /\ size = 0
    /\ puts = <<>>
    /\ iter = NotIterating

Idle  == puts = <<>>
Depth == Len(puts)
Top   == puts[Depth]

(* An activation of hashmap_put: its arguments and, in the loop of         *)
(* hashmap_rehash, the array it empties and the index it has come to.      *)
Activation(k, d) == [key |-> k, data |-> d, rehashing |-> FALSE, curr |-> <<>>, i |-> 0]

(* The program calls, or a callback of its iteration does. *)
Calling == Idle /\ iter.calls < MaxCalls
CallsAfter == IF iter.i < 0 THEN 0 ELSE iter.calls + 1

Put(k, d) ==
    /\ Calling
    /\ usage = "removing" => Get(k) = Missing
    /\ puts' = <<Activation(k, d)>>
    /\ iter' = [iter EXCEPT !.calls = CallsAfter]
    /\ UNCHANGED <<usage, hash, table, tableSize, size>>

Searching == ~Idle /\ ~Top.rehashing

(* i++ *)
Advanced(a) == [a EXCEPT !.i = @ + 1]

(* Back in the loop that called this put. *)
Returned ==
    LET below == SubSeq(puts, 1, Depth - 1)
    IN  IF Depth = 1 THEN <<>> ELSE [below EXCEPT ![Depth - 1] = Advanced(@)]

(* A place was found: set the data. *)
Store ==
    /\ Searching
    /\ ~Full(Top.key)
    /\ table' = [table EXCEPT ![Place(Top.key)] = [key |-> Top.key, data |-> Top.data]]
    /\ size' = size + 1
    /\ puts' = Returned
    /\ UNCHANGED <<usage, hash, tableSize, iter>>

(* A fault: m->size is not reset. *)
SizeKept == size

SizeOfNewTable == 0

NewTableSize == 2 * tableSize

(* The activation that looked for a place moves the old table's elements.  *)
Moving == [Top EXCEPT !.rehashing = TRUE, !.curr = table]

(* No place was found: hashmap_rehash sets up a table of twice the size. *)
Grow ==
    /\ Searching
    /\ Full(Top.key)
    /\ 2 * tableSize <= MaxTable
    /\ table' = [s \in 0 .. (2 * tableSize - 1) |-> Free]
    /\ tableSize' = NewTableSize
    /\ size' = SizeOfNewTable
    /\ puts' = [puts EXCEPT ![Depth] = Moving]
    /\ iter' = [iter EXCEPT !.owed = {}, !.visited = {}, !.grown = (iter.i >= 0)]
    /\ UNCHANGED <<usage, hash>>

(* A fault: hashmap_put takes MAP_OMEM for any status and tries again. *)
OutOfMemoryIgnored == puts

AfterOutOfMemory == <<>>

(* calloc returned NULL: every activation returns MAP_OMEM to the next.    *)
GrowFails ==
    /\ Searching
    /\ Full(Top.key)
    /\ Depth \in FailDepths
    /\ puts' = AfterOutOfMemory
    /\ UNCHANGED <<usage, hash, table, tableSize, size, iter>>

Rehashing == ~Idle /\ Top.rehashing

(* A fault: the last slot of the old table is left out. *)
OldSizeLessOne == Cardinality(DOMAIN Top.curr) - 1

OldSize == Cardinality(DOMAIN Top.curr)

SkipUnused ==
    /\ Rehashing
    /\ Top.i < OldSize
    /\ Top.curr[Top.i] = Free
    /\ puts' = [puts EXCEPT ![Depth] = Advanced(@)]
    /\ UNCHANGED <<usage, hash, table, tableSize, size, iter>>

PutAgain ==
    /\ Rehashing
    /\ Top.i < OldSize
    /\ Top.curr[Top.i] # Free
    /\ puts' = Append(puts, Activation(Top.curr[Top.i].key, Top.curr[Top.i].data))
    /\ UNCHANGED <<usage, hash, table, tableSize, size, iter>>

(* free(curr), and hashmap_put calls hashmap_hash again. *)
RehashDone ==
    /\ Rehashing
    /\ Top.i >= OldSize
    /\ puts' = [puts EXCEPT ![Depth] = Activation(Top.key, Top.data)]
    /\ UNCHANGED <<usage, hash, table, tableSize, size, iter>>

(* hashmap_remove blanks the first slot of the chain that holds k. *)
Remove(k) ==
    /\ Calling
    /\ usage # "overwriting"
    /\ IF Found(table, tableSize, k)
       THEN /\ table' = [table EXCEPT ![Hit(table, tableSize, k)] = Free]
            /\ size' = size - 1
       ELSE UNCHANGED <<table, size>>
    /\ iter' = [iter EXCEPT !.calls = CallsAfter, !.owed = @ \ {k},
                            !.visited = @ \ {k}]
    /\ UNCHANGED <<usage, hash, tableSize, puts>>
----------------------------------------------------------------------------
(* hashmap_iterate: from one callback to the next is one step.             *)

Present == {e.key : e \in {table[s] : s \in DOMAIN table} \ {Free}}

(* The slots still to come that are in use. *)
Ahead(i) == {s \in i .. (tableSize - 1) : table[s] # Free}

(* The loop goes on from slot i, to the callback of the next element or to *)
(* its end.                                                                *)
GoOn(it, i) ==
    IF Ahead(i) = {} THEN iter' = [it EXCEPT !.i = -1, !.calls = 0, !.visited = {},
                                             !.grown = FALSE]
    ELSE LET next == Min(Ahead(i))
             k    == table[next].key
         IN  iter' = IF it.grown THEN [it EXCEPT !.i = next]
                     ELSE [it EXCEPT !.i = next, !.owed = @ \ {k},
                                     !.visited = @ \cup {k},
                                     !.again = @ \/ k \in it.visited]

(* Nothing is done if the length is zero. *)
Iterate ==
    /\ Idle /\ iter.i < 0
    /\ IF size <= 0 THEN iter' = Iteration(-1, Present)
       ELSE GoOn(Iteration(0, Present), 0)
    /\ UNCHANGED <<usage, hash, table, tableSize, size, puts>>

(* The callback returns MAP_OK, or another status, which ends the loop. *)
CallbackReturns ==
    /\ Idle /\ iter.i >= 0
    /\ GoOn(iter, iter.i + 1) \/ iter' = NotIterating
    /\ UNCHANGED <<usage, hash, table, tableSize, size, puts>>
----------------------------------------------------------------------------

Step == Store \/ Grow \/ GrowFails \/ SkipUnused \/ PutAgain \/ RehashDone

Next ==
    \/ Step \/ Iterate \/ CallbackReturns
    \/ \E k \in Keys : Remove(k) \/ \E d \in Data : Put(k, d)

Spec == Init /\ [][Next]_vars

(* A call that has begun is carried on. *)
FairSpec == Spec /\ WF_vars(Step)
=============================================================================
