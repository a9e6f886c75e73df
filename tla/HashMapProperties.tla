------------------------- MODULE HashMapProperties -------------------------
(***************************************************************************)
(* What is asked of HashMap.                                               *)
(***************************************************************************)
EXTENDS HashMap

Used == {s \in DOMAIN table : table[s] # Free}

----------------------------------------------------------------------------

(* What the old tables still hold that has not been put again.             *)
Pending ==
    (UNION {{puts[n].curr[s] : s \in {s \in DOMAIN puts[n].curr : s >= puts[n].i}}
              : n \in 1 .. Depth}) \ {Free}

Stored == {table[s] : s \in Used} \cup Pending

(* The map the table and the tables under rehash stand for.                *)
Contents == [k \in {e.key : e \in Stored} |->
                (CHOOSE e \in Stored : e.key = k).data]

(* The element the caller puts, and whether it waits for a larger table.    *)
Request == IF Idle THEN Free ELSE [key |-> puts[1].key, data |-> puts[1].data]
IsMoving == \E n \in 1 .. Depth : puts[n].rehashing

KV == INSTANCE KeyValueMap WITH
    NoRequest <- Free,
    map <- Contents,
    moving <- IsMoving,
    request <- Request

(* The hash map is a map: it changes only when a put stores the caller's   *)
(* element or a remove finds its key, never while elements move from table *)
(* to table, however deep the rehashing nests, nor when a put fails before *)
(* the table has grown.  A put that fails later (line 195) loses elements, *)
(* but leaves a map that later calls find in order.                        *)
ImplementsMap == KV!MapSpec

(* hashmap_get probes MaxChain slots from the hash under the size the      *)
(* table has now, and stops at no hole, so it finds every element the table *)
(* holds after any growing and removing (lines 234-262).                   *)
GetFindsAll ==
    \A k \in Keys :
        Get(k) = IF \E s \in Used : table[s].key = k
                 THEN (CHOOSE e \in {table[s] : s \in Used} : e.key = k).data
                 ELSE Missing

(* hashmap_iterate hands every element that stays in the map to the        *)
(* callback once, whatever the callback puts and removes meanwhile, unless *)
(* a put makes the table grow (m->data and table_size are read anew by     *)
(* every step, lines 275-277); and `size' is never zero by mistake (271).  *)
IterateVisitsEachOnce ==
    /\ ~iter.again
    /\ iter.i < 0 => iter.owed = {}

(* `size' is what line 143 tests: it never counts fewer slots than are in  *)
(* use, so at least half of the table is free after every step of every    *)
(* call; and hashmap_length, "the current size of a hashmap" (hashmap.h:54), *)
(* is the number of keys present, for callers that do not overwrite: put   *)
(* counts every update as well (hashmap.c:226).                            *)
SizeIsLoad ==
    /\ Cardinality(Used) <= size
    /\ size <= tableSize \div 2
    /\ Idle /\ usage = "removing" => size = Cardinality(DOMAIN Contents)

(* Every put returns: the doubling, and the puts of the elements it moves, *)
(* come to an end or run out of memory.                                    *)
PutReturns == ~Idle ~> Idle
----------------------------------------------------------------------------
(* A statement of a comment that the code does not keep. *)

(* hashmap_remove: "Remove an element with that key from the map" (line    *)
(* 288), so that a get finds none.                                         *)
RemoveRemoves ==
    [][\A k \in Keys : Remove(k) => Get(k)' = Missing]_vars
=============================================================================
