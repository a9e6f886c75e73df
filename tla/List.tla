-------------------------------- MODULE List --------------------------------
(***************************************************************************)
(* The doubly linked list of list.c, list_node.c and list_iterator.c, its  *)
(* pointers as functions from nodes to nodes, and one iterator over it.    *)
(* A node that is in no list has been popped, or freed and allocated anew  *)
(* by list_node_new: its pointers are NULL.                                *)
(***************************************************************************)
EXTENDS Naturals, Sequences, FiniteSets

CONSTANTS
    Nodes,          \* list_node_t objects
    NULL            \* no node

ASSUME ListAssumption == NULL \notin Nodes

VARIABLES
    head, tail, len,    \* the members of list_t
    prev, next,         \* the members of every list_node_t
    it,                 \* the iterator: its node `next' and its direction
    owed,               \* history: the nodes that have been in the list since
                        \*   the iterator was made and not been returned yet
    last                \* history: the function of list.c called last, the node
                        \*   it was given or returned, and the nodes it freed

listVars == <<head, tail, len, prev, next>>
vars == <<listVars, it, owed, last>>

Directions == {"LIST_HEAD", "LIST_TAIL"}
NoIterator == [live |-> FALSE, next |-> NULL, direction |-> "LIST_HEAD"]

(* The node k steps from p, as far as the links lead.  *)
Follow(link, p, k) ==
    LET at[j \in 0 .. k] == IF j = 0 THEN p
                            ELSE IF at[j - 1] = NULL THEN NULL
                            ELSE link[at[j - 1]]
    IN  at[k]

(* The first n nodes from p. *)
Walk(link, p, n) == [k \in 1 .. n |-> Follow(link, p, k - 1)]

InList(n) == \E k \in 1 .. len : Follow(next, head, k - 1) = n

(* The pointers list_node_new gives a node. *)
Unlinked == [n \in Nodes |-> NULL]

Call(name, n, freed) == [name |-> name, node |-> n, freed |-> freed]

(* list_new *)
Init ==
    /\ head = NULL /\ tail = NULL /\ len = 0
    /\ prev = Unlinked
    /\ next = Unlinked
    /\ it = NoIterator
    /\ owed = {}
    /\ last = Call("list_new", NULL, {})

list_rpush(n) ==
    /\ ~InList(n)
    /\ IF len > 0
       THEN /\ prev' = [prev EXCEPT ![n] = tail]
            /\ next' = [next EXCEPT ![n] = NULL, ![tail] = n]
            /\ tail' = n
            /\ UNCHANGED head
       ELSE /\ head' = n /\ tail' = n
            /\ prev' = [prev EXCEPT ![n] = NULL]
            /\ next' = [next EXCEPT ![n] = NULL]
    /\ len' = len + 1
    /\ last' = Call("list_rpush", n, {})
    /\ UNCHANGED <<it, owed>>

list_lpush(n) ==
    /\ ~InList(n)
    /\ IF len > 0
       THEN /\ next' = [next EXCEPT ![n] = head]
            /\ prev' = [prev EXCEPT ![n] = NULL, ![head] = n]
            /\ head' = n
            /\ UNCHANGED tail
       ELSE /\ head' = n /\ tail' = n
            /\ prev' = [prev EXCEPT ![n] = NULL]
            /\ next' = [next EXCEPT ![n] = NULL]
    /\ len' = len + 1
    /\ last' = Call("list_lpush", n, {})
    /\ UNCHANGED <<it, owed>>

(* While an iterator is used the program takes out of the list no node     *)
(* that the iterator has fetched already: it would be left with a node     *)
(* that is in no list, or is freed.                                        *)
MayLeave(n) == it.live => it.next # n

Left(n) == owed' = owed \ {n} /\ UNCHANGED it

OneLess == len - 1

(* The links towards an end, `end' being the last node before n now.       *)
EndCut(link, n, end) == [link EXCEPT ![end] = NULL, ![n] = NULL]

list_rpop ==
    /\ len > 0
    /\ MayLeave(tail)
    /\ len' = OneLess
    /\ IF len > 1
       THEN /\ tail' = prev[tail]
            /\ next' = EndCut(next, tail, prev[tail])
            /\ UNCHANGED head
       ELSE /\ tail' = NULL /\ head' = NULL
            /\ next' = [next EXCEPT ![tail] = NULL]
    /\ prev' = [prev EXCEPT ![tail] = NULL]
    /\ last' = Call("list_rpop", tail, {})
    /\ Left(tail)

list_lpop ==
    /\ len > 0
    /\ MayLeave(head)
    /\ len' = OneLess
    /\ IF len > 1
       THEN /\ head' = next[head]
            /\ prev' = EndCut(prev, head, next[head])
            /\ UNCHANGED tail
       ELSE /\ head' = NULL /\ tail' = NULL
            /\ prev' = [prev EXCEPT ![head] = NULL]
    /\ next' = [next EXCEPT ![head] = NULL]
    /\ last' = Call("list_lpop", head, {})
    /\ Left(head)

(* A fault: the neighbour keeps pointing at the node that is removed.      *)
NeighbourKept(link, n, side) == [link EXCEPT ![n] = NULL]

(* The link of n's neighbour on a side takes the value n's own has; n is   *)
(* freed.                                                                  *)
Bypass(link, n, neighbour) ==
    IF neighbour = NULL THEN [link EXCEPT ![n] = NULL]
    ELSE [link EXCEPT ![neighbour] = link[n], ![n] = NULL]

list_remove(n) ==
    /\ InList(n)
    /\ MayLeave(n)
    /\ next' = Bypass(next, n, prev[n])
    /\ prev' = Bypass(prev, n, next[n])
    /\ head' = IF prev[n] = NULL THEN next[n] ELSE head
    /\ tail' = IF next[n] = NULL THEN prev[n] ELSE tail
    /\ len' = OneLess
    /\ last' = Call("list_remove", n, {n})
    /\ Left(n)

(* A pop of an empty list returns NULL and changes nothing.                *)
PopNothing ==
    /\ len = 0
    /\ \E name \in {"list_rpop", "list_lpop"} : last' = Call(name, NULL, {})
    /\ UNCHANGED <<listVars, it, owed>>

(* A fault: the loop counts down before it compares.                       *)
FreedButLast == {Follow(next, head, k - 1) : k \in 1 .. (len - 1)}

(* The loop of list_destroy frees `len' nodes along next; a new list       *)
(* follows.                                                                *)
Freed == {Follow(next, head, k - 1) : k \in 1 .. len}

list_destroy ==
    /\ ~it.live
    /\ head' = NULL /\ tail' = NULL /\ len' = 0
    /\ prev' = [n \in Nodes |-> IF n \in Freed THEN NULL ELSE prev[n]]
    /\ next' = [n \in Nodes |-> IF n \in Freed THEN NULL ELSE next[n]]
    /\ last' = Call("list_destroy", NULL, Freed)
    /\ UNCHANGED <<it, owed>>
----------------------------------------------------------------------------

(* list_iterator_new *)
list_iterator_new(dir) ==
    /\ ~it.live
    /\ it' = [live |-> TRUE, next |-> IF dir = "LIST_HEAD" THEN head ELSE tail,
              direction |-> dir]
    /\ owed' = {n \in Nodes : InList(n)}
    /\ UNCHANGED <<listVars, last>>

(* A fault: the direction is not looked at. *)
AlwaysForward(n) == next[n]

Onward(n) == IF it.direction = "LIST_HEAD" THEN next[n] ELSE prev[n]

(* The iterator returns a node and fetches the one after it.               *)
list_iterator_next ==
    /\ it.live
    /\ it.next # NULL
    /\ owed' = owed \ {it.next}
    /\ it' = [it EXCEPT !.next = Onward(it.next)]
    /\ UNCHANGED <<listVars, last>>

list_iterator_destroy ==
    /\ it.live
    /\ it' = NoIterator
    /\ owed' = {}
    /\ UNCHANGED <<listVars, last>>

(* list_at for an index >= 0, and for index < 0 with ~index steps back.    *)
AtHead(index) == Follow(next, head, index)
AtTail(index) == Follow(prev, tail, index)

(* list_find: the first node met from the head whose value matches.        *)
list_find(wanted) ==
    LET met == {k \in 0 .. len : AtHead(k) \in wanted}
    IN  IF met = {} THEN NULL
        ELSE AtHead(CHOOSE k \in met : \A j \in met : k <= j)

Next ==
    \/ list_rpop \/ list_lpop \/ PopNothing \/ list_destroy
    \/ list_iterator_next \/ list_iterator_destroy
    \/ \E dir \in Directions : list_iterator_new(dir)
    \/ \E n \in Nodes : list_rpush(n) \/ list_lpush(n) \/ list_remove(n)

Spec == Init /\ [][Next]_vars
----------------------------------------------------------------------------
(* What is asked of the list. *)

(* The list is a sequence: `len' nodes from head along next.  Each function *)
(* does to it what its name says, pushes and pops at its own end, removes  *)
(* the node it was given, returns the node it took out or NULL, and frees  *)
(* what it has to free: list_remove its node, list_destroy all of them,    *)
(* the others none.                                                        *)
S == INSTANCE NodeSequence WITH None <- NULL, seq <- Walk(next, head, len)

ImplementsSequence == S!SeqSpec

(* list_at counts from either end (lines 165-179): the node at an index    *)
(* from the head is the one at the matching index from the tail, so the    *)
(* links back mirror the links forward, neither leads past the end, and    *)
(* list_find, which stops at NULL and not at len, returns the match        *)
(* nearest to the head.                                                    *)
LooksAgree ==
    /\ \A k \in 0 .. (len - 1) : AtHead(k) = AtTail(len - 1 - k) /\ AtHead(k) # NULL
    /\ AtHead(len) = NULL /\ AtTail(len) = NULL
    /\ \A wanted \in SUBSET Nodes :
          LET found == list_find(wanted)
              nearer(k) == AtTail(len - 1 - k) \notin wanted
          IN  IF found = NULL THEN \A k \in 0 .. (len - 1) : nearer(k)
              ELSE \E k \in 0 .. (len - 1) :
                      found = AtTail(len - 1 - k) /\ found \in wanted
                      /\ \A j \in 0 .. (k - 1) : nearer(j)

(* An iterator in either direction returns every node that stays in the    *)
(* list while it is used, whatever is pushed and removed around it: those  *)
(* it owes are still ahead of it.                                          *)
IteratorOwesNothing ==
    it.live => \A n \in owed : \E k \in 0 .. len :
        Follow(IF it.direction = "LIST_HEAD" THEN next ELSE prev, it.next, k) = n
=============================================================================
