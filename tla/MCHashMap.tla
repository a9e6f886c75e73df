----------------------------- MODULE MCHashMap -----------------------------
(***************************************************************************)
(* Values for the constants of HashMap: tables of 4 to 32 slots, chains of *)
(* two.                                                                    *)
(***************************************************************************)
EXTENDS HashMapProperties

KeyNames == {"a", "b", "c", "d"}

(* Among these are neighbours (7, 8), hashes that collide in small tables  *)
(* and part in larger ones (7, 23; 0, 8), and ones at the end of a table   *)
(* that wraps around (3, 7, 23).  The keys are alike, so one function for  *)
(* a choice of four is enough.                                             *)
Crowded == {[a |-> 3, b |-> 7, c |-> 8, d |-> 23], [a |-> 0, b |-> 7, c |-> 8, d |-> 23],
            [a |-> 0, b |-> 3, c |-> 7, d |-> 23]}

(* Keys that never part: the third of them finds no place at any size.     *)
AllCollide == {[k \in KeyNames |-> 3]}

Crowds == Crowded \cup AllCollide

AnyDepth == 1 .. 3
Outermost == {1}
=============================================================================
