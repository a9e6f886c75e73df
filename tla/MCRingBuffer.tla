---------------------------- MODULE MCRingBuffer ----------------------------
(***************************************************************************)
(* Values for the constants of RingBuffer.                                 *)
(***************************************************************************)
EXTENDS RingBufferProperties, TLC

One(locked)  == [locked |-> locked, bulk |-> FALSE, nb |-> 1, min |-> 1]
Try(locked)  == [locked |-> locked, bulk |-> FALSE, nb |-> 1, min |-> 0]
Bulk(locked, nb, min) == [locked |-> locked, bulk |-> TRUE, nb |-> nb, min |-> min]

(* What writers and readers mix to show order: single values between bulk  *)
(* calls that must move both values, and so move them in two chunks when   *)
(* they find room for one, calls that demand more than they offer and calls *)
(* for nothing.                                                            *)
MixedWrites == {One(TRUE), Bulk(TRUE, 2, 2), Bulk(TRUE, 1, 2), Bulk(TRUE, 0, 0)}
MixedReads  == {Bulk(TRUE, 2, 2)}

(* The calls that make progress or come back empty-handed, with and without *)
(* the early check.                                                        *)
LivePaths == {One(FALSE), Try(FALSE), Bulk(FALSE, 2, 2), Bulk(FALSE, 2, 1),
              Try(TRUE), Bulk(TRUE, 2, 0)}

LockedPaths   == {One(TRUE), Try(TRUE), Bulk(TRUE, 2, 2)}
LockedOnes    == {One(TRUE)}
UnlockedOnes  == {One(FALSE)}
Quadruples    == {Bulk(FALSE, 4, 1)}

Symmetry == Permutations(Writers) \cup Permutations(Readers) \cup Permutations(Values)
=============================================================================
