-------------------------------- MODULE MCLog -------------------------------
(***************************************************************************)
(* Values for the constants of Log.                                        *)
(***************************************************************************)
EXTENDS Log, TLC

(* Two days in a row, and one with the number of the first. *)
ThreeDays == <<1, 2, 1>>
Symmetry  == Permutations(Threads)
=============================================================================
