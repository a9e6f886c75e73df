-------------------------- MODULE MCRefusalHistory --------------------------
(***************************************************************************)
(* Values for the constants of RefusalHistory.                             *)
(***************************************************************************)
EXTENDS MCRingBuffer, RefusalHistory
=============================================================================
