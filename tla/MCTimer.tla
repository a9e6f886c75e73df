------------------------------ MODULE MCTimer ------------------------------
(***************************************************************************)
(* Values for the constants of Timer.                                      *)
(***************************************************************************)
EXTENDS TimerProperties

QueueAndWheel == {"queue", "wheel"}
QueueOnly     == {"queue"}
WheelOnly     == {"wheel"}

(* A check of a queue may be cut short; that of a wheel never is. *)
Plenty == [queue |-> {1, 2}, wheel |-> {9}]
=============================================================================
