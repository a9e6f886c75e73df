--------------------------- MODULE RefusalHistory ---------------------------
(***************************************************************************)
(* RingBuffer with a history variable: has the buffer been full (for a     *)
(* reader: empty) at some instant of the check a call makes before it      *)
(* takes the lock?  The check reads two indices one after the other, so    *)
(* what it sees need not have been true of any instant.                    *)
(***************************************************************************)
EXTENDS RingBufferProperties

VARIABLE justified  \* per thread, while it is in the early check

Early(t) == pc[t] \in {"early", "early_start", "early_end"}

HistoryInit == Init /\ justified = [t \in Threads |-> FALSE]

HistoryNext ==
    /\ Next
    /\ justified' = [t \in Threads |->
          Early(t)' /\ (Unavailable(t)' \/ (Early(t) /\ justified[t]))]

HistorySpec ==
    /\ HistoryInit /\ [][HistoryNext]_<<vars, justified>>
    /\ Fairness
    /\ \A t \in Threads : WF_vars(Call(t))

(* A try call that is about to give up before it has the lock does so for  *)
(* a reason: the buffer was full (empty) at some instant since it entered. *)
(* try_swrite is "a thread safe version of zx_ringbuffer_try_write" (line  *)
(* 390), which returns without writing "if their is no space" (line 265).  *)
RefusalJustified ==
    \A t \in Threads :
        pc[t] \in {"early_start", "early_end"} /\ LooksUnavailable(t) => justified[t]

(* What keeps it so where one thread uses each end: nobody else moves the  *)
(* index of its own side, so if a thread read its own index first, it is   *)
(* still what it saw, and if it read the other one first, the indices it   *)
(* compares were those of that instant.                                    *)
OneASide ==
    /\ \A t, u \in Writers : t = u
    /\ \A t, u \in Readers : t = u

OwnFirst(t) == pc[t] = IF t \in Writers THEN "early_end" ELSE "early_start"

Reasoned ==
    \A t \in Threads :
        /\ Early(t) /\ Unavailable(t) => justified[t]
        /\ OwnFirst(t) => seen[t] = Own(t)
        /\ pc[t] \in {"early_start", "early_end"} /\ LooksUnavailable(t) => justified[t]
=============================================================================
