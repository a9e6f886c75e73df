-------------------------------- MODULE Mutex --------------------------------
(***************************************************************************)
(* What the spin lock of lock.{h,c} promises: every lock is held by one    *)
(* thread at a time, and given back by that thread.                        *)
(***************************************************************************)
CONSTANTS Threads, Locks, NoThread
VARIABLE holder

MutexInit == holder = [l \in Locks |-> NoThread]

Acquire(t, l) ==
    /\ holder[l] = NoThread
    /\ holder' = [holder EXCEPT ![l] = t]

Release(t, l) ==
    /\ holder[l] = t
    /\ holder' = [holder EXCEPT ![l] = NoThread]

MutexNext == \E t \in Threads, l \in Locks : Acquire(t, l) \/ Release(t, l)

MutexSpec == MutexInit /\ [][MutexNext]_holder
=============================================================================
