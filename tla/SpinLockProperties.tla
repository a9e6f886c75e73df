------------------------- MODULE SpinLockProperties -------------------------
(***************************************************************************)
(* What is asked of the spin lock.                                         *)
(***************************************************************************)
EXTENDS SpinLock

Labels == {"idle", "test", "tas", "delay", "finish", "compare", "take", "store", "held"}
Delays == {0} \cup (MIN_DELAY_USEC .. MAX_DELAY_USEC)

(* Every variable has its type; a delay is never shorter than the minimum  *)
(* nor longer than the maximum, whatever random() returns (lines 109-124). *)
TypeOK ==
    /\ word \in [Locks -> {0, 1}]
    /\ spins_per_delay \in Int
    /\ pc \in [Threads -> Labels]
    /\ lock \in [Threads -> Locks]
    /\ spins \in [Threads -> Nat]
    /\ cur_delay \in [Threads -> Delays]
    /\ tmp \in [Threads -> Int]

(* A thread owns its lock from the exchange that returned 0 to S_UNLOCK.   *)
Adjusting == {"finish", "compare", "take", "store"}
Owning    == Adjusting \cup {"held"}
Owns(t)   == pc[t] \in Owning

(* No two threads own a lock, and the word of an owned lock is set: the    *)
(* test in TAS_SPIN and the exchange are two steps that others may come    *)
(* between (lock.h:64).                                                    *)
MutualExclusion ==
    /\ \A t, u \in Threads : Owns(t) /\ Owns(u) /\ lock[t] = lock[u] => t = u
    /\ \A t \in Threads : Owns(t) => word[lock[t]] = 1

(* The lock words and the program counters implement the abstract lock.    *)
HolderOf(l) == IF \E t \in Threads : Owns(t) /\ lock[t] = l
               THEN CHOOSE t \in Threads : Owns(t) /\ lock[t] = l
               ELSE NoThread

M == INSTANCE Mutex WITH holder <- [l \in Locks |-> HolderOf(l)]

ImplementsMutex == M!MutexSpec

(* A lock that is taken is given back, and one that is free while a thread *)
(* waits for it is taken: nobody sleeps through it, though no thread is    *)
(* promised to be the one that gets it.                                    *)
Waiting(l) == \E t \in Threads : pc[t] \in {"test", "tas", "delay"} /\ lock[t] = l
LockMoves ==
    \A l \in Locks : /\ word[l] = 1 ~> word[l] = 0
                     /\ word[l] = 0 /\ Waiting(l) ~> word[l] = 1
=============================================================================
