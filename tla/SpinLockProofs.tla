--------------------------- MODULE SpinLockProofs ---------------------------
(***************************************************************************)
(* Proofs about the spin lock, for any number of threads and of locks: its *)
(* types, mutual exclusion, that it implements the abstract lock, and that *)
(* the average of two estimates in the allowed range is in it.             *)
(***************************************************************************)
EXTENDS SpinLockProperties, TLAPS

(* The bounds are numbers (lock.c:10-14).                                  *)
LEMMA Bounds ==
    /\ MIN_SPINS_PER_DELAY \in Nat /\ MAX_SPINS_PER_DELAY \in Nat
    /\ DEFAULT_SPINS_PER_DELAY \in MIN_SPINS_PER_DELAY .. MAX_SPINS_PER_DELAY
    /\ MIN_DELAY_USEC \in Nat \ {0} /\ MAX_DELAY_USEC \in Nat
    /\ MIN_DELAY_USEC <= MAX_DELAY_USEC
    /\ Raise \in Nat \ {0} /\ Weight \in Nat \ {0}
    /\ NoThread \notin Threads
BY SpinAssumption

(* Whatever random() returns, a delay in its range is followed by one in   *)
(* its range (lock.c:109-124).                                             *)
LEMMA DelayStaysInRange ==
    ASSUME NEW delay \in Delays, NEW d \in Grown(FirstDelay(delay))
    PROVE  d \in Delays
<1> DEFINE first == FirstDelay(delay)
<1>1. first \in MIN_DELAY_USEC .. MAX_DELAY_USEC
  BY Bounds DEF FirstDelay, Delays
<1>2. PICK e \in first .. (2 * first) :
         d = IF e > MAX_DELAY_USEC THEN MIN_DELAY_USEC ELSE e
  BY DEF Grown
<1> QED
  BY <1>1, <1>2, Bounds DEF Delays

LEMMA TypeInitial == Init => TypeOK
BY Bounds DEF Init, TypeOK, Labels, Delays

(* No step takes a variable out of its type.                               *)
LEMMA TypeStep == TypeOK /\ [Next]_vars => TypeOK'
<1> SUFFICES ASSUME TypeOK, [Next]_vars PROVE TypeOK'
  OBVIOUS
<1> USE DEF TypeOK
<1>1. ASSUME NEW t \in Threads, S_LOCK(t) PROVE TypeOK'
  BY <1>1 DEF S_LOCK, TAS, Fresh, Goto, Labels, Delays
<1>2. ASSUME NEW t \in Threads, TAS_SPIN(t) PROVE TypeOK'
  BY <1>2 DEF TAS_SPIN, Goto, Labels, status
<1>3. ASSUME NEW t \in Threads, Exchange(t) PROVE TypeOK'
  BY <1>3 DEF Exchange, TAS, Goto, Labels, status
<1>4. ASSUME NEW t \in Threads, perform_spin_delay(t) PROVE TypeOK'
  <2>1. cur_delay' \in [Threads -> Delays]
    BY <1>4, DelayStaysInRange DEF perform_spin_delay
  <2>2. spins' \in [Threads -> Nat]
    BY <1>4 DEF perform_spin_delay
  <2> QED
    BY <1>4, <2>1, <2>2 DEF perform_spin_delay, Goto, Labels
<1>5. ASSUME NEW t \in Threads, FinishReads(t) PROVE TypeOK'
  BY <1>5 DEF FinishReads, Goto, Labels, status
<1>6. ASSUME NEW t \in Threads, Compare(t) PROVE TypeOK'
  BY <1>6, Bounds DEF Compare, Goto, Labels, status
<1>7. ASSUME NEW t \in Threads, Take(t) PROVE TypeOK'
  BY <1>7, Bounds DEF Take, Goto, Labels, status
<1>8. ASSUME NEW t \in Threads, StoreEstimate(t) PROVE TypeOK'
  BY <1>8 DEF StoreEstimate, Goto, Labels, status
<1>9. ASSUME NEW t \in Threads, S_UNLOCK(t) PROVE TypeOK'
  BY <1>9 DEF S_UNLOCK, Unlocked, Fresh, Goto, Labels, Delays
<1>10. ASSUME NEW t \in Threads, set_spins_per_delay(t) PROVE TypeOK'
  BY <1>10, SpinAssumption DEF set_spins_per_delay, status
<1>11. CASE UNCHANGED vars
  BY <1>11 DEF vars, status
<1> QED
  BY <1>1, <1>2, <1>3, <1>4, <1>5, <1>6, <1>7, <1>8, <1>9, <1>10, <1>11
     DEF Next, Step

(* Every variable keeps its type, and every delay lies between the two     *)
(* bounds of lock.c:13-14.                                                 *)
THEOREM TypeCorrect == Spec => []TypeOK
BY TypeInitial, TypeStep, PTL DEF Spec

----------------------------------------------------------------------------
(* Mutual exclusion. *)

(* A thread comes to own a lock by an exchange that returned 0, and then   *)
(* nobody else owned it.                                                   *)
LEMMA ExclusionStep ==
    TypeOK /\ MutualExclusion /\ [Next]_vars => MutualExclusion'
<1> SUFFICES ASSUME TypeOK, MutualExclusion, [Next]_vars PROVE MutualExclusion'
  OBVIOUS
<1> USE DEF TypeOK, MutualExclusion, Owns, Owning, Adjusting
<1>1. ASSUME NEW t \in Threads, S_LOCK(t) PROVE MutualExclusion'
  BY <1>1 DEF S_LOCK, TAS, Goto
<1>2. ASSUME NEW t \in Threads, TAS_SPIN(t) PROVE MutualExclusion'
  BY <1>2 DEF TAS_SPIN, Goto
<1>3. ASSUME NEW t \in Threads, Exchange(t) PROVE MutualExclusion'
  BY <1>3 DEF Exchange, TAS, Goto
<1>4. ASSUME NEW t \in Threads, perform_spin_delay(t) PROVE MutualExclusion'
  BY <1>4 DEF perform_spin_delay, Goto
<1>5. ASSUME NEW t \in Threads, FinishReads(t) PROVE MutualExclusion'
  BY <1>5 DEF FinishReads, Goto
<1>6. ASSUME NEW t \in Threads, Compare(t) PROVE MutualExclusion'
  BY <1>6 DEF Compare, Goto
<1>7. ASSUME NEW t \in Threads, Take(t) PROVE MutualExclusion'
  BY <1>7 DEF Take, Goto
<1>8. ASSUME NEW t \in Threads, StoreEstimate(t) PROVE MutualExclusion'
  BY <1>8 DEF StoreEstimate, Goto
<1>9. ASSUME NEW t \in Threads, S_UNLOCK(t) PROVE MutualExclusion'
  BY <1>9 DEF S_UNLOCK, Unlocked, Goto
<1>10. ASSUME NEW t \in Threads, set_spins_per_delay(t) PROVE MutualExclusion'
  BY <1>10 DEF set_spins_per_delay
<1>11. CASE UNCHANGED vars
  BY <1>11 DEF vars
<1> QED
  BY <1>1, <1>2, <1>3, <1>4, <1>5, <1>6, <1>7, <1>8, <1>9, <1>10, <1>11
     DEF Next, Step

(* No two threads own a lock, for any number of threads and locks.         *)
THEOREM Exclusion == Spec => []MutualExclusion
<1>1. Init => MutualExclusion
  BY DEF Init, MutualExclusion, Owns, Owning, Adjusting
<1> QED
  BY <1>1, ExclusionStep, TypeCorrect, PTL DEF Spec

----------------------------------------------------------------------------
(* The abstract lock. *)

(* The holder of a lock is the thread that owns it, if one does.           *)
Has(t, l) == Owns(t) /\ lock[t] = l
HolderIsOwner ==
    \A l \in Locks :
        /\ \A t \in Threads : Has(t, l) => HolderOf(l) = t
        /\ (\A t \in Threads : ~Has(t, l)) => HolderOf(l) = NoThread

LEMMA OwnersHold == MutualExclusion => HolderIsOwner
BY DEF HolderIsOwner, HolderOf, Has, MutualExclusion

(* A step that lets every owner of a lock own it keeps its holder.         *)
LEMMA SameHolder ==
    ASSUME HolderIsOwner, HolderIsOwner', NEW l \in Locks,
           \A t \in Threads : Has(t, l)' <=> Has(t, l)
    PROVE  HolderOf(l)' = HolderOf(l)
<1>1. CASE \E t \in Threads : Has(t, l)
  BY <1>1 DEF HolderIsOwner
<1>2. CASE \A t \in Threads : ~Has(t, l)
  BY <1>2 DEF HolderIsOwner
<1> QED
  BY <1>1, <1>2

Holders == [l \in Locks |-> HolderOf(l)]

(* A thread that has won an exchange acquires the abstract lock.           *)
LEMMA Acquires ==
    ASSUME HolderIsOwner, HolderIsOwner', NEW t \in Threads, NEW l \in Locks,
           \A u \in Threads : ~Has(u, l),
           \A u \in Threads, m \in Locks : Has(u, m)' <=> Has(u, m) \/ (u = t /\ m = l)
    PROVE  M!Acquire(t, l)
<1>1. HolderOf(l) = NoThread
  BY DEF HolderIsOwner
<1>2. HolderOf(l)' = t
  BY DEF HolderIsOwner
<1>3. ASSUME NEW m \in Locks, m # l PROVE HolderOf(m)' = HolderOf(m)
  BY <1>3, SameHolder
<1> QED
  BY <1>1, <1>2, <1>3 DEF M!Acquire

(* A thread that clears its word releases it.                              *)
LEMMA Releases ==
    ASSUME HolderIsOwner, HolderIsOwner', NEW t \in Threads, NEW l \in Locks,
           \A u \in Threads : Has(u, l) <=> u = t,
           \A u \in Threads, m \in Locks : Has(u, m)' <=> Has(u, m) /\ m # l
    PROVE  M!Release(t, l)
<1>1. HolderOf(l) = t
  BY DEF HolderIsOwner
<1>2. HolderOf(l)' = NoThread
  BY DEF HolderIsOwner
<1>3. ASSUME NEW m \in Locks, m # l PROVE HolderOf(m)' = HolderOf(m)
  BY <1>3, SameHolder
<1> QED
  BY <1>1, <1>2, <1>3 DEF M!Release

LEMMA Stutters ==
    ASSUME HolderIsOwner, HolderIsOwner',
           \A u \in Threads, m \in Locks : Has(u, m)' <=> Has(u, m)
    PROVE  UNCHANGED Holders
<1>1. ASSUME NEW m \in Locks PROVE HolderOf(m)' = HolderOf(m)
  BY SameHolder
<1> QED
  BY <1>1 DEF Holders

(* Every step acquires or releases one lock or is none of the abstract     *)
(* lock's business.                                                        *)
LEMMA MutexStep ==
    ASSUME TypeOK, MutualExclusion, HolderIsOwner, HolderIsOwner', [Next]_vars
    PROVE  [M!MutexNext]_Holders
<1> USE DEF TypeOK, Has, Owns, Owning, Adjusting
<1>1. ASSUME NEW t \in Threads, S_LOCK(t) PROVE [M!MutexNext]_Holders
  <2>1. PICK l \in Locks : lock' = [lock EXCEPT ![t] = l] /\ TAS(t, l, "held", "test")
    BY <1>1 DEF S_LOCK
  <2>2. CASE word[l] = 0
    <3>1. \A u \in Threads : ~Has(u, l)
      BY <2>2 DEF MutualExclusion
    <3>2. \A u \in Threads, m \in Locks : Has(u, m)' <=> Has(u, m) \/ (u = t /\ m = l)
      BY <1>1, <2>1, <2>2 DEF S_LOCK, TAS, Goto
    <3> QED
      BY <3>1, <3>2, Acquires DEF M!MutexNext
  <2>3. CASE word[l] # 0
    <3>1. \A u \in Threads, m \in Locks : Has(u, m)' <=> Has(u, m)
      BY <1>1, <2>1, <2>3 DEF S_LOCK, TAS, Goto
    <3> QED
      BY <3>1, Stutters
  <2> QED
    BY <2>2, <2>3
<1>2. ASSUME NEW t \in Threads, Exchange(t) PROVE [M!MutexNext]_Holders
  <2> DEFINE l == lock[t]
  <2>1. l \in Locks
    OBVIOUS
  <2>2. CASE word[l] = 0
    <3>1. \A u \in Threads : ~Has(u, l)
      BY <2>2 DEF MutualExclusion
    <3>2. \A u \in Threads, m \in Locks : Has(u, m)' <=> Has(u, m) \/ (u = t /\ m = l)
      BY <1>2, <2>2 DEF Exchange, TAS, Goto
    <3> QED
      BY <2>1, <3>1, <3>2, Acquires DEF M!MutexNext
  <2>3. CASE word[l] # 0
    <3>1. \A u \in Threads, m \in Locks : Has(u, m)' <=> Has(u, m)
      BY <1>2, <2>3 DEF Exchange, TAS, Goto
    <3> QED
      BY <3>1, Stutters
  <2> QED
    BY <2>2, <2>3
<1>3. ASSUME NEW t \in Threads, S_UNLOCK(t) PROVE [M!MutexNext]_Holders
  <2> DEFINE l == lock[t]
  <2>1. \A u \in Threads : Has(u, l) <=> u = t
    BY <1>3 DEF S_UNLOCK, MutualExclusion
  <2>2. \A u \in Threads, m \in Locks : Has(u, m)' <=> Has(u, m) /\ m # l
    BY <1>3, <2>1 DEF S_UNLOCK, Goto
  <2>3. l \in Locks
    OBVIOUS
  <2> QED
    BY <2>1, <2>2, <2>3, Releases DEF M!MutexNext
<1>4. ASSUME NEW t \in Threads,
             TAS_SPIN(t) \/ perform_spin_delay(t) \/ FinishReads(t) \/ Compare(t)
             \/ Take(t) \/ StoreEstimate(t)
      PROVE  [M!MutexNext]_Holders
  <2>1. \A u \in Threads, m \in Locks : Has(u, m)' <=> Has(u, m)
    BY <1>4 DEF TAS_SPIN, perform_spin_delay, FinishReads, Compare, Take,
                StoreEstimate, Goto
  <2> QED
    BY <2>1, Stutters
<1>5. CASE (\E t \in Threads : set_spins_per_delay(t)) \/ UNCHANGED vars
  <2>1. \A u \in Threads, m \in Locks : Has(u, m)' <=> Has(u, m)
    BY <1>5 DEF set_spins_per_delay, vars
  <2> QED
    BY <2>1, Stutters
<1> QED
  BY <1>1, <1>2, <1>3, <1>4, <1>5 DEF Next, Step

(* The spin lock implements the abstract lock.                             *)
THEOREM Refinement == Spec => ImplementsMutex
<1>1. Init => M!MutexInit
  BY DEF Init, M!MutexInit, HolderOf, Owns, Owning, Adjusting
<1>2. TypeOK /\ MutualExclusion /\ HolderIsOwner /\ HolderIsOwner' /\ [Next]_vars
      => [M!MutexNext]_Holders
  BY MutexStep
<1> QED
  BY <1>1, <1>2, OwnersHold, TypeCorrect, Exclusion, PTL
     DEF Spec, ImplementsMutex, M!MutexSpec, Holders

----------------------------------------------------------------------------
(* The average. *)

(* "We deliberately truncate rather than rounding" (lock.c:179): the       *)
(* average of two numbers of a range is one.                               *)
LEMMA AverageInRange ==
    ASSUME NEW lo \in Nat, NEW hi \in Nat, NEW w \in Nat \ {0},
           NEW s \in lo .. hi, NEW x \in lo .. hi
    PROVE  (s * (w - 1) + x) \div w \in lo .. hi
<1> DEFINE a == s * (w - 1) + x
           q == a \div w
<1>1. a \in Int /\ lo * w <= a /\ a <= hi * w
  <2>1. lo * (w - 1) <= s * (w - 1) /\ s * (w - 1) <= hi * (w - 1)
    BY SMT
  <2>2. lo * (w - 1) + lo = lo * w /\ hi * (w - 1) + hi = hi * w
    BY SMT
  <2> QED
    BY <2>1, <2>2, SMT
<1> HIDE DEF a
<1>2. q \in Int /\ w * q <= a /\ a < w * (q + 1)
  BY <1>1, SMT
<1> HIDE DEF q
<1>3. q <= hi
  BY <1>1, <1>2, SMT
<1>4. q >= lo
  BY <1>1, <1>2, SMT
<1> QED
  BY <1>2, <1>3, <1>4 DEF q, a

(* "As long as both inputs are within the allowed range, the result must   *)
(* be too" (lock.c:177): of what update_spins_per_delay is given and the   *)
(* estimate of the process, whoever adjusts it.  (That the estimate itself *)
(* is in the range is another matter: two threads that adjust it at once   *)
(* move it out.)                                                           *)
THEOREM AverageStaysInRange ==
    LET Allowed == MIN_SPINS_PER_DELAY .. MAX_SPINS_PER_DELAY
    IN  \A shared \in Allowed :
            spins_per_delay \in Allowed => update_spins_per_delay(shared) \in Allowed
BY AverageInRange, Bounds DEF update_spins_per_delay
=============================================================================
