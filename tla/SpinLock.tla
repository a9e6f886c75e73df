------------------------------ MODULE SpinLock ------------------------------
(***************************************************************************)
(* The spin lock of lock.{h,c} for x86-64, one step per access to shared   *)
(* memory: a lock word for each lock, and spins_per_delay, the static      *)
(* estimate all threads of the process read and adjust.  Min and Max are   *)
(* macros that evaluate their argument twice, so finish_spin_delay reads   *)
(* the estimate up to three times before it writes it; a build that reads  *)
(* it once behaves as when no other thread comes in between.               *)
(*                                                                         *)
(* A delay may take any time, so its length matters only for its range.    *)
(* status->delays is left out: it is returned, and prints a message when   *)
(* it passes NUM_DELAYS (elog is printf).                                  *)
(***************************************************************************)
EXTENDS Integers

CONSTANTS
    Threads,
    Locks,                  \* the slock_t of the program
    NoThread,               \* the holder of a free lock
    MIN_SPINS_PER_DELAY, MAX_SPINS_PER_DELAY, DEFAULT_SPINS_PER_DELAY,
    MIN_DELAY_USEC, MAX_DELAY_USEC,
    Raise,                  \* 100, what a wait without delay adds (line 151)
    Weight,                 \* 16, the weight of the moving average (line 183)
    Estimates               \* what callers pass to set_spins_per_delay

ASSUME SpinAssumption ==
    /\ NoThread \notin Threads
    /\ {MIN_SPINS_PER_DELAY, MAX_SPINS_PER_DELAY, DEFAULT_SPINS_PER_DELAY,
        MIN_DELAY_USEC, MAX_DELAY_USEC, Raise, Weight} \subseteq Nat \ {0}
    /\ DEFAULT_SPINS_PER_DELAY \in MIN_SPINS_PER_DELAY .. MAX_SPINS_PER_DELAY
    /\ MIN_DELAY_USEC <= MAX_DELAY_USEC
    /\ Estimates \subseteq Int

VARIABLES
    word,               \* the lock words
    spins_per_delay,    \* the static of lock.c
    pc,                 \* where each thread is
    lock,               \* the lock it wants or holds
    spins, cur_delay,   \* its SpinDelayStatus
    tmp                 \* the value finish_spin_delay is about to write

status == <<spins, cur_delay>>
vars == <<word, spins_per_delay, pc, lock, status, tmp>>

Goto(t, label) == pc' = [pc EXCEPT ![t] = label]

(* The locals of a thread, when s_lock begins and after it has returned.   *)
Fresh(t) ==
    /\ spins' = [spins EXCEPT ![t] = 0]
    /\ cur_delay' = [cur_delay EXCEPT ![t] = 0]
    /\ tmp' = [tmp EXCEPT ![t] = 0]

Init ==
    /\ word = [l \in Locks |-> 0]
    /\ spins_per_delay = DEFAULT_SPINS_PER_DELAY
    /\ pc = [t \in Threads |-> "idle"]
    /\ lock \in [Threads -> Locks]
    /\ spins = [t \in Threads |-> 0]
    /\ cur_delay = [t \in Threads |-> 0]
    /\ tmp = [t \in Threads |-> 0]

(* A fault: the exchange is taken to have returned what the test read.     *)
TestedOnly(t, l, won, lost) ==
    /\ word' = [word EXCEPT ![l] = 1]
    /\ Goto(t, won)

(* tas: the lock word is exchanged for 1; 0 came out of it or not.         *)
TAS(t, l, won, lost) ==
    /\ word' = [word EXCEPT ![l] = 1]
    /\ Goto(t, IF word[l] = 0 THEN won ELSE lost)

(* S_LOCK: one attempt, then s_lock with a fresh status.                   *)
S_LOCK(t) ==
    /\ pc[t] = "idle"
    /\ \E l \in Locks :
          /\ lock' = [lock EXCEPT ![t] = l]
          /\ TAS(t, l, "held", "test")
    /\ Fresh(t)
    /\ UNCHANGED spins_per_delay

(* TAS_SPIN looks at the word before it tries the exchange.                *)
TAS_SPIN(t) ==
    /\ pc[t] = "test"
    /\ Goto(t, IF word[lock[t]] = 0 THEN "tas" ELSE "delay")
    /\ UNCHANGED <<word, spins_per_delay, lock, status, tmp>>

Exchange(t) ==
    /\ pc[t] = "tas"
    /\ TAS(t, lock[t], "finish", "delay")
    /\ UNCHANGED <<spins_per_delay, lock, status, tmp>>

(* A fault: the delay grows and is never set back to the minimum.          *)
GrownForever(delay) == delay .. (2 * delay)

(* The delay after this one: a random fraction longer, and the minimum     *)
(* when that is too long (lines 120-124).                                  *)
Grown(delay) ==
    {IF d > MAX_DELAY_USEC THEN MIN_DELAY_USEC ELSE d : d \in delay .. (2 * delay)}

FirstDelay(delay) == IF delay = 0 THEN MIN_DELAY_USEC ELSE delay

perform_spin_delay(t) ==
    /\ pc[t] = "delay"
    /\ IF spins[t] + 1 >= spins_per_delay
       THEN /\ \E d \in Grown(FirstDelay(cur_delay[t])) :
                  cur_delay' = [cur_delay EXCEPT ![t] = d]
            /\ spins' = [spins EXCEPT ![t] = 0]
       ELSE /\ spins' = [spins EXCEPT ![t] = @ + 1]
            /\ UNCHANGED cur_delay
    /\ Goto(t, "test")
    /\ UNCHANGED <<word, spins_per_delay, lock, tmp>>

----------------------------------------------------------------------------
(* finish_spin_delay, by a thread that has the lock. *)

NeverDelayed(t) == cur_delay[t] = 0

(* Nothing is written at the bound (lines 150 and 153).                    *)
FinishReads(t) ==
    /\ pc[t] = "finish"
    /\ Goto(t, IF \/ NeverDelayed(t) /\ spins_per_delay < MAX_SPINS_PER_DELAY
                  \/ ~NeverDelayed(t) /\ spins_per_delay > MIN_SPINS_PER_DELAY
               THEN "compare" ELSE "held")
    /\ UNCHANGED <<word, spins_per_delay, lock, status, tmp>>

(* The comparison in Min and in Max.                                       *)
Inside(t) ==
    IF NeverDelayed(t) THEN spins_per_delay + Raise < MAX_SPINS_PER_DELAY
    ELSE spins_per_delay - 1 > MIN_SPINS_PER_DELAY

Compare(t) ==
    /\ pc[t] = "compare"
    /\ IF Inside(t)
       THEN Goto(t, "take") /\ UNCHANGED tmp
       ELSE /\ Goto(t, "store")
            /\ tmp' = [tmp EXCEPT ![t] = IF NeverDelayed(t) THEN MAX_SPINS_PER_DELAY
                                         ELSE MIN_SPINS_PER_DELAY]
    /\ UNCHANGED <<word, spins_per_delay, lock, status>>

Take(t) ==
    /\ pc[t] = "take"
    /\ tmp' = [tmp EXCEPT ![t] = IF NeverDelayed(t) THEN spins_per_delay + Raise
                                 ELSE spins_per_delay - 1]
    /\ Goto(t, "store")
    /\ UNCHANGED <<word, spins_per_delay, lock, status>>

StoreEstimate(t) ==
    /\ pc[t] = "store"
    /\ spins_per_delay' = tmp[t]
    /\ Goto(t, "held")
    /\ UNCHANGED <<word, lock, status, tmp>>

----------------------------------------------------------------------------

(* A fault: the word keeps its value. *)
KeptLocked(l) == word

Unlocked(l) == [word EXCEPT ![l] = 0]

S_UNLOCK(t) ==
    /\ pc[t] = "held"
    /\ word' = Unlocked(lock[t])
    /\ Goto(t, "idle")
    /\ Fresh(t)
    /\ UNCHANGED <<spins_per_delay, lock>>

(* By a backend that starts, "while holding a spinlock" (line 161).        *)
set_spins_per_delay(t) ==
    /\ pc[t] = "held"
    /\ spins_per_delay' \in Estimates
    /\ UNCHANGED <<word, pc, lock, status, tmp>>

(* By a backend that exits: it returns the average, of natural numbers,    *)
(* rounded down, and changes nothing.                                      *)
update_spins_per_delay(shared) == (shared * (Weight - 1) + spins_per_delay) \div Weight

(* A thread that has begun to wait for a lock or has it goes on, and gives *)
(* the lock back.                                                          *)
Step(t) ==
    \/ TAS_SPIN(t) \/ Exchange(t) \/ perform_spin_delay(t)
    \/ FinishReads(t) \/ Compare(t) \/ Take(t) \/ StoreEstimate(t)
    \/ S_UNLOCK(t)

Next ==
    \E t \in Threads : S_LOCK(t) \/ set_spins_per_delay(t) \/ Step(t)

Spec == Init /\ [][Next]_vars

FairSpec == Spec /\ \A t \in Threads : WF_vars(Step(t))
=============================================================================
