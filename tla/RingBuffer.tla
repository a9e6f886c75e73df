----------------------------- MODULE RingBuffer -----------------------------
(***************************************************************************)
(* The concurrent ring buffer of ring_buffer.{h,c}, one step per shared    *)
(* access: zx_ringbuffer_{write, try_write, write_bulk, swrite, try_swrite,*)
(* try_swrite_bl, swrite_bulk} and their read counterparts, in both modes. *)
(*                                                                         *)
(* The write and the read functions are the same code with the roles of    *)
(* `start' and `end', of full and empty and of the two pairs of locks      *)
(* exchanged, so each action below is written once for a thread of either  *)
(* side.  A call is a record:                                              *)
(*                                                                         *)
(*   write, read               [locked F, bulk F, nb 1, min 1]             *)
(*   try_write, try_read       [locked F, bulk F, nb 1, min 0]             *)
(*   write_bulk, read_bulk     [locked F, bulk T, nb,   min  ]             *)
(*   swrite, sread             [locked T, bulk F, nb 1, min 1]             *)
(*   try_swrite, try_sread     [locked T, bulk F, nb 1, min 0]  (and _bl)  *)
(*   swrite_bulk, sread_bulk   [locked T, bulk T, nb,   min  ]             *)
(*                                                                         *)
(* USE_LOCK_TYPE is LOCK_TYPE_SPIN, as in the source: TRY_LOCK spins like  *)
(* LOCK, so try_swrite and try_swrite_bl are one function.  Memory is      *)
(* sequentially consistent: the indices are volatile, the code has no      *)
(* barrier of its own.                                                     *)
(***************************************************************************)
EXTENDS Integers, Sequences

CONSTANTS
    Writers,        \* the threads that call the write functions
    Readers,        \* the threads that call the read functions
    NoThread,       \* a lock that nobody holds
    Size,           \* rb->size: the size given to init, plus one
    Blocking,       \* rb->mode = zx_RINGBUFFER_BLOCKING
    Word,           \* size_t arithmetic is modulo Word
    Values,         \* what is stored
    Null,           \* what calloc leaves in a slot
    WriterCalls,    \* the calls the writers make
    ReaderCalls     \* the calls the readers make

Threads == Writers \cup Readers
Calls   == [locked : BOOLEAN, bulk : BOOLEAN, nb : Nat, min : Nat]
Sides   == {"w", "r"}
Slots   == 0 .. (Size - 1)

(* Init refuses a size below one (lines 45-47).  The functions without an  *)
(* `s' in their name assume "only one thread writing at once" (line 205).  *)
ASSUME RingAssumption ==
    /\ Size \in Nat /\ Size >= 2
    /\ Word \in Nat /\ Word >= 2 * Size
    /\ Blocking \in BOOLEAN
    /\ Writers \cap Readers = {}
    /\ NoThread \notin Threads
    /\ WriterCalls \subseteq Calls /\ ReaderCalls \subseteq Calls
    /\ \A c \in WriterCalls \cup ReaderCalls :
          /\ c.nb < Word /\ c.min < Word
          /\ ~c.bulk => c.nb = 1 /\ c.min \in {0, 1}
    /\ (\E c \in WriterCalls : ~c.locked) => \A t, u \in Writers : t = u
    /\ (\E c \in ReaderCalls : ~c.locked) => \A t, u \in Readers : t = u

VARIABLES
    start,          \* rb->start: the oldest unread slot
    end,            \* rb->end: the slot written next
    elements,       \* rb->elements
    sideLock,       \* who holds rb->swlock ("w") and rb->srlock ("r")
    mutex,          \* who holds rb->empty_lock, on which writers wait ("w"),
                    \*   and rb->full_lock, on which readers wait ("r")
    pc,             \* where each thread is in its call
    call,           \* the arguments of the call
    vals,           \* values[]: to be written, or read so far
    i,              \* the local i: how many values are copied
    ready,          \* the local nb_ready
    pos,            \* the local copy of the thread's own index
    seen            \* the index the early check read first

vars == <<start, end, elements, sideLock, mutex, pc, call, vals, i, ready,
          pos, seen>>
locals == <<call, vals, i, ready, pos, seen>>

----------------------------------------------------------------------------
(* The two sides. *)

Side(t)   == IF t \in Writers THEN "w" ELSE "r"
Other(s)  == IF s = "w" THEN "r" ELSE "w"
Opponents(t) == IF t \in Writers THEN Readers ELSE Writers

(* The index a thread advances, and the one its opponents advance.         *)
Own(t)     == IF t \in Writers THEN end ELSE start
Foreign(t) == IF t \in Writers THEN start ELSE end

(* (x + 1) % rb->size *)
Inc(x) == (x + 1) % Size

IsEmpty == start = end
IsFull  == start = Inc(end)

(* The wait condition of a thread: full for a writer, empty for a reader.  *)
Unavailable(t) == IF t \in Writers THEN IsFull ELSE IsEmpty

(* The number of slots from a up to b, going round. *)
Dist(a, b) == IF b < a THEN b + Size - a ELSE b - a

NbFull  == Dist(start, end)
NbEmpty == Size - 1 - NbFull
NbAvailable(t) == IF t \in Writers THEN NbEmpty ELSE NbFull

NoCall == [locked |-> FALSE, bulk |-> FALSE, nb |-> 0, min |-> 0]

SmallerOf(a, b) == IF a <= b THEN a ELSE b

----------------------------------------------------------------------------

(* zx_ringbuffer_init *)
Init ==
    /\ start = 0
    /\ end = 0
    /\ elements = [k \in Slots |-> Null]
    /\ sideLock = [s \in Sides |-> NoThread]
    /\ mutex = [s \in Sides |-> NoThread]
    /\ pc = [t \in Threads |-> "idle"]
    /\ call = [t \in Threads |-> NoCall]
    /\ vals = [t \in Threads |-> <<>>]
    /\ i = [t \in Threads |-> 0]
    /\ ready = [t \in Threads |-> 0]
    /\ pos = [t \in Threads |-> 0]
    /\ seen = [t \in Threads |-> 0]

Goto(t, label) == pc' = [pc EXCEPT ![t] = label]

(* Only the calls with a lock that may return empty-handed look at the     *)
(* buffer before they take the lock (USE_CHECK_EARLY).                     *)
Entry(c) == IF c.locked
            THEN IF c.min = 0 THEN "early" ELSE "lock"
            ELSE "check"

(* A thread enters one of the functions.  A reader's values[] fills up as  *)
(* it reads.                                                               *)
Call(t) ==
    /\ pc[t] = "idle"
    /\ \E c \in IF t \in Writers THEN WriterCalls ELSE ReaderCalls :
          /\ call' = [call EXCEPT ![t] = c]
          /\ \E v \in IF t \in Writers THEN [1 .. c.nb -> Values] ELSE {<<>>} :
                vals' = [vals EXCEPT ![t] = v]
          /\ Goto(t, Entry(c))
    /\ UNCHANGED <<start, end, elements, sideLock, mutex, i, ready, pos, seen>>

(* The call is over: what it held in locals is dead. *)
Forget(t) ==
    /\ call' = [call EXCEPT ![t] = NoCall]
    /\ vals' = [vals EXCEPT ![t] = <<>>]
    /\ i' = [i EXCEPT ![t] = 0]
    /\ ready' = [ready EXCEPT ![t] = 0]
    /\ pos' = [pos EXCEPT ![t] = 0]
    /\ seen' = [seen EXCEPT ![t] = 0]

(* The check before the lock reads the two indices one after the other,    *)
(* in an order C leaves open; both may move meanwhile.                     *)
EarlyFirst(t) ==
    /\ pc[t] = "early"
    /\ \/ Goto(t, "early_start") /\ seen' = [seen EXCEPT ![t] = start]
       \/ Goto(t, "early_end") /\ seen' = [seen EXCEPT ![t] = end]
    /\ UNCHANGED <<start, end, elements, sideLock, mutex, call, vals, i, ready, pos>>

EarlyStart(t) == IF pc[t] = "early_start" THEN seen[t] ELSE start
EarlyEnd(t)   == IF pc[t] = "early_start" THEN end ELSE seen[t]

(* A fault: the write functions test for empty, the read functions for full. *)
LooksSwapped(t) ==
    IF t \in Writers THEN EarlyStart(t) = EarlyEnd(t)
                     ELSE EarlyStart(t) = Inc(EarlyEnd(t))

LooksUnavailable(t) ==
    IF t \in Writers THEN EarlyStart(t) = Inc(EarlyEnd(t))
                     ELSE EarlyStart(t) = EarlyEnd(t)

(* Refused before the lock: return 0. *)
EarlyRefuse(t) ==
    /\ pc[t] \in {"early_start", "early_end"}
    /\ LooksUnavailable(t)
    /\ Goto(t, "idle")
    /\ Forget(t)
    /\ UNCHANGED <<start, end, elements, sideLock, mutex>>

EarlyPass(t) ==
    /\ pc[t] \in {"early_start", "early_end"}
    /\ ~LooksUnavailable(t)
    /\ Goto(t, "lock")
    /\ seen' = [seen EXCEPT ![t] = 0]
    /\ UNCHANGED <<start, end, elements, sideLock, mutex, call, vals, i, ready, pos>>

(* A fault: LOCK is compiled away, as ASSERT_RET is under NDEBUG. *)
SpinIgnored(t) == TRUE

SpinFree(t) == sideLock[Side(t)] = NoThread

(* LOCK and TRY_LOCK: pthread_spin_lock. *)
Lock(t) ==
    /\ pc[t] = "lock"
    /\ SpinFree(t)
    /\ sideLock' = [sideLock EXCEPT ![Side(t)] = t]
    /\ Goto(t, "check")
    /\ UNCHANGED <<start, end, elements, mutex, locals>>

(* A fault: the state seen before the lock is trusted. *)
RefusesWithoutRecheck(t) == call[t].min > call[t].nb

(* The tests at the head of try_write and write_bulk.  They fail and the   *)
(* call returns 0 or ~0U, through UNLOCK if it holds the lock.             *)
Refuses(t) ==
    \/ call[t].min > call[t].nb
    \/ call[t].min = 0 /\ Unavailable(t)

Check(t) ==
    /\ pc[t] = "check"
    /\ Goto(t, IF Refuses(t) THEN "unlock" ELSE "wait")
    /\ UNCHANGED <<start, end, elements, sideLock, mutex, locals>>
----------------------------------------------------------------------------
(* wait_for_empty and wait_for_full *)

(* Where a thread goes once there is something to do: a bulk call counts   *)
(* what is available, a single one goes for the next slot.                 *)
BeginChunk(t) ==
    IF call[t].bulk
    THEN /\ Goto(t, "count")
         /\ UNCHANGED <<ready, pos>>
    ELSE /\ Goto(t, "copy")
         /\ ready' = [ready EXCEPT ![t] = i[t] + 1]
         /\ pos' = [pos EXCEPT ![t] = Own(t)]

(* The polling loop: it gets past the first time the condition is clear.   *)
Poll(t) ==
    /\ pc[t] = "wait"
    /\ ~Blocking
    /\ ~Unavailable(t)
    /\ BeginChunk(t)
    /\ UNCHANGED <<start, end, elements, sideLock, mutex, call, vals, i, seen>>

(* A fault: the condition is tested or signalled without its mutex. *)
MutexIgnored(s) == TRUE

MutexFree(s) == mutex[s] = NoThread

(* pthread_mutex_lock, on the way in and inside pthread_cond_wait. *)
WaitLock(t) ==
    /\ \/ pc[t] = "wait" /\ Blocking
       \/ pc[t] = "woken"
    /\ MutexFree(Side(t))
    /\ mutex' = [mutex EXCEPT ![Side(t)] = t]
    /\ Goto(t, "test")
    /\ UNCHANGED <<start, end, elements, sideLock, locals>>

TestFails(t) ==
    /\ pc[t] = "test"
    /\ Unavailable(t)
    /\ Goto(t, "sleep")
    /\ UNCHANGED <<start, end, elements, sideLock, mutex, locals>>

TestPasses(t) ==
    /\ pc[t] = "test"
    /\ ~Unavailable(t)
    /\ mutex' = [mutex EXCEPT ![Side(t)] = NoThread]
    /\ BeginChunk(t)
    /\ UNCHANGED <<start, end, elements, sideLock, call, vals, i, seen>>

(* pthread_cond_wait releases the mutex and blocks in one step. *)
Sleep(t) ==
    /\ pc[t] = "sleep"
    /\ mutex' = [mutex EXCEPT ![Side(t)] = NoThread]
    /\ Goto(t, "asleep")
    /\ UNCHANGED <<start, end, elements, sideLock, locals>>

(* POSIX lets pthread_cond_wait return without a signal. *)
SpuriousWake(t) ==
    /\ pc[t] = "asleep"
    /\ Goto(t, "woken")
    /\ UNCHANGED <<start, end, elements, sideLock, mutex, locals>>
----------------------------------------------------------------------------
(* The body of the do loop of write_bulk and read_bulk; write and read are *)
(* the same with one value.                                                *)

(* zx_ringbuffer_nb_empty and nb_full compare the indices and then read    *)
(* the opponents' index again to compute the difference.                   *)
Count(t) ==
    /\ pc[t] = "count"
    /\ Goto(t, IF end < start THEN "count_wrapped" ELSE "count_straight")
    /\ UNCHANGED <<start, end, elements, sideLock, mutex, locals>>

(* A fault: the slot that tells a full buffer from an empty one is filled. *)
NbReadyWithLastSlot(t) ==
    LET size == IF (pc[t] = "count_wrapped") = (t \in Readers) THEN Size ELSE 0
    IN  IF t \in Writers THEN (start + size - end) % Word
                         ELSE (end + size - start) % Word

NbReady(t) ==
    LET size == IF (pc[t] = "count_wrapped") = (t \in Readers) THEN Size ELSE 0
    IN  IF t \in Writers THEN (start + size - end - 1) % Word
                         ELSE (end + size - start) % Word

(* nb_ready = MIN(nb_ready, nb_buffers - i) + i; end = rb->end *)
Reserve(t) ==
    /\ pc[t] \in {"count_wrapped", "count_straight"}
    /\ ready' = [ready EXCEPT ![t] = i[t] + SmallerOf(NbReady(t), call[t].nb - i[t])]
    /\ pos' = [pos EXCEPT ![t] = Own(t)]
    /\ Goto(t, "copy")
    /\ UNCHANGED <<start, end, elements, sideLock, mutex, call, vals, i, seen>>

Copying(t) == pc[t] = "copy" /\ i[t] < ready[t]

Advance(t) ==
    /\ i' = [i EXCEPT ![t] = @ + 1]
    /\ pos' = [pos EXCEPT ![t] = Inc(@)]
    /\ UNCHANGED <<start, end, sideLock, mutex, pc, call, ready, seen>>

Store(t) ==
    /\ t \in Writers
    /\ Copying(t)
    /\ elements' = [elements EXCEPT ![pos[t]] = vals[t][i[t] + 1]]
    /\ Advance(t)
    /\ UNCHANGED vals

Load(t) ==
    /\ t \in Readers
    /\ Copying(t)
    /\ vals' = [vals EXCEPT ![t] = Append(@, elements[pos[t]])]
    /\ Advance(t)
    /\ UNCHANGED elements

(* rb->end = end, rb->start = start: what was copied becomes visible. *)
Publish(t) ==
    /\ pc[t] = "copy"
    /\ i[t] >= ready[t]
    /\ IF t \in Writers THEN end' = pos[t] /\ UNCHANGED start
                        ELSE start' = pos[t] /\ UNCHANGED end
    /\ Goto(t, IF Blocking THEN "notify" ELSE "loop")
    /\ ready' = [ready EXCEPT ![t] = 0]
    /\ pos' = [pos EXCEPT ![t] = 0]
    /\ UNCHANGED <<elements, sideLock, mutex, call, vals, i, seen>>

(* notify_full and notify_empty *)
NotifyLock(t) ==
    /\ pc[t] = "notify"
    /\ MutexFree(Other(Side(t)))
    /\ mutex' = [mutex EXCEPT ![Other(Side(t))] = t]
    /\ Goto(t, "broadcast")
    /\ UNCHANGED <<start, end, elements, sideLock, locals>>

Broadcast(t) ==
    /\ pc[t] = "broadcast"
    /\ pc' = [u \in Threads |->
                IF u = t THEN "loop"
                ELSE IF u \in Opponents(t) /\ pc[u] = "asleep" THEN "woken"
                ELSE pc[u]]
    /\ mutex' = [mutex EXCEPT ![Other(Side(t))] = NoThread]
    /\ UNCHANGED <<start, end, elements, sideLock, locals>>

(* while (i < min_nb_buffers) *)
GoesRound(t) == i[t] < call[t].min

Loop(t) ==
    /\ pc[t] = "loop"
    /\ Goto(t, IF GoesRound(t) THEN "wait" ELSE "unlock")
    /\ UNCHANGED <<start, end, elements, sideLock, mutex, locals>>

(* A fault: a return path without UNLOCK. *)
UnlockForgotten(t) == sideLock

(* UNLOCK, if the call has a lock. *)
Unlocked(t) ==
    IF call[t].locked THEN [sideLock EXCEPT ![Side(t)] = NoThread] ELSE sideLock

Return(t) ==
    /\ pc[t] = "unlock"
    /\ sideLock' = Unlocked(t)
    /\ Goto(t, "idle")
    /\ Forget(t)
    /\ UNCHANGED <<start, end, elements, mutex>>
----------------------------------------------------------------------------

(* The steps a thread takes by itself once it has entered a function, the  *)
(* ones that take a lock apart.                                            *)
Run(t) ==
    \/ EarlyFirst(t) \/ EarlyRefuse(t) \/ EarlyPass(t)
    \/ Lock(t) \/ Check(t)
    \/ Poll(t) \/ TestFails(t) \/ TestPasses(t) \/ Sleep(t)
    \/ Count(t) \/ Reserve(t) \/ Store(t) \/ Load(t) \/ Publish(t)
    \/ Broadcast(t) \/ Loop(t) \/ Return(t)

TakeMutex(t) == WaitLock(t) \/ NotifyLock(t)

Next ==
    \E t \in Threads :
        \/ Call(t) \/ Run(t) \/ TakeMutex(t) \/ SpuriousWake(t)

Spec == Init /\ [][Next]_vars

(* The scheduler runs every thread that can run.  A mutex that is released *)
(* again and again is not withheld from one thread for ever; nothing like  *)
(* it is assumed of the spin locks, and nobody has to make a call.         *)
Fairness ==
    \A t \in Threads : WF_vars(Run(t)) /\ SF_vars(TakeMutex(t))

FairSpec == Spec /\ Fairness

(* As the drivers do, every thread starts a new call when one returns.     *)
BusySpec == FairSpec /\ \A t \in Threads : WF_vars(Call(t))
----------------------------------------------------------------------------

Labels == {"idle", "early", "early_start", "early_end", "lock", "check",
           "wait", "test", "sleep", "asleep", "woken", "count",
           "count_wrapped", "count_straight", "copy", "notify", "broadcast",
           "loop", "unlock"}

(* The variables stay in their types: in particular the indices address a  *)
(* slot.                                                                   *)
TypeOK ==
    /\ start \in Slots
    /\ end \in Slots
    /\ elements \in [Slots -> Values \cup {Null}]
    /\ sideLock \in [Sides -> Threads \cup {NoThread}]
    /\ mutex \in [Sides -> Threads \cup {NoThread}]
    /\ pc \in [Threads -> Labels]
    /\ call \in [Threads -> WriterCalls \cup ReaderCalls \cup {NoCall}]
    /\ vals \in [Threads -> Seq(Values \cup {Null})]
    /\ i \in [Threads -> Nat]
    /\ ready \in [Threads -> Nat]
    /\ pos \in [Threads -> Slots]
    /\ seen \in [Threads -> Slots]
=============================================================================
