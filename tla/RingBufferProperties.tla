------------------------ MODULE RingBufferProperties ------------------------
(***************************************************************************)
(* What is asked of RingBuffer.                                            *)
(***************************************************************************)
EXTENDS RingBuffer

(* The slots that hold a value nobody has read yet. *)
Unread == {k \in Slots : Dist(start, k) < NbFull}

(* The stretch of a call in which it owns its side: between LOCK and       *)
(* UNLOCK for the calls that have a lock.                                  *)
Inside(t) == pc[t] \notin {"idle", "early", "early_start", "early_end", "lock"}

(* At most one writer and one reader work on the buffer at a time, because *)
(* the spin lock is held even while its owner sleeps (lines 368-372).      *)
SideExclusion ==
    \A t, u \in Threads : Side(t) = Side(u) /\ Inside(t) /\ Inside(u) => t = u

(* A write "will not clobber old values" (lines 203, 221), and a read      *)
(* touches nothing but values that were written and not yet read: however  *)
(* the two sides interleave, a writer that is about to store points outside *)
(* the unread slots and a reader that is about to load points inside them. *)
SlotOwnership ==
    \A t \in Threads : Copying(t) => (pos[t] \in Unread <=> t \in Readers)

(* A call that is about to copy a value has a place for it in the values[]  *)
(* it was given, and so has the whole chunk it reserved (lines 246-257):   *)
(* it reads no value past the nb_buffers it was handed and stores none     *)
(* there.                                                                  *)
WithinValues(t) ==
    Copying(t) =>
        /\ i[t] < call[t].nb
        /\ ready[t] <= call[t].nb
        /\ t \in Writers => i[t] + 1 \in DOMAIN vals[t]

(* No wake-up is lost (lines 137-199).  The index is published without the *)
(* mutex that guards the condition, so a thread may be asleep, or about to *)
(* sleep, although it has something to do; then an opponent is still on    *)
(* its way to the broadcast that will wake it.                             *)
NoLostWakeup ==
    \A t \in Threads :
        pc[t] \in {"sleep", "asleep"} /\ ~Unavailable(t) =>
            \E u \in Opponents(t) : pc[u] \in {"notify", "broadcast"}

(* A call with min = 0 is "a non-blocking write" (line 265): it goes       *)
(* through the same wait_for_empty as a blocking one, but what it found    *)
(* available in its test is still available there, whatever the others do. *)
TryNeverWaits ==
    \A t \in Threads :
        call[t].min = 0 /\ pc[t] \in {"wait", "test", "sleep", "asleep", "woken"} =>
            ~Unavailable(t)
----------------------------------------------------------------------------
(* The buffer is a bounded FIFO queue for all its callers together.        *)

(* How many values of its call a thread has made others see: what it has   *)
(* copied in the current chunk does not count before it is published.      *)
Chunk(t)     == Dist(Own(t), pos[t])
Committed(t) == IF pc[t] = "copy" THEN i[t] - Chunk(t) ELSE i[t]

InCall(t) == pc[t] \notin {"idle", "unlock"}

Offered(w) ==
    IF InCall(w)
    THEN [open |-> TRUE, vals |-> vals[w], n |-> Committed(w), min |-> call[w].min]
    ELSE [open |-> FALSE, vals |-> <<>>, n |-> 0, min |-> 0]

Taken(r) ==
    IF InCall(r)
    THEN [open |-> TRUE, got |-> SubSeq(vals[r], 1, Committed(r)),
          nb |-> call[r].nb, min |-> call[r].min]
    ELSE [open |-> FALSE, got |-> <<>>, nb |-> 0, min |-> 0]

(* The k-th slot from slot a on, and the values from `start' up to `end'.  *)
SlotAt(a, k) == (a + k - 1) % Size

Queue  == [k \in 1 .. NbFull |-> elements[SlotAt(start, k)]]
Offers == [w \in Writers |-> Offered(w)]
Takes  == [r \in Readers |-> Taken(r)]

FIFO == INSTANCE BoundedFIFO WITH
    Capacity <- Size - 1, queue <- Queue, offer <- Offers, take <- Takes

(* Every step of the code is a step of the queue or invisible to it: values *)
(* come out once, in the order of the instants they went in, never more    *)
(* than the capacity is stored, a chunk appears as a whole, the chunks of  *)
(* a call that sleeps between them have no other call's values among them, *)
(* and a call returns only after it moved at least `min'.                  *)
ImplementsFIFO == FIFO!FIFOSpec
----------------------------------------------------------------------------

(* With one busy thread on each side every call returns: no waiter is left *)
(* behind, whatever wakes spuriously.                                      *)
EveryCallReturns == \A t \in Threads : pc[t] # "idle" ~> pc[t] = "idle"

(* With several busy threads on each side one of them may lose the spin    *)
(* lock for ever, but values keep flowing.                                 *)
DataFlows == []<><<start' # start>>_vars

----------------------------------------------------------------------------
(* The inductive invariant behind the safety properties.                   *)

Waiting(t)  == pc[t] \in {"wait", "test", "sleep", "asleep", "woken"}
Counting(t) == pc[t] \in {"count", "count_wrapped", "count_straight"}

(* A call in progress is one its side makes; its copies stay inside the    *)
(* values[] of the call; a single call never starts a second round.        *)
CallOK(t) ==
    /\ IF pc[t] = "idle"
       THEN call[t] = NoCall
       ELSE call[t] \in IF t \in Writers THEN WriterCalls ELSE ReaderCalls
    /\ i[t] <= call[t].nb
    /\ t \in Writers => Len(vals[t]) = call[t].nb
    /\ ~Inside(t) \/ pc[t] = "check" => i[t] = 0
    /\ Waiting(t) \/ Counting(t) \/ pc[t] \in {"copy", "notify", "broadcast", "loop"} =>
          call[t].min <= call[t].nb
    /\ Waiting(t) => i[t] = 0 \/ i[t] < call[t].nb
    /\ Counting(t) => call[t].bulk
    /\ pc[t] = "copy" => i[t] <= ready[t] /\ ready[t] <= call[t].nb

(* Who is inside with a lock holds it. *)
LockOK(t) == Inside(t) /\ call[t].locked => sideLock[Side(t)] = t

(* Who tests the condition or broadcasts holds the mutex, and nobody does  *)
(* either in polling mode.                                                 *)
MutexOK(t) ==
    /\ pc[t] \in {"test", "sleep"} => mutex[Side(t)] = t
    /\ pc[t] = "broadcast" => mutex[Other(Side(t))] = t
    /\ pc[t] \in {"test", "sleep", "asleep", "woken", "notify", "broadcast"} => Blocking

(* What a thread has copied in this chunk and is still going to copy is    *)
(* available; and the branch nb_empty or nb_full took is either still the  *)
(* right one, or the indices leave at least two slots.                     *)
WindowOK(t) ==
    /\ Counting(t) => ~Unavailable(t)
    /\ pc[t] = "count_wrapped" => IF t \in Writers THEN end + 3 <= Size ELSE end < start
    /\ pc[t] = "count_straight" => IF t \in Writers THEN start <= end ELSE start + 2 <= Size
    /\ pc[t] = "copy" => Dist(Own(t), pos[t]) + ready[t] - i[t] <= NbAvailable(t)

(* Only the calls that try look before they take the lock; and a chunk is  *)
(* never empty, unless the call asked for nothing.                         *)
MovesOK(t) ==
    /\ t \in Writers => vals[t] \in Seq(Values)
    /\ t \in Readers => Len(vals[t]) = i[t]
    /\ pc[t] \in {"early", "early_start", "early_end"} => call[t].min = 0
    /\ Counting(t) => i[t] = 0 \/ i[t] < call[t].nb
    /\ pc[t] = "copy" => ready[t] > 0 \/ call[t].nb = 0
    /\ pc[t] \in {"notify", "broadcast", "loop"} => i[t] > 0 \/ call[t].nb = 0

(* What a call has copied in this chunk is in the slots it has gone         *)
(* through, in order.                                                      *)
ChunkOK(t) ==
    pc[t] = "copy" =>
        /\ Chunk(t) <= i[t]
        /\ \A k \in 1 .. Chunk(t) :
              elements[SlotAt(Own(t), k)] = vals[t][i[t] - Chunk(t) + k]

(* Bulk calls of at most two values.  With more, nb_empty and nb_full can  *)
(* be wrong: see BulkKeepsOldValues.                                       *)
SmallBulk == \A c \in WriterCalls \cup ReaderCalls : c.nb <= 2

IndInv ==
    /\ TypeOK
    /\ \A t \in Threads : CallOK(t) /\ LockOK(t) /\ MutexOK(t)
    /\ SideExclusion
    /\ NoLostWakeup
    /\ SmallBulk => \A t \in Threads : WindowOK(t) /\ MovesOK(t) /\ ChunkOK(t)
    /\ SmallBulk => TryNeverWaits
----------------------------------------------------------------------------
(* A statement of a comment that the code does not keep. *)

(* write_bulk: "This will not clobber old values" (line 221), with bulk    *)
(* calls of more than two values.                                          *)
BulkKeepsOldValues ==
    \A w \in Writers : Copying(w) => pos[w] \notin Unread
=============================================================================
