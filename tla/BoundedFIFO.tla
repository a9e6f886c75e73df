---------------------------- MODULE BoundedFIFO ----------------------------
(***************************************************************************)
(* What the ring buffer of ring_buffer.{h,c} promises to its callers: a    *)
(* bounded first-in first-out queue that any number of producers and       *)
(* consumers use at once.  A call offers a list of values, or asks for up  *)
(* to `nb' of them; it moves its values in order, in one or more chunks.   *)
(* A chunk appears in the queue at one instant, and nobody else's values   *)
(* fall between the chunks of a call; the call returns once it has moved   *)
(* at least `min'.  Nothing here knows of indices, locks or condition      *)
(* variables: RingBuffer implements this module.                           *)
(***************************************************************************)
EXTENDS Naturals, Sequences

CONSTANTS
    Writers,        \* the threads that call the write functions
    Readers,        \* the threads that call the read functions
    Capacity,       \* how many values the queue holds
    Values          \* what is stored

VARIABLES
    queue,          \* the values stored and not yet read, oldest first
    offer,          \* per writer: what it wants to store, and how much is in
    take            \* per reader: what it has been given so far

fifoVars == <<queue, offer, take>>

NoOffer == [open |-> FALSE, vals |-> <<>>, n |-> 0, min |-> 0]
NoTake  == [open |-> FALSE, got |-> <<>>, nb |-> 0, min |-> 0]

FIFOInit ==
    /\ queue = <<>>
    /\ offer = [w \in Writers |-> NoOffer]
    /\ take = [r \in Readers |-> NoTake]

(* A producer calls with a list of values, at least `min' of which must be *)
(* stored before the call returns.                                         *)
Offer(w) ==
    /\ ~offer[w].open
    /\ \E vals \in {offer'[w].vals}, min \in {offer'[w].min} :
          /\ vals \in Seq(Values)
          /\ min \in Nat
          /\ offer' = [offer EXCEPT ![w] =
                [open |-> TRUE, vals |-> vals, n |-> 0, min |-> min]]
    /\ UNCHANGED <<queue, take>>

(* A consumer asks for at most `nb' values, and for at least `min'.        *)
Ask(r) ==
    /\ ~take[r].open
    /\ \E nb \in {take'[r].nb}, min \in {take'[r].min} :
          /\ nb \in Nat
          /\ min \in Nat
          /\ take' = [take EXCEPT ![r] =
                [open |-> TRUE, got |-> <<>>, nb |-> nb, min |-> min]]
    /\ UNCHANGED <<queue, offer>>

(* The next m values of the offer enter the queue together; there is room. *)
(* The chunks of one call stay together too: while a call is half in, no   *)
(* other writer's values come between.                                     *)
Put(w) ==
    /\ offer[w].open
    /\ \A v \in Writers : v # w => offer[v].n = 0
    /\ offer[w].min <= Len(offer[w].vals)
    /\ \E m \in 1 .. (Len(offer[w].vals) - offer[w].n) :
          /\ Len(queue) + m <= Capacity
          /\ queue' = queue \o SubSeq(offer[w].vals, offer[w].n + 1, offer[w].n + m)
          /\ offer' = [offer EXCEPT ![w].n = @ + m]
    /\ UNCHANGED take

(* The m oldest values leave the queue together, for one consumer; and     *)
(* what one call gets has no gap that went to another.                     *)
Take(r) ==
    /\ take[r].open
    /\ \A s \in Readers : s # r => take[s].got = <<>>
    /\ take[r].min <= take[r].nb
    /\ \E m \in 1 .. (take[r].nb - Len(take[r].got)) :
          /\ m <= Len(queue)
          /\ queue' = SubSeq(queue, m + 1, Len(queue))
          /\ take' = [take EXCEPT ![r].got = @ \o SubSeq(queue, 1, m)]
    /\ UNCHANGED offer

(* A call returns only when it has moved what it had to: at least `min',   *)
(* and at least one value unless it asked for none.                        *)
OfferDone(w) ==
    /\ offer[w].open
    /\ offer[w].n >= offer[w].min
    /\ offer[w].n > 0 \/ offer[w].vals = <<>>
    /\ offer' = [offer EXCEPT ![w] = NoOffer]
    /\ UNCHANGED <<queue, take>>

TakeDone(r) ==
    /\ take[r].open
    /\ Len(take[r].got) >= take[r].min
    /\ take[r].got # <<>> \/ take[r].nb = 0
    /\ take' = [take EXCEPT ![r] = NoTake]
    /\ UNCHANGED <<queue, offer>>

(* A call that has moved nothing may give up, if it demands more than it   *)
(* offers or is a try (min = 0).  Whether a try had a reason to give up is *)
(* a question RefusalHistory asks.                                         *)
OfferRefused(w) ==
    /\ offer[w].open
    /\ offer[w].n = 0
    /\ offer[w].min > Len(offer[w].vals) \/ offer[w].min = 0
    /\ offer' = [offer EXCEPT ![w] = NoOffer]
    /\ UNCHANGED <<queue, take>>

TakeRefused(r) ==
    /\ take[r].open
    /\ take[r].got = <<>>
    /\ take[r].min > take[r].nb \/ take[r].min = 0
    /\ take' = [take EXCEPT ![r] = NoTake]
    /\ UNCHANGED <<queue, offer>>

FIFONext ==
    \/ \E w \in Writers : Offer(w) \/ Put(w) \/ OfferDone(w) \/ OfferRefused(w)
    \/ \E r \in Readers : Ask(r) \/ Take(r) \/ TakeDone(r) \/ TakeRefused(r)

FIFOSpec == FIFOInit /\ [][FIFONext]_fifoVars
=============================================================================
