-------------------------- MODULE RingBufferProofs --------------------------
(***************************************************************************)
(* What holds of RingBuffer for any number of threads, any size and any    *)
(* calls: the proofs of the safety properties of RingBufferProperties and  *)
(* RefusalHistory, and that the ring buffer is the queue of BoundedFIFO    *)
(* for as long as no bulk call passes more than two values.                *)
(***************************************************************************)
EXTENDS RefusalHistory, Arithmetic, SequenceTheorems

----------------------------------------------------------------------------
(* Facts about the constants and the arithmetic of the indices.            *)

(* Advancing an index stays in the buffer, and wraps at its last slot.     *)
LEMMA IncFact ==
    ASSUME NEW x \in Slots
    PROVE  /\ Inc(x) \in Slots
           /\ Inc(x) = IF x = Size - 1 THEN 0 ELSE x + 1
  BY RingAssumption, SMT DEF Inc, Slots

(* The fields of the calls, and of no call, have their types. *)
LEMMA CallFields ==
    ASSUME NEW c \in WriterCalls \cup ReaderCalls \cup {NoCall}
    PROVE  /\ c.nb \in Nat
           /\ c.min \in Nat
           /\ c.locked \in BOOLEAN
           /\ c.bulk \in BOOLEAN
           /\ c # NoCall /\ ~c.bulk => c.nb = 1 /\ c.min \in {0, 1}
  <1>1. CASE c \in WriterCalls \cup ReaderCalls
    BY <1>1, RingAssumption, SMT DEF Calls
  <1>2. CASE c = NoCall
    BY <1>2 DEF NoCall
  <1> QED BY <1>1, <1>2

(* What nb_empty and nb_full return is a size_t. *)
LEMMA NbReadyType ==
    ASSUME NEW t \in Threads, start \in Slots, end \in Slots
    PROVE  NbReady(t) \in Nat
  <1>1. \A x \in Int : x % Word \in Nat
    BY RingAssumption, SMT
  <1> DEFINE size == IF (pc[t] = "count_wrapped") = (t \in Readers) THEN Size ELSE 0
  <1>2. size \in Int /\ start \in Int /\ end \in Int
    BY RingAssumption, SMT DEF Slots
  <1>3. start + size - end - 1 \in Int /\ end + size - start \in Int
    BY <1>2, SMT
  <1> QED BY <1>1, <1>3 DEF NbReady

----------------------------------------------------------------------------
(* Type correctness.  That a thread copies within the values[] of its call *)
(* is part of the induction.                                               *)

Typed == TypeOK /\ \A t \in Threads : CallOK(t)

LEMMA TypedInit == Init => Typed
  <1> SUFFICES ASSUME Init PROVE Typed
    OBVIOUS
  <1> USE RingAssumption DEF Init
  <1>1. TypeOK
    BY SMT DEF TypeOK, Slots, Labels
  <1>2. ASSUME NEW t \in Threads PROVE CallOK(t)
    <2>1. pc[t] = "idle" /\ call[t] = NoCall /\ i[t] = 0 /\ vals[t] = <<>>
      OBVIOUS
    <2>2. NoCall.nb = 0 /\ Len(vals[t]) = 0
      BY <2>1 DEF NoCall
    <2> HIDE DEF Init
    <2> QED BY <2>1, <2>2, SMT DEF CallOK, Inside, Waiting, Counting
  <1> QED BY <1>1, <1>2 DEF Typed
(* Every action preserves the types and the bounds of the calls. *)
LEMMA TypedStep == Typed /\ [Next]_vars => Typed'
  <1> SUFFICES ASSUME Typed, [Next]_vars PROVE Typed'
    OBVIOUS
  <1> USE DEF TypeOK, Goto, Labels, locals
  <1>types. TypeOK
    BY DEF Typed
  <1>calls. \A u \in Threads : CallOK(u)
    BY DEF Typed
  <1>sides. /\ \A t \in Threads : Side(t) \in Sides /\ Other(Side(t)) \in Sides
           /\ \A t \in Readers : t \notin Writers
    BY RingAssumption DEF Side, Other, Sides
  <1>slots. /\ 0 \in Slots
           /\ \A x \in Slots : Inc(x) \in Slots
           /\ \A t \in Threads : Own(t) \in Slots
    BY <1>types, IncFact, RingAssumption, SMT DEF Slots, Own
  <1>ready. \A t \in Threads : NbReady(t) \in Nat
    BY <1>types, NbReadyType
  <1>fields. /\ \A t \in Threads : /\ call[t].nb \in Nat
                                    /\ call[t].min \in Nat
                                    /\ call[t].bulk \in BOOLEAN
            /\ NoCall.nb = 0
    BY <1>types, CallFields DEF NoCall
  <1>single. \A c \in WriterCalls \cup ReaderCalls : ~c.bulk => c.nb = 1
    BY RingAssumption
  <1>1. ASSUME NEW t \in Threads, Call(t) PROVE Typed'
    <2>0. PICK c \in IF t \in Writers THEN WriterCalls ELSE ReaderCalls :
            /\ call' = [call EXCEPT ![t] = c]
            /\ \E v \in IF t \in Writers THEN [1 .. c.nb -> Values] ELSE {<<>>} :
                  vals' = [vals EXCEPT ![t] = v]
            /\ Goto(t, Entry(c))
      BY <1>1 DEF Call
    <2>1. PICK v \in IF t \in Writers THEN [1 .. c.nb -> Values] ELSE {<<>>} :
            vals' = [vals EXCEPT ![t] = v]
      BY <2>0
    <2>2. c.nb \in Nat /\ c \in WriterCalls \cup ReaderCalls
      BY CallFields
    <2>3. v \in Seq(Values \cup {Null}) /\ (t \in Writers => Len(v) = c.nb)
      <3>1. CASE t \in Writers
        <4>1. v \in [1 .. c.nb -> Values \cup {Null}]
          BY <3>1, SMT
        <4> QED BY <3>1, <4>1, <2>2, SMT
      <3>2. CASE t \notin Writers
        BY <3>2
      <3> QED BY <3>1, <3>2
    <2>4. TypeOK'
      BY <1>types, <1>1, <2>0, <2>1, <2>2, <2>3, SMT DEF Call, Entry
    <2>5. ASSUME NEW u \in Threads PROVE CallOK(u)'
      BY <1>types, <1>calls, <1>1, <2>0, <2>1, <2>2, <2>3, SMT
      DEF Call, Entry, CallOK, Inside, Waiting, Counting
    <2> QED BY <2>4, <2>5 DEF Typed
  <1>2. ASSUME NEW t \in Threads, EarlyFirst(t) PROVE Typed'
    <2>1. /\ seen' \in [Threads -> Slots]
          /\ pc' \in [Threads -> Labels]
      BY <1>types, <1>2, ZenonT(40) DEF EarlyFirst
    <2>2. TypeOK'
      BY <1>types, <1>2, <2>1 DEF EarlyFirst
    <2>3. ASSUME NEW u \in Threads PROVE CallOK(u)'
      BY <1>types, <1>calls, <1>2, SMT DEF EarlyFirst, CallOK, Inside, Waiting, Counting
    <2> QED BY <2>2, <2>3 DEF Typed
  <1>3. ASSUME NEW t \in Threads, EarlyRefuse(t) PROVE Typed'
    <2>1. TypeOK'
      BY <1>types, <1>sides, <1>slots, <1>3, SMT DEF EarlyRefuse, Forget
    <2>2. ASSUME NEW u \in Threads PROVE CallOK(u)'
      BY <1>types, <1>calls, <1>fields, <1>3, SMT
      DEF EarlyRefuse, Forget, CallOK, Inside, Waiting, Counting
    <2> QED BY <2>1, <2>2 DEF Typed
  <1>4. ASSUME NEW t \in Threads, EarlyPass(t) PROVE Typed'
    <2>1. TypeOK'
      BY <1>types, <1>sides, <1>slots, <1>4, SMT DEF EarlyPass
    <2>2. ASSUME NEW u \in Threads PROVE CallOK(u)'
      BY <1>types, <1>calls, <1>fields, <1>4, SMT
      DEF EarlyPass, CallOK, Inside, Waiting, Counting
    <2> QED BY <2>1, <2>2 DEF Typed
  <1>5. ASSUME NEW t \in Threads, Lock(t) PROVE Typed'
    <2>1. TypeOK'
      BY <1>types, <1>sides, <1>slots, <1>5, SMT DEF Lock
    <2>2. ASSUME NEW u \in Threads PROVE CallOK(u)'
      BY <1>types, <1>calls, <1>fields, <1>5, SMT
      DEF Lock, CallOK, Inside, Waiting, Counting
    <2> QED BY <2>1, <2>2 DEF Typed
  <1>6. ASSUME NEW t \in Threads, Check(t) PROVE Typed'
    <2>1. TypeOK'
      BY <1>types, <1>sides, <1>slots, <1>6, SMT DEF Check, Refuses
    <2>2. ASSUME NEW u \in Threads PROVE CallOK(u)'
      BY <1>types, <1>calls, <1>fields, <1>6, SMT
      DEF Check, Refuses, CallOK, Inside, Waiting, Counting
    <2> QED BY <2>1, <2>2 DEF Typed
  <1>7. ASSUME NEW t \in Threads, Poll(t) PROVE Typed'
    <2>1. CASE call[t].bulk
      <3>1. TypeOK'
        <4>1. pc' \in [Threads -> Labels] /\ UNCHANGED <<ready, pos>>
          BY <1>types, <1>7, <2>1 DEF Poll, BeginChunk
        <4> QED BY <1>types, <1>sides, <1>7, <4>1, SMT DEF Poll
      <3>2. ASSUME NEW u \in Threads PROVE CallOK(u)'
        BY <1>types, <1>calls, <1>fields, <1>7, <2>1, SMT
        DEF Poll, BeginChunk, CallOK, Inside, Waiting, Counting
      <3> QED BY <3>1, <3>2 DEF Typed
    <2>2. CASE ~call[t].bulk
      <3>1. TypeOK'
        <4>1. i[t] + 1 \in Nat
          BY <1>types, SMT
        <4>2. /\ pc' = [pc EXCEPT ![t] = "copy"]
              /\ ready' = [ready EXCEPT ![t] = i[t] + 1]
              /\ pos' = [pos EXCEPT ![t] = Own(t)]
          BY <1>7, <2>2, Zenon DEF Poll, BeginChunk
        <4>3. pc' \in [Threads -> Labels]
          BY <1>types, <4>2, SMT
        <4>4. Own(t) \in Slots
          BY <1>slots
        <4>5. ready' \in [Threads -> Nat]
          BY <1>types, <4>1, <4>2, Zenon
        <4>6. pos' \in [Threads -> Slots]
          BY <1>types, <4>4, <4>2, Zenon
        <4> QED BY <1>types, <1>sides, <1>7, <4>2, <4>3, <4>5, <4>6, SMT DEF Poll
      <3>2. i[t] = 0 /\ call[t].nb = 1
        BY <1>types, <1>calls, <1>fields, <1>single, <1>7, <2>2, SMT
        DEF Poll, CallOK, Waiting
      <3>3. ASSUME NEW u \in Threads PROVE CallOK(u)'
        BY <1>types, <1>calls, <1>fields, <1>7, <2>2, <3>2, SMT
        DEF Poll, BeginChunk, CallOK, Inside, Waiting, Counting
      <3> QED BY <3>1, <3>3 DEF Typed
    <2> QED BY <2>1, <2>2
  <1>8. ASSUME NEW t \in Threads, TestFails(t) PROVE Typed'
    <2>1. TypeOK'
      BY <1>types, <1>sides, <1>slots, <1>8, SMT DEF TestFails
    <2>2. ASSUME NEW u \in Threads PROVE CallOK(u)'
      BY <1>types, <1>calls, <1>fields, <1>8, SMT
      DEF TestFails, CallOK, Inside, Waiting, Counting
    <2> QED BY <2>1, <2>2 DEF Typed
  <1>9. ASSUME NEW t \in Threads, TestPasses(t) PROVE Typed'
    <2>1. CASE call[t].bulk
      <3>1. TypeOK'
        <4>1. pc' \in [Threads -> Labels] /\ UNCHANGED <<ready, pos>>
          BY <1>types, <1>9, <2>1 DEF TestPasses, BeginChunk
        <4> QED BY <1>types, <1>sides, <1>9, <4>1, SMT DEF TestPasses
      <3>2. ASSUME NEW u \in Threads PROVE CallOK(u)'
        BY <1>types, <1>calls, <1>fields, <1>9, <2>1, SMT
        DEF TestPasses, BeginChunk, CallOK, Inside, Waiting, Counting
      <3> QED BY <3>1, <3>2 DEF Typed
    <2>2. CASE ~call[t].bulk
      <3>1. TypeOK'
        <4>1. i[t] + 1 \in Nat
          BY <1>types, SMT
        <4>2. /\ pc' = [pc EXCEPT ![t] = "copy"]
              /\ ready' = [ready EXCEPT ![t] = i[t] + 1]
              /\ pos' = [pos EXCEPT ![t] = Own(t)]
          BY <1>9, <2>2, Zenon DEF TestPasses, BeginChunk
        <4>3. pc' \in [Threads -> Labels]
          BY <1>types, <4>2, SMT
        <4>4. Own(t) \in Slots
          BY <1>slots
        <4>5. ready' \in [Threads -> Nat]
          BY <1>types, <4>1, <4>2, Zenon
        <4>6. pos' \in [Threads -> Slots]
          BY <1>types, <4>4, <4>2, Zenon
        <4> QED BY <1>types, <1>sides, <1>9, <4>2, <4>3, <4>5, <4>6, SMT DEF TestPasses
      <3>2. i[t] = 0 /\ call[t].nb = 1
        BY <1>types, <1>calls, <1>fields, <1>single, <1>9, <2>2, SMT
        DEF TestPasses, CallOK, Waiting
      <3>3. ASSUME NEW u \in Threads PROVE CallOK(u)'
        BY <1>types, <1>calls, <1>fields, <1>9, <2>2, <3>2, SMT
        DEF TestPasses, BeginChunk, CallOK, Inside, Waiting, Counting
      <3> QED BY <3>1, <3>3 DEF Typed
    <2> QED BY <2>1, <2>2
  <1>10. ASSUME NEW t \in Threads, Sleep(t) PROVE Typed'
    <2>1. TypeOK'
      BY <1>types, <1>sides, <1>slots, <1>10, SMT DEF Sleep
    <2>2. ASSUME NEW u \in Threads PROVE CallOK(u)'
      BY <1>types, <1>calls, <1>fields, <1>10, SMT
      DEF Sleep, CallOK, Inside, Waiting, Counting
    <2> QED BY <2>1, <2>2 DEF Typed
  <1>11. ASSUME NEW t \in Threads, Count(t) PROVE Typed'
    <2>1. TypeOK'
      BY <1>types, <1>sides, <1>slots, <1>11, SMT DEF Count
    <2>2. ASSUME NEW u \in Threads PROVE CallOK(u)'
      BY <1>types, <1>calls, <1>fields, <1>11, SMT
      DEF Count, CallOK, Inside, Waiting, Counting
    <2> QED BY <2>1, <2>2 DEF Typed
  <1>12. ASSUME NEW t \in Threads, Reserve(t) PROVE Typed'
    <2>1. /\ i[t] + SmallerOf(NbReady(t), call[t].nb - i[t]) \in Nat
          /\ i[t] <= i[t] + SmallerOf(NbReady(t), call[t].nb - i[t])
          /\ i[t] + SmallerOf(NbReady(t), call[t].nb - i[t]) <= call[t].nb
      BY <1>types, <1>calls, <1>ready, <1>fields, SMT DEF SmallerOf, CallOK
    <2>2. TypeOK'
      <3>1. /\ pc' \in [Threads -> Labels]
            /\ ready' \in [Threads -> Nat]
            /\ pos' \in [Threads -> Slots]
        BY <1>types, <1>slots, <1>12, <2>1 DEF Reserve
      <3> QED BY <1>types, <1>12, <3>1 DEF Reserve
    <2>3. ASSUME NEW u \in Threads PROVE CallOK(u)'
      BY <1>types, <1>calls, <1>fields, <1>12, <2>1, SMT
      DEF Reserve, CallOK, Inside, Waiting, Counting
    <2> QED BY <2>2, <2>3 DEF Typed
  <1>13. ASSUME NEW t \in Threads, Store(t) PROVE Typed'
    <2>1. vals[t][i[t] + 1] \in Values \cup {Null}
      <3>1. vals[t] \in Seq(Values \cup {Null}) /\ i[t] + 1 \in 1 .. Len(vals[t])
        <4>1. /\ i[t] < ready[t]
              /\ ready[t] <= call[t].nb
              /\ Len(vals[t]) = call[t].nb
          BY <1>calls, <1>13 DEF Store, Copying, CallOK
        <4>2. i[t] \in Nat /\ ready[t] \in Nat /\ vals[t] \in Seq(Values \cup {Null})
          BY <1>types
        <4> QED BY <1>fields, <4>1, <4>2, SMT
      <3> QED BY <3>1, SMT
    <2>2. TypeOK'
      BY <1>types, <1>slots, <1>13, <2>1, SMT DEF Store, Copying, Advance
    <2>3. ASSUME NEW u \in Threads PROVE CallOK(u)'
      BY <1>types, <1>calls, <1>fields, <1>13, SMT
      DEF Store, Copying, Advance, CallOK, Inside, Waiting, Counting
    <2> QED BY <2>2, <2>3 DEF Typed
  <1>14. ASSUME NEW t \in Threads, Load(t) PROVE Typed'
    <2>1. TypeOK'
      BY <1>types, <1>slots, <1>14, SMT DEF Load, Copying, Advance
    <2>2. ASSUME NEW u \in Threads PROVE CallOK(u)'
      <3>1. u \in Writers => vals'[u] = vals[u]
        BY <1>types, <1>sides, <1>14 DEF Load
      <3> QED BY <1>types, <1>calls, <1>fields, <1>14, <3>1, SMT
          DEF Load, Copying, Advance, CallOK, Inside, Waiting, Counting
    <2> QED BY <2>1, <2>2 DEF Typed
  <1>15. ASSUME NEW t \in Threads, Publish(t) PROVE Typed'
    <2>1. TypeOK'
      BY <1>types, <1>sides, <1>slots, <1>15, SMT DEF Publish
    <2>2. ASSUME NEW u \in Threads PROVE CallOK(u)'
      BY <1>types, <1>calls, <1>fields, <1>15, SMT
      DEF Publish, CallOK, Inside, Waiting, Counting
    <2> QED BY <2>1, <2>2 DEF Typed
  <1>16. ASSUME NEW t \in Threads, Broadcast(t) PROVE Typed'
    <2>1. TypeOK'
      BY <1>types, <1>sides, <1>slots, <1>16, SMT DEF Broadcast
    <2>2. ASSUME NEW u \in Threads PROVE CallOK(u)'
      BY <1>types, <1>calls, <1>fields, <1>16, SMT
      DEF Broadcast, CallOK, Inside, Waiting, Counting
    <2> QED BY <2>1, <2>2 DEF Typed
  <1>17. ASSUME NEW t \in Threads, Loop(t) PROVE Typed'
    <2>1. TypeOK'
      BY <1>types, <1>sides, <1>slots, <1>17, SMT DEF Loop, GoesRound
    <2>2. ASSUME NEW u \in Threads PROVE CallOK(u)'
      BY <1>types, <1>calls, <1>fields, <1>17, SMT
      DEF Loop, GoesRound, CallOK, Inside, Waiting, Counting
    <2> QED BY <2>1, <2>2 DEF Typed
  <1>18. ASSUME NEW t \in Threads, Return(t) PROVE Typed'
    <2>1. TypeOK'
      BY <1>types, <1>sides, <1>slots, <1>18, SMT DEF Return, Forget, Unlocked
    <2>2. ASSUME NEW u \in Threads PROVE CallOK(u)'
      BY <1>types, <1>calls, <1>fields, <1>18, SMT
      DEF Return, Forget, Unlocked, CallOK, Inside, Waiting, Counting
    <2> QED BY <2>1, <2>2 DEF Typed
  <1>19. ASSUME NEW t \in Threads, WaitLock(t) PROVE Typed'
    <2>1. TypeOK'
      BY <1>types, <1>sides, <1>slots, <1>19, SMT DEF WaitLock
    <2>2. ASSUME NEW u \in Threads PROVE CallOK(u)'
      BY <1>types, <1>calls, <1>fields, <1>19, SMT
      DEF WaitLock, CallOK, Inside, Waiting, Counting
    <2> QED BY <2>1, <2>2 DEF Typed
  <1>20. ASSUME NEW t \in Threads, NotifyLock(t) PROVE Typed'
    <2>1. TypeOK'
      BY <1>types, <1>sides, <1>slots, <1>20, SMT DEF NotifyLock
    <2>2. ASSUME NEW u \in Threads PROVE CallOK(u)'
      BY <1>types, <1>calls, <1>fields, <1>20, SMT
      DEF NotifyLock, CallOK, Inside, Waiting, Counting
    <2> QED BY <2>1, <2>2 DEF Typed
  <1>21. ASSUME NEW t \in Threads, SpuriousWake(t) PROVE Typed'
    <2>1. TypeOK'
      BY <1>types, <1>sides, <1>slots, <1>21, SMT DEF SpuriousWake
    <2>2. ASSUME NEW u \in Threads PROVE CallOK(u)'
      BY <1>types, <1>calls, <1>fields, <1>21, SMT
      DEF SpuriousWake, CallOK, Inside, Waiting, Counting
    <2> QED BY <2>1, <2>2 DEF Typed
  <1>22. CASE UNCHANGED vars
    BY <1>types, <1>calls, <1>22 DEF Typed, CallOK, Inside, Waiting, Counting, vars
  <1> QED
    BY <1>1, <1>2, <1>3, <1>4, <1>5, <1>6, <1>7, <1>8, <1>9, <1>10, <1>11,
       <1>12, <1>13, <1>14, <1>15, <1>16, <1>17, <1>18, <1>19, <1>20, <1>21, <1>22
    DEF Next, Run, TakeMutex

(* An index always addresses a slot, and no call copies past the values[]  *)
(* it was given.                                                           *)
THEOREM TypeCorrect == Spec => [](TypeOK /\ \A t \in Threads : WithinValues(t))
  <1>1. Typed => TypeOK /\ \A t \in Threads : WithinValues(t)
    <2> SUFFICES ASSUME Typed, NEW t \in Threads, Copying(t) PROVE WithinValues(t)
      BY DEF Typed, WithinValues
    <2>1. CallOK(t) /\ pc[t] = "copy" /\ i[t] \in Nat /\ ready[t] \in Nat /\ i[t] < ready[t]
      BY DEF Typed, TypeOK, Copying
    <2>2. call[t] \in WriterCalls \cup ReaderCalls
      BY <2>1 DEF CallOK
    <2>3. call[t].nb \in Nat /\ ready[t] <= call[t].nb
      BY <2>1, <2>2, RingAssumption DEF CallOK, Calls
    <2>4. ASSUME t \in Writers PROVE i[t] + 1 \in DOMAIN vals[t]
      <3>1. vals[t] \in Seq(Values \cup {Null}) /\ Len(vals[t]) = call[t].nb
        BY <2>1, <2>4 DEF Typed, TypeOK, CallOK
      <3> QED BY <2>1, <2>3, <3>1
    <2> QED BY <2>1, <2>3, <2>4 DEF WithinValues
  <1> QED BY TypedInit, TypedStep, <1>1, PTL DEF Spec
----------------------------------------------------------------------------
(* Locks and wake-ups.  Holding the lock of a side makes a thread the only *)
(* one to move its index, so that only an opponent can end its wait; the   *)
(* mutex keeps the opponent's broadcast out of the gap between the test    *)
(* and the sleep.                                                          *)

Safe ==
    /\ Typed
    /\ \A t \in Threads : LockOK(t) /\ MutexOK(t)
    /\ NoLostWakeup

LEMMA SafeInit == Init => Safe
  <1> SUFFICES ASSUME Init PROVE Safe
    OBVIOUS
  <1>1. \A t \in Threads : pc[t] = "idle"
    BY DEF Init
  <1>2. Typed
    BY TypedInit
  <1> QED BY <1>1, <1>2 DEF Safe, LockOK, MutexOK, Inside, NoLostWakeup

(* The threads inside hold the lock of their side, or are alone on it. *)
LEMMA SafeExclusion == Typed /\ (\A t \in Threads : LockOK(t)) => SideExclusion
  <1> SUFFICES ASSUME Typed, \A t \in Threads : LockOK(t),
                      NEW t \in Threads, NEW u \in Threads,
                      Side(t) = Side(u), Inside(t), Inside(u)
               PROVE  t = u
    BY DEF SideExclusion
  <1>1. /\ call[t] \in IF t \in Writers THEN WriterCalls ELSE ReaderCalls
        /\ call[u] \in IF u \in Writers THEN WriterCalls ELSE ReaderCalls
    BY DEF Typed, CallOK, Inside
  <1>2. t \in Writers <=> u \in Writers
    BY DEF Side
  <1>3. CASE call[t].locked /\ call[u].locked
    BY <1>3 DEF LockOK
  <1>4. CASE ~call[t].locked \/ ~call[u].locked
    BY <1>1, <1>2, <1>4, RingAssumption DEF Threads
  <1> QED BY <1>3, <1>4

(* Every action preserves what the threads know of locks and wake-ups. *)
LEMMA SafeStep == Safe /\ Typed' /\ [Next]_vars => Safe'
  <1> SUFFICES ASSUME Safe, Typed', [Next]_vars PROVE Safe'
    OBVIOUS
  <1> USE DEF Goto, locals
  <1>types. TypeOK
    BY DEF Safe, Typed
  <1>locks. \A u \in Threads : LockOK(u) /\ MutexOK(u)
    BY DEF Safe
  <1>excl. SideExclusion
    BY SafeExclusion DEF Safe
  <1>wake. NoLostWakeup
    BY DEF Safe
  <1>fun. /\ pc \in [Threads -> Labels]
         /\ call \in [Threads -> WriterCalls \cup ReaderCalls \cup {NoCall}]
         /\ sideLock \in [Sides -> Threads \cup {NoThread}]
         /\ mutex \in [Sides -> Threads \cup {NoThread}]
    BY <1>types DEF TypeOK
  <1>sides. \A t \in Threads : /\ Side(t) \in Sides
                               /\ Other(Side(t)) \in Sides
                               /\ Side(t) # Other(Side(t))
    BY DEF Side, Other, Sides
  <1>opp. ASSUME NEW t \in Threads, NEW u \in Threads
          PROVE  /\ u \in Opponents(t) <=> Other(Side(t)) = Side(u)
                 /\ u \in Opponents(t) <=> Side(u) # Side(t)
    <2>1. u \in Writers <=> u \notin Readers
      BY RingAssumption DEF Threads
    <2>2. t \in Writers <=> t \notin Readers
      BY RingAssumption DEF Threads
    <2> QED BY <2>1, <2>2 DEF Opponents, Side, Other
  <1>others. /\ \A t \in Threads : Opponents(t) \subseteq Threads
            /\ NoThread \notin Threads
    BY RingAssumption DEF Opponents, Threads
  <1> DEFINE Sleepy(u) == pc[u] \in {"sleep", "asleep"} /\ ~Unavailable(u)
             Waker(u) == \E w \in Opponents(u) : pc[w] \in {"notify", "broadcast"}
  <1>1. ASSUME NEW t \in Threads, Call(t) PROVE Safe'
    <2>1. ASSUME NEW u \in Threads PROVE LockOK(u)'
      BY <1>fun, <1>sides, <1>locks, <1>1 DEF Call, Entry, LockOK, Inside
    <2>2. ASSUME NEW u \in Threads PROVE MutexOK(u)'
      BY <1>fun, <1>sides, <1>opp, <1>locks, <1>1 DEF Call, Entry, MutexOK
    <2>3. NoLostWakeup'
      BY <1>fun, <1>wake, <1>1 DEF Call, Entry, NoLostWakeup, Unavailable, IsEmpty, IsFull
    <2> QED BY <2>1, <2>2, <2>3 DEF Safe
  <1>2. ASSUME NEW t \in Threads, EarlyFirst(t) PROVE Safe'
    <2>1. ASSUME NEW u \in Threads PROVE LockOK(u)'
      BY <1>fun, <1>sides, <1>locks, <1>2 DEF EarlyFirst, LockOK, Inside
    <2>2. ASSUME NEW u \in Threads PROVE MutexOK(u)'
      BY <1>fun, <1>sides, <1>opp, <1>locks, <1>2 DEF EarlyFirst, MutexOK
    <2>3. NoLostWakeup'
      <3>1. UNCHANGED <<start, end>> /\ \E l \in {"early_start", "early_end"} : Goto(t, l)
        BY <1>2 DEF EarlyFirst
      <3> QED BY <1>fun, <1>wake, <1>2, <3>1
          DEF EarlyFirst, NoLostWakeup, Unavailable, IsEmpty, IsFull
    <2> QED BY <2>1, <2>2, <2>3 DEF Safe
  <1>3. ASSUME NEW t \in Threads, EarlyRefuse(t) PROVE Safe'
    <2>1. ASSUME NEW u \in Threads PROVE LockOK(u)'
      BY <1>fun, <1>sides, <1>locks, <1>3 DEF EarlyRefuse, Forget, LockOK, Inside
    <2>2. ASSUME NEW u \in Threads PROVE MutexOK(u)'
      BY <1>fun, <1>sides, <1>opp, <1>locks, <1>3 DEF EarlyRefuse, Forget, MutexOK
    <2>3. NoLostWakeup'
      BY <1>fun, <1>wake, <1>3 DEF EarlyRefuse, Forget, NoLostWakeup, Unavailable, IsEmpty, IsFull
    <2> QED BY <2>1, <2>2, <2>3 DEF Safe
  <1>4. ASSUME NEW t \in Threads, EarlyPass(t) PROVE Safe'
    <2>1. ASSUME NEW u \in Threads PROVE LockOK(u)'
      BY <1>fun, <1>sides, <1>locks, <1>4 DEF EarlyPass, LockOK, Inside
    <2>2. ASSUME NEW u \in Threads PROVE MutexOK(u)'
      BY <1>fun, <1>sides, <1>opp, <1>locks, <1>4 DEF EarlyPass, MutexOK
    <2>3. NoLostWakeup'
      BY <1>fun, <1>wake, <1>4 DEF EarlyPass, NoLostWakeup, Unavailable, IsEmpty, IsFull
    <2> QED BY <2>1, <2>2, <2>3 DEF Safe
  <1>5. ASSUME NEW t \in Threads, Lock(t) PROVE Safe'
    <2>1. ASSUME NEW u \in Threads PROVE LockOK(u)'
      <3>1. CASE u = t
        BY <1>fun, <1>sides, <1>5, <3>1 DEF Lock, LockOK
      <3>2. CASE u # t /\ Side(u) = Side(t)
        <4>1. ~(Inside(u) /\ call[u].locked)
          BY <1>locks, <1>others, <1>5, <3>2 DEF Lock, SpinFree, LockOK
        <4> QED BY <1>fun, <1>5, <3>2, <4>1 DEF Lock, LockOK, Inside
      <3>3. CASE u # t /\ Side(u) # Side(t)
        BY <1>fun, <1>locks, <1>sides, <1>5, <3>3 DEF Lock, LockOK, Inside
      <3> QED BY <3>1, <3>2, <3>3
    <2>2. ASSUME NEW u \in Threads PROVE MutexOK(u)'
      BY <1>fun, <1>sides, <1>opp, <1>locks, <1>5 DEF Lock, SpinFree, MutexOK
    <2>3. NoLostWakeup'
      BY <1>fun, <1>wake, <1>5 DEF Lock, SpinFree, NoLostWakeup, Unavailable, IsEmpty, IsFull
    <2> QED BY <2>1, <2>2, <2>3 DEF Safe
  <1>6. ASSUME NEW t \in Threads, Check(t) PROVE Safe'
    <2>1. ASSUME NEW u \in Threads PROVE LockOK(u)'
      BY <1>fun, <1>sides, <1>locks, <1>6 DEF Check, LockOK, Inside
    <2>2. ASSUME NEW u \in Threads PROVE MutexOK(u)'
      BY <1>fun, <1>sides, <1>opp, <1>locks, <1>6 DEF Check, MutexOK
    <2>3. NoLostWakeup'
      BY <1>fun, <1>wake, <1>6 DEF Check, NoLostWakeup, Unavailable, IsEmpty, IsFull
    <2> QED BY <2>1, <2>2, <2>3 DEF Safe
  <1>7. ASSUME NEW t \in Threads, Poll(t) PROVE Safe'
    <2>1. ASSUME NEW u \in Threads PROVE LockOK(u)'
      BY <1>fun, <1>sides, <1>locks, <1>7 DEF Poll, BeginChunk, LockOK, Inside
    <2>2. ASSUME NEW u \in Threads PROVE MutexOK(u)'
      BY <1>fun, <1>sides, <1>opp, <1>locks, <1>7 DEF Poll, BeginChunk, MutexOK
    <2>3. NoLostWakeup'
      <3>1. UNCHANGED <<start, end>> /\ \E l \in {"count", "copy"} : Goto(t, l)
        BY <1>7 DEF Poll, BeginChunk
      <3> QED BY <1>fun, <1>wake, <1>7, <3>1
          DEF Poll, NoLostWakeup, Unavailable, IsEmpty, IsFull
    <2> QED BY <2>1, <2>2, <2>3 DEF Safe
  <1>8. ASSUME NEW t \in Threads, TestFails(t) PROVE Safe'
    <2>1. ASSUME NEW u \in Threads PROVE LockOK(u)'
      BY <1>fun, <1>sides, <1>locks, <1>8 DEF TestFails, LockOK, Inside
    <2>2. ASSUME NEW u \in Threads PROVE MutexOK(u)'
      BY <1>fun, <1>sides, <1>opp, <1>locks, <1>8 DEF TestFails, MutexOK
    <2>3. NoLostWakeup'
      BY <1>fun, <1>wake, <1>8 DEF TestFails, NoLostWakeup, Unavailable, IsEmpty, IsFull
    <2> QED BY <2>1, <2>2, <2>3 DEF Safe
  <1>9. ASSUME NEW t \in Threads, TestPasses(t) PROVE Safe'
    <2>1. ASSUME NEW u \in Threads PROVE LockOK(u)'
      BY <1>fun, <1>sides, <1>locks, <1>9 DEF TestPasses, BeginChunk, LockOK, Inside
    <2>2. ASSUME NEW u \in Threads PROVE MutexOK(u)'
      BY <1>fun, <1>sides, <1>opp, <1>locks, <1>9 DEF TestPasses, BeginChunk, MutexOK
    <2>3. NoLostWakeup'
      <3>1. UNCHANGED <<start, end>> /\ \E l \in {"count", "copy"} : Goto(t, l)
        BY <1>9 DEF TestPasses, BeginChunk
      <3> QED BY <1>fun, <1>wake, <1>9, <3>1
          DEF TestPasses, NoLostWakeup, Unavailable, IsEmpty, IsFull
    <2> QED BY <2>1, <2>2, <2>3 DEF Safe
  <1>10. ASSUME NEW t \in Threads, Sleep(t) PROVE Safe'
    <2>1. ASSUME NEW u \in Threads PROVE LockOK(u)'
      BY <1>fun, <1>sides, <1>locks, <1>10 DEF Sleep, LockOK, Inside
    <2>2. ASSUME NEW u \in Threads PROVE MutexOK(u)'
      BY <1>fun, <1>sides, <1>opp, <1>locks, <1>10 DEF Sleep, MutexOK
    <2>3. NoLostWakeup'
      BY <1>fun, <1>wake, <1>10 DEF Sleep, NoLostWakeup, Unavailable, IsEmpty, IsFull
    <2> QED BY <2>1, <2>2, <2>3 DEF Safe
  <1>11. ASSUME NEW t \in Threads, Count(t) PROVE Safe'
    <2>1. ASSUME NEW u \in Threads PROVE LockOK(u)'
      BY <1>fun, <1>sides, <1>locks, <1>11 DEF Count, LockOK, Inside
    <2>2. ASSUME NEW u \in Threads PROVE MutexOK(u)'
      BY <1>fun, <1>sides, <1>opp, <1>locks, <1>11 DEF Count, MutexOK
    <2>3. NoLostWakeup'
      BY <1>fun, <1>wake, <1>11 DEF Count, NoLostWakeup, Unavailable, IsEmpty, IsFull
    <2> QED BY <2>1, <2>2, <2>3 DEF Safe
  <1>12. ASSUME NEW t \in Threads, Reserve(t) PROVE Safe'
    <2>1. ASSUME NEW u \in Threads PROVE LockOK(u)'
      BY <1>fun, <1>sides, <1>locks, <1>12 DEF Reserve, LockOK, Inside
    <2>2. ASSUME NEW u \in Threads PROVE MutexOK(u)'
      BY <1>fun, <1>sides, <1>opp, <1>locks, <1>12 DEF Reserve, MutexOK
    <2>3. NoLostWakeup'
      BY <1>fun, <1>wake, <1>12 DEF Reserve, NoLostWakeup, Unavailable, IsEmpty, IsFull
    <2> QED BY <2>1, <2>2, <2>3 DEF Safe
  <1>13. ASSUME NEW t \in Threads, Store(t) PROVE Safe'
    <2>1. ASSUME NEW u \in Threads PROVE LockOK(u)'
      BY <1>fun, <1>sides, <1>locks, <1>13 DEF Store, Advance, Copying, LockOK, Inside
    <2>2. ASSUME NEW u \in Threads PROVE MutexOK(u)'
      BY <1>fun, <1>sides, <1>opp, <1>locks, <1>13 DEF Store, Advance, Copying, MutexOK
    <2>3. NoLostWakeup'
      BY <1>fun, <1>wake, <1>13 DEF Store, Advance, Copying, NoLostWakeup, Unavailable, IsEmpty, IsFull
    <2> QED BY <2>1, <2>2, <2>3 DEF Safe
  <1>14. ASSUME NEW t \in Threads, Load(t) PROVE Safe'
    <2>1. ASSUME NEW u \in Threads PROVE LockOK(u)'
      BY <1>fun, <1>sides, <1>locks, <1>14 DEF Load, Advance, Copying, LockOK, Inside
    <2>2. ASSUME NEW u \in Threads PROVE MutexOK(u)'
      BY <1>fun, <1>sides, <1>opp, <1>locks, <1>14 DEF Load, Advance, Copying, MutexOK
    <2>3. NoLostWakeup'
      BY <1>fun, <1>wake, <1>14 DEF Load, Advance, Copying, NoLostWakeup, Unavailable, IsEmpty, IsFull
    <2> QED BY <2>1, <2>2, <2>3 DEF Safe
  <1>15. ASSUME NEW t \in Threads, Publish(t) PROVE Safe'
    <2>1. ASSUME NEW u \in Threads PROVE LockOK(u)'
      BY <1>fun, <1>sides, <1>locks, <1>15 DEF Publish, LockOK, Inside
    <2>2. ASSUME NEW u \in Threads PROVE MutexOK(u)'
      BY <1>fun, <1>sides, <1>opp, <1>locks, <1>15 DEF Publish, MutexOK
    <2>3. ASSUME NEW u \in Threads, Sleepy(u)' PROVE Waker(u)'
      <3>1. u # t /\ pc'[u] = pc[u] /\ pc[u] \in {"sleep", "asleep"}
        BY <1>fun, <1>15, <2>3 DEF Publish
      <3>2. t \in Opponents(u)
        BY <1>excl, <1>opp, <1>15, <3>1 DEF SideExclusion, Inside, Publish
      <3>3. pc'[t] = "notify"
        BY <1>fun, <1>locks, <1>15, <3>1 DEF MutexOK, Publish
      <3> QED BY <3>2, <3>3
    <2> QED BY <2>1, <2>2, <2>3 DEF Safe, NoLostWakeup
  <1>16. ASSUME NEW t \in Threads, Broadcast(t) PROVE Safe'
    <2>1. ASSUME NEW u \in Threads PROVE LockOK(u)'
      BY <1>fun, <1>sides, <1>locks, <1>16 DEF Broadcast, LockOK, Inside
    <2>2. ASSUME NEW u \in Threads PROVE MutexOK(u)'
      BY <1>fun, <1>sides, <1>opp, <1>locks, <1>16 DEF Broadcast, MutexOK
    <2>3. ASSUME NEW u \in Threads, Sleepy(u)' PROVE Waker(u)'
      <3>1. u # t /\ pc'[u] = pc[u] /\ Sleepy(u)
        BY <1>fun, <1>16, <2>3 DEF Broadcast, Unavailable, IsEmpty, IsFull
      <3>2. u \notin Opponents(t)
        <4>1. ASSUME u \in Opponents(t) PROVE FALSE
          <5>1. pc[u] = "sleep"
            BY <1>fun, <1>16, <3>1, <4>1 DEF Broadcast
          <5>2. mutex[Side(u)] = u /\ mutex[Side(u)] = t
            BY <1>locks, <1>opp, <1>16, <4>1, <5>1 DEF MutexOK, Broadcast
          <5> QED BY <3>1, <5>2
        <4> QED BY <4>1
      <3>3. PICK w \in Opponents(u) : pc[w] \in {"notify", "broadcast"}
        BY <1>wake, <3>1 DEF NoLostWakeup
      <3>4. w \in Threads /\ w # t
        BY <1>opp, <1>others, <3>2, <3>3
      <3>5. pc'[w] = pc[w]
        BY <1>fun, <1>16, <3>3, <3>4 DEF Broadcast
      <3> QED BY <3>3, <3>5
    <2> QED BY <2>1, <2>2, <2>3 DEF Safe, NoLostWakeup
  <1>17. ASSUME NEW t \in Threads, Loop(t) PROVE Safe'
    <2>1. ASSUME NEW u \in Threads PROVE LockOK(u)'
      BY <1>fun, <1>sides, <1>locks, <1>17 DEF Loop, GoesRound, LockOK, Inside
    <2>2. ASSUME NEW u \in Threads PROVE MutexOK(u)'
      BY <1>fun, <1>sides, <1>opp, <1>locks, <1>17 DEF Loop, GoesRound, MutexOK
    <2>3. NoLostWakeup'
      BY <1>fun, <1>wake, <1>17 DEF Loop, GoesRound, NoLostWakeup, Unavailable, IsEmpty, IsFull
    <2> QED BY <2>1, <2>2, <2>3 DEF Safe
  <1>18. ASSUME NEW t \in Threads, Return(t) PROVE Safe'
    <2>1. ASSUME NEW u \in Threads PROVE LockOK(u)'
      BY <1>fun, <1>sides, <1>locks, <1>18 DEF Return, Forget, Unlocked, LockOK, Inside
    <2>2. ASSUME NEW u \in Threads PROVE MutexOK(u)'
      BY <1>fun, <1>sides, <1>opp, <1>locks, <1>18 DEF Return, Forget, Unlocked, MutexOK
    <2>3. NoLostWakeup'
      BY <1>fun, <1>wake, <1>18 DEF Return, Forget, Unlocked, NoLostWakeup, Unavailable, IsEmpty, IsFull
    <2> QED BY <2>1, <2>2, <2>3 DEF Safe
  <1>19. ASSUME NEW t \in Threads, WaitLock(t) PROVE Safe'
    <2>1. ASSUME NEW u \in Threads PROVE LockOK(u)'
      BY <1>fun, <1>sides, <1>locks, <1>19 DEF WaitLock, MutexFree, LockOK, Inside
    <2>2. ASSUME NEW u \in Threads PROVE MutexOK(u)'
      <3>1. CASE u = t
        BY <1>fun, <1>sides, <1>locks, <1>19, <3>1 DEF WaitLock, MutexOK
      <3>2. CASE u # t
        <4>1. /\ pc'[u] = pc[u]
              /\ \A s \in Sides : mutex[s] = u => mutex'[s] = u
          BY <1>fun, <1>others, <1>19, <3>2 DEF WaitLock, MutexFree
        <4> QED BY <1>sides, <1>locks, <3>2, <4>1 DEF MutexOK
      <3> QED BY <3>1, <3>2
    <2>3. NoLostWakeup'
      BY <1>fun, <1>wake, <1>19 DEF WaitLock, MutexFree, NoLostWakeup, Unavailable, IsEmpty, IsFull
    <2> QED BY <2>1, <2>2, <2>3 DEF Safe
  <1>20. ASSUME NEW t \in Threads, NotifyLock(t) PROVE Safe'
    <2>1. ASSUME NEW u \in Threads PROVE LockOK(u)'
      BY <1>fun, <1>sides, <1>locks, <1>20 DEF NotifyLock, MutexFree, LockOK, Inside
    <2>2. ASSUME NEW u \in Threads PROVE MutexOK(u)'
      <3>1. CASE u = t
        BY <1>fun, <1>sides, <1>locks, <1>20, <3>1 DEF NotifyLock, MutexOK
      <3>2. CASE u # t
        <4>1. /\ pc'[u] = pc[u]
              /\ \A s \in Sides : mutex[s] = u => mutex'[s] = u
          BY <1>fun, <1>others, <1>20, <3>2 DEF NotifyLock, MutexFree
        <4> QED BY <1>sides, <1>locks, <3>2, <4>1 DEF MutexOK
      <3> QED BY <3>1, <3>2
    <2>3. NoLostWakeup'
      BY <1>fun, <1>wake, <1>20 DEF NotifyLock, MutexFree, NoLostWakeup, Unavailable, IsEmpty, IsFull
    <2> QED BY <2>1, <2>2, <2>3 DEF Safe
  <1>21. ASSUME NEW t \in Threads, SpuriousWake(t) PROVE Safe'
    <2>1. ASSUME NEW u \in Threads PROVE LockOK(u)'
      BY <1>fun, <1>sides, <1>locks, <1>21 DEF SpuriousWake, LockOK, Inside
    <2>2. ASSUME NEW u \in Threads PROVE MutexOK(u)'
      BY <1>fun, <1>sides, <1>opp, <1>locks, <1>21 DEF SpuriousWake, MutexOK
    <2>3. NoLostWakeup'
      BY <1>fun, <1>wake, <1>21 DEF SpuriousWake, NoLostWakeup, Unavailable, IsEmpty, IsFull
    <2> QED BY <2>1, <2>2, <2>3 DEF Safe
  <1>22. CASE UNCHANGED vars
    BY <1>22 DEF Safe, LockOK, MutexOK, Inside, vars, NoLostWakeup, Unavailable, IsEmpty, IsFull
  <1> QED
    BY <1>1, <1>2, <1>3, <1>4, <1>5, <1>6, <1>7, <1>8, <1>9, <1>10, <1>11,
       <1>12, <1>13, <1>14, <1>15, <1>16, <1>17, <1>18, <1>19, <1>20, <1>21, <1>22
    DEF Next, Run, TakeMutex

(* The locks and wake-ups in one invariant. *)
THEOREM SafeInvariant == Spec => []Safe
  <1>1. Safe /\ [Next]_vars => Safe'
    BY TypedStep, SafeStep DEF Safe
  <1> QED BY SafeInit, <1>1, PTL DEF Spec

(* At most one writer and one reader are at work on the buffer at a time.  *)
THEOREM Exclusion == Spec => []SideExclusion
  <1>1. Safe => SideExclusion
    BY SafeExclusion DEF Safe
  <1> QED BY SafeInvariant, <1>1, PTL

(* A thread that sleeps although it has something to do is about to be     *)
(* woken: no interleaving of publishing, testing and broadcasting, and no  *)
(* spurious wake-up, loses a wake-up.                                      *)
THEOREM NoWakeupLost == Spec => []NoLostWakeup
  <1>1. Safe => NoLostWakeup
    BY DEF Safe
  <1> QED BY SafeInvariant, <1>1, PTL
----------------------------------------------------------------------------
(* The windows.  What a thread has copied and is going to copy is          *)
(* available to it, and opponents can only make more available.            *)

(* Distances around the ring. *)
LEMMA DistFacts ==
    ASSUME NEW a \in Slots, NEW b \in Slots, NEW c \in Slots
    PROVE  /\ Dist(a, b) \in 0 .. (Size - 1)
           /\ Dist(a, a) = 0
           /\ Dist(a, c) <= Dist(a, b) => Dist(c, b) = Dist(a, b) - Dist(a, c)
           /\ Dist(a, b) + Dist(b, c) < Size => Dist(a, c) = Dist(a, b) + Dist(b, c)
           /\ Dist(a, b) + 1 < Size => Dist(a, Inc(b)) = Dist(a, b) + 1
           /\ a = b <=> Dist(a, b) = 0
           /\ a = Inc(b) <=> Dist(a, b) = Size - 1
  <1>1. Inc(b) = IF b = Size - 1 THEN 0 ELSE b + 1
    BY IncFact
  <1> QED BY <1>1, RingAssumption, SMT DEF Dist, Slots

(* A thread has to wait exactly when nothing is available to it. *)
LEMMA AvailableFact ==
    ASSUME start \in Slots, end \in Slots, NEW t \in Threads
    PROVE  /\ NbAvailable(t) \in 0 .. (Size - 1)
           /\ Unavailable(t) <=> NbAvailable(t) = 0
  <1>1. /\ Dist(start, end) \in 0 .. (Size - 1)
        /\ start = end <=> Dist(start, end) = 0
        /\ start = Inc(end) <=> Dist(start, end) = Size - 1
    BY DistFacts
  <1> QED BY <1>1, RingAssumption, SMT
      DEF NbAvailable, NbEmpty, NbFull, Unavailable, IsEmpty, IsFull

(* What a call of at most two values reserves is available, even when the  *)
(* opponents' index has wrapped between the two times it was read.         *)
LEMMA ReserveFact ==
    ASSUME TypeOK, NEW t \in Threads, WindowOK(t), CallOK(t), call[t].nb <= 2,
           pc[t] \in {"count_wrapped", "count_straight"}
    PROVE  SmallerOf(NbReady(t), call[t].nb - i[t]) <= NbAvailable(t)
  <1>1. /\ start \in 0 .. (Size - 1) /\ end \in 0 .. (Size - 1)
        /\ i[t] \in Nat /\ call[t].nb \in Nat
        /\ Size \in Nat /\ Size >= 2 /\ Word \in Nat /\ Word >= 2 * Size
    BY CallFields, RingAssumption DEF TypeOK, Slots
  <1>2. \A x \in Nat : x < Word => x % Word = x
    BY <1>1, SMT
  <1>3. NbReady(t) \in Nat
    BY NbReadyType DEF TypeOK
  <1>4. CASE t \in Writers
    <2>1. NbAvailable(t) = IF end < start THEN start - end - 1 ELSE start + Size - end - 1
      BY <1>1, <1>4, SMT DEF NbAvailable, NbEmpty, NbFull, Dist
    <2>2. t \notin Readers
      BY <1>4, RingAssumption
    <2>3. CASE pc[t] = "count_wrapped"
      <3>1. end + 3 <= Size
        BY <1>4, <2>3 DEF WindowOK
      <3>2. NbReady(t) = (start - end - 1) % Word
        <4>1. NbReady(t) = (start + 0 - end - 1) % Word
          BY <1>4, <2>2, <2>3 DEF NbReady
        <4> QED BY <1>1, <4>1, SMT
      <3>3. CASE end < start
        BY <1>1, <1>2, <2>1, <3>2, <3>3, SMT DEF SmallerOf
      <3>4. CASE ~(end < start)
        <4>1. NbAvailable(t) >= 2
          BY <1>1, <2>1, <3>1, <3>4, SMT
        <4> QED BY <1>1, <1>3, <2>1, <4>1, SMT DEF SmallerOf
      <3> QED BY <3>3, <3>4
    <2>4. CASE pc[t] = "count_straight"
      <3>1. start <= end
        BY <1>4, <2>4 DEF WindowOK
      <3>2. NbReady(t) = (start + Size - end - 1) % Word
        BY <1>4, <2>2, <2>4 DEF NbReady
      <3> QED BY <1>1, <1>2, <2>1, <3>1, <3>2, SMT DEF SmallerOf
    <2> QED BY <2>3, <2>4
  <1>5. CASE t \in Readers
    <2>1. t \notin Writers
      BY <1>5, RingAssumption
    <2>2. NbAvailable(t) = IF end < start THEN end + Size - start ELSE end - start
      BY <1>1, <2>1 DEF NbAvailable, NbFull, Dist
    <2>3. CASE pc[t] = "count_wrapped"
      <3>1. end < start
        BY <2>1, <2>3 DEF WindowOK
      <3>2. NbReady(t) = (end + Size - start) % Word
        BY <1>5, <2>1, <2>3 DEF NbReady
      <3> QED BY <1>1, <1>2, <2>2, <3>1, <3>2, SMT DEF SmallerOf
    <2>4. CASE pc[t] = "count_straight"
      <3>1. start + 2 <= Size
        BY <2>1, <2>4 DEF WindowOK
      <3>2. NbReady(t) = (end - start) % Word
        <4>1. NbReady(t) = (end + 0 - start) % Word
          BY <1>5, <2>1, <2>4 DEF NbReady
        <4> QED BY <1>1, <4>1, SMT
      <3>3. CASE start <= end
        BY <1>1, <1>2, <2>2, <3>2, <3>3, SMT DEF SmallerOf
      <3>4. CASE ~(start <= end)
        <4>1. NbAvailable(t) >= 2
          BY <1>1, <2>2, <3>1, <3>4, SMT
        <4> QED BY <1>1, <1>3, <2>2, <4>1, SMT DEF SmallerOf
      <3> QED BY <3>3, <3>4
    <2> QED BY <2>3, <2>4
  <1> QED BY <1>4, <1>5 DEF Threads

(* Publishing leaves the opponents' index alone and gives them the slots   *)
(* copied; the branch an opponent took in its count stays usable.          *)
LEMMA PublishFact ==
    ASSUME TypeOK, TypeOK', NEW t \in Threads, Publish(t), WindowOK(t), CallOK(t),
           NEW u \in Opponents(t), WindowOK(u)
    PROVE  /\ Own(u)' = Own(u)
           /\ NbAvailable(u)' >= NbAvailable(u)
           /\ pc[u] = "count_wrapped" =>
                IF u \in Writers THEN end' + 3 <= Size ELSE end' < start'
           /\ pc[u] = "count_straight" =>
                IF u \in Writers THEN start' <= end' ELSE start' + 2 <= Size
  <1>1. /\ start \in Slots /\ end \in Slots /\ pos[t] \in Slots
        /\ i[t] \in Nat /\ ready[t] \in Nat
        /\ Size \in Nat /\ Size >= 2
    BY RingAssumption DEF TypeOK
  <1>2. pc[t] = "copy" /\ i[t] <= ready[t]
    BY DEF Publish, CallOK
  <1>3. Dist(Own(t), pos[t]) + ready[t] - i[t] <= NbAvailable(t)
    BY <1>2 DEF WindowOK
  <1>4. CASE t \in Writers
    <2>1. u \in Readers /\ u \notin Writers
      BY <1>4, RingAssumption DEF Opponents
    <2>2. end' = pos[t] /\ start' = start
      BY <1>4 DEF Publish
    <2>3. Dist(end, pos[t]) <= Size - 1 - Dist(start, end)
      <3>1. Dist(end, pos[t]) \in Int /\ Dist(start, end) \in Int
        BY <1>1, DistFacts, SMT
      <3>2. Dist(end, pos[t]) + ready[t] - i[t] <= Size - 1 - Dist(start, end)
        BY <1>3, <1>4 DEF Own, NbAvailable, NbEmpty, NbFull
      <3> QED BY <1>1, <1>2, <3>1, <3>2, SMT
    <2>4. NbAvailable(u)' >= NbAvailable(u)
      <3>1. Dist(start, pos[t]) >= Dist(start, end)
        BY <1>1, <2>3, SMT DEF Dist, Slots
      <3>2. NbAvailable(u) = Dist(start, end)
        BY <2>1 DEF NbAvailable, NbFull
      <3>3. NbAvailable(u)' = Dist(start, pos[t])
        BY <2>1, <2>2 DEF NbAvailable, NbFull, Dist
      <3> QED BY <3>1, <3>2, <3>3
    <2>5. end < start => pos[t] < start
      BY <1>1, <2>3, SMT DEF Dist, Slots
    <2> QED BY <2>1, <2>2, <2>4, <2>5 DEF Own, WindowOK
  <1>5. CASE t \in Readers
    <2>1. u \in Writers /\ t \notin Writers
      BY <1>5, RingAssumption DEF Opponents
    <2>2. start' = pos[t] /\ end' = end
      BY <2>1 DEF Publish
    <2>3. Dist(start, pos[t]) <= Dist(start, end)
      <3>1. Dist(start, pos[t]) \in Int /\ Dist(start, end) \in Int
        BY <1>1, DistFacts, SMT
      <3>2. Dist(start, pos[t]) + ready[t] - i[t] <= Dist(start, end)
        BY <1>3, <2>1 DEF Own, NbAvailable, NbFull
      <3> QED BY <1>1, <1>2, <3>1, <3>2, SMT
    <2>4. NbAvailable(u)' >= NbAvailable(u)
      <3>1. Dist(pos[t], end) <= Dist(start, end) /\ Dist(pos[t], end) \in Int /\ Dist(start, end) \in Int
        BY <1>1, <2>3, SMT DEF Dist, Slots
      <3>2. NbAvailable(u) = Size - 1 - Dist(start, end)
        BY <2>1 DEF NbAvailable, NbEmpty, NbFull
      <3>3. NbAvailable(u)' = Size - 1 - Dist(pos[t], end)
        BY <2>1, <2>2 DEF NbAvailable, NbEmpty, NbFull, Dist
      <3> QED BY <1>1, <3>1, <3>2, <3>3, SMT
    <2>5. start <= end => pos[t] <= end
      BY <1>1, <2>3, SMT DEF Dist, Slots
    <2> QED BY <2>1, <2>2, <2>4, <2>5 DEF Own, WindowOK
  <1> QED BY <1>4, <1>5 DEF Threads

(* The part of the invariant that needs the bound on the bulk calls. *)
Windows == Safe /\ (\A t \in Threads : WindowOK(t)) /\ TryNeverWaits

(* Every action keeps the windows of all threads inside what they own.     *)
LEMMA WindowsStep == SmallBulk /\ Windows /\ Safe' /\ [Next]_vars => Windows'
  <1> SUFFICES ASSUME SmallBulk, Windows, Safe', [Next]_vars PROVE Windows'
    OBVIOUS
  <1> USE DEF Goto, locals
  <1> DEFINE TryOK(u) == call[u].min = 0 /\ Waiting(u) => ~Unavailable(u)
  <1>types. TypeOK /\ TypeOK'
    BY DEF Windows, Safe, Typed
  <1>calls. \A u \in Threads : CallOK(u)
    BY DEF Windows, Safe, Typed
  <1>windows. \A u \in Threads : WindowOK(u)
    BY DEF Windows
  <1>try. \A u \in Threads : TryOK(u)
    BY DEF Windows, TryNeverWaits, Waiting
  <1>small. \A u \in Threads : call[u].nb \in Nat /\ call[u].min \in Nat /\ call[u].nb <= 2
    BY <1>types, CallFields DEF TypeOK, SmallBulk, NoCall
  <1>fun. /\ pc \in [Threads -> Labels]
         /\ call \in [Threads -> WriterCalls \cup ReaderCalls \cup {NoCall}]
         /\ i \in [Threads -> Nat] /\ ready \in [Threads -> Nat]
         /\ pos \in [Threads -> Slots]
         /\ start \in Slots /\ end \in Slots
    BY <1>types DEF TypeOK
  <1>goal. SUFFICES ASSUME NEW u \in Threads PROVE WindowOK(u)' /\ TryOK(u)'
    BY DEF Windows, TryNeverWaits, Waiting
  <1>avail. NbAvailable(u) \in 0 .. (Size - 1) /\ (Unavailable(u) <=> NbAvailable(u) = 0)
    BY <1>fun, AvailableFact
  <1>availNext. NbAvailable(u)' \in 0 .. (Size - 1) /\ (Unavailable(u)' <=> NbAvailable(u)' = 0)
    <2>1. start' \in Slots /\ end' \in Slots
      BY <1>types DEF TypeOK
    <2>2. /\ Dist(start', end') \in 0 .. (Size - 1)
          /\ start' = end' <=> Dist(start', end') = 0
          /\ start' = Inc(end') <=> Dist(start', end') = Size - 1
      BY <2>1, DistFacts
    <2> QED BY <2>2, RingAssumption, SMT
        DEF NbAvailable, NbEmpty, NbFull, Unavailable, IsEmpty, IsFull, Dist, Inc
  <1>excl. SideExclusion
    BY SafeExclusion DEF Windows, Safe
  <1>own. Own(u) \in Slots /\ Dist(Own(u), Own(u)) = 0
    BY <1>fun, DistFacts DEF Own
  <1>same. ASSUME UNCHANGED <<start, end>>
           PROVE  /\ Unavailable(u)' = Unavailable(u)
                  /\ NbAvailable(u)' = NbAvailable(u)
                  /\ Own(u)' = Own(u)
                  /\ \A x, y \in Slots : Dist(x, y)' = Dist(x, y)
    BY <1>same DEF Unavailable, IsEmpty, IsFull, NbAvailable, NbEmpty, NbFull, Own, Dist
  <1>frame. ASSUME UNCHANGED <<start, end, pc[u], call[u], i[u], ready[u], pos[u]>>
            PROVE  WindowOK(u)' /\ TryOK(u)'
    BY <1>windows, <1>try, <1>frame
    DEF WindowOK, Waiting, Counting, Unavailable, IsEmpty, IsFull, NbAvailable, NbEmpty, NbFull, Own, Dist
  <1>1. ASSUME NEW t \in Threads, Call(t) PROVE WindowOK(u)' /\ TryOK(u)'
    BY <1>fun, <1>windows, <1>try, <1>1
    DEF Call, Entry, WindowOK, Waiting, Counting, Unavailable, IsEmpty, IsFull, NbAvailable, NbEmpty, NbFull, Own
  <1>2. ASSUME NEW t \in Threads, EarlyFirst(t) PROVE WindowOK(u)' /\ TryOK(u)'
    BY <1>fun, <1>windows, <1>try, <1>2
    DEF EarlyFirst, WindowOK, Waiting, Counting, Unavailable, IsEmpty, IsFull, NbAvailable, NbEmpty, NbFull, Own
  <1>3. ASSUME NEW t \in Threads, EarlyRefuse(t) PROVE WindowOK(u)' /\ TryOK(u)'
    BY <1>fun, <1>windows, <1>try, <1>3
    DEF EarlyRefuse, Forget, WindowOK, Waiting, Counting, Unavailable, IsEmpty, IsFull, NbAvailable, NbEmpty, NbFull, Own
  <1>4. ASSUME NEW t \in Threads, EarlyPass(t) PROVE WindowOK(u)' /\ TryOK(u)'
    BY <1>fun, <1>windows, <1>try, <1>4
    DEF EarlyPass, WindowOK, Waiting, Counting, Unavailable, IsEmpty, IsFull, NbAvailable, NbEmpty, NbFull, Own
  <1>5. ASSUME NEW t \in Threads, Lock(t) PROVE WindowOK(u)' /\ TryOK(u)'
    BY <1>fun, <1>windows, <1>try, <1>5
    DEF Lock, WindowOK, Waiting, Counting, Unavailable, IsEmpty, IsFull, NbAvailable, NbEmpty, NbFull, Own
  <1>6. ASSUME NEW t \in Threads, Check(t) PROVE WindowOK(u)' /\ TryOK(u)'
    BY <1>fun, <1>windows, <1>try, <1>6
    DEF Check, Refuses, WindowOK, Waiting, Counting, Unavailable, IsEmpty, IsFull, NbAvailable, NbEmpty, NbFull, Own
  <1>7. ASSUME NEW t \in Threads, Poll(t) PROVE WindowOK(u)' /\ TryOK(u)'
    <2>1. CASE u # t
      BY <1>fun, <1>frame, <1>7, <2>1 DEF Poll, BeginChunk
    <2>2. CASE u = t /\ call[t].bulk
      <3>1. pc'[u] = "count" /\ ~Unavailable(u)'
        BY <1>fun, <1>same, <1>7, <2>2 DEF Poll, BeginChunk
      <3> QED BY <3>1 DEF WindowOK, Waiting, Counting
    <2>3. CASE u = t /\ ~call[t].bulk
      <3>1. /\ pc'[u] = "copy" /\ i'[u] = i[u]
            /\ ready'[u] = i[u] + 1 /\ pos'[u] = Own(u)
        BY <1>fun, <1>7, <2>3 DEF Poll, BeginChunk
      <3>2. NbAvailable(u)' >= 1 /\ Own(u)' = Own(u) /\ Dist(Own(u), Own(u)) = 0
        BY <1>avail, <1>same, <1>own, <1>7, <2>3, SMT DEF Poll
      <3>3. i[u] \in Nat /\ Dist(Own(u)', pos'[u]) = 0
        BY <1>fun, <3>1, <3>2
      <3>4. Dist(Own(u)', pos'[u]) + ready'[u] - i'[u] <= NbAvailable(u)'
        BY <3>1, <3>2, <3>3, SMT
      <3> QED BY <3>1, <3>4 DEF WindowOK, Waiting, Counting, Dist
    <2> QED BY <2>1, <2>2, <2>3
  <1>8. ASSUME NEW t \in Threads, TestFails(t) PROVE WindowOK(u)' /\ TryOK(u)'
    BY <1>fun, <1>windows, <1>try, <1>8
    DEF TestFails, WindowOK, Waiting, Counting, Unavailable, IsEmpty, IsFull, NbAvailable, NbEmpty, NbFull, Own
  <1>9. ASSUME NEW t \in Threads, TestPasses(t) PROVE WindowOK(u)' /\ TryOK(u)'
    <2>1. CASE u # t
      BY <1>fun, <1>frame, <1>9, <2>1 DEF TestPasses, BeginChunk
    <2>2. CASE u = t /\ call[t].bulk
      <3>1. pc'[u] = "count" /\ ~Unavailable(u)'
        BY <1>fun, <1>same, <1>9, <2>2 DEF TestPasses, BeginChunk
      <3> QED BY <3>1 DEF WindowOK, Waiting, Counting
    <2>3. CASE u = t /\ ~call[t].bulk
      <3>1. /\ pc'[u] = "copy" /\ i'[u] = i[u]
            /\ ready'[u] = i[u] + 1 /\ pos'[u] = Own(u)
        BY <1>fun, <1>9, <2>3 DEF TestPasses, BeginChunk
      <3>2. NbAvailable(u)' >= 1 /\ Own(u)' = Own(u) /\ Dist(Own(u), Own(u)) = 0
        BY <1>avail, <1>same, <1>own, <1>9, <2>3, SMT DEF TestPasses
      <3>3. i[u] \in Nat /\ Dist(Own(u)', pos'[u]) = 0
        BY <1>fun, <3>1, <3>2
      <3>4. Dist(Own(u)', pos'[u]) + ready'[u] - i'[u] <= NbAvailable(u)'
        BY <3>1, <3>2, <3>3, SMT
      <3> QED BY <3>1, <3>4 DEF WindowOK, Waiting, Counting, Dist
    <2> QED BY <2>1, <2>2, <2>3
  <1>10. ASSUME NEW t \in Threads, Sleep(t) PROVE WindowOK(u)' /\ TryOK(u)'
    BY <1>fun, <1>windows, <1>try, <1>10
    DEF Sleep, WindowOK, Waiting, Counting, Unavailable, IsEmpty, IsFull, NbAvailable, NbEmpty, NbFull, Own
  <1>11. ASSUME NEW t \in Threads, Count(t) PROVE WindowOK(u)' /\ TryOK(u)'
    <2>1. CASE u # t
      BY <1>fun, <1>frame, <1>11, <2>1 DEF Count
    <2>2. CASE u = t
      <3>1. ~Unavailable(u)' /\ ~Unavailable(u)
        BY <1>windows, <1>same, <1>11, <2>2 DEF Count, WindowOK, Counting
      <3>2. /\ start' = start /\ end' = end
            /\ pc'[u] = IF end < start THEN "count_wrapped" ELSE "count_straight"
        BY <1>fun, <1>11, <2>2 DEF Count
      <3>3. CASE u \in Writers
        <4>1. start # Inc(end)
          BY <3>1, <3>3 DEF Unavailable, IsFull
        <4>2. end < start => end + 3 <= Size
          BY <1>fun, <4>1, IncFact, RingAssumption, SMT DEF Slots
        <4>3. ~(end < start) => start <= end
          BY <1>fun, RingAssumption, SMT DEF Slots
        <4> QED BY <3>1, <3>2, <3>3, <4>2, <4>3 DEF WindowOK, Waiting, Counting
      <3>4. CASE u \notin Writers
        <4>1. start # end
          BY <3>1, <3>4 DEF Unavailable, IsEmpty
        <4>2. ~(end < start) => start + 2 <= Size
          BY <1>fun, <4>1, RingAssumption, SMT DEF Slots
        <4> QED BY <3>1, <3>2, <3>4, <4>2 DEF WindowOK, Waiting, Counting
      <3> QED BY <3>3, <3>4
    <2> QED BY <2>1, <2>2
  <1>12. ASSUME NEW t \in Threads, Reserve(t) PROVE WindowOK(u)' /\ TryOK(u)'
    <2>1. CASE u # t
      BY <1>fun, <1>frame, <1>12, <2>1 DEF Reserve
    <2>2. CASE u = t
      <3> DEFINE m == SmallerOf(NbReady(u), call[u].nb - i[u])
      <3>1. /\ pc'[u] = "copy" /\ i'[u] = i[u]
            /\ ready'[u] = i[u] + m /\ pos'[u] = Own(u)
        BY <1>fun, <1>12, <2>2 DEF Reserve
      <3>2. m <= NbAvailable(u)
        BY <1>types, <1>windows, <1>calls, <1>small, <1>12, <2>2, ReserveFact DEF Reserve
      <3>3. m \in Int
        BY <1>fun, <1>small, NbReadyType, SMT DEF SmallerOf
      <3>4. /\ NbAvailable(u)' = NbAvailable(u) /\ NbAvailable(u) \in Int
            /\ i[u] \in Int /\ Dist(Own(u)', pos'[u]) = 0
        BY <1>fun, <1>avail, <1>same, <1>own, <1>12, <3>1, SMT DEF Reserve
      <3>5. Dist(Own(u)', pos'[u]) + ready'[u] - i'[u] <= NbAvailable(u)'
        <4> HIDE DEF m
        <4> QED BY <3>1, <3>2, <3>3, <3>4, SMT
      <3> QED BY <3>1, <3>5 DEF WindowOK, Waiting, Counting, Dist
    <2> QED BY <2>1, <2>2
  <1>13. ASSUME NEW t \in Threads, Store(t) PROVE WindowOK(u)' /\ TryOK(u)'
    <2>1. CASE u # t
      BY <1>fun, <1>frame, <1>13, <2>1 DEF Store, Advance
    <2>2. CASE u = t
      <3>1. /\ pc[u] = "copy" /\ pc' = pc /\ i[u] < ready[u]
            /\ i'[u] = i[u] + 1 /\ ready' = ready /\ pos'[u] = Inc(pos[u])
            /\ UNCHANGED <<start, end>>
        BY <1>fun, <1>13, <2>2 DEF Store, Advance, Copying
      <3>2. Dist(Own(u), pos[u]) + ready[u] - i[u] <= NbAvailable(u)
        BY <1>windows, <3>1 DEF WindowOK
      <3>3. /\ Dist(Own(u), pos[u]) \in Nat
            /\ Dist(Own(u), pos[u]) + 1 < Size =>
                 Dist(Own(u), Inc(pos[u])) = Dist(Own(u), pos[u]) + 1
        BY <1>fun, <1>own, DistFacts, SMT
      <3>4. i[u] \in Nat /\ ready[u] \in Nat /\ Size \in Nat
        BY <1>fun, RingAssumption
      <3>5. Dist(Own(u), Inc(pos[u])) + ready[u] - (i[u] + 1) <= NbAvailable(u)
        BY <1>avail, <3>1, <3>2, <3>3, <3>4, SMT
      <3>6. Dist(Own(u)', pos'[u]) + ready'[u] - i'[u] <= NbAvailable(u)'
        BY <1>same, <3>1, <3>5
      <3> QED BY <3>1, <3>6 DEF WindowOK, Waiting, Counting, Dist
    <2> QED BY <2>1, <2>2
  <1>14. ASSUME NEW t \in Threads, Load(t) PROVE WindowOK(u)' /\ TryOK(u)'
    <2>1. CASE u # t
      BY <1>fun, <1>frame, <1>14, <2>1 DEF Load, Advance
    <2>2. CASE u = t
      <3>1. /\ pc[u] = "copy" /\ pc' = pc /\ i[u] < ready[u]
            /\ i'[u] = i[u] + 1 /\ ready' = ready /\ pos'[u] = Inc(pos[u])
            /\ UNCHANGED <<start, end>>
        BY <1>fun, <1>14, <2>2 DEF Load, Advance, Copying
      <3>2. Dist(Own(u), pos[u]) + ready[u] - i[u] <= NbAvailable(u)
        BY <1>windows, <3>1 DEF WindowOK
      <3>3. /\ Dist(Own(u), pos[u]) \in Nat
            /\ Dist(Own(u), pos[u]) + 1 < Size =>
                 Dist(Own(u), Inc(pos[u])) = Dist(Own(u), pos[u]) + 1
        BY <1>fun, <1>own, DistFacts, SMT
      <3>4. i[u] \in Nat /\ ready[u] \in Nat /\ Size \in Nat
        BY <1>fun, RingAssumption
      <3>5. Dist(Own(u), Inc(pos[u])) + ready[u] - (i[u] + 1) <= NbAvailable(u)
        BY <1>avail, <3>1, <3>2, <3>3, <3>4, SMT
      <3>6. Dist(Own(u)', pos'[u]) + ready'[u] - i'[u] <= NbAvailable(u)'
        BY <1>same, <3>1, <3>5
      <3> QED BY <3>1, <3>6 DEF WindowOK, Waiting, Counting, Dist
    <2> QED BY <2>1, <2>2
  <1>15. ASSUME NEW t \in Threads, Publish(t) PROVE WindowOK(u)' /\ TryOK(u)'
    <2>1. CASE u = t \/ ~Inside(u)
      <3>1. pc'[u] \in {"notify", "loop"} \/ ~Inside(u)'
        BY <1>fun, <1>15, <2>1 DEF Publish, Inside
      <3> QED BY <3>1 DEF Inside, WindowOK, Waiting, Counting
    <2>2. CASE u # t /\ Inside(u)
      <3>1. u \in Opponents(t)
        BY <1>excl, <1>15, <2>2 DEF SideExclusion, Inside, Publish, Side, Opponents, Threads
      <3>2. /\ Own(u)' = Own(u)
            /\ NbAvailable(u)' >= NbAvailable(u)
            /\ pc[u] = "count_wrapped" =>
                 IF u \in Writers THEN end' + 3 <= Size ELSE end' < start'
            /\ pc[u] = "count_straight" =>
                 IF u \in Writers THEN start' <= end' ELSE start' + 2 <= Size
        BY <1>types, <1>windows, <1>calls, <1>15, <3>1, PublishFact
      <3>3. UNCHANGED <<pc[u], call[u], i[u], ready[u], pos[u]>>
        BY <1>fun, <1>15, <2>2 DEF Publish
      <3>4. NbAvailable(u)' \in 0 .. (Size - 1) /\ (Unavailable(u)' <=> NbAvailable(u)' = 0)
        BY <1>availNext
      <3>5. ~Unavailable(u) => ~Unavailable(u)'
        BY <1>avail, <3>2, <3>4, SMT
      <3>6. pc[u] = "copy" =>
              Dist(Own(u)', pos'[u]) + ready'[u] - i'[u] <= NbAvailable(u)'
        <4>1. SUFFICES ASSUME pc[u] = "copy"
              PROVE  Dist(Own(u), pos[u]) + ready[u] - i[u] <= NbAvailable(u)'
          BY <3>2, <3>3
        <4>2. Dist(Own(u), pos[u]) + ready[u] - i[u] <= NbAvailable(u)
          BY <1>windows, <4>1 DEF WindowOK
        <4>3. /\ Dist(Own(u), pos[u]) \in Int
              /\ i[u] \in Int /\ ready[u] \in Int /\ NbAvailable(u)' \in Int
          BY <1>fun, <1>own, <3>4, DistFacts, SMT
        <4> QED BY <1>avail, <3>2, <4>2, <4>3, SMT
      <3> QED BY <1>windows, <1>try, <3>2, <3>3, <3>5, <3>6 DEF WindowOK, Waiting, Counting, Dist
    <2> QED BY <2>1, <2>2
  <1>16. ASSUME NEW t \in Threads, Broadcast(t) PROVE WindowOK(u)' /\ TryOK(u)'
    BY <1>fun, <1>windows, <1>try, <1>16
    DEF Broadcast, WindowOK, Waiting, Counting, Unavailable, IsEmpty, IsFull, NbAvailable, NbEmpty, NbFull, Own
  <1>17. ASSUME NEW t \in Threads, Loop(t) PROVE WindowOK(u)' /\ TryOK(u)'
    BY <1>fun, <1>windows, <1>try, <1>17
    DEF Loop, GoesRound, WindowOK, Waiting, Counting, Unavailable, IsEmpty, IsFull, NbAvailable, NbEmpty, NbFull, Own
  <1>18. ASSUME NEW t \in Threads, Return(t) PROVE WindowOK(u)' /\ TryOK(u)'
    BY <1>fun, <1>windows, <1>try, <1>18
    DEF Return, Forget, WindowOK, Waiting, Counting, Unavailable, IsEmpty, IsFull, NbAvailable, NbEmpty, NbFull, Own
  <1>19. ASSUME NEW t \in Threads, WaitLock(t) PROVE WindowOK(u)' /\ TryOK(u)'
    BY <1>fun, <1>windows, <1>try, <1>19
    DEF WaitLock, WindowOK, Waiting, Counting, Unavailable, IsEmpty, IsFull, NbAvailable, NbEmpty, NbFull, Own
  <1>20. ASSUME NEW t \in Threads, NotifyLock(t) PROVE WindowOK(u)' /\ TryOK(u)'
    BY <1>fun, <1>windows, <1>try, <1>20
    DEF NotifyLock, WindowOK, Waiting, Counting, Unavailable, IsEmpty, IsFull, NbAvailable, NbEmpty, NbFull, Own
  <1>21. ASSUME NEW t \in Threads, SpuriousWake(t) PROVE WindowOK(u)' /\ TryOK(u)'
    BY <1>fun, <1>windows, <1>try, <1>21
    DEF SpuriousWake, WindowOK, Waiting, Counting, Unavailable, IsEmpty, IsFull, NbAvailable, NbEmpty, NbFull, Own
  <1>22. CASE UNCHANGED vars
    BY <1>windows, <1>try, <1>22
    DEF vars, WindowOK, Waiting, Counting, Unavailable, IsEmpty, IsFull, NbAvailable, NbEmpty, NbFull, Own
  <1> QED
    BY <1>1, <1>2, <1>3, <1>4, <1>5, <1>6, <1>7, <1>8, <1>9, <1>10, <1>11,
       <1>12, <1>13, <1>14, <1>15, <1>16, <1>17, <1>18, <1>19, <1>20, <1>21, <1>22
    DEF Next, Run, TakeMutex

(* The windows, for bulk calls of at most two values. *)
THEOREM WindowsInvariant == SmallBulk => (Spec => []Windows)
  <1> SUFFICES ASSUME SmallBulk PROVE Spec => []Windows
    OBVIOUS
  <1>1. Init => Windows
    <2> SUFFICES ASSUME Init PROVE Windows
      OBVIOUS
    <2>1. \A t \in Threads : pc[t] = "idle"
      BY DEF Init
    <2> QED BY <2>1, SafeInit DEF Windows, WindowOK, Counting, TryNeverWaits
  <1>2. Windows /\ [Next]_vars => Windows'
    BY TypedStep, SafeStep, WindowsStep DEF Windows, Safe
  <1> QED BY <1>1, <1>2, PTL DEF Spec

(* Where the k-th slot from a slot on is. *)
LEMMA SlotFact ==
    ASSUME NEW a \in Slots, NEW k \in 1 .. Size
    PROVE  /\ SlotAt(a, k) \in Slots
           /\ SlotAt(a, k) = IF a + k <= Size THEN a + k - 1 ELSE a + k - 1 - Size
           /\ Dist(a, SlotAt(a, k)) = k - 1
  <1>1. Size \in Nat /\ Size >= 2 /\ a \in 0 .. Size - 1 /\ k \in 1 .. Size
    BY RingAssumption DEF Slots
  <1> DEFINE x == a + k - 1
             y == x - Size
  <1>2. a + k <= Size => x \in 0 .. (Size - 1)
    BY <1>1
  <1>3. ~(a + k <= Size) => y \in 0 .. (Size - 1) /\ x = y + Size * 1
    BY <1>1
  <1>4. x \in Int /\ y \in Int
    BY <1>1
  <1>same. x = a + k - 1 /\ y = a + k - 1 - Size
    BY <1>1
  <1> HIDE DEF x, y
  <1>5. a + k <= Size => x % Size = x
    BY <1>1, <1>2, ModSmall
  <1>6. ~(a + k <= Size) => x % Size = y
    <2>1. SUFFICES ASSUME ~(a + k <= Size) PROVE x % Size = y
      OBVIOUS
    <2>2. x % Size = y % Size
      BY <1>1, <1>3, <1>4, <2>1, ModEqual
    <2>3. y % Size = y
      BY <1>1, <1>3, <2>1, ModSmall
    <2> QED BY <2>2, <2>3
  <1>7. SlotAt(a, k) = IF a + k <= Size THEN a + k - 1 ELSE a + k - 1 - Size
    <2>1. SlotAt(a, k) = x % Size
      BY <1>same DEF SlotAt
    <2> QED BY <2>1, <1>same, <1>5, <1>6
  <1> QED BY <1>1, <1>7, SMT DEF Dist, Slots

(* Going on from the slot one has come to. *)
LEMMA SlotSum ==
    ASSUME NEW a \in Slots, NEW b \in Slots, NEW k \in Nat, k >= 1,
           Dist(a, b) + k <= Size
    PROVE  SlotAt(a, Dist(a, b) + k) = SlotAt(b, k)
  <1>1. Size \in Nat /\ Size >= 2 /\ a \in 0 .. Size - 1 /\ b \in 0 .. Size - 1
    BY RingAssumption DEF Slots
  <1>2. Dist(a, b) = IF b < a THEN b + Size - a ELSE b - a
    BY DEF Dist
  <1> DEFINE n == Dist(a, b) + k
  <1>3. n \in 1 .. Size /\ k \in 1 .. Size
    BY <1>1, <1>2
  <1>4. SlotAt(b, k) = IF b + k <= Size THEN b + k - 1 ELSE b + k - 1 - Size
    BY <1>3, SlotFact
  <1>5. SlotAt(a, n) = IF a + n <= Size THEN a + n - 1 ELSE a + n - 1 - Size
    BY <1>3, SlotFact
  <1> QED BY <1>1, <1>2, <1>3, <1>4, <1>5, SMT

(* Two slots at different places are different. *)
LEMMA SlotHere ==
    ASSUME NEW a \in Slots, NEW b \in Slots
    PROVE  SlotAt(a, Dist(a, b) + 1) = b
  <1>1. Size \in Nat /\ Size >= 2 /\ a \in 0 .. Size - 1 /\ b \in 0 .. Size - 1
    BY RingAssumption DEF Slots
  <1>2. Dist(a, b) = IF b < a THEN b + Size - a ELSE b - a
    BY DEF Dist
  <1> DEFINE n == Dist(a, b) + 1
  <1>3. n \in 1 .. Size
    BY <1>1, <1>2
  <1>4. SlotAt(a, n) = IF a + n <= Size THEN a + n - 1 ELSE a + n - 1 - Size
    BY <1>3, SlotFact
  <1> QED BY <1>1, <1>2, <1>4, SMT

(* The unread slots are those of the queue. *)
LEMMA UnreadFact ==
    ASSUME start \in Slots, end \in Slots, NEW k \in 1 .. NbFull
    PROVE  SlotAt(start, k) \in Unread
  <1>1. NbFull \in 0 .. (Size - 1) /\ Size \in Nat
    BY DistFacts, RingAssumption DEF NbFull
  <1>2. k \in 1 .. Size
    BY <1>1
  <1>3. SlotAt(start, k) \in Slots /\ Dist(start, SlotAt(start, k)) = k - 1
    BY <1>2, SlotFact
  <1> QED BY <1>1, <1>3 DEF Unread

(* Pointing outside or inside the unread slots: what the windows are for. *)
LEMMA WindowsOwn == Windows => SlotOwnership
  <1> SUFFICES ASSUME Windows, NEW t \in Threads, Copying(t)
               PROVE  pos[t] \in Unread <=> t \in Readers
    BY DEF SlotOwnership
  <1>1. /\ start \in Slots /\ end \in Slots /\ pos[t] \in Slots
        /\ i[t] \in Nat /\ ready[t] \in Nat
    BY DEF Windows, Safe, Typed, TypeOK
  <1>2. i[t] < ready[t] /\ Dist(Own(t), pos[t]) + ready[t] - i[t] <= NbAvailable(t)
    BY DEF Windows, WindowOK, Copying
  <1>3. pos[t] \in Unread <=> Dist(start, pos[t]) < Dist(start, end)
    BY <1>1 DEF Unread, NbFull
  <1>4. CASE t \in Writers
    <2>1. Dist(end, pos[t]) + ready[t] - i[t] <= Size - 1 - Dist(start, end)
      BY <1>2, <1>4 DEF Own, NbAvailable, NbEmpty, NbFull
    <2>2. Dist(start, pos[t]) >= Dist(start, end)
      BY <1>1, <1>2, <2>1, RingAssumption, SMT DEF Dist, Slots
    <2>3. Dist(start, pos[t]) \in Int /\ Dist(start, end) \in Int
      BY <1>1, DistFacts, SMT
    <2> QED BY <1>3, <1>4, <2>2, <2>3, RingAssumption, SMT
  <1>5. CASE t \in Readers
    <2>1. t \notin Writers
      BY <1>5, RingAssumption
    <2>2. Dist(start, pos[t]) + ready[t] - i[t] <= Dist(start, end)
      BY <1>2, <2>1 DEF Own, NbAvailable, NbFull
    <2>3. Dist(start, pos[t]) \in Int /\ Dist(start, end) \in Int
      BY <1>1, DistFacts, SMT
    <2> QED BY <1>1, <1>2, <1>3, <1>5, <2>2, <2>3, SMT
  <1> QED BY <1>4, <1>5 DEF Threads

(* With bulk calls of at most two values a writer never stores into a slot *)
(* that is still to be read, and a reader never loads from another one.    *)
THEOREM Ownership == SmallBulk => (Spec => []SlotOwnership)
  <1> SUFFICES ASSUME SmallBulk PROVE Spec => []SlotOwnership
    OBVIOUS
  <1> QED BY WindowsInvariant, WindowsOwn, PTL

(* With the same bound, a non-blocking call never waits for the buffer:    *)
(* what its test saw available cannot be taken away by anyone.             *)
THEOREM NonBlocking == SmallBulk => (Spec => []TryNeverWaits)
  <1> SUFFICES ASSUME SmallBulk PROVE Spec => []TryNeverWaits
    OBVIOUS
  <1>1. Windows => TryNeverWaits
    BY DEF Windows
  <1> QED BY WindowsInvariant, <1>1, PTL

----------------------------------------------------------------------------
(* What the threads of one call carry from step to step: the last two      *)
(* conjuncts of the inductive invariant.                                   *)

(* The window of a count that has begun is not empty, whichever index was  *)
(* read when.                                                              *)
LEMMA ReadySome ==
    ASSUME TypeOK, NEW t \in Threads, WindowOK(t),
           pc[t] \in {"count_wrapped", "count_straight"}
    PROVE  NbReady(t) >= 1 /\ NbReady(t) \in Nat
  <1>1. /\ start \in 0 .. (Size - 1) /\ end \in 0 .. (Size - 1)
        /\ Size \in Nat /\ Size >= 2 /\ Word \in Nat /\ Word >= 2 * Size
    BY RingAssumption DEF TypeOK, Slots
  <1>2. ASSUME NEW x \in Int, -Size < x, x < Size, x # 0
        PROVE  x % Word >= 1
    <2>1. CASE x > 0
      <3>1. x \in 0 .. (Word - 1)
        BY <1>1, <1>2, <2>1
      <3> QED BY <1>1, <2>1, <3>1, ModSmall
    <2>2. CASE x < 0
      <3> DEFINE y == x + Word
      <3>1. y \in 1 .. (Word - 1) /\ y = x + Word * 1
        BY <1>1, <1>2, <2>2
      <3> HIDE DEF y
      <3>2. y \in Int /\ y % Word = y
        BY <1>1, <3>1, ModSmall
      <3>3. y % Word = x % Word
        BY <1>1, <1>2, <3>1, <3>2, ModEqual
      <3> QED BY <3>1, <3>2, <3>3
    <2> QED BY <1>2, <2>1, <2>2
  <1>3. ~Unavailable(t)
    BY DEF WindowOK, Counting
  <1>4. NbReady(t) \in Nat
    BY NbReadyType DEF TypeOK
  <1>5. CASE t \in Writers
    <2>1. t \notin Readers /\ start # Inc(end)
      BY <1>3, <1>5, RingAssumption DEF Unavailable, IsFull
    <2>2. Inc(end) = IF end = Size - 1 THEN 0 ELSE end + 1
      BY <1>1, IncFact DEF Slots
    <2>3. CASE pc[t] = "count_wrapped"
      <3>1. end + 3 <= Size
        BY <1>5, <2>3 DEF WindowOK
      <3>2. NbReady(t) = (start - end - 1) % Word
        <4>1. NbReady(t) = (start + 0 - end - 1) % Word
          BY <1>5, <2>1, <2>3 DEF NbReady
        <4> QED BY <1>1, <4>1, SMT
      <3> DEFINE x == start - end - 1
      <3>3. x \in Int /\ -Size < x /\ x < Size /\ x # 0
        BY <1>1, <2>1, <2>2, <3>1
      <3>4. x % Word >= 1
        <4> HIDE DEF x
        <4> QED BY <1>2, <3>3
      <3> QED BY <1>4, <3>2, <3>4
    <2>4. CASE pc[t] = "count_straight"
      <3>1. start <= end
        BY <1>5, <2>4 DEF WindowOK
      <3>2. NbReady(t) = (start + Size - end - 1) % Word
        BY <1>5, <2>1, <2>4 DEF NbReady
      <3> DEFINE x == start + Size - end - 1
      <3>3. x \in Int /\ -Size < x /\ x < Size /\ x # 0
        BY <1>1, <2>1, <2>2, <3>1
      <3>4. x % Word >= 1
        <4> HIDE DEF x
        <4> QED BY <1>2, <3>3
      <3> QED BY <1>4, <3>2, <3>4
    <2> QED BY <2>3, <2>4
  <1>6. CASE t \in Readers
    <2>1. t \notin Writers /\ start # end
      BY <1>3, <1>6, RingAssumption DEF Unavailable, IsEmpty
    <2>3. CASE pc[t] = "count_wrapped"
      <3>1. end < start
        BY <2>1, <2>3 DEF WindowOK
      <3>2. NbReady(t) = (end + Size - start) % Word
        BY <1>6, <2>1, <2>3 DEF NbReady
      <3> DEFINE x == end + Size - start
      <3>3. x \in Int /\ -Size < x /\ x < Size /\ x # 0
        BY <1>1, <2>1, <3>1
      <3>4. x % Word >= 1
        <4> HIDE DEF x
        <4> QED BY <1>2, <3>3
      <3> QED BY <1>4, <3>2, <3>4
    <2>4. CASE pc[t] = "count_straight"
      <3>1. NbReady(t) = (end - start) % Word
        <4>1. NbReady(t) = (end + 0 - start) % Word
          BY <1>6, <2>1, <2>4 DEF NbReady
        <4> QED BY <1>1, <4>1, SMT
      <3> DEFINE x == end - start
      <3>3. x \in Int /\ -Size < x /\ x < Size /\ x # 0
        BY <1>1, <2>1
      <3>4. x % Word >= 1
        <4> HIDE DEF x
        <4> QED BY <1>2, <3>3
      <3> QED BY <1>4, <3>1, <3>4
    <2> QED BY <2>3, <2>4
  <1> QED BY <1>5, <1>6 DEF Threads

(* The calls carry on as they should, whatever step is taken. *)
LEMMA MovesStep ==
    ASSUME Typed, \A t \in Threads : WindowOK(t) /\ MovesOK(t), [Next]_vars,
           NEW u \in Threads
    PROVE  MovesOK(u)'
  <1> USE DEF Goto, locals
  <1>types. TypeOK
    BY DEF Typed
  <1>calls. CallOK(u)
    BY DEF Typed
  <1>moves. MovesOK(u)
    OBVIOUS
  <1>fun. /\ pc \in [Threads -> Labels]
         /\ call \in [Threads -> WriterCalls \cup ReaderCalls \cup {NoCall}]
         /\ vals \in [Threads -> Seq(Values \cup {Null})]
         /\ i \in [Threads -> Nat] /\ ready \in [Threads -> Nat]
    BY <1>types DEF TypeOK
  <1>fields. /\ call[u].nb \in Nat /\ call[u].min \in Nat
             /\ i[u] \in Nat /\ ready[u] \in Nat
    BY <1>fun, CallFields
  <1>frame. ASSUME UNCHANGED <<pc[u], call[u], vals[u], i[u], ready[u]>>
            PROVE  MovesOK(u)'
    BY <1>moves, <1>frame DEF MovesOK, Counting
  <1>1. ASSUME NEW t \in Threads, Call(t) PROVE MovesOK(u)'
    <2>1. CASE u # t
      BY <1>fun, <1>frame, <1>1, <2>1 DEF Call
    <2>2. CASE u = t
      <3>1. PICK c \in IF t \in Writers THEN WriterCalls ELSE ReaderCalls :
              /\ call' = [call EXCEPT ![t] = c]
              /\ \E v \in IF t \in Writers THEN [1 .. c.nb -> Values] ELSE {<<>>} :
                    vals' = [vals EXCEPT ![t] = v]
              /\ Goto(t, Entry(c))
        BY <1>1 DEF Call
      <3>2. PICK v \in IF t \in Writers THEN [1 .. c.nb -> Values] ELSE {<<>>} :
              vals' = [vals EXCEPT ![t] = v]
        BY <3>1
      <3>3. c.nb \in Nat /\ (t \in Writers => v \in Seq(Values))
        BY CallFields
      <3>4. /\ call'[u] = c /\ vals'[u] = v /\ i'[u] = i[u] /\ i[u] = 0
            /\ pc'[u] = Entry(c)
        BY <1>fun, <1>calls, <1>1, <2>2, <3>1, <3>2 DEF Call, CallOK, Inside
      <3>5. u \in Readers => v = <<>>
        BY <2>2, RingAssumption
      <3> QED BY <2>2, <3>3, <3>4, <3>5 DEF MovesOK, Counting, Entry
    <2> QED BY <2>1, <2>2
  <1>2. ASSUME NEW t \in Threads, EarlyFirst(t) PROVE MovesOK(u)'
    <2>1. CASE u # t
      BY <1>fun, <1>frame, <1>2, <2>1 DEF EarlyFirst
    <2>2. CASE u = t
      <3>1. pc[u] = "early" /\ pc'[u] \in {"early_start", "early_end"}
        BY <1>fun, <1>2, <2>2 DEF EarlyFirst
      <3> QED BY <1>moves, <1>2, <3>1 DEF EarlyFirst, MovesOK, Counting
    <2> QED BY <2>1, <2>2
  <1>3. ASSUME NEW t \in Threads, EarlyRefuse(t) PROVE MovesOK(u)'
    <2>1. CASE u # t
      BY <1>fun, <1>frame, <1>3, <2>1 DEF EarlyRefuse, Forget
    <2>2. CASE u = t
      <3>1. pc'[u] = "idle" /\ vals'[u] = <<>> /\ i'[u] = 0
        BY <1>fun, <1>3, <2>2 DEF EarlyRefuse, Forget
      <3> QED BY <3>1 DEF MovesOK, Counting
    <2> QED BY <2>1, <2>2
  <1>4. ASSUME NEW t \in Threads, EarlyPass(t) PROVE MovesOK(u)'
    <2>1. CASE u # t
      BY <1>fun, <1>frame, <1>4, <2>1 DEF EarlyPass
    <2>2. CASE u = t
      BY <1>fun, <1>fields, <1>calls, <1>moves, <1>4, <2>2
      DEF EarlyPass, MovesOK, CallOK, Waiting, Counting
    <2> QED BY <2>1, <2>2
  <1>5. ASSUME NEW t \in Threads, Lock(t) PROVE MovesOK(u)'
    <2>1. CASE u # t
      BY <1>fun, <1>frame, <1>5, <2>1 DEF Lock
    <2>2. CASE u = t
      BY <1>fun, <1>fields, <1>calls, <1>moves, <1>5, <2>2
      DEF Lock, MovesOK, CallOK, Waiting, Counting
    <2> QED BY <2>1, <2>2
  <1>6. ASSUME NEW t \in Threads, Check(t) PROVE MovesOK(u)'
    <2>1. CASE u # t
      BY <1>fun, <1>frame, <1>6, <2>1 DEF Check
    <2>2. CASE u = t
      BY <1>fun, <1>fields, <1>calls, <1>moves, <1>6, <2>2
      DEF Check, MovesOK, CallOK, Waiting, Counting
    <2> QED BY <2>1, <2>2
  <1>7. ASSUME NEW t \in Threads, Poll(t) PROVE MovesOK(u)'
    <2>1. CASE u # t
      BY <1>fun, <1>frame, <1>7, <2>1 DEF Poll, BeginChunk
    <2>2. CASE u = t /\ call[t].bulk
      <3>1. /\ pc'[u] = "count" /\ Waiting(u)
            /\ UNCHANGED <<call, vals, i>>
        BY <1>fun, <1>7, <2>2 DEF Poll, BeginChunk, Waiting
      <3> QED BY <1>calls, <1>moves, <3>1 DEF MovesOK, CallOK
    <2>3. CASE u = t /\ ~call[t].bulk
      <3>1. /\ pc'[u] = "copy" /\ ready'[u] = i[u] + 1
            /\ UNCHANGED <<call, vals, i>>
        BY <1>fun, <1>7, <2>3 DEF Poll, BeginChunk
      <3>2. ready'[u] > 0
        BY <1>fields, <3>1
      <3> QED BY <1>moves, <3>1, <3>2 DEF MovesOK, Counting
    <2> QED BY <2>1, <2>2, <2>3
  <1>8. ASSUME NEW t \in Threads, TestFails(t) PROVE MovesOK(u)'
    <2>1. CASE u # t
      BY <1>fun, <1>frame, <1>8, <2>1 DEF TestFails
    <2>2. CASE u = t
      BY <1>fun, <1>fields, <1>calls, <1>moves, <1>8, <2>2
      DEF TestFails, MovesOK, CallOK, Waiting, Counting
    <2> QED BY <2>1, <2>2
  <1>9. ASSUME NEW t \in Threads, TestPasses(t) PROVE MovesOK(u)'
    <2>1. CASE u # t
      BY <1>fun, <1>frame, <1>9, <2>1 DEF TestPasses, BeginChunk
    <2>2. CASE u = t /\ call[t].bulk
      <3>1. /\ pc'[u] = "count" /\ Waiting(u)
            /\ UNCHANGED <<call, vals, i>>
        BY <1>fun, <1>9, <2>2 DEF TestPasses, BeginChunk, Waiting
      <3> QED BY <1>calls, <1>moves, <3>1 DEF MovesOK, CallOK
    <2>3. CASE u = t /\ ~call[t].bulk
      <3>1. /\ pc'[u] = "copy" /\ ready'[u] = i[u] + 1
            /\ UNCHANGED <<call, vals, i>>
        BY <1>fun, <1>9, <2>3 DEF TestPasses, BeginChunk
      <3>2. ready'[u] > 0
        BY <1>fields, <3>1
      <3> QED BY <1>moves, <3>1, <3>2 DEF MovesOK, Counting
    <2> QED BY <2>1, <2>2, <2>3
  <1>10. ASSUME NEW t \in Threads, Sleep(t) PROVE MovesOK(u)'
    <2>1. CASE u # t
      BY <1>fun, <1>frame, <1>10, <2>1 DEF Sleep
    <2>2. CASE u = t
      BY <1>fun, <1>fields, <1>calls, <1>moves, <1>10, <2>2
      DEF Sleep, MovesOK, CallOK, Waiting, Counting
    <2> QED BY <2>1, <2>2
  <1>11. ASSUME NEW t \in Threads, Count(t) PROVE MovesOK(u)'
    <2>1. CASE u # t
      BY <1>fun, <1>frame, <1>11, <2>1 DEF Count
    <2>2. CASE u = t
      BY <1>fun, <1>fields, <1>calls, <1>moves, <1>11, <2>2
      DEF Count, MovesOK, CallOK, Waiting, Counting
    <2> QED BY <2>1, <2>2
  <1>12. ASSUME NEW t \in Threads, Reserve(t) PROVE MovesOK(u)'
    <2>1. CASE u # t
      BY <1>fun, <1>frame, <1>12, <2>1 DEF Reserve
    <2>2. CASE u = t
      <3> DEFINE n == SmallerOf(NbReady(u), call[u].nb - i[u])
      <3>1. /\ pc'[u] = "copy" /\ ready'[u] = i[u] + n
            /\ UNCHANGED <<call, vals, i>>
        BY <1>fun, <1>12, <2>2 DEF Reserve
      <3>2. NbReady(u) >= 1 /\ NbReady(u) \in Nat
        BY <1>types, <1>12, <2>2, ReadySome DEF Reserve
      <3>3. i[u] = 0 \/ i[u] < call[u].nb
        BY <1>moves, <1>12, <2>2 DEF Reserve, MovesOK, Counting
      <3>4. i[u] <= call[u].nb
        BY <1>calls DEF CallOK
      <3>5. i[u] + n > 0 \/ call[u].nb = 0
        BY <1>fields, <3>2, <3>3, <3>4, SMT DEF SmallerOf
      <3> QED BY <1>moves, <3>1, <3>5 DEF MovesOK, Counting
    <2> QED BY <2>1, <2>2
  <1>13. ASSUME NEW t \in Threads, Store(t) PROVE MovesOK(u)'
    <2>1. CASE u # t
      BY <1>fun, <1>frame, <1>13, <2>1 DEF Store, Advance
    <2>2. CASE u = t
      <3>1. /\ u \in Writers /\ u \notin Readers /\ pc[u] = "copy"
            /\ UNCHANGED <<pc, call, vals, ready>>
        BY <1>13, <2>2, RingAssumption DEF Store, Copying, Advance
      <3> QED BY <1>moves, <3>1 DEF MovesOK, Counting
    <2> QED BY <2>1, <2>2
  <1>14. ASSUME NEW t \in Threads, Load(t) PROVE MovesOK(u)'
    <2>1. CASE u # t
      BY <1>fun, <1>frame, <1>14, <2>1 DEF Load, Advance
    <2>2. CASE u = t
      <3>1. /\ u \in Readers /\ u \notin Writers /\ pc[u] = "copy"
            /\ vals'[u] = Append(vals[u], elements[pos[u]]) /\ i'[u] = i[u] + 1
            /\ UNCHANGED <<pc, call, ready>>
        BY <1>fun, <1>14, <2>2, RingAssumption DEF Load, Copying, Advance
      <3>2. Len(vals'[u]) = i'[u]
        <4>1. vals[u] \in Seq(Values \cup {Null}) /\ Len(vals[u]) = i[u]
          BY <1>fun, <1>moves, <3>1 DEF MovesOK
        <4> QED BY <3>1, <4>1
      <3> QED BY <1>moves, <3>1, <3>2 DEF MovesOK, Counting
    <2> QED BY <2>1, <2>2
  <1>15. ASSUME NEW t \in Threads, Publish(t) PROVE MovesOK(u)'
    <2>1. CASE u # t
      BY <1>fun, <1>frame, <1>15, <2>1 DEF Publish
    <2>2. CASE u = t
      <3>1. /\ pc[u] = "copy" /\ i[u] >= ready[u] /\ pc'[u] \in {"notify", "loop"}
            /\ UNCHANGED <<call, vals, i>>
        BY <1>fun, <1>15, <2>2 DEF Publish
      <3>2. i[u] > 0 \/ call[u].nb = 0
        BY <1>fields, <1>moves, <3>1 DEF MovesOK
      <3> QED BY <1>moves, <3>1, <3>2 DEF MovesOK, Counting
    <2> QED BY <2>1, <2>2
  <1>16. ASSUME NEW t \in Threads, Broadcast(t) PROVE MovesOK(u)'
    BY <1>fun, <1>calls, <1>moves, <1>16 DEF Broadcast, MovesOK, CallOK, Counting
  <1>17. ASSUME NEW t \in Threads, Loop(t) PROVE MovesOK(u)'
    <2>1. CASE u # t
      BY <1>fun, <1>frame, <1>17, <2>1 DEF Loop, GoesRound
    <2>2. CASE u = t
      BY <1>fun, <1>fields, <1>calls, <1>moves, <1>17, <2>2
      DEF Loop, GoesRound, MovesOK, CallOK, Waiting, Counting
    <2> QED BY <2>1, <2>2
  <1>18. ASSUME NEW t \in Threads, Return(t) PROVE MovesOK(u)'
    <2>1. CASE u # t
      BY <1>fun, <1>frame, <1>18, <2>1 DEF Return, Forget
    <2>2. CASE u = t
      <3>1. pc'[u] = "idle" /\ vals'[u] = <<>> /\ i'[u] = 0
        BY <1>fun, <1>18, <2>2 DEF Return, Forget
      <3> QED BY <3>1 DEF MovesOK, Counting
    <2> QED BY <2>1, <2>2
  <1>19. ASSUME NEW t \in Threads, WaitLock(t) PROVE MovesOK(u)'
    <2>1. CASE u # t
      BY <1>fun, <1>frame, <1>19, <2>1 DEF WaitLock
    <2>2. CASE u = t
      BY <1>fun, <1>fields, <1>calls, <1>moves, <1>19, <2>2
      DEF WaitLock, MovesOK, CallOK, Waiting, Counting
    <2> QED BY <2>1, <2>2
  <1>20. ASSUME NEW t \in Threads, NotifyLock(t) PROVE MovesOK(u)'
    <2>1. CASE u # t
      BY <1>fun, <1>frame, <1>20, <2>1 DEF NotifyLock
    <2>2. CASE u = t
      BY <1>fun, <1>fields, <1>calls, <1>moves, <1>20, <2>2
      DEF NotifyLock, MovesOK, CallOK, Waiting, Counting
    <2> QED BY <2>1, <2>2
  <1>21. ASSUME NEW t \in Threads, SpuriousWake(t) PROVE MovesOK(u)'
    <2>1. CASE u # t
      BY <1>fun, <1>frame, <1>21, <2>1 DEF SpuriousWake
    <2>2. CASE u = t
      BY <1>fun, <1>fields, <1>calls, <1>moves, <1>21, <2>2
      DEF SpuriousWake, MovesOK, CallOK, Waiting, Counting
    <2> QED BY <2>1, <2>2
  <1>22. CASE UNCHANGED vars
    BY <1>moves, <1>22 DEF vars, MovesOK, Counting
  <1> QED
    BY <1>1, <1>2, <1>3, <1>4, <1>5, <1>6, <1>7, <1>8, <1>9, <1>10, <1>11,
       <1>12, <1>13, <1>14, <1>15, <1>16, <1>17, <1>18, <1>19, <1>20, <1>21, <1>22
    DEF Next, Run, TakeMutex

(* One more copied: what was in the chunk stays there, and the value just  *)
(* copied is its last.                                                     *)
LEMMA ChunkGrows ==
    ASSUME Windows, NEW t \in Threads, Copying(t), Advance(t)
    PROVE  /\ Chunk(t) \in Nat /\ Chunk(t)' = Chunk(t) + 1 /\ Own(t)' = Own(t)
           /\ i'[t] = i[t] + 1
           /\ SlotAt(Own(t), Chunk(t) + 1) = pos[t]
           /\ \A k \in 1 .. Chunk(t) : /\ SlotAt(Own(t), k) \in Slots
                                       /\ SlotAt(Own(t), k) # pos[t]
  <1>1. /\ i \in [Threads -> Nat] /\ ready \in [Threads -> Nat]
        /\ pos \in [Threads -> Slots] /\ start \in Slots /\ end \in Slots
        /\ Size \in Nat /\ Size >= 2
    BY RingAssumption DEF Windows, Safe, Typed, TypeOK
  <1>2. /\ i'[t] = i[t] + 1 /\ pos'[t] = Inc(pos[t])
        /\ Own(t)' = Own(t) /\ Own(t) \in Slots
        /\ pc[t] = "copy" /\ i[t] < ready[t]
    BY <1>1 DEF Advance, Own, Copying
  <1>3. Dist(Own(t), pos[t]) + ready[t] - i[t] <= NbAvailable(t)
    BY <1>2 DEF Windows, WindowOK
  <1>4. NbAvailable(t) \in 0 .. (Size - 1)
    BY <1>1, AvailableFact
  <1>5. /\ Dist(Own(t), pos[t]) \in 0 .. (Size - 1)
        /\ Dist(Own(t), pos[t]) + 1 < Size =>
              Dist(Own(t), Inc(pos[t])) = Dist(Own(t), pos[t]) + 1
    BY <1>1, <1>2, DistFacts
  <1>6. Dist(Own(t), pos[t]) + 1 < Size
    BY <1>1, <1>2, <1>3, <1>4, <1>5, SMT
  <1>7. Chunk(t)' = Chunk(t) + 1 /\ Chunk(t) \in 0 .. (Size - 1)
    BY <1>2, <1>5, <1>6 DEF Chunk, Dist
  <1>8. SlotAt(Own(t), Chunk(t) + 1) = pos[t]
    BY <1>1, <1>2, SlotHere DEF Chunk
  <1>9. ASSUME NEW k \in 1 .. Chunk(t)
        PROVE  SlotAt(Own(t), k) \in Slots /\ SlotAt(Own(t), k) # pos[t]
    <2>1. k \in 1 .. Size
      BY <1>1, <1>7
    <2>2. SlotAt(Own(t), k) \in Slots /\ Dist(Own(t), SlotAt(Own(t), k)) = k - 1
      BY <1>2, <2>1, SlotFact
    <2>3. Dist(Own(t), pos[t]) # k - 1
      BY <1>7 DEF Chunk
    <2> QED BY <2>2, <2>3
  <1> QED BY <1>2, <1>7, <1>8, <1>9

(* Who is at work on the other side goes through unread slots only, which  *)
(* no store touches, and its own index is moved by nobody else.            *)
LEMMA ChunkApart ==
    ASSUME Windows, NEW t \in Threads, NEW u \in Threads, u # t, pc[u] = "copy",
           Inside(t)
    PROVE  /\ Store(t) => \A k \in 1 .. Chunk(u) :
                 elements'[SlotAt(Own(u), k)] = elements[SlotAt(Own(u), k)]
           /\ Publish(t) => Own(u)' = Own(u)
  <1>1. /\ i \in [Threads -> Nat] /\ ready \in [Threads -> Nat]
        /\ pos \in [Threads -> Slots] /\ start \in Slots /\ end \in Slots
        /\ elements \in [Slots -> Values \cup {Null}]
        /\ Size \in Nat /\ Size >= 2
    BY RingAssumption DEF Windows, Safe, Typed, TypeOK
  <1>2. Side(u) # Side(t)
    BY SafeExclusion DEF Windows, Safe, SideExclusion, Inside
  <1>3. Publish(t) => Own(u)' = Own(u)
    BY <1>2 DEF Publish, Own, Side
  <1>4. ASSUME Store(t), NEW k \in 1 .. Chunk(u)
        PROVE  elements'[SlotAt(Own(u), k)] = elements[SlotAt(Own(u), k)]
    <2>1. t \in Writers /\ u \notin Writers /\ t \notin Readers
      BY <1>2, <1>4, RingAssumption DEF Store, Side
    <2>2. Dist(start, pos[u]) + ready[u] - i[u] <= NbFull
      BY <2>1 DEF Windows, WindowOK, Own, NbAvailable
    <2>3. i[u] <= ready[u]
      BY DEF Windows, Safe, Typed, CallOK
    <2>4. Dist(start, pos[u]) \in 0 .. (Size - 1) /\ NbFull \in 0 .. (Size - 1)
      BY <1>1, DistFacts DEF NbFull
    <2>5. Own(u) = start /\ Chunk(u) = Dist(start, pos[u])
      BY <2>1 DEF Own, Chunk
    <2>6. k \in 1 .. NbFull
      BY <1>1, <2>2, <2>3, <2>4, <2>5, SMT
    <2>7. SlotAt(start, k) \in Unread
      BY <1>1, <2>6, UnreadFact
    <2>8. pos[t] \notin Unread
      BY <1>4, <2>1, WindowsOwn DEF SlotOwnership, Store
    <2> QED BY <1>1, <1>4, <2>5, <2>7, <2>8 DEF Store, Unread
  <1> QED BY <1>3, <1>4

(* What has been copied stays where it was copied, whatever step is taken. *)
LEMMA ChunkStep ==
    ASSUME Windows, \A t \in Threads : MovesOK(t) /\ ChunkOK(t), [Next]_vars,
           NEW u \in Threads
    PROVE  ChunkOK(u)'
  <1> USE DEF Goto, locals
  <1>fun. /\ pc \in [Threads -> Labels]
         /\ elements \in [Slots -> Values \cup {Null}]
         /\ vals \in [Threads -> Seq(Values \cup {Null})]
         /\ i \in [Threads -> Nat] /\ ready \in [Threads -> Nat]
         /\ pos \in [Threads -> Slots]
         /\ start \in Slots /\ end \in Slots
    BY DEF Windows, Safe, Typed, TypeOK
  <1>own. Own(u) \in Slots /\ Dist(Own(u), Own(u)) = 0
    BY <1>fun, DistFacts DEF Own
  <1>frame. ASSUME UNCHANGED <<pc[u], i[u], pos[u], vals[u]>>, Own(u)' = Own(u),
                   \A k \in 1 .. Chunk(u) :
                      elements'[SlotAt(Own(u), k)] = elements[SlotAt(Own(u), k)]
            PROVE  ChunkOK(u)'
    <2>1. Chunk(u)' = Chunk(u)
      BY <1>frame DEF Chunk, Dist
    <2>2. \A k : SlotAt(Own(u), k)' = SlotAt(Own(u), k)
      BY <1>frame DEF SlotAt
    <2> QED BY <1>frame, <2>1, <2>2 DEF ChunkOK
  <1>quiet. ASSUME UNCHANGED <<start, end, elements>>,
                   pc'[u] = "copy" => UNCHANGED <<pc[u], i[u], pos[u], vals[u]>>
            PROVE  ChunkOK(u)'
    <2>1. CASE pc'[u] = "copy"
      <3>1. Own(u)' = Own(u)
        BY <1>quiet DEF Own
      <3> QED BY <1>quiet, <1>frame, <2>1, <3>1
    <2>2. CASE pc'[u] # "copy"
      BY <2>2 DEF ChunkOK
    <2> QED BY <2>1, <2>2
  <1>fresh. ASSUME UNCHANGED <<start, end>>, pos'[u] = Own(u), i'[u] = i[u]
            PROVE  ChunkOK(u)'
    <2>1. Chunk(u)' = 0
      BY <1>fresh, <1>own DEF Chunk, Own, Dist
    <2>2. 0 <= i'[u] /\ 1 .. 0 = {}
      BY <1>fun, <1>fresh
    <2> QED BY <2>1, <2>2 DEF ChunkOK
  <1>1. ASSUME NEW t \in Threads, Call(t) PROVE ChunkOK(u)'
    BY <1>fun, <1>quiet, <1>1 DEF Call, Entry
  <1>2. ASSUME NEW t \in Threads, EarlyFirst(t) PROVE ChunkOK(u)'
    BY <1>fun, <1>quiet, <1>2 DEF EarlyFirst
  <1>3. ASSUME NEW t \in Threads, EarlyRefuse(t) PROVE ChunkOK(u)'
    BY <1>fun, <1>quiet, <1>3 DEF EarlyRefuse, Forget
  <1>4. ASSUME NEW t \in Threads, EarlyPass(t) PROVE ChunkOK(u)'
    BY <1>fun, <1>quiet, <1>4 DEF EarlyPass
  <1>5. ASSUME NEW t \in Threads, Lock(t) PROVE ChunkOK(u)'
    BY <1>fun, <1>quiet, <1>5 DEF Lock
  <1>6. ASSUME NEW t \in Threads, Check(t) PROVE ChunkOK(u)'
    BY <1>fun, <1>quiet, <1>6 DEF Check
  <1>7. ASSUME NEW t \in Threads, Poll(t) PROVE ChunkOK(u)'
    <2>1. CASE u = t /\ ~call[t].bulk
      BY <1>fun, <1>fresh, <1>7, <2>1 DEF Poll, BeginChunk
    <2>2. CASE ~(u = t /\ ~call[t].bulk)
      BY <1>fun, <1>quiet, <1>7, <2>2 DEF Poll, BeginChunk
    <2> QED BY <2>1, <2>2
  <1>8. ASSUME NEW t \in Threads, TestFails(t) PROVE ChunkOK(u)'
    BY <1>fun, <1>quiet, <1>8 DEF TestFails
  <1>9. ASSUME NEW t \in Threads, TestPasses(t) PROVE ChunkOK(u)'
    <2>1. CASE u = t /\ ~call[t].bulk
      BY <1>fun, <1>fresh, <1>9, <2>1 DEF TestPasses, BeginChunk
    <2>2. CASE ~(u = t /\ ~call[t].bulk)
      BY <1>fun, <1>quiet, <1>9, <2>2 DEF TestPasses, BeginChunk
    <2> QED BY <2>1, <2>2
  <1>10. ASSUME NEW t \in Threads, Sleep(t) PROVE ChunkOK(u)'
    BY <1>fun, <1>quiet, <1>10 DEF Sleep
  <1>11. ASSUME NEW t \in Threads, Count(t) PROVE ChunkOK(u)'
    BY <1>fun, <1>quiet, <1>11 DEF Count
  <1>12. ASSUME NEW t \in Threads, Reserve(t) PROVE ChunkOK(u)'
    <2>1. CASE u = t
      BY <1>fun, <1>fresh, <1>12, <2>1 DEF Reserve
    <2>2. CASE u # t
      BY <1>fun, <1>quiet, <1>12, <2>2 DEF Reserve
    <2> QED BY <2>1, <2>2
  <1>13. ASSUME NEW t \in Threads, Store(t) PROVE ChunkOK(u)'
    <2>1. CASE u # t
      <3>1. CASE pc[u] = "copy"
        <4>1. /\ UNCHANGED <<pc[u], i[u], pos[u], vals[u]>> /\ Own(u)' = Own(u)
              /\ Inside(t)
          BY <1>fun, <1>13, <2>1 DEF Store, Copying, Advance, Own, Inside
        <4> QED BY <1>frame, <1>13, <2>1, <3>1, <4>1, ChunkApart
      <3>2. CASE pc[u] # "copy"
        BY <1>13, <3>2 DEF Store, Advance, ChunkOK
      <3> QED BY <3>1, <3>2
    <2>2. CASE u = t
      <3> DEFINE n == Chunk(u)
      <3>1. /\ pc[u] = "copy" /\ n \in Nat /\ n <= i[u] /\ i[u] \in Nat
            /\ \A k \in 1 .. n : elements[SlotAt(Own(u), k)] = vals[u][i[u] - n + k]
        BY <1>fun, <1>13, <2>2, ChunkGrows DEF Store, Copying, ChunkOK
      <3>2. /\ Chunk(u)' = n + 1 /\ Own(u)' = Own(u) /\ i'[u] = i[u] + 1
            /\ SlotAt(Own(u), n + 1) = pos[u]
            /\ \A k \in 1 .. n : /\ SlotAt(Own(u), k) \in Slots
                                /\ SlotAt(Own(u), k) # pos[u]
        BY <1>13, <2>2, ChunkGrows DEF Store
      <3>3. \A k : SlotAt(Own(u), k)' = SlotAt(Own(u), k)
        BY <3>2 DEF SlotAt
      <3> HIDE DEF n
      <3>4. ASSUME NEW k \in 1 .. (n + 1)
            PROVE  elements'[SlotAt(Own(u), k)] = vals'[u][i'[u] - (n + 1) + k]
        <4>1. k \in 1 .. n \/ k = n + 1
          BY <3>1
        <4>2. i'[u] - (n + 1) + k = i[u] - n + k /\ i[u] - n + (n + 1) = i[u] + 1
          BY <3>1, <3>2
        <4>3. /\ elements' = [elements EXCEPT ![pos[u]] = vals[u][i[u] + 1]]
              /\ vals' = vals
          BY <1>13, <2>2 DEF Store
        <4>4. CASE k \in 1 .. n
          BY <1>fun, <3>1, <3>2, <4>2, <4>3, <4>4
        <4>5. CASE k = n + 1
          BY <1>fun, <3>2, <4>2, <4>3, <4>5
        <4> QED BY <4>1, <4>4, <4>5
      <3>5. n + 1 <= i'[u]
        BY <3>1, <3>2
      <3> QED BY <3>2, <3>3, <3>4, <3>5 DEF ChunkOK
    <2> QED BY <2>1, <2>2
  <1>14. ASSUME NEW t \in Threads, Load(t) PROVE ChunkOK(u)'
    <2>1. CASE u # t
      BY <1>fun, <1>quiet, <1>14, <2>1 DEF Load, Advance
    <2>2. CASE u = t
      <3> DEFINE n == Chunk(u)
      <3>1. /\ pc[u] = "copy" /\ n \in Nat /\ n <= i[u] /\ i[u] \in Nat
            /\ \A k \in 1 .. n : elements[SlotAt(Own(u), k)] = vals[u][i[u] - n + k]
        BY <1>fun, <1>14, <2>2, ChunkGrows DEF Load, Copying, ChunkOK
      <3>2. /\ Chunk(u)' = n + 1 /\ Own(u)' = Own(u) /\ i'[u] = i[u] + 1
            /\ SlotAt(Own(u), n + 1) = pos[u]
            /\ \A k \in 1 .. n : /\ SlotAt(Own(u), k) \in Slots
                                /\ SlotAt(Own(u), k) # pos[u]
        BY <1>14, <2>2, ChunkGrows DEF Load
      <3>3. \A k : SlotAt(Own(u), k)' = SlotAt(Own(u), k)
        BY <3>2 DEF SlotAt
      <3> HIDE DEF n
      <3>4. ASSUME NEW k \in 1 .. (n + 1)
            PROVE  elements'[SlotAt(Own(u), k)] = vals'[u][i'[u] - (n + 1) + k]
        <4>1. k \in 1 .. n \/ k = n + 1
          BY <3>1
        <4>2. i'[u] - (n + 1) + k = i[u] - n + k /\ i[u] - n + (n + 1) = i[u] + 1
          BY <3>1, <3>2
        <4>3. /\ elements' = elements
              /\ vals'[u] = Append(vals[u], elements[pos[u]])
          BY <1>fun, <1>14, <2>2 DEF Load
        <4>4. vals[u] \in Seq(Values \cup {Null}) /\ Len(vals[u]) = i[u]
          BY <1>fun, <1>14, <2>2 DEF Load, MovesOK
        <4>5. CASE k \in 1 .. n
          <5>1. i[u] - n + k \in 1 .. i[u]
            BY <3>1, <4>5
          <5>2. vals'[u][i[u] - n + k] = vals[u][i[u] - n + k]
            BY <4>3, <4>4, <5>1
          <5> QED BY <3>1, <4>2, <4>3, <4>5, <5>2
        <4>6. CASE k = n + 1
          <5>1. vals'[u][i[u] + 1] = elements[pos[u]]
            BY <4>3, <4>4
          <5> QED BY <3>2, <4>2, <4>3, <4>6, <5>1
        <4> QED BY <4>1, <4>5, <4>6
      <3>5. n + 1 <= i'[u]
        BY <3>1, <3>2
      <3> QED BY <3>2, <3>3, <3>4, <3>5 DEF ChunkOK
    <2> QED BY <2>1, <2>2
  <1>15. ASSUME NEW t \in Threads, Publish(t) PROVE ChunkOK(u)'
    <2>1. CASE u # t /\ pc[u] = "copy"
      <3>1. /\ UNCHANGED <<pc[u], i[u], pos[u], vals[u], elements>>
            /\ Inside(t)
        BY <1>fun, <1>15, <2>1 DEF Publish, Inside
      <3> QED BY <1>frame, <1>15, <2>1, <3>1, ChunkApart
    <2>2. CASE u = t \/ pc[u] # "copy"
      <3>1. pc'[u] # "copy"
        BY <1>fun, <1>15, <2>2 DEF Publish
      <3> QED BY <3>1 DEF ChunkOK
    <2> QED BY <2>1, <2>2
  <1>16. ASSUME NEW t \in Threads, Broadcast(t) PROVE ChunkOK(u)'
    BY <1>fun, <1>quiet, <1>16 DEF Broadcast
  <1>17. ASSUME NEW t \in Threads, Loop(t) PROVE ChunkOK(u)'
    BY <1>fun, <1>quiet, <1>17 DEF Loop
  <1>18. ASSUME NEW t \in Threads, Return(t) PROVE ChunkOK(u)'
    BY <1>fun, <1>quiet, <1>18 DEF Return, Forget
  <1>19. ASSUME NEW t \in Threads, WaitLock(t) PROVE ChunkOK(u)'
    BY <1>fun, <1>quiet, <1>19 DEF WaitLock
  <1>20. ASSUME NEW t \in Threads, NotifyLock(t) PROVE ChunkOK(u)'
    BY <1>fun, <1>quiet, <1>20 DEF NotifyLock
  <1>21. ASSUME NEW t \in Threads, SpuriousWake(t) PROVE ChunkOK(u)'
    BY <1>fun, <1>quiet, <1>21 DEF SpuriousWake
  <1>22. CASE UNCHANGED vars
    BY <1>quiet, <1>22 DEF vars
  <1> QED
    BY <1>1, <1>2, <1>3, <1>4, <1>5, <1>6, <1>7, <1>8, <1>9, <1>10, <1>11,
       <1>12, <1>13, <1>14, <1>15, <1>16, <1>17, <1>18, <1>19, <1>20, <1>21, <1>22
    DEF Next, Run, TakeMutex

(* The windows, and what was copied through them. *)
Carried == Windows /\ \A t \in Threads : MovesOK(t) /\ ChunkOK(t)

(* A call has copied what it was given, from or to the slots of its side. *)
THEOREM CarriedInvariant == SmallBulk => (Spec => []Carried)
  <1> SUFFICES ASSUME SmallBulk PROVE Spec => []Carried
    OBVIOUS
  <1>1. Init => \A t \in Threads : MovesOK(t) /\ ChunkOK(t)
    <2> SUFFICES ASSUME Init, NEW t \in Threads PROVE MovesOK(t) /\ ChunkOK(t)
      OBVIOUS
    <2>1. pc[t] = "idle" /\ vals[t] = <<>> /\ i[t] = 0
      BY DEF Init
    <2> QED BY <2>1 DEF MovesOK, ChunkOK, Counting
  <1>2. /\ Windows /\ (\A t \in Threads : MovesOK(t) /\ ChunkOK(t)) /\ [Next]_vars
        => (\A t \in Threads : MovesOK(t) /\ ChunkOK(t))'
    BY MovesStep, ChunkStep DEF Windows, Safe
  <1> QED BY <1>1, <1>2, WindowsInvariant, PTL DEF Spec, Carried

(* The inductive invariant the runs check, as one theorem. *)
THEOREM Induction == Spec => []IndInv
  <1>1. CASE SmallBulk
    <2>1. Carried => IndInv
      BY SafeExclusion DEF Carried, Windows, Safe, Typed, IndInv
    <2> QED BY <1>1, <2>1, CarriedInvariant, PTL
  <1>2. CASE ~SmallBulk
    <2>1. Safe => IndInv
      BY <1>2, SafeExclusion DEF Safe, Typed, IndInv
    <2> QED BY <2>1, SafeInvariant, PTL
  <1> QED BY <1>1, <1>2

----------------------------------------------------------------------------
(* The queue.  A step of a thread changes nothing of the other calls; and  *)
(* only publishing changes the queue.                                      *)

Step(t) == Call(t) \/ Run(t) \/ TakeMutex(t) \/ SpuriousWake(t)

(* What a caller sees of its call depends on this only. *)
LEMMA ViewSame ==
    ASSUME NEW u \in Threads, InCall(u)' <=> InCall(u),
           call'[u] = call[u], vals'[u] = vals[u], Committed(u)' = Committed(u)
    PROVE  Offered(u)' = Offered(u) /\ Taken(u)' = Taken(u)
  BY DEF Offered, Taken

LEMMA OthersStay ==
    ASSUME Windows, NEW t \in Threads, Step(t), NEW u \in Threads, u # t
    PROVE  Offered(u)' = Offered(u) /\ Taken(u)' = Taken(u)
  <1> USE DEF Goto, locals
  <1>fun. /\ pc \in [Threads -> Labels]
         /\ call \in [Threads -> WriterCalls \cup ReaderCalls \cup {NoCall}]
         /\ vals \in [Threads -> Seq(Values \cup {Null})]
         /\ i \in [Threads -> Nat] /\ ready \in [Threads -> Nat]
         /\ pos \in [Threads -> Slots]
    BY DEF Windows, Safe, Typed, TypeOK
  <1> DEFINE Still == /\ UNCHANGED <<call[u], vals[u], i[u], pos[u]>>
                      /\ pc'[u] = pc[u] \/ (pc[u] = "asleep" /\ pc'[u] = "woken")
                      /\ pc[u] = "copy" => Own(u)' = Own(u)
  <1>own. UNCHANGED <<start, end>> => Own(u)' = Own(u)
    BY DEF Own
  <1>1. ASSUME Call(t) PROVE Still
    BY <1>fun, <1>own, <1>1 DEF Call, Entry
  <1>2. ASSUME EarlyFirst(t) PROVE Still
    BY <1>fun, <1>own, <1>2 DEF EarlyFirst
  <1>3. ASSUME EarlyRefuse(t) PROVE Still
    BY <1>fun, <1>own, <1>3 DEF EarlyRefuse, Forget
  <1>4. ASSUME EarlyPass(t) PROVE Still
    BY <1>fun, <1>own, <1>4 DEF EarlyPass
  <1>5. ASSUME Lock(t) PROVE Still
    BY <1>fun, <1>own, <1>5 DEF Lock
  <1>6. ASSUME Check(t) PROVE Still
    BY <1>fun, <1>own, <1>6 DEF Check
  <1>7. ASSUME Poll(t) PROVE Still
    BY <1>fun, <1>own, <1>7 DEF Poll, BeginChunk
  <1>8. ASSUME TestFails(t) PROVE Still
    BY <1>fun, <1>own, <1>8 DEF TestFails
  <1>9. ASSUME TestPasses(t) PROVE Still
    BY <1>fun, <1>own, <1>9 DEF TestPasses, BeginChunk
  <1>10. ASSUME Sleep(t) PROVE Still
    BY <1>fun, <1>own, <1>10 DEF Sleep
  <1>11. ASSUME Count(t) PROVE Still
    BY <1>fun, <1>own, <1>11 DEF Count
  <1>12. ASSUME Reserve(t) PROVE Still
    BY <1>fun, <1>own, <1>12 DEF Reserve
  <1>13. ASSUME Store(t) PROVE Still
    BY <1>fun, <1>own, <1>13 DEF Store, Advance, Copying
  <1>14. ASSUME Load(t) PROVE Still
    BY <1>fun, <1>own, <1>14 DEF Load, Advance, Copying
  <1>15. ASSUME Publish(t) PROVE Still
    <2>1. UNCHANGED <<call[u], vals[u], i[u], pos[u], pc[u]>> /\ Inside(t)
      BY <1>fun, <1>15 DEF Publish, Inside
    <2>2. pc[u] = "copy" => Own(u)' = Own(u)
      BY <1>15, <2>1, ChunkApart
    <2>3. Still
      BY <2>1, <2>2
    <2> QED BY <2>3
  <1>16. ASSUME Broadcast(t) PROVE Still
    BY <1>fun, <1>own, <1>16 DEF Broadcast
  <1>17. ASSUME Loop(t) PROVE Still
    BY <1>fun, <1>own, <1>17 DEF Loop
  <1>18. ASSUME Return(t) PROVE Still
    BY <1>fun, <1>own, <1>18 DEF Return, Forget
  <1>19. ASSUME WaitLock(t) PROVE Still
    BY <1>fun, <1>own, <1>19 DEF WaitLock
  <1>20. ASSUME NotifyLock(t) PROVE Still
    BY <1>fun, <1>own, <1>20 DEF NotifyLock
  <1>21. ASSUME SpuriousWake(t) PROVE Still
    BY <1>fun, <1>own, <1>21 DEF SpuriousWake
  <1>still. Still
    BY <1>1, <1>2, <1>3, <1>4, <1>5, <1>6, <1>7, <1>8, <1>9, <1>10, <1>11,
       <1>12, <1>13, <1>14, <1>15, <1>16, <1>17, <1>18, <1>19, <1>20, <1>21
    DEF Step, Run, TakeMutex
  <1>view. InCall(u)' <=> InCall(u)
    BY <1>still DEF InCall
  <1>count. Committed(u)' = Committed(u)
    BY <1>still DEF Committed, Chunk, Dist
  <1> QED BY <1>still, <1>view, <1>count, ViewSame

LEMMA QueueStays ==
    ASSUME Windows, NEW t \in Threads, Step(t), ~Publish(t)
    PROVE  Queue' = Queue
  <1> USE DEF locals
  <1>fun. /\ start \in Slots /\ end \in Slots
         /\ pos \in [Threads -> Slots]
         /\ elements \in [Slots -> Values \cup {Null}]
    BY DEF Windows, Safe, Typed, TypeOK
  <1>1. UNCHANGED <<start, end>>
    BY DEF Step, Run, TakeMutex, Call, EarlyFirst, EarlyRefuse, EarlyPass, Lock, Check,
           Poll, TestFails, TestPasses, Sleep, Count, Reserve, Store, Load, Advance,
           Broadcast, Loop, Return, WaitLock, NotifyLock, SpuriousWake
  <1>2. elements' = elements \/ Store(t)
    BY DEF Step, Run, TakeMutex, Call, EarlyFirst, EarlyRefuse, EarlyPass, Lock, Check,
           Poll, TestFails, TestPasses, Sleep, Count, Reserve, Load,
           Broadcast, Loop, Return, WaitLock, NotifyLock, SpuriousWake
  <1>3. \A k \in 1 .. NbFull : elements'[SlotAt(start, k)] = elements[SlotAt(start, k)]
    <2>1. CASE elements' = elements
      BY <2>1
    <2>2. CASE Store(t)
      <3>1. pos[t] \notin Unread
        BY <2>2, WindowsOwn, RingAssumption DEF SlotOwnership, Store
      <3> QED BY <1>fun, <2>2, <3>1, UnreadFact DEF Store, Unread
    <2> QED BY <1>2, <2>1, <2>2
  <1>4. NbFull' = NbFull /\ \A k : SlotAt(start, k)' = SlotAt(start, k)
    BY <1>1 DEF NbFull, Dist, SlotAt
  <1> QED BY <1>3, <1>4 DEF Queue

(* The steps the queue does not see, of the thread that takes them. *)
LEMMA InnerStays ==
    ASSUME Carried, NEW t \in Threads,
           \/ EarlyFirst(t) \/ EarlyPass(t) \/ Lock(t)
           \/ Check(t) /\ ~Refuses(t)
           \/ Poll(t) \/ TestFails(t) \/ TestPasses(t) \/ Sleep(t)
           \/ Count(t) \/ Reserve(t) \/ Store(t) \/ Load(t)
           \/ Broadcast(t) \/ (Loop(t) /\ GoesRound(t)) \/ Return(t)
           \/ WaitLock(t) \/ NotifyLock(t) \/ SpuriousWake(t)
    PROVE  /\ t \in Writers => Offered(t)' = Offered(t)
           /\ t \in Readers => Taken(t)' = Taken(t)
  <1> USE DEF Goto, locals
  <1>fun. /\ pc \in [Threads -> Labels]
         /\ call \in [Threads -> WriterCalls \cup ReaderCalls \cup {NoCall}]
         /\ vals \in [Threads -> Seq(Values \cup {Null})]
         /\ i \in [Threads -> Nat] /\ ready \in [Threads -> Nat]
         /\ pos \in [Threads -> Slots]
         /\ start \in Slots /\ end \in Slots
    BY DEF Carried, Windows, Safe, Typed, TypeOK
  <1>own. Own(t) \in Slots /\ Dist(Own(t), Own(t)) = 0
    BY <1>fun, DistFacts DEF Own
  <1>quiet. ASSUME pc[t] \notin {"copy", "idle", "unlock"}, i'[t] = i[t],
                   pc'[t] \notin {"copy", "idle", "unlock"},
                   call'[t] = call[t], vals'[t] = vals[t]
            PROVE  Offered(t)' = Offered(t) /\ Taken(t)' = Taken(t)
    BY <1>quiet, ViewSame DEF InCall, Committed
  <1>fresh. ASSUME pc[t] \notin {"copy", "idle", "unlock"}, i'[t] = i[t],
                   pc'[t] = "copy", pos'[t] = Own(t), UNCHANGED <<start, end>>,
                   call'[t] = call[t], vals'[t] = vals[t]
            PROVE  Offered(t)' = Offered(t) /\ Taken(t)' = Taken(t)
    <2>1. Chunk(t)' = 0
      BY <1>own, <1>fresh DEF Chunk, Own, Dist
    <2>2. Committed(t)' = Committed(t)
      BY <1>fun, <1>fresh, <2>1 DEF Committed
    <2> QED BY <1>fresh, <2>2, ViewSame DEF InCall
  <1>1. CASE \/ EarlyFirst(t) \/ EarlyPass(t) \/ Lock(t) \/ (Check(t) /\ ~Refuses(t))
             \/ TestFails(t) \/ Sleep(t) \/ Count(t) \/ (Loop(t) /\ GoesRound(t))
    BY <1>fun, <1>quiet, <1>1
    DEF EarlyFirst, EarlyPass, Lock, Check, TestFails, Sleep, Count, Loop
  <1>2. CASE Broadcast(t) \/ WaitLock(t) \/ NotifyLock(t) \/ SpuriousWake(t)
    BY <1>fun, <1>quiet, <1>2 DEF Broadcast, WaitLock, NotifyLock, SpuriousWake
  <1>3. CASE Poll(t) \/ TestPasses(t)
    <2>1. CASE call[t].bulk
      BY <1>fun, <1>quiet, <1>3, <2>1 DEF Poll, TestPasses, BeginChunk
    <2>2. CASE ~call[t].bulk
      BY <1>fun, <1>fresh, <1>3, <2>2 DEF Poll, TestPasses, BeginChunk
    <2> QED BY <2>1, <2>2
  <1>4. CASE Reserve(t)
    BY <1>fun, <1>fresh, <1>4 DEF Reserve
  <1>5. CASE Return(t)
    <2>1. ~InCall(t) /\ ~InCall(t)'
      BY <1>fun, <1>5 DEF Return, InCall
    <2> QED BY <2>1 DEF Offered, Taken
  <1>6. CASE Store(t) \/ Load(t)
    <2>1. /\ pc[t] = "copy" /\ pc'[t] = "copy" /\ call'[t] = call[t]
          /\ Chunk(t)' = Chunk(t) + 1 /\ i'[t] = i[t] + 1 /\ Chunk(t) \in Nat
      BY <1>6, ChunkGrows DEF Carried, Store, Load, Copying, Advance
    <2>2. Committed(t)' = Committed(t) /\ Committed(t) = i[t] - Chunk(t)
      BY <1>fun, <2>1 DEF Committed
    <2>3. CASE Store(t)
      BY <2>1, <2>2, <2>3, ViewSame DEF InCall, Store
    <2>4. CASE Load(t)
      <3>1. t \in Readers /\ t \notin Writers
        BY <2>4, RingAssumption DEF Load
      <3>2. vals'[t] = Append(vals[t], elements[pos[t]])
        BY <1>fun, <2>4 DEF Load
      <3>3. /\ vals[t] \in Seq(Values \cup {Null}) /\ Len(vals[t]) = i[t]
            /\ elements[pos[t]] \in Values \cup {Null}
        BY <1>fun, <3>1 DEF Carried, MovesOK, Windows, Safe, Typed, TypeOK
      <3>4. Chunk(t) <= i[t]
        BY <2>1 DEF Carried, ChunkOK
      <3> DEFINE n == Committed(t)
      <3>5. n \in 0 .. Len(vals[t])
        BY <1>fun, <2>1, <2>2, <3>3, <3>4
      <3> HIDE DEF n
      <3>6. SubSeq(vals'[t], 1, n) = SubSeq(vals[t], 1, n)
        BY <3>2, <3>3, <3>5
      <3> QED BY <2>1, <2>2, <3>1, <3>6 DEF Taken, InCall, n
    <2> QED BY <1>6, <2>3, <2>4
  <1> QED BY <1>1, <1>2, <1>3, <1>4, <1>5, <1>6

(* A step shows in the call of the thread that takes it, if anywhere. *)
LEMMA ViewsMove ==
    ASSUME Windows, NEW t \in Threads, Step(t)
    PROVE  /\ t \in Writers =>
                Takes' = Takes /\ Offers' = [Offers EXCEPT ![t] = Offered(t)']
           /\ t \in Readers =>
                Offers' = Offers /\ Takes' = [Takes EXCEPT ![t] = Taken(t)']
  <1>1. \A u \in Threads : u # t => Offered(u)' = Offered(u) /\ Taken(u)' = Taken(u)
    BY OthersStay
  <1>2. Writers \cap Readers = {} /\ Writers \subseteq Threads /\ Readers \subseteq Threads
    BY RingAssumption DEF Threads
  <1>3. CASE t \in Writers
    BY <1>1, <1>2, <1>3 DEF Offers, Takes
  <1>4. CASE t \in Readers
    BY <1>1, <1>2, <1>4 DEF Offers, Takes
  <1> QED BY <1>3, <1>4 DEF Threads

LEMMA HiddenStep ==
    ASSUME Windows, NEW t \in Threads, Step(t), ~Publish(t),
           t \in Writers => Offered(t)' = Offered(t),
           t \in Readers => Taken(t)' = Taken(t)
    PROVE  UNCHANGED FIFO!fifoVars
  <1>1. Queue' = Queue
    BY QueueStays
  <1>2. t \in Writers => Offers' = Offers /\ Takes' = Takes
    BY ViewsMove DEF Offers
  <1>3. t \in Readers => Offers' = Offers /\ Takes' = Takes
    BY ViewsMove DEF Takes
  <1> QED BY <1>1, <1>2, <1>3 DEF FIFO!fifoVars, Threads

(* Entering a function. *)
LEMMA CallStep ==
    ASSUME Carried, NEW t \in Threads, Call(t)
    PROVE  FIFO!FIFONext
  <1>fun. /\ pc \in [Threads -> Labels]
         /\ call \in [Threads -> WriterCalls \cup ReaderCalls \cup {NoCall}]
         /\ vals \in [Threads -> Seq(Values \cup {Null})]
         /\ i \in [Threads -> Nat]
    BY DEF Carried, Windows, Safe, Typed, TypeOK
  <1>moves. Queue' = Queue
    BY QueueStays DEF Carried, Step, Call, Publish
  <1>views. /\ t \in Writers =>
                 Takes' = Takes /\ Offers' = [Offers EXCEPT ![t] = Offered(t)']
            /\ t \in Readers =>
                 Offers' = Offers /\ Takes' = [Takes EXCEPT ![t] = Taken(t)']
    BY ViewsMove DEF Carried, Step
  <1>1. PICK c \in IF t \in Writers THEN WriterCalls ELSE ReaderCalls :
          /\ call' = [call EXCEPT ![t] = c]
          /\ \E v \in IF t \in Writers THEN [1 .. c.nb -> Values] ELSE {<<>>} :
                vals' = [vals EXCEPT ![t] = v]
          /\ Goto(t, Entry(c))
    BY DEF Call
  <1>2. PICK v \in IF t \in Writers THEN [1 .. c.nb -> Values] ELSE {<<>>} :
          vals' = [vals EXCEPT ![t] = v]
    BY <1>1
  <1>3. /\ c.nb \in Nat /\ c.min \in Nat
        /\ t \in Writers => v \in Seq(Values)
    BY CallFields
  <1>4. i[t] = 0 /\ ~InCall(t)
    BY DEF Carried, Windows, Safe, Typed, CallOK, Call, Inside, InCall
  <1>5. /\ call'[t] = c /\ vals'[t] = v /\ i'[t] = 0
        /\ pc'[t] \in {"early", "lock", "check"}
    BY <1>fun, <1>1, <1>2, <1>4 DEF Call, Goto, Entry
  <1>6. InCall(t)' /\ Committed(t)' = 0
    BY <1>5 DEF InCall, Committed
  <1>7. CASE t \in Writers
    <2>1. Offered(t)' = [open |-> TRUE, vals |-> v, n |-> 0, min |-> c.min]
      BY <1>5, <1>6 DEF Offered
    <2>2. ~Offers[t].open
      BY <1>4, <1>7 DEF Offers, Offered
    <2>3. Offers'[t] = Offered(t)'
      BY <1>7 DEF Offers
    <2>4. FIFO!Offer(t)
      BY <1>3, <1>7, <1>moves, <1>views, <2>1, <2>2, <2>3 DEF FIFO!Offer
    <2> QED BY <1>7, <2>4 DEF FIFO!FIFONext
  <1>8. CASE t \in Readers
    <2>0. v = <<>>
      BY <1>8, RingAssumption
    <2>1. Taken(t)' = [open |-> TRUE, got |-> <<>>, nb |-> c.nb, min |-> c.min]
      <3>1. SubSeq(vals'[t], 1, Committed(t)') = <<>>
        BY <1>5, <1>6, <2>0
      <3> QED BY <1>5, <1>6, <3>1 DEF Taken
    <2>2. ~Takes[t].open
      BY <1>4, <1>8 DEF Takes, Taken
    <2>3. Takes'[t] = Taken(t)'
      BY <1>8 DEF Takes
    <2>4. FIFO!Ask(t)
      BY <1>3, <1>8, <1>moves, <1>views, <2>1, <2>2, <2>3 DEF FIFO!Ask
    <2> QED BY <1>8, <2>4 DEF FIFO!FIFONext
  <1> QED BY <1>7, <1>8 DEF Threads

(* Leaving one, refused or done. *)
LEMMA LeaveStep ==
    ASSUME Carried, NEW t \in Threads,
           \/ EarlyRefuse(t)
           \/ Check(t) /\ Refuses(t)
           \/ Loop(t) /\ ~GoesRound(t)
    PROVE  FIFO!FIFONext
  <1> USE DEF Goto
  <1>fun. /\ pc \in [Threads -> Labels]
         /\ vals \in [Threads -> Seq(Values \cup {Null})]
         /\ i \in [Threads -> Nat]
         /\ call[t].nb \in Nat /\ call[t].min \in Nat
    BY CallFields DEF Carried, Windows, Safe, Typed, TypeOK
  <1>step. Step(t) /\ ~Publish(t)
    BY DEF Step, Run, EarlyRefuse, Check, Loop, Publish
  <1>moves. Queue' = Queue
    BY <1>step, QueueStays DEF Carried
  <1>views. /\ t \in Writers =>
                 Takes' = Takes /\ Offers' = [Offers EXCEPT ![t] = Offered(t)']
            /\ t \in Readers =>
                 Offers' = Offers /\ Takes' = [Takes EXCEPT ![t] = Taken(t)']
    BY <1>step, ViewsMove DEF Carried
  <1>1. /\ pc[t] \in {"early_start", "early_end", "check", "loop"}
        /\ pc'[t] \in {"idle", "unlock"}
    BY <1>fun DEF EarlyRefuse, Check, Loop
  <1>2. InCall(t) /\ ~InCall(t)' /\ Committed(t) = i[t]
    BY <1>1 DEF InCall, Committed
  <1>3. CallOK(t) /\ MovesOK(t)
    BY DEF Carried, Windows, Safe, Typed
  (* Nothing was moved, and the call may go; or enough was. *)
  <1>4. \/ i[t] = 0 /\ (call[t].min > call[t].nb \/ call[t].min = 0)
        \/ i[t] >= call[t].min /\ (i[t] > 0 \/ call[t].nb = 0)
    <2>1. CASE EarlyRefuse(t)
      BY <1>3, <2>1 DEF EarlyRefuse, CallOK, MovesOK, Inside
    <2>2. CASE Check(t) /\ Refuses(t)
      BY <1>3, <2>2 DEF Check, Refuses, CallOK
    <2>3. CASE Loop(t) /\ ~GoesRound(t)
      BY <1>fun, <1>3, <2>3 DEF Loop, GoesRound, MovesOK
    <2> QED BY <2>1, <2>2, <2>3
  <1>5. CASE t \in Writers
    <2>1. Offers[t] = [open |-> TRUE, vals |-> vals[t], n |-> i[t], min |-> call[t].min]
      BY <1>2, <1>5 DEF Offers, Offered
    <2>2. Offers' = [Offers EXCEPT ![t] = FIFO!NoOffer]
      BY <1>2, <1>5, <1>views DEF Offered, FIFO!NoOffer
    <2>3. Len(vals[t]) = call[t].nb
      BY <1>3, <1>5 DEF CallOK
    <2>4. call[t].nb = 0 => vals[t] = <<>>
      BY <1>fun, <2>3
    <2>5. CASE i[t] = 0 /\ (call[t].min > call[t].nb \/ call[t].min = 0)
      <3>1. FIFO!OfferRefused(t)
        BY <1>5, <1>moves, <1>views, <2>1, <2>2, <2>3, <2>5 DEF FIFO!OfferRefused
      <3> QED BY <1>5, <3>1 DEF FIFO!FIFONext
    <2>6. CASE i[t] >= call[t].min /\ (i[t] > 0 \/ call[t].nb = 0)
      <3>1. FIFO!OfferDone(t)
        BY <1>5, <1>moves, <1>views, <2>1, <2>2, <2>4, <2>6 DEF FIFO!OfferDone
      <3> QED BY <1>5, <3>1 DEF FIFO!FIFONext
    <2> QED BY <1>4, <2>5, <2>6
  <1>6. CASE t \in Readers
    <2>1. Len(vals[t]) = i[t] /\ SubSeq(vals[t], 1, i[t]) = vals[t]
      <3>1. Len(vals[t]) = i[t]
        BY <1>3, <1>6 DEF MovesOK
      <3> QED BY <1>fun, <3>1
    <2>2. Takes[t] = [open |-> TRUE, got |-> vals[t], nb |-> call[t].nb, min |-> call[t].min]
      BY <1>2, <1>6, <2>1 DEF Takes, Taken
    <2>3. Takes' = [Takes EXCEPT ![t] = FIFO!NoTake]
      BY <1>2, <1>6, <1>views DEF Taken, FIFO!NoTake
    <2>4. i[t] = 0 <=> vals[t] = <<>>
      BY <1>fun, <2>1
    <2>5. CASE i[t] = 0 /\ (call[t].min > call[t].nb \/ call[t].min = 0)
      <3>1. FIFO!TakeRefused(t)
        BY <1>6, <1>moves, <1>views, <2>2, <2>3, <2>4, <2>5 DEF FIFO!TakeRefused
      <3> QED BY <1>6, <3>1 DEF FIFO!FIFONext
    <2>6. CASE i[t] >= call[t].min /\ (i[t] > 0 \/ call[t].nb = 0)
      <3>1. FIFO!TakeDone(t)
        BY <1>fun, <1>6, <1>moves, <1>views, <2>1, <2>2, <2>3, <2>4, <2>6 DEF FIFO!TakeDone
      <3> QED BY <1>6, <3>1 DEF FIFO!FIFONext
    <2> QED BY <1>4, <2>5, <2>6
  <1> QED BY <1>5, <1>6 DEF Threads

(* Stretches of a sequence, counted from their start. *)
LEMMA Shifted ==
    \A a, b \in Nat :
        /\ (a + b) - (a + 1) + 1 = b /\ (a + 1) + b - 1 = a + b
        /\ b - (a + 1) + 1 = b - a
  OBVIOUS

LEMMA StretchFact ==
    ASSUME NEW S, NEW v \in Seq(S), NEW n \in Nat, NEW m \in Nat, n + m <= Len(v)
    PROVE  /\ SubSeq(v, n + 1, n + m) \in Seq(S)
           /\ Len(SubSeq(v, n + 1, n + m)) = m
           /\ \A j \in 1 .. m : SubSeq(v, n + 1, n + m)[j] = v[n + j]
  <1> DEFINE a == n + 1
             b == n + m
             s == SubSeq(v, a, b)
  <1>1. \A k \in a .. b : v[k] \in S
    OBVIOUS
  <1>2. a \in Int /\ b \in Int
    OBVIOUS
  <1>3. /\ b - a + 1 = m /\ (a <= b <=> m # 0)
        /\ \A j \in 1 .. m : a + j - 1 = n + j
    BY Shifted
  <1> HIDE DEF a, b
  <1>4. /\ s \in Seq(S)
        /\ Len(s) = IF a <= b THEN b - a + 1 ELSE 0
        /\ \A j \in 1 .. b - a + 1 : s[j] = v[a + j - 1]
    BY <1>1, <1>2, SubSeqProperties
  <1> HIDE DEF s
  <1>5. s \in Seq(S) /\ Len(s) = m /\ \A j \in 1 .. m : s[j] = v[n + j]
    BY <1>3, <1>4
  <1> QED BY <1>5 DEF a, b, s

(* A stretch of values put behind others, and taken from in front of them. *)
LEMMA Joined ==
    ASSUME NEW S, NEW q \in Seq(S), NEW s \in Seq(S), NEW f \in Seq(S),
           Len(f) = Len(q) + Len(s),
           \A k \in 1 .. Len(q) : f[k] = q[k],
           \A j \in 1 .. Len(s) : f[Len(q) + j] = s[j]
    PROVE  f = q \o s
  <1> DEFINE g == q \o s
             m == Len(s)
  <1>1. s \in Seq(S) /\ m \in Nat /\ Len(s) = m
    OBVIOUS
  <1>2. /\ g \in Seq(S) /\ Len(g) = Len(q) + m
        /\ \A k \in 1 .. (Len(q) + m) :
              g[k] = IF k <= Len(q) THEN q[k] ELSE s[k - Len(q)]
    BY <1>1, ConcatProperties
  <1> HIDE DEF g
  <1>3. ASSUME NEW k \in 1 .. Len(f) PROVE f[k] = g[k]
    <2>1. CASE k <= Len(q)
      BY <1>2, <2>1
    <2>2. CASE ~(k <= Len(q))
      <3>1. k - Len(q) \in 1 .. m /\ Len(q) + (k - Len(q)) = k
        BY <2>2
      <3>2. f[Len(q) + (k - Len(q))] = s[k - Len(q)]
        BY <3>1
      <3>3. g[k] = s[k - Len(q)]
        BY <1>2, <2>2
      <3> QED BY <3>1, <3>2, <3>3
    <2> QED BY <2>1, <2>2
  <1>4. f = g
    BY <1>2, <1>3, SeqEqual
  <1> QED BY <1>4 DEF g

LEMMA Dropped ==
    ASSUME NEW S, NEW q \in Seq(S), NEW m \in Nat, m <= Len(q),
           NEW f \in Seq(S), Len(f) = Len(q) - m,
           \A k \in 1 .. Len(f) : f[k] = q[m + k]
    PROVE  f = SubSeq(q, m + 1, Len(q))
  <1> DEFINE g == SubSeq(q, m + 1, Len(q))
  <1>1. m + 1 \in Int /\ Len(q) \in Int /\ \A k \in (m + 1) .. Len(q) : q[k] \in S
    OBVIOUS
  <1>2. /\ g \in Seq(S)
        /\ Len(g) = IF m + 1 <= Len(q) THEN Len(q) - (m + 1) + 1 ELSE 0
        /\ \A j \in 1 .. Len(q) - (m + 1) + 1 : g[j] = q[(m + 1) + j - 1]
    BY <1>1, SubSeqProperties
  <1> HIDE DEF g
  <1>3. /\ Len(q) - (m + 1) + 1 = Len(q) - m
        /\ \A k \in Nat : (m + 1) + k - 1 = m + k
    BY Shifted
  <1>4. Len(g) = Len(f)
    BY <1>2, <1>3
  <1>5. ASSUME NEW k \in 1 .. Len(f) PROVE f[k] = g[k]
    <2>1. k \in 1 .. (Len(q) - (m + 1) + 1) /\ (m + 1) + k - 1 = m + k
      BY <1>3
    <2>2. g[k] = q[(m + 1) + k - 1]
      BY <1>2, <2>1
    <2>3. f[k] = q[m + k]
      OBVIOUS
    <2> QED BY <2>1, <2>2, <2>3
  <1>6. f = g
    BY <1>2, <1>4, <1>5, SeqEqual
  <1> QED BY <1>6 DEF g

(* The queue is a sequence with as many values as there are unread slots. *)
LEMMA QueueFact ==
    ASSUME TypeOK
    PROVE  /\ Queue \in Seq(Values \cup {Null}) /\ Len(Queue) = NbFull
           /\ NbFull \in 0 .. (Size - 1)
           /\ \A k \in 1 .. NbFull : Queue[k] = elements[SlotAt(start, k)]
  <1>1. NbFull \in 0 .. (Size - 1) /\ Size \in Nat
    BY DistFacts, RingAssumption DEF NbFull, TypeOK
  <1>2. \A k \in 1 .. NbFull : elements[SlotAt(start, k)] \in Values \cup {Null}
    <2> SUFFICES ASSUME NEW k \in 1 .. NbFull
                 PROVE  elements[SlotAt(start, k)] \in Values \cup {Null}
      OBVIOUS
    <2>1. k \in 1 .. Size
      BY <1>1
    <2>2. SlotAt(start, k) \in Slots
      BY <2>1, SlotFact DEF TypeOK
    <2> QED BY <2>2 DEF TypeOK
  <1> QED BY <1>1, <1>2 DEF Queue

(* What a thread publishes is what it has copied, and available to it. *)
LEMMA PublishedFact ==
    ASSUME Carried, NEW t \in Threads, Publish(t)
    PROVE  /\ Chunk(t) \in Nat /\ Chunk(t) <= i[t] /\ Chunk(t) <= NbAvailable(t)
           /\ Dist(Own(t), pos[t]) = Chunk(t)
           /\ NbAvailable(t) \in 0 .. (Size - 1)
           /\ i[t] \in Nat /\ i[t] <= call[t].nb /\ call[t].min <= call[t].nb
           /\ call[t].nb \in Nat /\ call[t].min \in Nat
           /\ InCall(t) /\ Committed(t) = i[t] - Chunk(t)
           /\ InCall(t)' /\ Committed(t)' = i[t]
           /\ \A k \in 1 .. Chunk(t) :
                 elements[SlotAt(Own(t), k)] = vals[t][i[t] - Chunk(t) + k]
           /\ UNCHANGED <<elements, call, vals, i>>
  <1>1. /\ i \in [Threads -> Nat] /\ ready \in [Threads -> Nat]
        /\ pos \in [Threads -> Slots] /\ start \in Slots /\ end \in Slots
        /\ pc \in [Threads -> Labels]
        /\ call[t].nb \in Nat /\ call[t].min \in Nat
        /\ Size \in Nat /\ Size >= 2
    BY CallFields, RingAssumption DEF Carried, Windows, Safe, Typed, TypeOK
  <1>2. /\ pc[t] = "copy" /\ i[t] >= ready[t] /\ pc'[t] \in {"notify", "loop"}
        /\ UNCHANGED <<elements, call, vals, i>>
    BY <1>1 DEF Publish, Goto
  <1>3. CallOK(t) /\ WindowOK(t) /\ ChunkOK(t)
    BY DEF Carried, Windows, Safe, Typed
  <1>4. Dist(Own(t), pos[t]) + ready[t] - i[t] <= NbAvailable(t) /\ i[t] = ready[t]
    BY <1>1, <1>2, <1>3 DEF WindowOK, CallOK
  <1>5. Dist(Own(t), pos[t]) \in 0 .. (Size - 1) /\ NbAvailable(t) \in 0 .. (Size - 1)
    BY <1>1, DistFacts, AvailableFact DEF Own
  <1>6. Chunk(t) \in Nat /\ Chunk(t) <= NbAvailable(t) /\ Dist(Own(t), pos[t]) = Chunk(t)
    <2>1. Dist(Own(t), pos[t]) <= NbAvailable(t)
      BY <1>1, <1>4, <1>5
    <2> QED BY <1>1, <1>5, <2>1 DEF Chunk
  <1>7. /\ InCall(t) /\ Committed(t) = i[t] - Chunk(t)
        /\ InCall(t)' /\ Committed(t)' = i[t]
    BY <1>2 DEF InCall, Committed
  <1> QED BY <1>1, <1>2, <1>3, <1>5, <1>6, <1>7 DEF CallOK, ChunkOK

(* An update of one field of a record, as the record it makes. *)
LEMMA OfferField ==
    ASSUME NEW o, NEW v, NEW min, NEW n, NEW k,
           NEW w, w = [[open |-> o, vals |-> v, n |-> n, min |-> min] EXCEPT !.n = k]
    PROVE  w = [open |-> o, vals |-> v, n |-> k, min |-> min]
  BY SMT

LEMMA TakeField ==
    ASSUME NEW o, NEW nb, NEW min, NEW g, NEW h,
           NEW w, w = [[open |-> o, got |-> g, nb |-> nb, min |-> min] EXCEPT !.got = h]
    PROVE  w = [open |-> o, got |-> h, nb |-> nb, min |-> min]
  BY SMT

LEMMA AdvancedOffer ==
    ASSUME NEW o, NEW v, NEW min, NEW n, NEW k, NEW m, NEW r, NEW s,
           r = [open |-> o, vals |-> v, n |-> n, min |-> min],
           s = [open |-> o, vals |-> v, n |-> k, min |-> min], n + m = k
    PROVE  s = [r EXCEPT !.n = @ + m]
  <1>1. ASSUME NEW w, w = [[open |-> o, vals |-> v, n |-> n, min |-> min] EXCEPT !.n = k]
        PROVE  w = [open |-> o, vals |-> v, n |-> k, min |-> min]
    BY <1>1, OfferField
  <1>2. r.n + m = k
    <2>1. r.n = n
      OBVIOUS
    <2> QED BY <2>1
  <1>3. [r EXCEPT !.n = @ + m] = [open |-> o, vals |-> v, n |-> k, min |-> min]
    BY <1>1, <1>2, Zenon
  <1> QED BY <1>3, Zenon

LEMMA AdvancedTake ==
    ASSUME NEW o, NEW nb, NEW min, NEW g, NEW h, NEW r, NEW s,
           r = [open |-> o, got |-> g, nb |-> nb, min |-> min],
           s = [open |-> o, got |-> h, nb |-> nb, min |-> min]
    PROVE  s = [r EXCEPT !.got = h] /\ r.got = g
  <1>1. ASSUME NEW w, w = [[open |-> o, got |-> g, nb |-> nb, min |-> min] EXCEPT !.got = h]
        PROVE  w = [open |-> o, got |-> h, nb |-> nb, min |-> min]
    BY <1>1, TakeField, Zenon
  <1>2. [r EXCEPT !.got = h] = [open |-> o, got |-> h, nb |-> nb, min |-> min]
    BY <1>1, Zenon
  <1>3. s = [r EXCEPT !.got = h]
    BY <1>2, Zenon
  <1>4. r.got = g
    OBVIOUS
  <1> QED BY <1>3, <1>4

(* While a call copies, no other call of its side has moved anything: the  *)
(* chunks of one call stay together.                                       *)
LEMMA AloneOnSide ==
    ASSUME Carried, NEW t \in Threads, Publish(t)
    PROVE  /\ t \in Writers => \A v \in Writers : v # t => Offers[v].n = 0
           /\ t \in Readers => \A s \in Readers : s # t => Takes[s].got = <<>>
  <1>1. SideExclusion /\ Inside(t) /\ TypeOK
    BY SafeExclusion DEF Carried, Windows, Safe, Typed, Publish, Inside
  <1>2. ASSUME NEW u \in Threads, u # t, Side(u) = Side(t)
        PROVE  pc[u] # "copy" /\ i[u] = 0
    <2>1. ~Inside(u)
      BY <1>1, <1>2 DEF SideExclusion
    <2> QED BY <2>1 DEF Carried, Windows, Safe, Typed, CallOK, Inside
  <1>3. ASSUME t \in Writers, NEW v \in Writers, v # t PROVE Offers[v].n = 0
    <2>1. Committed(v) = 0
      BY <1>2, <1>3 DEF Committed, Side, Threads
    <2>2. Offered(v).n = 0
      BY <2>1 DEF Offered
    <2> QED BY <2>2 DEF Offers
  <1>4. ASSUME t \in Readers, NEW s \in Readers, s # t PROVE Takes[s].got = <<>>
    <2>1. s \in Threads /\ Side(s) = Side(t)
      BY <1>4, RingAssumption DEF Side, Threads
    <2>2. Committed(s) = 0
      BY <1>2, <1>4, <2>1 DEF Committed
    <2>3. vals[s] \in Seq(Values \cup {Null}) /\ SubSeq(vals[s], 1, 0) = <<>>
      BY <1>1, <2>1 DEF TypeOK
    <2>4. Taken(s).got = <<>>
      BY <2>2, <2>3 DEF Taken
    <2> QED BY <2>4 DEF Takes
  <1> QED BY <1>3, <1>4

(* A writer's chunk enters the queue as a whole. *)
LEMMA PutStep ==
    ASSUME Carried, NEW t \in Writers, Publish(t)
    PROVE  FIFO!FIFONext \/ UNCHANGED FIFO!fifoVars
  <1> DEFINE m == Chunk(t)
             n == i[t] - m
             N == NbFull
  <1>1. /\ t \in Threads /\ TypeOK /\ Size \in Nat /\ Size >= 2
        /\ start \in Slots /\ end \in Slots /\ pos[t] \in Slots
        /\ vals[t] \in Seq(Values \cup {Null}) /\ Len(vals[t]) = call[t].nb
    BY RingAssumption DEF Carried, Windows, Safe, Typed, TypeOK, CallOK, Threads
  <1>2. /\ m \in Nat /\ m <= i[t] /\ m <= NbAvailable(t)
        /\ Dist(end, pos[t]) = m
        /\ i[t] \in Nat /\ i[t] <= call[t].nb /\ call[t].min <= call[t].nb
        /\ call[t].nb \in Nat /\ call[t].min \in Nat
        /\ \A k \in 1 .. m : elements[SlotAt(end, k)] = vals[t][n + k]
        /\ UNCHANGED <<elements, call, vals, i>>
        /\ end' = pos[t] /\ start' = start
    BY <1>1, PublishedFact DEF Own, Publish
  <1>3. /\ Queue \in Seq(Values \cup {Null}) /\ Len(Queue) = N
        /\ N \in 0 .. (Size - 1)
        /\ \A k \in 1 .. N : Queue[k] = elements[SlotAt(start, k)]
    BY <1>1, QueueFact
  <1>4. N + m <= Size - 1 /\ N = Dist(start, end)
    <2>1. NbAvailable(t) = Size - 1 - N
      BY DEF NbAvailable, NbEmpty
    <2> HIDE DEF N, m
    <2> QED BY <1>1, <1>2, <1>3, <2>1 DEF N, NbFull
  <1>5. NbFull' = N + m
    <2>1. Dist(start, end) + Dist(end, pos[t]) < Size
      BY <1>1, <1>2, <1>3, <1>4
    <2>2. Dist(start, pos[t]) = N + m
      BY <1>1, <1>2, <1>4, <2>1, DistFacts
    <2>3. NbFull' = Dist(start, pos[t])
      BY <1>2 DEF NbFull, Dist
    <2> QED BY <2>2, <2>3
  <1>6. Queue' = [k \in 1 .. (N + m) |-> elements[SlotAt(start, k)]]
    BY <1>2, <1>5 DEF Queue, SlotAt
  <1>7. /\ Offers[t] = [open |-> TRUE, vals |-> vals[t], n |-> n, min |-> call[t].min]
        /\ Offered(t)' = [open |-> TRUE, vals |-> vals[t], n |-> i[t], min |-> call[t].min]
    BY <1>1, <1>2, PublishedFact DEF Offers, Offered
  <1>8. Takes' = Takes /\ Offers' = [Offers EXCEPT ![t] = Offered(t)']
    BY <1>1, ViewsMove DEF Carried, Step, Run
  <1>9. Queue' = Queue \o SubSeq(vals[t], n + 1, n + m)
    <2>1. \A k \in 1 .. N : Queue'[k] = Queue[k]
      <3>1. \A k \in 1 .. N : k \in 1 .. (N + m)
        BY <1>2, <1>3
      <3> QED BY <1>3, <1>6, <3>1
    <2>2. ASSUME NEW j \in 1 .. m PROVE Queue'[N + j] = vals[t][n + j]
      <3>1. N + j \in 1 .. (N + m) /\ j \in Nat /\ j >= 1 /\ N + j <= Size
        <4> HIDE DEF N, m
        <4> QED BY <1>1, <1>2, <1>3, <1>4
      <3>2. SlotAt(start, N + j) = SlotAt(end, j)
        BY <1>1, <1>4, <3>1, SlotSum
      <3>3. Queue'[N + j] = elements[SlotAt(start, N + j)]
        BY <1>6, <3>1
      <3> QED BY <1>2, <3>2, <3>3
    <2>3. n \in Nat /\ n + m <= Len(vals[t])
      BY <1>1, <1>2
    <2>4. Queue' \in Seq(Values \cup {Null}) /\ Len(Queue') = N + m
      <3>1. ASSUME NEW k \in 1 .. (N + m)
            PROVE  elements[SlotAt(start, k)] \in Values \cup {Null}
        <4>1. k \in 1 .. Size
          BY <1>1, <1>2, <1>3, <1>4
        <4>2. SlotAt(start, k) \in Slots
          BY <1>1, <4>1, SlotFact
        <4> QED BY <1>1, <4>2 DEF TypeOK
      <3>2. N + m \in Nat
        BY <1>2, <1>3
      <3> HIDE DEF N, m
      <3> QED BY <1>6, <3>1, <3>2
    <2>5. m \in Nat /\ Len(Queue) = N
      BY <1>2, <1>3
    <2>6. /\ \A k \in 1 .. Len(Queue) : Queue'[k] = Queue[k]
          /\ \A j \in 1 .. m : Queue'[Len(Queue) + j] = vals[t][n + j]
          /\ Len(Queue') = Len(Queue) + m
      BY <2>1, <2>2, <2>4, <2>5
    <2>7. m \in Nat /\ n \in Nat /\ n + m <= Len(vals[t])
      BY <2>3, <2>5
    <2>8. /\ Queue \in Seq(Values \cup {Null}) /\ vals[t] \in Seq(Values \cup {Null})
          /\ Queue' \in Seq(Values \cup {Null})
      BY <1>1, <1>3, <2>4
    <2> DEFINE f == Queue'
               q == Queue
               s == SubSeq(vals[t], n + 1, n + m)
               v == vals[t]
               S == Values \cup {Null}
    <2>9. s \in Seq(S) /\ Len(s) = m /\ \A j \in 1 .. m : s[j] = vals[t][n + j]
      <3>1. v \in Seq(S) /\ n \in Nat /\ m \in Nat /\ n + m <= Len(v)
        BY <2>7, <2>8
      <3> HIDE DEF n, m, v, S
      <3>2. /\ SubSeq(v, n + 1, n + m) \in Seq(S)
            /\ Len(SubSeq(v, n + 1, n + m)) = m
            /\ \A j \in 1 .. m : SubSeq(v, n + 1, n + m)[j] = v[n + j]
        BY <3>1, StretchFact
      <3> QED BY <3>2 DEF v
    <2>10. q \in Seq(S) /\ f \in Seq(S)
      BY <2>8
    <2>11. Len(f) = Len(q) + Len(s)
      BY <2>6, <2>9
    <2>12. \A k \in 1 .. Len(q) : f[k] = q[k]
      BY <2>6
    <2>13. \A j \in 1 .. Len(s) : f[Len(q) + j] = s[j]
      BY <2>6, <2>9
    <2> HIDE DEF n, m, N, f, q, s, S
    <2>14. f = q \o s
      BY <2>9, <2>10, <2>11, <2>12, <2>13, Joined
    <2> QED BY <2>14 DEF f, q, s
  <1>10. CASE m = 0
    <2>1. Queue' = Queue
      <3>1. Queue' = [k \in 1 .. N |-> elements[SlotAt(start, k)]]
        BY <1>3, <1>6, <1>10
      <3> QED BY <3>1 DEF Queue
    <2>2. Offered(t)' = Offers[t]
      <3>1. n = i[t]
        BY <1>2, <1>10
      <3> QED BY <1>7, <3>1
    <2>3. Offers' = Offers
      BY <1>8, <2>2 DEF Offers
    <2> QED BY <1>8, <2>1, <2>3 DEF FIFO!fifoVars
  <1>11. CASE m > 0
    <2>1. n \in Int /\ m \in 1 .. (Len(vals[t]) - n) /\ n + m = i[t]
      BY <1>1, <1>2, <1>11
    <2> HIDE DEF n, m, N
    <2>2. Offers' = [Offers EXCEPT ![t].n = @ + m]
      <3>1. Offered(t)' = [Offers[t] EXCEPT !.n = @ + m]
        <4> DEFINE r == Offers[t]
                   s == Offered(t)'
        <4>1. r = [open |-> TRUE, vals |-> vals[t], n |-> n, min |-> call[t].min]
          BY <1>7
        <4>2. s = [open |-> TRUE, vals |-> vals[t], n |-> i[t], min |-> call[t].min]
          BY <1>7
        <4>3. n + m = i[t]
          BY <2>1
        <4> DEFINE o == TRUE
        <4>5. /\ r = [open |-> o, vals |-> vals[t], n |-> n, min |-> call[t].min]
              /\ s = [open |-> o, vals |-> vals[t], n |-> i[t], min |-> call[t].min]
          BY <4>1, <4>2
        <4> HIDE DEF r, s, o
        <4>4. s = [r EXCEPT !.n = @ + m]
          BY <4>3, <4>5, AdvancedOffer, SMT
        <4> QED BY <4>4 DEF r, s
      <3> QED BY <1>8, <3>1, Zenon
    <2>3. Len(Queue) + m <= Size - 1
      BY <1>3, <1>4
    <2>4. Offers[t].vals = vals[t] /\ Offers[t].n = n /\ Offers[t].open
          /\ Offers[t].min <= Len(Offers[t].vals)
      BY <1>1, <1>2, <1>7
    <2>6. \A v \in Writers : v # t => Offers[v].n = 0
      BY <1>1, AloneOnSide
    <2>5. FIFO!Put(t)
      BY <1>8, <1>9, <2>1, <2>2, <2>3, <2>4, <2>6 DEF FIFO!Put
    <2> QED BY <2>5 DEF FIFO!FIFONext
  <1> QED BY <1>2, <1>10, <1>11

(* A reader's chunk leaves it as a whole, and is what the reader has got. *)
LEMMA TakeStep ==
    ASSUME Carried, NEW t \in Readers, Publish(t)
    PROVE  FIFO!FIFONext \/ UNCHANGED FIFO!fifoVars
  <1> DEFINE m == Chunk(t)
             n == i[t] - m
             N == NbFull
  <1>1. /\ t \in Threads /\ t \notin Writers /\ TypeOK /\ Size \in Nat /\ Size >= 2
        /\ start \in Slots /\ end \in Slots /\ pos[t] \in Slots
        /\ vals[t] \in Seq(Values \cup {Null}) /\ Len(vals[t]) = i[t]
    BY RingAssumption DEF Carried, Windows, Safe, Typed, TypeOK, MovesOK, Threads
  <1>2. /\ m \in Nat /\ m <= i[t] /\ m <= NbAvailable(t)
        /\ Dist(start, pos[t]) = m
        /\ i[t] \in Nat /\ i[t] <= call[t].nb /\ call[t].min <= call[t].nb
        /\ call[t].nb \in Nat /\ call[t].min \in Nat
        /\ \A k \in 1 .. m : elements[SlotAt(start, k)] = vals[t][n + k]
        /\ UNCHANGED <<elements, call, vals, i>>
        /\ start' = pos[t] /\ end' = end
    BY <1>1, PublishedFact DEF Own, Publish
  <1>3. /\ Queue \in Seq(Values \cup {Null}) /\ Len(Queue) = N
        /\ N \in 0 .. (Size - 1)
        /\ \A k \in 1 .. N : Queue[k] = elements[SlotAt(start, k)]
    BY <1>1, QueueFact
  <1>4. m <= N /\ N = Dist(start, end)
    BY <1>1, <1>2 DEF NbAvailable, NbFull
  <1>5. NbFull' = N - m
    <2>1. Dist(pos[t], end) = N - m
      BY <1>1, <1>2, <1>4, DistFacts
    <2>2. NbFull' = Dist(pos[t], end)
      BY <1>2 DEF NbFull, Dist
    <2> QED BY <2>1, <2>2
  <1>6. Queue' = [k \in 1 .. (N - m) |-> elements[SlotAt(pos[t], k)]]
    BY <1>2, <1>5 DEF Queue, SlotAt
  <1>7. /\ Takes[t] = [open |-> TRUE, got |-> SubSeq(vals[t], 1, n),
                       nb |-> call[t].nb, min |-> call[t].min]
        /\ Taken(t)' = [open |-> TRUE, got |-> SubSeq(vals[t], 1, i[t]),
                        nb |-> call[t].nb, min |-> call[t].min]
    BY <1>1, <1>2, PublishedFact DEF Takes, Taken
  <1>8. Offers' = Offers /\ Takes' = [Takes EXCEPT ![t] = Taken(t)']
    BY <1>1, ViewsMove DEF Carried, Step, Run
  <1>9. Queue' = SubSeq(Queue, m + 1, Len(Queue))
    <2>1. ASSUME NEW k \in 1 .. (N - m) PROVE Queue'[k] = Queue[m + k]
      <3>1. m + k \in 1 .. N /\ k \in Nat /\ k >= 1 /\ m + k <= Size
        <4> HIDE DEF N, m
        <4> QED BY <1>1, <1>2, <1>3, <1>4
      <3>2. SlotAt(start, m + k) = SlotAt(pos[t], k)
        BY <1>1, <1>2, <3>1, SlotSum
      <3> QED BY <1>3, <1>6, <3>1, <3>2
    <2>2. Queue' \in Seq(Values \cup {Null}) /\ Len(Queue') = N - m
      <3>1. ASSUME NEW k \in 1 .. (N - m)
            PROVE  elements[SlotAt(pos[t], k)] \in Values \cup {Null}
        <4>1. k \in 1 .. Size
          BY <1>1, <1>2, <1>3, <1>4
        <4>2. SlotAt(pos[t], k) \in Slots
          BY <1>1, <4>1, SlotFact
        <4> QED BY <1>1, <4>2 DEF TypeOK
      <3>2. N - m \in Nat
        BY <1>2, <1>3, <1>4
      <3> HIDE DEF N, m
      <3> QED BY <1>6, <3>1, <3>2
    <2>3. m \in Nat /\ m <= Len(Queue) /\ Len(Queue') = Len(Queue) - m
      BY <1>2, <1>3, <1>4, <2>2
    <2>4. \A k \in 1 .. Len(Queue') : Queue'[k] = Queue[m + k]
      BY <2>1, <2>2
    <2> HIDE DEF m, N
    <2> QED BY <1>3, <2>2, <2>3, <2>4, Dropped
  <1>10. n \in Nat /\ n + m = i[t] /\ n <= Len(vals[t])
    BY <1>1, <1>2
  <1>11. SubSeq(vals[t], 1, n) \in Seq(Values \cup {Null}) /\ Len(SubSeq(vals[t], 1, n)) = n
    <2> HIDE DEF n
    <2> QED BY <1>1, <1>10
  <1>12. SubSeq(vals[t], 1, i[t]) = SubSeq(vals[t], 1, n) \o SubSeq(Queue, 1, m)
    <2> DEFINE f == vals[t]
               q == SubSeq(vals[t], 1, n)
               s == SubSeq(Queue, 1, m)
               S == Values \cup {Null}
    <2>1. f \in Seq(S) /\ q \in Seq(S) /\ Len(f) = Len(q) + m /\ Len(q) = n
      BY <1>1, <1>10, <1>11
    <2>2. \A k \in 1 .. Len(q) : f[k] = q[k]
      <3> HIDE DEF n
      <3> QED BY <1>1, <1>10, <1>11
    <2>3. s \in Seq(S) /\ Len(s) = m /\ \A j \in 1 .. m : s[j] = Queue[j]
      <3>1. m \in Nat /\ m <= Len(Queue) /\ Queue \in Seq(S)
        BY <1>2, <1>3, <1>4
      <3> HIDE DEF m, S
      <3> QED BY <3>1
    <2>4. \A j \in 1 .. Len(s) : f[Len(q) + j] = s[j]
      <3> SUFFICES ASSUME NEW j \in 1 .. m PROVE f[n + j] = Queue[j]
        BY <2>1, <2>3
      <3>1. j \in 1 .. N
        BY <1>2, <1>3, <1>4
      <3> QED BY <1>2, <1>3, <3>1
    <2>5. f = q \o s
      <3> HIDE DEF f, q, s, m, S
      <3> QED BY <2>1, <2>2, <2>3, <2>4, Joined
    <2>6. SubSeq(vals[t], 1, i[t]) = vals[t]
      BY <1>1, <1>2
    <2> QED BY <2>5, <2>6
  <1>13. CASE m = 0
    <2>1. pos[t] = start
      BY <1>1, <1>2, <1>13, DistFacts
    <2>2. Queue' = Queue
      BY <1>2, <2>1 DEF Queue, NbFull, Dist, SlotAt
    <2>3. Taken(t)' = Takes[t]
      <3>1. n = i[t]
        BY <1>2, <1>13
      <3> QED BY <1>7, <3>1
    <2>4. Takes' = Takes
      BY <1>8, <2>3 DEF Takes
    <2> QED BY <1>8, <2>2, <2>4 DEF FIFO!fifoVars
  <1>14. CASE m > 0
    <2>1. m \in 1 .. (call[t].nb - n)
      BY <1>2, <1>14
    <2> HIDE DEF n, m, N
    <2>2. Takes' = [Takes EXCEPT ![t].got = @ \o SubSeq(Queue, 1, m)]
      <3>1. Taken(t)' = [Takes[t] EXCEPT !.got = @ \o SubSeq(Queue, 1, m)]
        <4> DEFINE r == Takes[t]
                   s == Taken(t)'
        <4>1. r = [open |-> TRUE, got |-> SubSeq(vals[t], 1, n),
                   nb |-> call[t].nb, min |-> call[t].min]
          BY <1>7
        <4>2. s = [open |-> TRUE, got |-> SubSeq(vals[t], 1, i[t]),
                   nb |-> call[t].nb, min |-> call[t].min]
          BY <1>7
        <4> DEFINE o == TRUE
                   g == SubSeq(vals[t], 1, n)
                   h == SubSeq(vals[t], 1, i[t])
                   p == SubSeq(Queue, 1, m)
        <4>3. /\ r = [open |-> o, got |-> g, nb |-> call[t].nb, min |-> call[t].min]
              /\ s = [open |-> o, got |-> h, nb |-> call[t].nb, min |-> call[t].min]
          BY <4>1, <4>2
        <4>4. h = g \o p
          BY <1>12
        <4> HIDE DEF r, s, o, g, h, p
        <4>5. s = [r EXCEPT !.got = h] /\ r.got = g
          BY <4>3, AdvancedTake, SMT
        <4>6. s = [r EXCEPT !.got = @ \o p]
          BY <4>4, <4>5, Zenon
        <4> QED BY <4>6 DEF r, s, p
      <3> QED BY <1>8, <3>1, Zenon
    <2>3. m <= Len(Queue)
      BY <1>3, <1>4
    <2>4. /\ Takes[t].open /\ Takes[t].nb = call[t].nb /\ Len(Takes[t].got) = n
          /\ Takes[t].min <= Takes[t].nb
      BY <1>2, <1>7, <1>11
    <2>6. \A s \in Readers : s # t => Takes[s].got = <<>>
      BY <1>1, AloneOnSide
    <2>5. FIFO!Take(t)
      BY <1>8, <1>9, <2>1, <2>2, <2>3, <2>4, <2>6 DEF FIFO!Take
    <2> QED BY <2>5 DEF FIFO!FIFONext
  <1> QED BY <1>2, <1>13, <1>14

(* With bulk calls of at most two values the ring buffer is a bounded FIFO *)
(* queue for all its callers together: every step of the code is a step of *)
(* the queue or invisible to it.                                           *)
THEOREM Refinement == SmallBulk => (Spec => ImplementsFIFO)
  <1> SUFFICES ASSUME SmallBulk PROVE Spec => ImplementsFIFO
    OBVIOUS
  <1>1. Init => FIFO!FIFOInit
    <2> SUFFICES ASSUME Init PROVE FIFO!FIFOInit
      OBVIOUS
    <2>1. NbFull = 0
      BY DistFacts DEF Init, NbFull, Dist
    <2>2. Queue = <<>>
      BY <2>1 DEF Queue
    <2>3. \A t \in Threads : ~InCall(t)
      BY DEF Init, InCall
    <2> QED BY <2>2, <2>3
        DEF FIFO!FIFOInit, Offers, Takes, Offered, Taken, FIFO!NoOffer, FIFO!NoTake, Threads
  <1>2. Carried /\ [Next]_vars => [FIFO!FIFONext]_(FIFO!fifoVars)
    <2> SUFFICES ASSUME Carried, [Next]_vars
                 PROVE  FIFO!FIFONext \/ UNCHANGED FIFO!fifoVars
      OBVIOUS
    <2>1. CASE UNCHANGED vars
      <3>1. Queue' = Queue
        BY <2>1 DEF vars, Queue, NbFull, Dist, SlotAt
      <3>2. Offers' = Offers /\ Takes' = Takes
        BY <2>1 DEF vars, Offers, Takes, Offered, Taken, InCall, Committed, Chunk, Own, Dist
      <3> QED BY <3>1, <3>2 DEF FIFO!fifoVars
    <2>2. ASSUME NEW t \in Threads, Step(t)
          PROVE  FIFO!FIFONext \/ UNCHANGED FIFO!fifoVars
      <3>1. CASE Call(t)
        BY <3>1, CallStep
      <3>2. CASE Publish(t)
        BY <3>2, PutStep, TakeStep DEF Threads
      <3>3. CASE EarlyRefuse(t) \/ (Check(t) /\ Refuses(t)) \/ (Loop(t) /\ ~GoesRound(t))
        BY <3>3, LeaveStep
      <3>4. CASE /\ ~Publish(t)
                 /\ \/ EarlyFirst(t) \/ EarlyPass(t) \/ Lock(t) \/ (Check(t) /\ ~Refuses(t))
                    \/ Poll(t) \/ TestFails(t) \/ TestPasses(t) \/ Sleep(t)
                    \/ Count(t) \/ Reserve(t) \/ Store(t) \/ Load(t)
                    \/ Broadcast(t) \/ (Loop(t) /\ GoesRound(t)) \/ Return(t)
                    \/ WaitLock(t) \/ NotifyLock(t) \/ SpuriousWake(t)
        <4>1. /\ t \in Writers => Offered(t)' = Offered(t)
              /\ t \in Readers => Taken(t)' = Taken(t)
          BY <3>4, InnerStays
        <4> QED BY <2>2, <3>4, <4>1, HiddenStep DEF Carried
      <3> QED BY <2>2, <3>1, <3>2, <3>3, <3>4 DEF Step, Run, TakeMutex
    <2> QED BY <2>1, <2>2 DEF Next, Step
  <1> QED BY <1>1, <1>2, CarriedInvariant, PTL DEF Spec, ImplementsFIFO, FIFO!FIFOSpec

----------------------------------------------------------------------------
(* Refusals before the lock, where one thread uses each end.               *)

(* While a thread is between its two reads, only its own step could change *)
(* what it knows: it is at its first read, or nothing of it changes.       *)
LEMMA BetweenReads ==
    ASSUME Typed, Next, OneASide, NEW t \in Threads,
           pc'[t] \in {"early_start", "early_end"}
    PROVE  \/ EarlyFirst(t)
           \/ pc'[t] = pc[t] /\ seen'[t] = seen[t] /\ Own(t)' = Own(t)
  <1> USE DEF Goto, locals
  <1>types. TypeOK
    BY DEF Typed
  <1>fun. /\ pc \in [Threads -> Labels]
         /\ seen \in [Threads -> Slots]
    BY <1>types DEF TypeOK
  <1>own. UNCHANGED <<start, end>> => Own(t)' = Own(t)
    BY DEF Own
  <1> DEFINE Same == pc'[t] = pc[t] /\ seen'[t] = seen[t] /\ Own(t)' = Own(t)
  <1>1. ASSUME NEW u \in Threads, Call(u) PROVE Same
    BY <1>fun, <1>own, <1>1 DEF Call, Entry
  <1>2. ASSUME NEW u \in Threads, EarlyFirst(u) PROVE EarlyFirst(t) \/ Same
    BY <1>fun, <1>own, <1>2 DEF EarlyFirst
  <1>3. ASSUME NEW u \in Threads, EarlyRefuse(u) PROVE Same
    BY <1>fun, <1>own, <1>3 DEF EarlyRefuse, Forget
  <1>4. ASSUME NEW u \in Threads, EarlyPass(u) PROVE Same
    BY <1>fun, <1>own, <1>4 DEF EarlyPass
  <1>5. ASSUME NEW u \in Threads, Lock(u) PROVE Same
    BY <1>fun, <1>own, <1>5 DEF Lock
  <1>6. ASSUME NEW u \in Threads, Check(u) PROVE Same
    BY <1>fun, <1>own, <1>6 DEF Check
  <1>7. ASSUME NEW u \in Threads, Poll(u) PROVE Same
    BY <1>fun, <1>own, <1>7 DEF Poll, BeginChunk
  <1>8. ASSUME NEW u \in Threads, TestFails(u) PROVE Same
    BY <1>fun, <1>own, <1>8 DEF TestFails
  <1>9. ASSUME NEW u \in Threads, TestPasses(u) PROVE Same
    BY <1>fun, <1>own, <1>9 DEF TestPasses, BeginChunk
  <1>10. ASSUME NEW u \in Threads, Sleep(u) PROVE Same
    BY <1>fun, <1>own, <1>10 DEF Sleep
  <1>11. ASSUME NEW u \in Threads, Count(u) PROVE Same
    BY <1>fun, <1>own, <1>11 DEF Count
  <1>12. ASSUME NEW u \in Threads, Reserve(u) PROVE Same
    BY <1>fun, <1>own, <1>12 DEF Reserve
  <1>13. ASSUME NEW u \in Threads, Store(u) PROVE Same
    BY <1>fun, <1>own, <1>13 DEF Store, Advance
  <1>14. ASSUME NEW u \in Threads, Load(u) PROVE Same
    BY <1>fun, <1>own, <1>14 DEF Load, Advance
  <1>15. ASSUME NEW u \in Threads, Publish(u) PROVE Same
    <2>1. u # t /\ pc'[t] = pc[t] /\ seen'[t] = seen[t]
      BY <1>fun, <1>15 DEF Publish
    <2>2. t \in Writers <=> u \notin Writers
      BY <2>1 DEF OneASide, Threads
    <2> QED BY <1>15, <2>1, <2>2 DEF Publish, Own
  <1>16. ASSUME NEW u \in Threads, Broadcast(u) PROVE Same
    BY <1>fun, <1>own, <1>16 DEF Broadcast
  <1>17. ASSUME NEW u \in Threads, Loop(u) PROVE Same
    BY <1>fun, <1>own, <1>17 DEF Loop
  <1>18. ASSUME NEW u \in Threads, Return(u) PROVE Same
    BY <1>fun, <1>own, <1>18 DEF Return, Forget
  <1>19. ASSUME NEW u \in Threads, WaitLock(u) PROVE Same
    BY <1>fun, <1>own, <1>19 DEF WaitLock
  <1>20. ASSUME NEW u \in Threads, NotifyLock(u) PROVE Same
    BY <1>fun, <1>own, <1>20 DEF NotifyLock
  <1>21. ASSUME NEW u \in Threads, SpuriousWake(u) PROVE Same
    BY <1>fun, <1>own, <1>21 DEF SpuriousWake
  <1> QED
    BY <1>1, <1>2, <1>3, <1>4, <1>5, <1>6, <1>7, <1>8, <1>9, <1>10, <1>11,
       <1>12, <1>13, <1>14, <1>15, <1>16, <1>17, <1>18, <1>19, <1>20, <1>21
    DEF Next, Run, TakeMutex

(* If the index of the thread's own side was read first, it is still that, *)
(* and a refusal has its reason now; otherwise it had it at the first read, *)
(* and the history has kept it.                                            *)
LEMMA ReasonedStep ==
    ASSUME Typed, OneASide, Reasoned, HistoryNext
    PROVE  Reasoned'
  <1> SUFFICES ASSUME NEW t \in Threads
               PROVE  /\ Early(t)' /\ Unavailable(t)' => justified'[t]
                      /\ OwnFirst(t)' => seen'[t] = Own(t)'
                      /\ pc'[t] \in {"early_start", "early_end"} /\ LooksUnavailable(t)'
                            => justified'[t]
    BY DEF Reasoned
  <1>types. pc \in [Threads -> Labels] /\ seen \in [Threads -> Slots]
    BY DEF Typed, TypeOK
  <1>now. justified'[t] <=> Early(t)' /\ (Unavailable(t)' \/ (Early(t) /\ justified[t]))
    BY DEF HistoryNext
  <1>1. CASE pc'[t] \notin {"early_start", "early_end"}
    BY <1>1, <1>now DEF OwnFirst
  <1>2. CASE EarlyFirst(t) /\ pc'[t] \in {"early_start", "early_end"}
    <2>1. /\ start' = start /\ end' = end
          /\ \/ pc'[t] = "early_start" /\ seen'[t] = start
             \/ pc'[t] = "early_end" /\ seen'[t] = end
      BY <1>2, <1>types DEF EarlyFirst, Goto
    <2>2. OwnFirst(t)' => seen'[t] = Own(t)'
      BY <2>1 DEF OwnFirst, Own
    <2>3. LooksUnavailable(t)' => Unavailable(t)'
      BY <2>1 DEF LooksUnavailable, EarlyStart, EarlyEnd, Unavailable, IsFull, IsEmpty, Inc
    <2> QED BY <1>2, <1>now, <2>2, <2>3 DEF Early
  <1>3. CASE /\ pc'[t] = pc[t] /\ seen'[t] = seen[t] /\ Own(t)' = Own(t)
             /\ pc'[t] \in {"early_start", "early_end"}
    <2>1. OwnFirst(t)' => seen'[t] = Own(t)'
      BY <1>3 DEF OwnFirst, Reasoned
    <2>2. ASSUME OwnFirst(t)', LooksUnavailable(t)' PROVE Unavailable(t)'
      <3>1. seen'[t] = Own(t)'
        BY <2>1, <2>2
      <3> QED BY <2>2, <3>1
        DEF OwnFirst, LooksUnavailable, EarlyStart, EarlyEnd, Unavailable, IsFull, IsEmpty, Own, Inc
    <2>3. ASSUME ~OwnFirst(t)', LooksUnavailable(t)' PROVE justified[t]
      <3>1. LooksUnavailable(t)
        BY <1>3, <2>3 DEF OwnFirst, LooksUnavailable, EarlyStart, EarlyEnd, Own, Inc
      <3> QED BY <1>3, <3>1 DEF Reasoned
    <2> QED BY <1>3, <1>now, <2>1, <2>2, <2>3 DEF Early
  <1> QED BY <1>1, <1>2, <1>3, BetweenReads DEF HistoryNext

(* With one writer and one reader, a try call that gives up before it has  *)
(* the lock does so for a reason, although its two reads see two instants. *)
(* With more of them the indices it compares may belong to no instant.     *)
THEOREM EarlyRefusals == OneASide => (HistorySpec => []RefusalJustified)
  <1> SUFFICES ASSUME OneASide PROVE HistorySpec => []RefusalJustified
    OBVIOUS
  <1> DEFINE R == Typed /\ Reasoned
  <1>1. HistoryInit => R
    <2> SUFFICES ASSUME HistoryInit PROVE R
      OBVIOUS
    <2>1. \A t \in Threads : pc[t] = "idle"
      BY DEF HistoryInit, Init
    <2> QED BY <2>1, TypedInit DEF HistoryInit, Reasoned, Early, OwnFirst
  <1>2. R /\ [HistoryNext]_<<vars, justified>> => R'
    <2>1. CASE R /\ HistoryNext
      BY <2>1, TypedStep, ReasonedStep DEF HistoryNext
    <2>2. CASE R /\ UNCHANGED <<vars, justified>>
      <3>1. Typed'
        BY <2>2, TypedStep
      <3>2. Reasoned'
        BY <2>2 DEF Reasoned, Early, OwnFirst, LooksUnavailable, EarlyStart, EarlyEnd,
                    Unavailable, IsFull, IsEmpty, Own, Inc, vars
      <3> QED BY <3>1, <3>2
    <2> QED BY <2>1, <2>2
  <1>3. R => RefusalJustified
    BY DEF Reasoned, RefusalJustified
  <1>4. HistorySpec => HistoryInit /\ [][HistoryNext]_<<vars, justified>>
    BY PTL DEF HistorySpec
  <1> HIDE DEF R
  <1> QED BY <1>1, <1>2, <1>3, <1>4, PTL
=============================================================================
