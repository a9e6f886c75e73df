------------------------------- MODULE Timer -------------------------------
(***************************************************************************)
(* The timer of timer.{h,c}, of both types: a queue of elements in the     *)
(* order of their expiry, and a wheel of spokes on which an element waits  *)
(* for its spoke to come round rotation_cnt times.  zx_timer_check is a    *)
(* loop of steps, each of which looks at one element, because it calls     *)
(* back into the program; the other functions are one step.                *)
(*                                                                         *)
(* Times are unsigned long, modulo Word; -1 is Word - 1.  Next to what the *)
(* code makes of it an element keeps, for the properties, two plain        *)
(* numbers: the time it is due, and by how many ticks it is placed too     *)
(* early.  mem_ocupy moves with elem_cnt and is left out.                  *)
(***************************************************************************)
EXTENDS Integers, SequencesExt

CONSTANTS
    Elems,          \* timer elements, which malloc and free recycle
    NoElem,         \* NULL
    Types,          \* TM_TYPE_QUEUE ("queue") and TM_TYPE_WHEEL ("wheel")
    WheelSize,      \* wheel_size
    Word,           \* unsigned long is modulo Word
    IntHalf,        \* int is -IntHalf .. IntHalf - 1
    Timeouts,       \* the timeouts callers ask for
    MaxCbTimes,     \* per type, the values of max_cb_times callers pass
    Rearming        \* the types of timer whose callbacks add an element

ASSUME TimerAssumption ==
    /\ WheelSize \in Nat \ {0}
    /\ Word \in Nat /\ Word > WheelSize
    /\ IntHalf \in Nat \ {0}
    /\ Types \subseteq {"queue", "wheel"}
    /\ Rearming \subseteq Types
    /\ Timeouts \subseteq Nat
    /\ MaxCbTimes \in [{"queue", "wheel"} -> SUBSET Nat]
    /\ NoElem \notin Elems \cup [due : Nat, early : Int, rotation : Int, cursor : Nat]

VARIABLES
    now,            \* the time callers pass as current_time
    type,           \* timer->type
    elem,           \* the elements malloc has given out
    queue,          \* timer_queue.queue
    lastExpire,     \* timer_queue.last_expire_time
    spokes,         \* timer_wheel.spokes
    createTime,     \* timer_wheel.create_time
    spokeIndex,     \* timer_wheel.spoke_index
    lastCheck,      \* timer_wheel.last_check_relative_tick
    elemCnt,        \* elem_cnt
    check           \* the locals of zx_timer_check

queueVars == <<queue, lastExpire>>
wheelVars == <<spokes, createTime, spokeIndex, lastCheck>>
vars == <<now, type, elem, queueVars, wheelVars, elemCnt, check>>

----------------------------------------------------------------------------

Minus1  == Word - 1
Ints    == -IntHalf .. (IntHalf - 1)
AsInt(n) == ((n + IntHalf) % (2 * IntHalf)) - IntHalf
Spokes  == 0 .. (WheelSize - 1)
NoCheck == [running |-> FALSE, max |-> 0, cbCnt |-> 0, i |-> 0, tmp |-> NoElem]

(* TAILQ_FIRST, TAILQ_NEXT, TAILQ_REMOVE *)
FirstOf(s)     == IF s = <<>> THEN NoElem ELSE s[1]
Position(s, e) == CHOOSE n \in DOMAIN s : s[n] = e
NextOf(s, e)   == IF Position(s, e) = Len(s) THEN NoElem ELSE s[Position(s, e) + 1]
Unlinked(s, e) == RemoveAt(s, Position(s, e))

(* zx_timer_create: the members a type does not have keep a fixed value.   *)
(* A caller's clock has started before its timers.                         *)
Init ==
    /\ now = 1
    /\ type \in Types
    /\ elem = [e \in Elems |-> NoElem]
    /\ queue = <<>>
    /\ lastExpire = Minus1
    /\ spokes = [s \in Spokes |-> <<>>]
    /\ createTime = Minus1
    /\ spokeIndex = 0
    /\ lastCheck = Minus1
    /\ elemCnt = 0
    /\ check = NoCheck

Idle == ~check.running

(* The clock of the caller.  A queue is followed to the end of unsigned    *)
(* long, where last_expire_time begins; a wheel stops before create_time   *)
(* can be -1 by itself.                                                    *)
Tick ==
    /\ Idle
    /\ now < IF type = "queue" THEN Word - 1 ELSE Word - 2
    /\ now' = now + 1
    /\ UNCHANGED <<type, elem, queueVars, wheelVars, elemCnt, check>>

(* zx_timer_destroy, and the next timer the program creates. *)
Recreate ==
    /\ Idle
    /\ type' \in Types
    /\ elem' = [e \in Elems |-> NoElem]
    /\ queue' = <<>>
    /\ lastExpire' = Minus1
    /\ spokes' = [s \in Spokes |-> <<>>]
    /\ createTime' = Minus1
    /\ spokeIndex' = 0
    /\ lastCheck' = Minus1
    /\ elemCnt' = 0
    /\ UNCHANGED <<now, check>>
----------------------------------------------------------------------------
(* What zx_timer_add and zx_timer_reset do with an element. *)

Expire(due) == due % Word

(* The wheel starts with the first element.  *)
Start == IF lastCheck = Minus1 THEN now ELSE createTime

(* A fault: the time since the wheel started is left out. *)
CursorFromTimeout(t) == t % WheelSize

Cursor(t) == (((now - Start) % Word) + (t % WheelSize)) % WheelSize

(* The ticks since the last check, and those the wheel is still behind.    *)
TickCnt == (now - createTime - lastCheck) % Word
Behind  == IF lastCheck = Minus1 THEN 0 ELSE TickCnt - check.i

(* The spoke of an element is found from the time, but its rotations begin *)
(* at the spoke the wheel has got to: it loses those that lie in between.  *)
Early(t) == WheelSize * ((Behind + (t % WheelSize)) \div WheelSize)

Element(t) ==
    IF type = "wheel"
    THEN [due |-> now + t, early |-> Early(t), rotation |-> AsInt(t \div WheelSize), cursor |-> Cursor(t)]
    ELSE [due |-> now + t, early |-> 0, rotation |-> 0, cursor |-> 0]

(* last_expire_time after an element has left a queue.  *)
ExpireOfLast(q) == IF q = <<>> THEN Minus1 ELSE Expire(elem[q[Len(q)]].due)

(* An element goes to the tail of queue q, which last expires at `last'.   *)
QueueAdd(e, t, q, last) ==
    /\ Expire(now + t) >= last
    /\ lastExpire' = Expire(now + t)
    /\ elem' = [elem EXCEPT ![e] = Element(t)]
    /\ queue' = Append(q, e)

(* An element goes to the tail of its spoke, one of ss. *)
WheelAdd(e, t, ss) ==
    /\ elem' = [elem EXCEPT ![e] = Element(t)]
    /\ spokes' = [ss EXCEPT ![Cursor(t)] = Append(@, e)]

OnQueue == type = "queue" /\ UNCHANGED wheelVars
OnWheel == type = "wheel" /\ UNCHANGED queueVars

Linked(e) == Contains(queue, e) \/ \E s \in Spokes : Contains(spokes[s], e)

AddToQueue(e, t) ==
    /\ OnQueue
    /\ QueueAdd(e, t, queue, lastExpire)

(* expire < last_expire_time: "Error", and the caller has no element.      *)
AddRefused(t) ==
    /\ OnQueue
    /\ Expire(now + t) < lastExpire
    /\ UNCHANGED <<elem, queue, lastExpire>>

AddToWheel(e, t) ==
    /\ OnWheel
    /\ WheelAdd(e, t, spokes)
    /\ createTime' = Start
    /\ IF lastCheck = Minus1
       THEN spokeIndex' = 0 /\ lastCheck' = 0
       ELSE UNCHANGED <<spokeIndex, lastCheck>>

(* zx_timer_add *)
Add(e, t) ==
    /\ Idle
    /\ elem[e] = NoElem
    /\ \/ /\ AddToQueue(e, t) \/ AddToWheel(e, t)
          /\ elemCnt' = elemCnt + 1
       \/ AddRefused(t) /\ UNCHANGED elemCnt
    /\ UNCHANGED <<now, type, check>>

(* zx_timer_del; an index is used while its element is in the timer.       *)
Del(e) ==
    /\ Idle
    /\ Linked(e)
    /\ elem' = [elem EXCEPT ![e] = NoElem]
    /\ elemCnt' = elemCnt - 1
    /\ \/ /\ OnQueue
          /\ queue' = Unlinked(queue, e)
          /\ lastExpire' = ExpireOfLast(queue')
       \/ /\ OnWheel
          /\ spokes' = [spokes EXCEPT ![elem[e].cursor] = Unlinked(@, e)]
          /\ UNCHANGED <<createTime, spokeIndex, lastCheck>>
    /\ UNCHANGED <<now, type, check>>

(* A fault: the element keeps its place on the old spoke too.  *)
StaysOnSpoke(e) == spokes

OffSpoke(e) == [spokes EXCEPT ![elem[e].cursor] = Unlinked(@, e)]

(* zx_timer_reset takes the element out of the queue and, if the new time  *)
(* comes before the last of those that remain, returns -1 and leaves it    *)
(* out, allocated and counted.                                             *)
Reset(e, t) ==
    /\ Idle
    /\ Linked(e)
    /\ \/ /\ OnQueue
          /\ LET q == Unlinked(queue, e)
             IN  \/ QueueAdd(e, t, q, ExpireOfLast(q))
                 \/ /\ Expire(now + t) < ExpireOfLast(q)
                    /\ queue' = q
                    /\ lastExpire' = ExpireOfLast(q)
                    /\ UNCHANGED elem
       \/ /\ OnWheel
          /\ WheelAdd(e, t, OffSpoke(e))
          /\ UNCHANGED <<createTime, spokeIndex, lastCheck>>
    /\ UNCHANGED <<now, type, elemCnt, check>>
----------------------------------------------------------------------------
(* zx_timer_check *)

(* A wheel nothing was added to returns at once. *)
Check(max) ==
    /\ Idle
    /\ type = "wheel" => createTime # Minus1
    /\ check' = [NoCheck EXCEPT
                    !.running = TRUE,
                    !.max = max,
                    !.tmp = IF type = "queue" THEN FirstOf(queue)
                            ELSE IF TickCnt > 0 THEN FirstOf(spokes[spokeIndex])
                            ELSE NoElem]
    /\ UNCHANGED <<now, type, elem, queueVars, wheelVars, elemCnt>>

AtElement(tm) == check.running /\ type = tm /\ check.tmp # NoElem

Current == elem[check.tmp]

(* A fault: the rotation count is taken for a number still to come. *)
TurnsWithoutLast == Current.rotation > 1

TurnsLeft == Current.rotation # 0

(* An element whose turn has not come: rotation_cnt--. *)
PassBy ==
    /\ AtElement("wheel")
    /\ TurnsLeft
    /\ elem' = [elem EXCEPT ![check.tmp].rotation = AsInt(@ - 1)]
    /\ check' = [check EXCEPT !.tmp = NextOf(spokes[spokeIndex], check.tmp)]
    /\ UNCHANGED <<now, type, queueVars, wheelVars, elemCnt>>

Expired == now >= Expire(Current.due)

Ready == \/ AtElement("queue") /\ Expired
         \/ AtElement("wheel") /\ ~TurnsLeft

(* A fault: cb_cnt is not counted. *)
CbCntKept == check.cbCnt

CbCntAfter == check.cbCnt + 1

(* The callback returns and its element is unlinked and freed.  The        *)
(* callback may have added or deleted another element, before that.        *)
Unlink(q, ss, el) ==
    /\ IF type = "queue"
       THEN /\ queue' = Unlinked(q, check.tmp)
            /\ check' = [check EXCEPT !.cbCnt = CbCntAfter, !.tmp = NextOf(q, check.tmp)]
            /\ UNCHANGED wheelVars
       ELSE /\ spokes' = [ss EXCEPT ![spokeIndex] = Unlinked(@, check.tmp)]
            /\ check' = [check EXCEPT !.cbCnt = CbCntAfter,
                                      !.tmp = NextOf(ss[spokeIndex], check.tmp)]
            /\ UNCHANGED <<queueVars, createTime, spokeIndex, lastCheck>>
    /\ elem' = [el EXCEPT ![check.tmp] = NoElem]

Fire ==
    /\ Ready
    /\ check.cbCnt < check.max
    /\ Unlink(queue, spokes, elem)
    /\ elemCnt' = elemCnt - 1
    /\ UNCHANGED <<now, type, lastExpire>>

FireAndAdd(e, t) ==
    /\ Ready
    /\ check.cbCnt < check.max
    /\ type \in Rearming
    /\ elem[e] = NoElem
    /\ type = "queue" => Expire(now + t) >= lastExpire
    /\ Unlink(Append(queue, e), [spokes EXCEPT ![Cursor(t)] = Append(@, e)],
              [elem EXCEPT ![e] = Element(t)])
    /\ lastExpire' = IF type = "queue" THEN Expire(now + t) ELSE lastExpire
    /\ UNCHANGED <<now, type, elemCnt>>

(* The callback deletes another element: perhaps the next of the spoke,    *)
(* which the check asks for only when the callback has returned.           *)
FireAndDel(e) ==
    /\ Ready
    /\ check.cbCnt < check.max
    /\ e # check.tmp /\ Linked(e)
    /\ LET q == Unlinked(queue, e)
       IN  /\ Unlink(q, OffSpoke(e), [elem EXCEPT ![e] = NoElem])
           /\ lastExpire' = IF type = "queue" THEN ExpireOfLast(q) ELSE lastExpire
    /\ elemCnt' = elemCnt - 2
    /\ UNCHANGED <<now, type>>

NextSpoke == (spokeIndex + 1) % WheelSize

(* The spoke is done: the next tick. *)
Turn ==
    /\ check.running /\ type = "wheel" /\ check.tmp = NoElem
    /\ check.i < TickCnt
    /\ spokeIndex' = NextSpoke
    /\ check' = [check EXCEPT
                    !.i = @ + 1,
                    !.tmp = IF check.i + 1 < TickCnt THEN FirstOf(spokes[NextSpoke]) ELSE NoElem]
    /\ UNCHANGED <<now, type, elem, queueVars, spokes, createTime, lastCheck, elemCnt>>

(* The loop ends: at the end of the queue or the last tick, at an element  *)
(* of the queue that has not expired, or after max_cb_times callbacks.     *)
Return ==
    /\ check.running
    /\ \/ type = "queue" /\ check.tmp = NoElem
       \/ AtElement("queue") /\ ~Expired
       \/ type = "wheel" /\ check.tmp = NoElem /\ check.i >= TickCnt
       \/ Ready /\ check.cbCnt >= check.max
    /\ check' = NoCheck
    /\ lastCheck' = IF type = "wheel" THEN (now - createTime) % Word ELSE lastCheck
    /\ UNCHANGED <<now, type, elem, queueVars, spokes, createTime, spokeIndex, elemCnt>>

Step ==
    \/ PassBy \/ Fire \/ Turn \/ Return
    \/ \E e \in Elems : FireAndDel(e) \/ \E t \in Timeouts : FireAndAdd(e, t)

Next ==
    \/ Step \/ Tick \/ Recreate
    \/ \E max \in MaxCbTimes[type] : Check(max)
    \/ \E e \in Elems : Del(e) \/ \E t \in Timeouts : Add(e, t) \/ Reset(e, t)

Spec == Init /\ [][Next]_vars

(* A check that has begun is carried on. *)
FairSpec == Spec /\ WF_vars(Step)
=============================================================================
