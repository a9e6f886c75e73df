-------------------------- MODULE TimerProperties --------------------------
(***************************************************************************)
(* What is asked of Timer.                                                 *)
(***************************************************************************)
EXTENDS Timer

Allocated == {e \in Elems : elem[e] # NoElem}

(* The variables stay in their types; an element is linked in one place at *)
(* most, on the spoke its cursor names, and never after it was freed; and  *)
(* elem_cnt counts what malloc has given out and free not taken back.      *)
TypeOK ==
    /\ now \in 0 .. (Word - 1)
    /\ type \in Types
    /\ elem \in [Elems -> [due : Nat, early : Int, rotation : Ints, cursor : Spokes]
                               \cup {NoElem}]
    /\ {lastExpire, createTime, lastCheck} \subseteq 0 .. (Word - 1)
    /\ spokeIndex \in Spokes
    /\ check.tmp \in Allocated \cup {NoElem}
    /\ IsInjective(queue) /\ ToSet(queue) \subseteq Allocated
    /\ \A s \in Spokes :
          /\ IsInjective(spokes[s])
          /\ \A e \in ToSet(spokes[s]) : e \in Allocated /\ elem[e].cursor = s
    /\ elemCnt = Cardinality(Allocated)

(* The ticks until spoke_index comes to the spoke of an element.           *)
SpokesAhead(e) == (elem[e].cursor - spokeIndex) % WheelSize

(* The time at which a wheel that is checked gets to element x: the time   *)
(* it is due, but for the rotations it lost if the wheel had not been      *)
(* checked up to the time of the add or reset that placed it.              *)
Comes(x) == x.due - x.early

(* Between two calls the rotations an element still has to wait for and    *)
(* the distance of its spoke add up to the time that is left until it      *)
(* comes, whatever was added, reset, deleted and checked in between, and   *)
(* however far the wheel was behind.                                       *)
RotationExact ==
    Idle /\ type = "wheel" =>
        \A e \in Allocated :
            Comes(elem[e]) - (createTime + lastCheck)
                = elem[e].rotation * WheelSize + SpokesAhead(e)

(* A check comes to an end, max_cb_times bounding the callbacks that each  *)
(* add a new element which has expired already.                            *)
CheckReturns == check.running ~> Idle

----------------------------------------------------------------------------

(* The timer as a set of alarms: the elements that are linked, those of    *)
(* one time in the order of the one list, queue or spoke, they are in.     *)
Before(s, a, b) == \E m, n \in DOMAIN s : m < n /\ s[m] = a /\ s[n] = b

Due == [e \in Elems |-> IF Linked(e) THEN Comes(elem[e]) ELSE -1]

Earlier ==
    {p \in Elems \X Elems :
        /\ \/ Before(queue, p[1], p[2])
           \/ \E s \in Spokes : Before(spokes[s], p[1], p[2])
        /\ Comes(elem[p[1]]) = Comes(elem[p[2]])}

A == INSTANCE Alarms WITH
    Ids <- Elems,
    Budgets <- UNION {MaxCbTimes[tm] : tm \in Types},
    due <- Due,
    earlier <- Earlier,
    Round <- WheelSize,
    budget <- IF Idle THEN -1 ELSE check.max - check.cbCnt,
    late <- IF type = "queue" THEN 0 ELSE 1,
    behind <- IF type = "queue" \/ lastCheck = Minus1 THEN -1 ELSE TickCnt

(* Every element fires once, in a check at or after its time, the earliest *)
(* first; a check leaves out none whose time has come (on the wheel: none  *)
(* whose time had come a tick ago) unless max_cb_times stops it; del and   *)
(* destroy take elements out, reset sets them for another time or, when it *)
(* fails, takes them out.  The time of an element is that of the add or    *)
(* reset plus the timeout if the wheel was checked up to then, and whole   *)
(* rounds less if it was not.  (A queue takes few elements: an empty one   *)
(* only those that expire at the last tick, lines 83 and 181.)             *)
ImplementsAlarms == A!AlarmsSpec
----------------------------------------------------------------------------
(* A statement of a comment that the code does not keep.                   *)

(* `expire' is the "event's absolute expire" (line 22): no callback before *)
(* it.                                                                     *)
NeverEarly ==
    [][\A e \in Elems : Ready /\ check.tmp = e /\ check'.cbCnt > check.cbCnt
            => now >= elem[e].due]_vars
=============================================================================
