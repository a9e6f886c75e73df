------------------------------- MODULE Alarms -------------------------------
(***************************************************************************)
(* What the timer of timer.{h,c} promises: alarms that are set for a time, *)
(* and a check that fires those whose time has come, the earliest first    *)
(* and of equal ones the one set first, up to a number the caller gives.   *)
(* Nothing here knows of spokes and rotations; but alarms may be counted   *)
(* in rounds, and then one that is set while checks are due fires before   *)
(* its time, by as many rounds as it takes the checks to catch up.         *)
(***************************************************************************)
EXTENDS Integers

CONSTANTS
    Ids,            \* names of alarms
    Timeouts,       \* after how many ticks they are set to fire
    Budgets,        \* how many alarms a check may fire
    Round           \* the ticks of a round

VARIABLES
    now,            \* the time
    due,            \* for each alarm the time it is set for
    earlier,        \* of alarms for one time, which was set before which
    budget,         \* how many alarms the check under way may still fire
    late,           \* by how many ticks a check stops short of the time
    behind          \* the ticks since the last check, if they are counted

alarmVars == <<now, due, earlier, budget, late, behind>>

NotSet == -1
NotChecking == -1
NotCounted == -1
Idle == budget = NotChecking
IsSet(e) == due[e] # NotSet

(* The time of an alarm that is set to fire after t ticks.  It is t ticks  *)
(* from now if nothing is counted or the last check is of this time.       *)
TimeAfter(t) ==
    IF behind = NotCounted THEN now + t
    ELSE now + t - Round * ((behind + (t % Round)) \div Round)

(* Alarms without e: the times they are set for, and their order. *)
DueWithout(f, e) == [f EXCEPT ![e] = NotSet]
OrderWithout(order, e) == {p \in order : p[1] # e /\ p[2] # e}

(* Alarms with e, set for time d, next to others that were set for it.     *)
DueWith(f, e, d) == [f EXCEPT ![e] = d]
OrderWith(order, f, e, d) == order \cup {<<x, e>> : x \in {y \in Ids : f[y] = d}}

AlarmsInit ==
    /\ now \in Nat
    /\ due = [e \in Ids |-> NotSet]
    /\ earlier = {}
    /\ budget = NotChecking
    /\ late \in {0, 1}
    /\ behind = NotCounted

Elapse ==
    /\ Idle
    /\ now' = now + 1
    /\ behind' = IF behind = NotCounted THEN NotCounted ELSE behind + 1
    /\ UNCHANGED <<due, earlier, budget, late>>

(* Of alarms that fire late the ticks are counted from the first one on. *)
Counted == IF late > 0 /\ behind = NotCounted THEN 0 ELSE behind

Set(e, t) ==
    /\ Idle
    /\ ~IsSet(e)
    /\ due' = DueWith(due, e, TimeAfter(t))
    /\ earlier' = OrderWith(earlier, due, e, TimeAfter(t))
    /\ behind' = Counted
    /\ UNCHANGED <<now, budget, late>>

Cancel(e) ==
    /\ Idle
    /\ due' = DueWithout(due, e)
    /\ earlier' = OrderWithout(earlier, e)
    /\ UNCHANGED <<now, budget, late, behind>>

SetAgain(e, t) ==
    /\ Idle
    /\ LET f == DueWithout(due, e)
       IN  /\ due' = DueWith(f, e, TimeAfter(t))
           /\ earlier' = OrderWith(OrderWithout(earlier, e), f, e, TimeAfter(t))
    /\ UNCHANGED <<now, budget, late, behind>>

CancelAll ==
    /\ Idle
    /\ due' = [e \in Ids |-> NotSet]
    /\ earlier' = {}
    /\ late' \in {0, 1}
    /\ behind' = NotCounted
    /\ UNCHANGED <<now, budget>>

BeginCheck(max) ==
    /\ Idle
    /\ budget' = max
    /\ UNCHANGED <<now, due, earlier, late, behind>>

(* The time of an alarm has come, and there is none to fire before it. *)
IsDue(e) == IsSet(e) /\ due[e] + late <= now
IsFirst(e) == \A x \in Ids : /\ IsDue(x) => due[e] <= due[x]
                             /\ <<x, e>> \notin earlier

(* The first of the alarms set for the earliest time fires; its callback   *)
(* may cancel another one or, if ticks are not counted, set one.           *)
FireNext ==
    /\ budget > 0
    /\ \E e \in Ids :
          /\ IsDue(e) /\ IsFirst(e)
          /\ LET f == DueWithout(due, e)
                 order == OrderWithout(earlier, e)
             IN  \/ due' = f /\ earlier' = order
                 \/ \E x \in Ids :
                       due' = DueWithout(f, x) /\ earlier' = OrderWithout(order, x)
                 \/ \E x \in Ids, t \in Timeouts :
                       /\ behind = NotCounted /\ ~IsSet(x)
                       /\ due' = DueWith(f, x, now + t)
                       /\ earlier' = OrderWith(order, f, x, now + t)
    /\ budget' = budget - 1
    /\ UNCHANGED <<now, late, behind>>

(* A check ends when it has fired all it may, or nothing is due any more.  *)
EndCheck ==
    /\ ~Idle
    /\ budget = 0 \/ \A e \in Ids : ~IsDue(e)
    /\ budget' = NotChecking
    /\ behind' = IF behind = NotCounted THEN NotCounted ELSE 0
    /\ UNCHANGED <<now, due, earlier, late>>

AlarmsNext ==
    \/ Elapse \/ CancelAll \/ FireNext \/ EndCheck
    \/ \E max \in Budgets : BeginCheck(max)
    \/ \E e \in Ids : Cancel(e) \/ \E t \in Timeouts : Set(e, t) \/ SetAgain(e, t)

AlarmsSpec == AlarmsInit /\ [][AlarmsNext]_alarmVars
=============================================================================
