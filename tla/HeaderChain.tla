---------------------------- MODULE HeaderChain -----------------------------
(***************************************************************************)
(* What a client is promised of a decoded packet: the headers it can walk  *)
(* through are a chain that starts with an IP header at the first byte;    *)
(* each header starts where the one before it ends and is of a kind that   *)
(* may follow it; the chain only grows until the decoder gives its         *)
(* verdict, and it accepts only a chain that reached a transport header or *)
(* a fragment, unless the chain has no room left to show it.               *)
(***************************************************************************)
EXTENDS Naturals, Sequences

CONSTANT MAX_LAYERS

VARIABLES
    chain,      \* the headers a client sees, outermost first
    room,       \* how many headers can be shown
    verdict     \* "none", "open", "accepted" or "rejected"

vars == <<chain, room, verdict>>

(* What bind_ip and bind_ip6 decode after which header. *)
AfterIp4 == {"TCP", "UDP", "IP4", "IP6"}
AfterIp6 == {"RTE", "FRAG", "EXT", "TCP", "UDP", "IP4"}
Successors == [IP4 |-> AfterIp4, IP6 |-> AfterIp6, RTE |-> AfterIp6,
               FRAG |-> AfterIp6, EXT |-> AfterIp6, TCP |-> {}, UDP |-> {}]

Last(c) == c[Len(c)]

Fits(h, c) ==
    IF c = <<>> THEN h.start = 0 /\ h.protocol \in {"IP4", "IP6"}
    ELSE /\ h.start = Last(c).start + Last(c).size
         /\ h.protocol \in Successors[Last(c).protocol]

MayAccept(c) ==
    \/ Len(c) = room
    \/ c # <<>> /\ Last(c).protocol \in {"TCP", "UDP", "IP4", "FRAG"}

Init == chain = <<>> /\ room = MAX_LAYERS /\ verdict = "none"

(* A new capture, or a new packet. *)
Begin ==
    /\ verdict # "open"
    /\ chain' = <<>>
    /\ room' \in 0 .. MAX_LAYERS
    /\ verdict' \in {"none", "open"}

(* One more header is shown, and the decoder may be done with it. *)
Extend ==
    LET old == chain
        new == chain'
    IN  /\ verdict = "open"
        /\ Len(old) < room
        /\ Len(new) = Len(old) + 1
        /\ new = Append(old, Last(new))
        /\ Fits(Last(new), old)
        /\ verdict' \in {"open", "accepted", "rejected"}
        /\ verdict' = "accepted" => MayAccept(new)
        /\ UNCHANGED room

Settle ==
    /\ verdict = "open"
    /\ verdict' \in {"accepted", "rejected"}
    /\ verdict' = "accepted" => MayAccept(chain)
    /\ UNCHANGED <<chain, room>>

Next == Begin \/ Extend \/ Settle
Spec == Init /\ [][Next]_vars
=============================================================================
