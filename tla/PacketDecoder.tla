--------------------------- MODULE PacketDecoder ----------------------------
(***************************************************************************)
(* The packet decoder: packet.c, packet_private.c, ip4.c, ip6.c, tcp.c and *)
(* udp.c.  A decoder reads one header, records it as a layer of the        *)
(* packet, moves the payload and calls the decoder of the next header as   *)
(* its last act, so one record holds the call in progress.                 *)
(*                                                                         *)
(* A header is read once, so its content is not stored: it is chosen when  *)
(* it is read, from Contents.  That also covers a header read beyond the   *)
(* captured bytes, which decode_ip does not rule out.  Offsets count bytes *)
(* from the start of the capture.  Addresses, ports, identifiers and the   *)
(* counters of s_stats, on which nothing depends, are left out.  The       *)
(* conversions are those of a little-endian build.                         *)
(***************************************************************************)
EXTENDS Integers, Sequences

CONSTANTS
    MAX_LAYERS,     \* the layers a packet has room for
    MAX_TCPOPTLEN,  \* the TCP options it has room for, and their bytes
    Word,           \* one more than the largest unsigned
    Captures,       \* the lengths of the first, second, ... capture that a
                    \*   Packet is used for: as many as it is used for (bound)
    Contents,       \* what the headers of each decoder may say
    Heap            \* what malloc may leave in tcpopt_count

Byte == 0 .. 255
USHRT_MAX == 65535
Short == 0 .. USHRT_MAX

ASSUME SizeAssumption ==
    /\ MAX_LAYERS \in Nat \ {0}
    /\ MAX_TCPOPTLEN \in Nat \ {0}
    /\ Word \in Nat /\ Word > USHRT_MAX

ASSUME UseAssumption ==
    /\ Captures \in Seq(SUBSET (1 .. Word - 1))
    /\ Heap \subseteq Nat

(* What the decoders read of each header, and its width; next stands for   *)
(* the name of a decoder or for any other protocol.                        *)
Ip4Header  == [hl : 0 .. 15, len : Short, off : Short, next : STRING]
Ip6Header  == [plen : Short, next : STRING]
FragHeader == [offlg : Short, next : STRING]
ExtHeader  == [len : Byte, next : STRING]       \* the routing header, too
UdpHeader  == [sum : Short]
TcpHeader  == [off : 0 .. 15]
TcpOption  == [type : Byte, second : Byte]

ASSUME ContentsAssumption ==
    /\ Contents.ip  \subseteq Ip4Header /\ Contents.ip6  \subseteq Ip6Header
    /\ Contents.rte \subseteq ExtHeader /\ Contents.frag \subseteq FragHeader
    /\ Contents.ext \subseteq ExtHeader /\ Contents.udp  \subseteq UdpHeader
    /\ Contents.tcp \subseteq TcpHeader /\ Contents.opt  \subseteq TcpOption

VARIABLES
    packet,     \* the Packet, or NoPacket
    call,       \* the decoder that runs, where it reads and how much is left
    seen        \* history of the current decoding, for the properties

vars == <<packet, call, seen>>

Decoders == {"ip", "ip6", "rte", "frag", "ext", "tcp", "udp"}
Idle(ret) == [at |-> "idle", pos |-> 0, len |-> 0, ret |-> ret]

(* packet_create clears the members before tcpopt_count. *)
Zeroed(garbage) ==
    [live |-> TRUE, version |-> 0, offset |-> 0, mf |-> FALSE,
     payload |-> 0, paysize |-> 0, alt |-> FALSE, transport |-> 0,
     layer |-> <<>>, tcpopt_count |-> garbage]
NoPacket == [Zeroed(0) EXCEPT !.live = FALSE]

(* uses: the captures this Packet was given; captured: the length of the   *)
(* last; base, opts: its layers and options before; end: where the         *)
(* innermost datagram ends by its own account; drift: an option header     *)
(* went by; lost: a layer did not fit; stalled: a header or an option took *)
(* no bytes; pieces: the fragment fields that went by; reached: the        *)
(* transport header, if any.                                               *)
Nothing == [uses |-> 0, captured |-> 0, base |-> 0, opts |-> 0, end |-> 0,
            drift |-> FALSE, lost |-> FALSE, stalled |-> FALSE,
            pieces |-> {}, reached |-> "none"]

Init == packet = NoPacket /\ call = Idle(0) /\ seen = Nothing

Minus(a, b) == (a - b) % Word       \* unsigned
ntohs(x) == ((x % 256) * 256) + ((x \div 256) % 256)

(* A fault: every header is taken to be a little longer than it must be. *)
CutLoose(len, need) == len + 8 < need
Cut(len, need) == len < need

(* A fault: the layer stack has no end. *)
InsUnchecked(p, proto, size) ==
    [p EXCEPT !.layer = Append(@, [protocol |-> proto, start |-> call.pos,
                                   size |-> size, use |-> seen.uses])]
(* The result is -1 if there is no room; no caller looks at it. *)
packet_layer_ins(p, proto, size) ==
    IF Len(p.layer) = MAX_LAYERS THEN p
    ELSE [p EXCEPT !.layer = Append(@, [protocol |-> proto, start |-> call.pos,
                                        size |-> size, use |-> seen.uses])]

(* The current layer by number; 0 is NULL. *)
packet_layer_current(p) == Len(p.layer)

(* A fault: the payload moves, but does not get shorter. *)
MoveOnly(p, n) == [p EXCEPT !.payload = @ + n]
Advance(p, n) == [p EXCEPT !.payload = @ + n, !.paysize = Minus(@, n)]

SetVersion(p, v) == [p EXCEPT !.version = v]
SetPayload(p, hlen, size) == [p EXCEPT !.payload = @ + hlen, !.paysize = size]
SetFragment(p, offset, mf) == [p EXCEPT !.offset = offset, !.mf = mf]
SetTransport(p) == [p EXCEPT !.transport = packet_layer_current(p)]

(* A fault: only the offset is looked at. *)
OffsetOnly(p) == p.offset # 0
packet_is_fragment(p) == p.offset # 0 \/ p.mf

Return(ret) == call' = Idle(ret)

(* bind_ip, bind_ip6: the decoder of the next header, if it has one. *)
Bind(table, next, size) ==
    IF next \in table
    THEN call' = [call EXCEPT !.at = next, !.pos = @ + size,
                              !.len = @ - size]
    ELSE Return(-1)
bind_ip  == {"tcp", "udp", "ip", "ip6"}
bind_ip6 == {"rte", "frag", "ext", "tcp", "udp", "ip"}

(* The history s, and what went by: a header of a size, the end of a        *)
(* datagram, a fragment field (that of a whole packet is 0).               *)
Passed(s, size) == [s EXCEPT !.lost = @ \/ Len(packet.layer) = MAX_LAYERS,
                             !.stalled = @ \/ size = 0]
EndsAt(s, end) == [s EXCEPT !.end = end]
Drifted(s) == [s EXCEPT !.drift = TRUE]
Reached(s, proto) == [s EXCEPT !.reached = proto]
Piece(s, kind, field) ==
    IF field = 0 THEN s ELSE [s EXCEPT !.pieces = @ \cup {<<kind, field>>}]
-----------------------------------------------------------------------------
(* The client.                                                             *)

packet_create ==
    /\ ~packet.live /\ call.at = "idle"
    /\ \E garbage \in Heap : packet' = Zeroed(garbage)
    /\ call' = Idle(0)
    /\ seen' = Nothing

packet_destroy ==
    /\ packet.live /\ call.at = "idle"
    /\ packet' = NoPacket
    /\ call' = Idle(0)
    /\ seen' = Nothing

(* The alternative payload is the client's: stored, freed by packet_destroy *)
(* and touched by nothing else.  Bound: it is set after the last capture.   *)
packet_set_payload(on) ==
    /\ packet.live /\ call.at = "idle"
    /\ seen.uses = Len(Captures)
    /\ packet' = [packet EXCEPT !.alt = on]
    /\ UNCHANGED <<call, seen>>

(* A length of 0 is turned away.  Nothing of an earlier use is cleared. *)
packet_decode ==
    /\ packet.live /\ call.at = "idle"
    /\ seen.uses < Len(Captures)
    /\ \E len \in Captures[seen.uses + 1] :
          /\ packet' = [packet EXCEPT !.payload = 0, !.paysize = len]
          /\ call' = [at |-> "dlt", pos |-> 0, len |-> len, ret |-> 0]
          /\ seen' = [Nothing EXCEPT
                        !.uses = seen.uses + 1, !.captured = len, !.end = len,
                        !.base = Len(packet.layer),
                        !.opts = packet.tcpopt_count]

(* External: what follows packet_decode and is commented out in it; the     *)
(* decoders of IP are the entries.                                         *)
decode_dlt(entry) ==
    /\ call.at = "dlt"
    /\ call' = [call EXCEPT !.at = entry]
    /\ UNCHANGED <<packet, seen>>
-----------------------------------------------------------------------------
(* The decoders.                                                           *)

decode_ip(h) ==
    LET hlen    == h.hl * 4
        pay_len == Minus(h.len, hlen)
        p       == SetVersion(packet, 4)
        layered == packet_layer_ins(p, "IP4", hlen)
        inner   == SetPayload(SetFragment(layered, h.off % 8192,
                                          (h.off \div 8192) % 2 = 1),
                              hlen, pay_len)
    IN  /\ call.at = "ip"
        /\ \/ /\ Cut(call.len, hlen) \/ Cut(call.len, pay_len)
              /\ packet' = p
              /\ Return(-1)
              /\ UNCHANGED seen
           \/ /\ ~Cut(call.len, hlen) /\ ~Cut(call.len, pay_len)
              /\ packet' = inner
              /\ IF packet_is_fragment(inner) THEN Return(0)
                 ELSE Bind(bind_ip, h.next, hlen)
              /\ seen' = Piece(EndsAt(Passed(seen, hlen), packet.payload + h.len),
                               "IP4", h.off % 16384)

decode_ip6(h) ==
    /\ call.at = "ip6"
    /\ \/ Cut(call.len, 40) /\ Return(-1) /\ UNCHANGED <<packet, seen>>
       \/ /\ ~Cut(call.len, 40)
          /\ packet' = SetPayload(
                         packet_layer_ins(SetVersion(packet, 6), "IP6", 40),
                         40, h.plen)
          /\ Bind(bind_ip6, h.next, 40)
          /\ seen' = EndsAt(Passed(seen, 40), packet.payload + 40 + h.plen)

decode_ip6_rte(h) ==
    LET rte_len == h.len * 8 + 8
    IN  /\ call.at = "rte"
        /\ \/ /\ Cut(call.len, 8) \/ Cut(call.len, rte_len)
              /\ Return(-1) /\ UNCHANGED <<packet, seen>>
           \/ /\ ~Cut(call.len, 8) /\ ~Cut(call.len, rte_len)
              /\ packet' = packet_layer_ins(Advance(packet, rte_len),
                                            "RTE", rte_len)
              /\ Bind(bind_ip6, h.next, rte_len)
              /\ seen' = Passed(seen, rte_len)

(* The masks are those of a field in network order, but the field has been *)
(* converted: 0xf8ff drops bits 8 to 10 and 0x0100 is bit 8.                *)
decode_ip6_frag(h) ==
    LET middle == (h.offlg \div 256) % 8
        inner  == SetFragment(packet_layer_ins(Advance(packet, 8), "FRAG", 8),
                              h.offlg - 256 * middle, middle % 2 = 1)
    IN  /\ call.at = "frag"
        /\ \/ Cut(call.len, 8) /\ Return(-1) /\ UNCHANGED <<packet, seen>>
           \/ /\ ~Cut(call.len, 8)
              /\ packet' = inner
              /\ IF packet_is_fragment(inner) THEN Return(0)
                 ELSE Bind(bind_ip6, h.next, 8)
              /\ seen' = Piece(Passed(seen, 8), "FRAG", h.offlg)

(* The payload moves twice: by the length with its bytes swapped, too. *)
decode_ip6_ext(h) ==
    LET ext_len == h.len * 8 + 8
    IN  /\ call.at = "ext"
        /\ \/ /\ Cut(call.len, 2) \/ Cut(call.len, ext_len)
              /\ Return(-1) /\ UNCHANGED <<packet, seen>>
           \/ /\ ~Cut(call.len, 2) /\ ~Cut(call.len, ext_len)
              /\ packet' = packet_layer_ins(
                             Advance(Advance(packet, ntohs(ext_len)), ext_len),
                             "EXT", ext_len)
              /\ Bind(bind_ip6, h.next, ext_len)
              /\ seen' = Drifted(Passed(seen, ext_len))

decode_udp(h) ==
    /\ call.at = "udp"
    /\ \/ Cut(call.len, 8) /\ Return(-1) /\ UNCHANGED <<packet, seen>>
       \/ /\ ~Cut(call.len, 8)
          /\ packet' = SetTransport(packet_layer_ins(Advance(packet, 8), "UDP", 8))
          /\ Return(IF h.sum = 0 /\ packet.version = 6 THEN -1 ELSE 0)
          /\ seen' = Reached(Passed(seen, 8), "UDP")

(* A fault: a block of options of any length is read. *)
AnyLength(optlen) == optlen # 0
(* decode_tcp_options turns away more bytes than the array has elements. *)
OptionsRead(optlen) == optlen # 0 /\ optlen <= MAX_TCPOPTLEN

decode_tcp(h) ==
    LET hlen   == h.off * 4
        optlen == (hlen - 20) % 65536       \* unsigned short
    IN  /\ call.at = "tcp"
        /\ \/ Cut(call.len, 20) /\ Return(-1) /\ UNCHANGED <<packet, seen>>
           \/ /\ ~Cut(call.len, 20)
              /\ packet' = SetTransport(
                             packet_layer_ins(Advance(packet, hlen), "TCP", hlen))
              /\ IF OptionsRead(optlen)
                 THEN call' = [at |-> "opt", pos |-> 0, len |-> optlen, ret |-> 0]
                 ELSE Return(0)
              /\ seen' = Reached(Passed(seen, 20), "TCP")
-----------------------------------------------------------------------------
(* decode_tcp_options: pos is depth, the bytes the options so far took.     *)
(* An option is its type and the byte after it, which may be no longer one *)
(* of the options: the test of len - depth is true whenever the loop runs. *)

tcpopt_len_tbl == [t \in 0 .. 8 |-> <<0, 0, 4, 3, 2, -1, 6, 6, 10>>[t + 1]]
Known(o) == o.type \in DOMAIN tcpopt_len_tbl

(* A fault: a known option without a length takes no byte. *)
JumpNowhere(o) == IF tcpopt_len_tbl[o.type] = 0 THEN 0 ELSE o.second
JumpLen(o) == IF tcpopt_len_tbl[o.type] = 0 THEN 1 ELSE o.second

(* A known option is recorded if its length is right.  To record one       *)
(* beyond the array is undefined: the program is at an end in this model.  *)
RecordOption(o) ==
    /\ call.at = "opt" /\ call.pos < call.len
    /\ Known(o)
    /\ tcpopt_len_tbl[o.type] \in {0, -1, o.second}
    /\ IF packet.tcpopt_count >= MAX_TCPOPTLEN
       THEN call' = [call EXCEPT !.at = "undefined"] /\ UNCHANGED <<packet, seen>>
       ELSE /\ packet' = [packet EXCEPT !.tcpopt_count = @ + 1]
            /\ call' = [call EXCEPT !.pos = @ + JumpLen(o)]
            /\ seen' = [seen EXCEPT !.stalled = @ \/ (tcpopt_len_tbl[o.type] = -1
                                                      /\ o.second = 0)]

(* An unknown option is only jumped over if it is longer than all of them. *)
SkipOption(o) ==
    /\ call.at = "opt" /\ call.pos < call.len
    /\ ~Known(o) /\ call.len < o.second
    /\ call' = [call EXCEPT !.pos = @ + o.second]
    /\ UNCHANGED <<packet, seen>>

OptionsEnd(o) ==
    /\ call.at = "opt"
    /\ \/ call.pos >= call.len
       \/ ~Known(o) /\ o.second <= call.len
       \/ Known(o) /\ tcpopt_len_tbl[o.type] \notin {0, -1, o.second}
    /\ Return(0)
    /\ UNCHANGED <<packet, seen>>
-----------------------------------------------------------------------------
Decode ==
    \/ \E h \in Contents.ip   : decode_ip(h)
    \/ \E h \in Contents.ip6  : decode_ip6(h)
    \/ \E h \in Contents.rte  : decode_ip6_rte(h)
    \/ \E h \in Contents.frag : decode_ip6_frag(h)
    \/ \E h \in Contents.ext  : decode_ip6_ext(h)
    \/ \E h \in Contents.udp  : decode_udp(h)
    \/ \E h \in Contents.tcp  : decode_tcp(h)
    \/ \E o \in Contents.opt  : RecordOption(o) \/ SkipOption(o) \/ OptionsEnd(o)

Client ==
    \/ packet_create \/ packet_destroy \/ packet_decode
    \/ \E on \in BOOLEAN : packet_set_payload(on)

Next == Client \/ Decode \/ \E entry \in {"ip", "ip6"} : decode_dlt(entry)

Spec == Init /\ [][Next]_vars

(* A decoder that was called runs on; the client calls when it likes. *)
FairSpec == Spec /\ WF_vars(Decode \/ \E e \in {"ip", "ip6"} : decode_dlt(e))
-----------------------------------------------------------------------------
(* The accessors.                                                          *)

NULL == -1
packet_proto_first(p) == IF Len(p.layer) > 0 THEN 0 ELSE NULL
(* A fault: the iterator is moved twice. *)
NextButOne(p, iterator) ==
    IF iterator + 2 < Len(p.layer) THEN iterator + 2 ELSE NULL
packet_proto_next(p, iterator) ==
    IF iterator + 1 < Len(p.layer) THEN iterator + 1 ELSE NULL

(* What the loop over packet_proto_first and packet_proto_next sees. *)
Walk(p) ==
    LET from[it \in NULL .. MAX_LAYERS - 1] ==
            IF it = NULL THEN <<>>
            ELSE <<p.layer[it + 1]>> \o from[packet_proto_next(p, it)]
    IN  from[packet_proto_first(p)]

(* A fault: any transport header will do. *)
AnyTransport(p, proto) == p.transport # 0
validate_transport_protocol(p, proto) ==
    p.transport # 0 /\ p.layer[p.transport].protocol = proto

(* The layer whose bytes packet_win, packet_seq, packet_ack and the flag   *)
(* accessors read, if they read any.                                       *)
TcpHeaders(p) ==
    IF validate_transport_protocol(p, "TCP") THEN {p.layer[p.transport]} ELSE {}
=============================================================================
