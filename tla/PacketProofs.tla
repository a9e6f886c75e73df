---------------------------- MODULE PacketProofs ----------------------------
(***************************************************************************)
(* Proofs about the packet decoder, for any number of layers, any captures *)
(* and any contents of their headers.  Each decoder either refuses its     *)
(* header or accepts it (Refuses, Accepts); what the invariants need is    *)
(* proved of these two, once for all decoders.                             *)
(***************************************************************************)
EXTENDS PacketProperties, Arithmetic, SequenceTheorems, TLAPS

Protocols == {"IP4", "IP6", "RTE", "FRAG", "EXT", "TCP", "UDP"}
Header == [protocol : Protocols, start : Nat, size : Nat, use : Nat]
Packets == [live : BOOLEAN, version : {0, 4, 6}, offset : Short, mf : BOOLEAN,
            payload : Nat, paysize : 0 .. Word - 1, alt : BOOLEAN, transport : Nat,
            layer : Seq(Header), tcpopt_count : Nat]
Calls == [at : Decoders \cup {"idle", "dlt", "opt", "undefined"},
          pos : Nat, len : Nat, ret : {0, -1}]
Histories == [uses : Nat, captured : Nat, base : Nat, opts : Nat, end : Nat,
              drift : BOOLEAN, lost : BOOLEAN, stalled : BOOLEAN,
              pieces : SUBSET ({"IP4", "FRAG"} \X Nat),
              reached : {"none", "TCP", "UDP"}]

Typed ==
    /\ packet \in Packets
    /\ call \in Calls
    /\ seen \in Histories
    /\ Len(packet.layer) <= MAX_LAYERS
    /\ packet.transport <= Len(packet.layer)
    /\ seen.base <= Len(packet.layer)

(* The layers after one more header was recorded, if there was room. *)
Layered(proto, size) ==
    IF Len(packet.layer) = MAX_LAYERS THEN packet.layer
    ELSE Append(packet.layer, [protocol |-> proto, start |-> call.pos,
                               size |-> size, use |-> seen.uses])

(* Two packets that differ in the payload, the version and the fragment    *)
(* fields at most; two histories of the same use.                          *)
SameLayers(p, q) ==
    /\ q.layer = p.layer /\ q.transport = p.transport
    /\ q.tcpopt_count = p.tcpopt_count /\ q.live = p.live
SameUse(s, t) ==
    /\ t.uses = s.uses /\ t.captured = s.captured /\ t.base = s.base /\ t.opts = s.opts

(* Where the payload ends, as far as the wrapping paysize tells; and that  *)
(* it is where the innermost datagram ends.                                *)
PayloadEnd(p) == (p.payload + p.paysize) % Word
Rest == PayloadEnd(packet) = seen.end % Word
-----------------------------------------------------------------------------
(* What the operators on packets and histories do.                         *)

LEMMA ShortMax == USHRT_MAX = 65535
BY DEF USHRT_MAX

(* An unsigned difference is an unsigned number. *)
LEMMA MinusType ==
    ASSUME NEW a \in Int, NEW b \in Int
    PROVE  Minus(a, b) \in 0 .. Word - 1
<1>1. Word \in Nat /\ Word > 0 /\ a - b \in Int
  BY SizeAssumption, ShortMax
<1> QED
  BY <1>1 DEF Minus

LEMMA AdvanceType ==
    ASSUME NEW p \in Packets, NEW n \in Nat
    PROVE  LET q == Advance(p, n)
           IN  /\ q \in Packets /\ SameLayers(p, q) /\ q.payload = p.payload + n
               /\ PayloadEnd(q) = PayloadEnd(p)
<1>1. p.payload + n \in Nat
  BY DEF Packets
<1>2. Minus(p.paysize, n) \in 0 .. Word - 1
  <2>1. p.paysize \in 0 .. Word - 1
    BY DEF Packets
  <2>2. p.paysize \in Int /\ n \in Int
    BY <2>1, SizeAssumption
  <2> QED
    BY <2>2, MinusType
<1>3. Advance(p, n) \in Packets
  BY <1>1, <1>2 DEF Advance, Packets
<1>4. SameLayers(p, Advance(p, n))
  BY DEF Advance, Packets, SameLayers
<1>5. Advance(p, n).payload = p.payload + n
  BY DEF Advance, Packets
<1>6. PayloadEnd(Advance(p, n)) = PayloadEnd(p)
  <2> DEFINE a == p.payload
             b == p.paysize
  <2>1. Advance(p, n).payload = a + n /\ Advance(p, n).paysize = (b - n) % Word
    BY DEF Advance, Minus, Packets
  <2>2. a \in Nat /\ b \in Int /\ Word \in Nat /\ Word > 0
    BY SizeAssumption, ShortMax DEF Packets
  <2> HIDE DEF a, b
  <2>3. a + n \in Int /\ b - n \in Int /\ (a + n) + (b - n) = a + b
    BY <2>2
  <2>4. ((a + n) + ((b - n) % Word)) % Word = ((a + n) + (b - n)) % Word
    BY <2>2, <2>3, ModShift
  <2>5. PayloadEnd(Advance(p, n)) = ((a + n) + ((b - n) % Word)) % Word
    BY <2>1 DEF PayloadEnd
  <2>6. PayloadEnd(p) = (a + b) % Word
    BY DEF PayloadEnd, a, b
  <2> QED
    BY <2>3, <2>4, <2>5, <2>6
<1> QED
  BY <1>3, <1>4, <1>5, <1>6

LEMMA SetVersionType ==
    ASSUME NEW p \in Packets, NEW v \in {4, 6}
    PROVE  LET q == SetVersion(p, v)
           IN  /\ q \in Packets /\ SameLayers(p, q)
               /\ q.payload = p.payload /\ q.paysize = p.paysize
BY DEF SetVersion, Packets, SameLayers

LEMMA SetPayloadType ==
    ASSUME NEW p \in Packets, NEW hlen \in Nat, NEW size \in 0 .. Word - 1
    PROVE  LET q == SetPayload(p, hlen, size)
           IN  /\ q \in Packets /\ SameLayers(p, q) /\ q.payload = p.payload + hlen
               /\ q.paysize = size /\ q.offset = p.offset /\ q.mf = p.mf
<1>1. p.payload + hlen \in Nat
  BY DEF Packets
<1> QED
  BY <1>1 DEF SetPayload, Packets, SameLayers

LEMMA SetFragmentType ==
    ASSUME NEW p \in Packets, NEW offset \in Short, NEW mf \in BOOLEAN
    PROVE  LET q == SetFragment(p, offset, mf)
           IN  /\ q \in Packets /\ SameLayers(p, q) /\ q.payload = p.payload /\ q.paysize = p.paysize
               /\ q.offset = offset /\ q.mf = mf
BY DEF SetFragment, Packets, SameLayers

LEMMA SetTransportType ==
    ASSUME NEW p \in Packets
    PROVE  LET q == SetTransport(p)
           IN  /\ q \in Packets /\ q.layer = p.layer /\ q.payload = p.payload /\ q.paysize = p.paysize
               /\ q.transport = Len(p.layer)
               /\ q.tcpopt_count = p.tcpopt_count /\ q.live = p.live
BY DEF SetTransport, packet_layer_current, Packets

(* packet_layer_ins adds at most the one layer, and only if it fits. *)
LEMMA InsType ==
    ASSUME Typed, NEW p \in Packets, SameLayers(packet, p),
           NEW proto \in Protocols, NEW size \in Nat
    PROVE  LET q == packet_layer_ins(p, proto, size)
           IN  /\ q \in Packets
               /\ q.layer = Layered(proto, size)
               /\ q.transport = packet.transport
               /\ q.payload = p.payload /\ q.paysize = p.paysize
               /\ q.tcpopt_count = packet.tcpopt_count /\ q.live = packet.live
<1> DEFINE h == [protocol |-> proto, start |-> call.pos, size |-> size, use |-> seen.uses]
<1>1. h \in Header
  BY DEF Typed, Header, Calls, Histories
<1>2. Append(p.layer, h) \in Seq(Header)
  BY <1>1 DEF Packets
<1>3. CASE Len(p.layer) = MAX_LAYERS
  BY <1>3 DEF packet_layer_ins, Layered, SameLayers
<1>4. CASE Len(p.layer) # MAX_LAYERS
  <2>1. packet_layer_ins(p, proto, size) = [p EXCEPT !.layer = Append(@, h)]
    BY <1>4 DEF packet_layer_ins
  <2>2. Layered(proto, size) = Append(p.layer, h)
    BY <1>4 DEF Layered, SameLayers
  <2> DEFINE q == [p EXCEPT !.layer = Append(@, h)]
  <2>3. q \in Packets /\ q.layer = Append(p.layer, h)
    BY <1>2 DEF Packets
  <2>4. q.transport = p.transport /\ q.payload = p.payload /\ q.paysize = p.paysize
        /\ q.tcpopt_count = p.tcpopt_count /\ q.live = p.live
    BY DEF Packets
  <2> QED
    BY <2>1, <2>2, <2>3, <2>4 DEF SameLayers
<1> QED
  BY <1>3, <1>4

LEMMA LayeredType ==
    ASSUME Typed, NEW proto \in Protocols, NEW size \in Nat
    PROVE  /\ Len(Layered(proto, size)) <= MAX_LAYERS
           /\ Len(packet.layer) <= Len(Layered(proto, size))
           /\ Len(Layered(proto, size)) \in Nat /\ Len(packet.layer) \in Nat
<1>1. packet.layer \in Seq(Header) /\ MAX_LAYERS \in Nat
  BY SizeAssumption DEF Typed, Packets
<1>2. Len(packet.layer) \in Nat
  BY <1>1
<1>3. CASE Len(packet.layer) = MAX_LAYERS
  BY <1>1, <1>2, <1>3 DEF Layered
<1>4. CASE Len(packet.layer) # MAX_LAYERS
  <2> DEFINE h == [protocol |-> proto, start |-> call.pos,
                   size |-> size, use |-> seen.uses]
  <2>1. h \in Header
    BY DEF Typed, Header, Calls, Histories
  <2> HIDE DEF h
  <2>2. Len(Append(packet.layer, h)) = Len(packet.layer) + 1
    BY <1>1, <2>1
  <2>3. Layered(proto, size) = Append(packet.layer, h)
    BY <1>4 DEF Layered, h
  <2>4. Len(packet.layer) + 1 <= MAX_LAYERS
    BY <1>1, <1>2, <1>4 DEF Typed
  <2> QED
    BY <1>2, <2>2, <2>3, <2>4
<1> QED
  BY <1>3, <1>4

LEMMA PassedType ==
    ASSUME NEW s \in Histories, NEW size \in Nat
    PROVE  LET t == Passed(s, size)
           IN  /\ t \in Histories /\ SameUse(s, t)
               /\ t.lost <=> (s.lost \/ Len(packet.layer) = MAX_LAYERS)
               /\ t.drift = s.drift /\ t.pieces = s.pieces /\ t.reached = s.reached /\ t.end = s.end
BY DEF Passed, Histories, SameUse

LEMMA EndsAtType ==
    ASSUME NEW s \in Histories, NEW end \in Nat
    PROVE  LET t == EndsAt(s, end)
           IN  /\ t \in Histories /\ SameUse(s, t) /\ t.lost = s.lost
               /\ t.drift = s.drift /\ t.pieces = s.pieces /\ t.reached = s.reached /\ t.end = end
BY DEF EndsAt, Histories, SameUse

LEMMA DriftedType ==
    ASSUME NEW s \in Histories
    PROVE  LET t == Drifted(s)
           IN  /\ t \in Histories /\ SameUse(s, t) /\ t.lost = s.lost
               /\ t.drift /\ t.pieces = s.pieces /\ t.reached = s.reached /\ t.end = s.end
BY DEF Drifted, Histories, SameUse

LEMMA ReachedType ==
    ASSUME NEW s \in Histories, NEW proto \in {"TCP", "UDP"}
    PROVE  LET t == Reached(s, proto)
           IN  /\ t \in Histories /\ SameUse(s, t) /\ t.lost = s.lost
               /\ t.drift = s.drift /\ t.pieces = s.pieces /\ t.reached = proto /\ t.end = s.end
BY DEF Reached, Histories, SameUse

LEMMA PieceType ==
    ASSUME NEW s \in Histories, NEW kind \in {"IP4", "FRAG"}, NEW field \in Nat
    PROVE  LET t == Piece(s, kind, field)
           IN  /\ t \in Histories /\ SameUse(s, t) /\ t.lost = s.lost
               /\ t.drift = s.drift /\ t.reached = s.reached /\ t.end = s.end
               /\ s.pieces \subseteq t.pieces
               /\ \A x \in t.pieces : x \in s.pieces \/ (x = <<kind, field>> /\ field # 0)
<1>1. CASE field = 0
  BY <1>1 DEF Piece, SameUse
<1>2. CASE field # 0
  <2>1. s.pieces \cup {<<kind, field>>} \in SUBSET ({"IP4", "FRAG"} \X Nat)
    BY DEF Histories
  <2> DEFINE new == s.pieces \cup {<<kind, field>>}
             t == [s EXCEPT !.pieces = new]
  <2>2. Piece(s, kind, field) = t
    BY <1>2 DEF Piece
  <2> HIDE DEF new
  <2>3. t \in Histories /\ t.pieces = new
    BY <2>1 DEF Histories, new
  <2>4. SameUse(s, t) /\ t.lost = s.lost /\ t.drift = s.drift /\ t.reached = s.reached /\ t.end = s.end
    BY DEF Histories, SameUse
  <2> QED
    BY <1>2, <2>2, <2>3, <2>4 DEF new
<1> QED
  BY <1>1, <1>2

LEMMA ReturnType ==
    ASSUME NEW ret \in {0, -1}, Return(ret)
    PROVE  call' \in Calls /\ call'.at = "idle"
BY DEF Return, Idle, Calls

(* The protocol a decoder records; those a decoding may end with. *)
Named == [ip |-> "IP4", ip6 |-> "IP6", rte |-> "RTE", frag |-> "FRAG",
          ext |-> "EXT", tcp |-> "TCP", udp |-> "UDP"]
Final == {"TCP", "UDP", "IP4", "FRAG"}

(* After a header of the protocol, a decoder is called on what is left, of *)
(* a header that may follow.                                               *)
GoesOn(proto, size) ==
    /\ call' \in Calls
    /\ call'.at \in Decoders \cup {"idle"}
    /\ call'.at \in Decoders => /\ call'.pos = call.pos + size
                                /\ call'.len = call.len - size
                                /\ Named[call'.at] \in Chain!Successors[proto]
    /\ call'.at = "idle" /\ call'.ret = 0 => proto \in Final

(* The decoders of a table are those of the headers that may follow. *)
Follows(table, proto) ==
    table \subseteq Decoders /\ \A d \in table : Named[d] \in Chain!Successors[proto]

LEMMA BindType ==
    ASSUME Typed, NEW proto \in Protocols, NEW table, Follows(table, proto),
           NEW next, NEW size \in Nat, size <= call.len, Bind(table, next, size)
    PROVE  GoesOn(proto, size)
<1>1. CASE next \in table
  <2>1. call' = [call EXCEPT !.at = next, !.pos = @ + size, !.len = @ - size]
    BY <1>1 DEF Bind
  <2>2. /\ call \in Calls /\ next \in Decoders
        /\ Named[next] \in Chain!Successors[proto]
    BY <1>1 DEF Typed, Follows
  <2>3. call.pos + size \in Nat /\ call.len - size \in Nat
    BY <2>2 DEF Calls
  <2>4. /\ call' \in Calls /\ call'.at = next
        /\ call'.pos = call.pos + size /\ call'.len = call.len - size
    BY <2>1, <2>2, <2>3 DEF Calls
  <2>5. next # "idle"
    BY <2>2 DEF Decoders
  <2> QED
    BY <2>2, <2>4, <2>5 DEF GoesOn
<1>2. CASE next \notin table
  <2>1. Return(-1)
    BY <1>2 DEF Bind
  <2>2. call' \in Calls /\ call'.at = "idle" /\ call'.ret = -1
    BY <2>1 DEF Return, Idle, Calls
  <2> QED
    BY <2>2 DEF Decoders, GoesOn
<1> QED
  BY <1>1, <1>2

LEMMA TablesType ==
    /\ Follows(bind_ip, "IP4")
    /\ \A proto \in {"IP6", "RTE", "FRAG", "EXT"} : Follows(bind_ip6, proto)
BY DEF Follows, bind_ip, bind_ip6, Decoders, Named,
       Chain!Successors, Chain!AfterIp4, Chain!AfterIp6

(* A fragment ends the decoding. *)
LEMMA StopType ==
    ASSUME NEW proto \in {"IP4", "FRAG"}, NEW size \in Nat, Return(0)
    PROVE  GoesOn(proto, size) /\ call'.at = "idle"
BY DEF Return, Idle, Calls, Decoders, GoesOn, Final

-----------------------------------------------------------------------------
(* What a decoder does with its header.                                    *)

Refuses ==
    /\ packet' \in Packets /\ SameLayers(packet, packet')
    /\ packet'.payload = packet.payload /\ packet'.paysize = packet.paysize
    /\ call' \in Calls /\ call'.at = "idle" /\ call'.ret = -1
    /\ seen' = seen

Transports == {"TCP", "UDP"}

(* The pieces a decoder goes on from. *)
Hidden == {"FRAG"} \X HiddenOffsets

Accepts(proto, size) ==
    /\ packet' \in Packets /\ call' \in Calls /\ seen' \in Histories
    /\ packet'.layer = Layered(proto, size)
    /\ packet'.transport = IF proto \in Transports THEN Len(packet'.layer)
                           ELSE packet.transport
    /\ packet'.tcpopt_count = packet.tcpopt_count /\ packet'.live = packet.live
    /\ proto # "EXT" => packet'.payload = packet.payload + size
    /\ Rest => Rest'
    /\ Holds(call.len, proto, size)
    /\ SameUse(seen, seen')
    /\ seen'.lost <=> (seen.lost \/ Len(packet.layer) = MAX_LAYERS)
    /\ seen'.drift <=> (seen.drift \/ proto = "EXT")
    /\ seen'.reached = IF proto \in Transports THEN proto ELSE seen.reached
    /\ call'.at \in Decoders \cup {"idle", "opt"}
    /\ call'.at \in Decoders => /\ proto \notin Transports
                                /\ call'.pos = call.pos + size
                                /\ call'.len = call.len - size
    /\ call'.at = "opt" => proto = "TCP" /\ call'.pos = 0 /\ call'.len <= MAX_TCPOPTLEN
    /\ call'.at # "idle" \/ proto \in Transports =>
          seen'.pieces \subseteq seen.pieces \cup Hidden
    /\ proto = Named[call.at]
    /\ call'.at \in Decoders => Named[call'.at] \in Chain!Successors[proto]
    /\ call'.at = "idle" /\ call'.ret = 0 => proto \in Final

Decoding ==
    \/ Refuses
    \/ \E proto \in Protocols, size \in Nat : Accepts(proto, size)

LEMMA RefusesPlainly ==
    ASSUME Typed, Return(-1), packet' = packet, seen' = seen
    PROVE  Refuses
BY ReturnType DEF Refuses, Return, Idle, Typed, SameLayers

LEMMA ShortType ==
    ASSUME NEW x \in Short
    PROVE  x \in Nat /\ x % 8192 \in Short /\ x % 16384 \in Nat /\ x <= 65535
<1>1. x \in Nat /\ x <= 65535
  <2>1. x \in 0 .. USHRT_MAX
    BY DEF Short
  <2>2. USHRT_MAX \in Nat
    BY ShortMax
  <2>3. x \in Nat /\ x <= USHRT_MAX
    BY <2>1, <2>2
  <2> QED
    BY <2>3, ShortMax
<1>2. x % 8192 \in Nat /\ x % 16384 \in Nat /\ x % 8192 <= USHRT_MAX
  BY <1>1, ShortMax
<1> QED
  BY <1>1, <1>2 DEF Short

LEMMA ShortUnsigned ==
    ASSUME NEW x \in Short
    PROVE  x \in 0 .. Word - 1
<1>1. x \in Nat /\ x <= USHRT_MAX /\ USHRT_MAX \in Nat
  BY ShortType, ShortMax
<1> QED
  BY <1>1, SizeAssumption

(* A header's length is counted in words of four bytes. *)
LEMMA WordsType ==
    ASSUME NEW x \in 0 .. 15
    PROVE  x * 4 \in Nat
OBVIOUS

LEMMA Ip4Types ==
    ASSUME NEW h \in Ip4Header
    PROVE  /\ h.hl * 4 \in Nat /\ h.len \in Nat
           /\ h.off \in Short /\ h.off % 8192 \in Short /\ h.off % 16384 \in Nat
           /\ Minus(h.len, h.hl * 4) \in 0 .. Word - 1
<1>1. h.hl \in 0 .. 15 /\ h.len \in Short /\ h.off \in Short
  BY DEF Ip4Header
<1>2. h.hl * 4 \in Nat
  BY <1>1, WordsType
<1>3. h.len \in Nat /\ h.off % 8192 \in Short /\ h.off % 16384 \in Nat
  BY <1>1, ShortType
<1>4. h.len \in Int /\ h.hl * 4 \in Int
  BY <1>2, <1>3
<1>5. Minus(h.len, h.hl * 4) \in 0 .. Word - 1
  BY <1>4, MinusType
<1> QED
  BY <1>1, <1>2, <1>3, <1>5

(* An IPv4 header whose fragment fields are 0 is that of a whole packet. *)
LEMMA Ip4Whole ==
    ASSUME NEW x \in Short, x % 8192 = 0, (x \div 8192) % 2 # 1
    PROVE  x % 16384 = 0
<1> DEFINE a == x \div 8192
           b == a \div 2
<1>1. x \in Nat
  BY ShortType
<1>2. a \in Nat /\ b \in Nat /\ x = 8192 * a
  BY <1>1
<1>3. a = 2 * b
  BY <1>2
<1>4. x = 16384 * b
  BY <1>2, <1>3
<1> HIDE DEF b
<1> QED
  BY <1>1, <1>2, <1>4

(* What decode_ip leaves of the packet and of the history. *)
LEMMA IpPacket ==
    ASSUME Typed, NEW hlen \in Nat, NEW size \in 0 .. Word - 1,
           NEW offset \in Short, NEW mf \in BOOLEAN
    PROVE  LET layered == packet_layer_ins(SetVersion(packet, 4), "IP4", hlen)
               q == SetPayload(SetFragment(layered, offset, mf), hlen, size)
           IN  /\ q \in Packets /\ q.layer = Layered("IP4", hlen)
               /\ q.transport = packet.transport
               /\ q.payload = packet.payload + hlen /\ q.paysize = size
               /\ q.tcpopt_count = packet.tcpopt_count /\ q.live = packet.live
               /\ q.offset = offset /\ q.mf = mf
<1> DEFINE p       == SetVersion(packet, 4)
           layered == packet_layer_ins(p, "IP4", hlen)
           marked  == SetFragment(layered, offset, mf)
           inner   == SetPayload(marked, hlen, size)
<1>1. /\ p \in Packets /\ SameLayers(packet, p) /\ p.payload = packet.payload
  BY SetVersionType DEF Typed
<1> HIDE DEF p
<1>2. /\ layered \in Packets /\ layered.layer = Layered("IP4", hlen)
      /\ layered.transport = packet.transport /\ layered.payload = packet.payload
      /\ layered.tcpopt_count = packet.tcpopt_count /\ layered.live = packet.live
  BY <1>1, InsType DEF Protocols
<1> HIDE DEF layered
<1>3. /\ marked \in Packets /\ SameLayers(layered, marked)
      /\ marked.payload = layered.payload /\ marked.offset = offset /\ marked.mf = mf
  BY <1>2, SetFragmentType
<1> HIDE DEF marked
<1>4. /\ inner \in Packets /\ SameLayers(marked, inner)
      /\ inner.payload = marked.payload + hlen /\ inner.paysize = size
      /\ inner.offset = marked.offset /\ inner.mf = marked.mf
  BY <1>3, SetPayloadType
<1> HIDE DEF inner
<1>5. /\ inner \in Packets /\ inner.layer = Layered("IP4", hlen)
      /\ inner.transport = packet.transport
      /\ inner.payload = packet.payload + hlen /\ inner.paysize = size
      /\ inner.tcpopt_count = packet.tcpopt_count /\ inner.live = packet.live
      /\ inner.offset = offset /\ inner.mf = mf
  BY <1>2, <1>3, <1>4 DEF SameLayers
<1> QED
  BY <1>5 DEF inner, marked, layered, p

LEMMA IpHistory ==
    ASSUME Typed, NEW hlen \in Nat, NEW end \in Nat, NEW field \in Nat
    PROVE  LET t == Piece(EndsAt(Passed(seen, hlen), end), "IP4", field)
           IN  /\ t \in Histories /\ SameUse(seen, t)
               /\ t.lost <=> (seen.lost \/ Len(packet.layer) = MAX_LAYERS)
               /\ t.drift = seen.drift /\ t.reached = seen.reached /\ t.end = end
               /\ field = 0 => t.pieces \subseteq seen.pieces
<1> DEFINE past  == Passed(seen, hlen)
           ended == EndsAt(past, end)
           t     == Piece(ended, "IP4", field)
<1>1. /\ past \in Histories /\ SameUse(seen, past)
      /\ past.lost <=> (seen.lost \/ Len(packet.layer) = MAX_LAYERS)
      /\ past.drift = seen.drift /\ past.pieces = seen.pieces
      /\ past.reached = seen.reached
  BY PassedType DEF Typed
<1> HIDE DEF past
<1>2. /\ ended \in Histories /\ SameUse(past, ended) /\ ended.lost = past.lost
      /\ ended.drift = past.drift /\ ended.pieces = past.pieces
      /\ ended.reached = past.reached /\ ended.end = end
  BY <1>1, EndsAtType
<1> HIDE DEF ended
<1>3. /\ t \in Histories /\ SameUse(ended, t) /\ t.lost = ended.lost
      /\ t.drift = ended.drift /\ t.reached = ended.reached /\ t.end = ended.end
      /\ \A x \in t.pieces : x \in ended.pieces \/ field # 0
  BY <1>2, PieceType
<1> HIDE DEF t
<1>4. /\ t \in Histories /\ SameUse(seen, t)
      /\ t.lost <=> (seen.lost \/ Len(packet.layer) = MAX_LAYERS)
      /\ t.drift = seen.drift /\ t.reached = seen.reached /\ t.end = end
      /\ field = 0 => t.pieces \subseteq seen.pieces
  BY <1>1, <1>2, <1>3 DEF SameUse
<1> QED
  BY <1>4 DEF t, ended, past

LEMMA DecodeIp ==
    ASSUME Typed, NEW h \in Ip4Header, decode_ip(h)
    PROVE  Decoding
<1> DEFINE hlen    == h.hl * 4
           pay_len == Minus(h.len, hlen)
           offset  == h.off % 8192
           mf      == (h.off \div 8192) % 2 = 1
           field   == h.off % 16384
           end     == packet.payload + h.len
           layered == packet_layer_ins(SetVersion(packet, 4), "IP4", hlen)
           inner   == SetPayload(SetFragment(layered, offset, mf), hlen, pay_len)
<1>0. Named[call.at] = "IP4"
  BY DEF decode_ip, Named
<1>1. CASE packet' = SetVersion(packet, 4) /\ Return(-1) /\ UNCHANGED seen
  <2>1. call' \in Calls /\ call'.at = "idle" /\ call'.ret = -1
    BY <1>1, ReturnType DEF Return, Idle
  <2>2. /\ packet' \in Packets /\ SameLayers(packet, packet')
        /\ packet'.payload = packet.payload /\ packet'.paysize = packet.paysize
    BY <1>1, SetVersionType DEF Typed
  <2> QED
    BY <1>1, <2>1, <2>2 DEF Refuses, Decoding
<1>2. CASE /\ ~Cut(call.len, hlen)
           /\ packet' = inner
           /\ IF packet_is_fragment(inner) THEN Return(0) ELSE Bind(bind_ip, h.next, hlen)
           /\ seen' = Piece(EndsAt(Passed(seen, hlen), end), "IP4", field)
  <2>1. /\ hlen \in Nat /\ pay_len \in 0 .. Word - 1 /\ offset \in Short
        /\ mf \in BOOLEAN /\ field \in Nat /\ h.len \in Nat
    BY Ip4Types
  <2>2. end \in Nat
    BY <2>1 DEF Typed, Packets
  <2>3. offset = 0 /\ ~mf => field = 0
    BY Ip4Types, Ip4Whole
  <2>10. ((packet.payload + hlen) + pay_len) % Word = end % Word
    <3> DEFINE a == packet.payload + hlen
               b == h.len - hlen
    <3>1. Word \in Nat /\ Word > 0 /\ packet.payload \in Nat
      BY SizeAssumption, ShortMax DEF Typed, Packets
    <3>2. pay_len = b % Word
      BY DEF Minus
    <3> HIDE DEF hlen, pay_len
    <3>3. a \in Int /\ b \in Int /\ a + b = end
      BY <2>1, <3>1
    <3> HIDE DEF a, b, end
    <3>4. (a + (b % Word)) % Word = (a + b) % Word
      BY <3>1, <3>3, ModShift
    <3> QED
      BY <3>2, <3>3, <3>4 DEF a
  <2> HIDE DEF hlen, pay_len, offset, mf, field, end
  <2>4. /\ inner \in Packets /\ inner.layer = Layered("IP4", hlen)
        /\ inner.transport = packet.transport
        /\ inner.payload = packet.payload + hlen /\ inner.paysize = pay_len
        /\ inner.tcpopt_count = packet.tcpopt_count /\ inner.live = packet.live
        /\ inner.offset = offset /\ inner.mf = mf
    BY <2>1, IpPacket
  <2> HIDE DEF layered, inner
  <2>5. /\ seen' \in Histories /\ SameUse(seen, seen')
        /\ seen'.lost <=> (seen.lost \/ Len(packet.layer) = MAX_LAYERS)
        /\ seen'.drift = seen.drift /\ seen'.reached = seen.reached /\ seen'.end = end
        /\ field = 0 => seen'.pieces \subseteq seen.pieces
    BY <1>2, <2>1, <2>2, IpHistory
  <2>6. hlen <= call.len /\ Holds(call.len, "IP4", hlen)
    <3>1. hlen <= call.len /\ call.len \in Nat
      BY <1>2, <2>1 DEF Cut, Typed, Calls
    <3> QED
      BY <2>1, <3>1 DEF Holds, FixedPart
  <2>7. /\ GoesOn("IP4", hlen)
        /\ call'.at # "idle" => ~packet_is_fragment(inner)
    <3>1. CASE packet_is_fragment(inner)
      BY <1>2, <2>1, <3>1, StopType
    <3>2. CASE ~packet_is_fragment(inner)
      BY <1>2, <3>2, <2>1, <2>6, BindType, TablesType DEF Protocols
    <3> QED
      BY <3>1, <3>2
  <2>8. call'.at # "idle" => seen'.pieces \subseteq seen.pieces
    BY <2>3, <2>4, <2>5, <2>7 DEF packet_is_fragment
  <2>9. Rest'
    BY <1>2, <2>4, <2>5, <2>10 DEF Rest, PayloadEnd
  <2>11. Accepts("IP4", hlen)
    BY <1>0, <1>2, <2>4, <2>5, <2>6, <2>7, <2>8, <2>9
    DEF Accepts, Transports, GoesOn, Decoders
  <2> QED
    BY <2>1, <2>11 DEF Decoding, Protocols
<1> QED
  BY <1>1, <1>2 DEF decode_ip
(* What the other decoders leave of the packet, and of the history. *)
LEMMA AdvancedPacket ==
    ASSUME Typed, NEW n \in Nat, NEW proto \in Protocols, NEW size \in Nat
    PROVE  LET q == packet_layer_ins(Advance(packet, n), proto, size)
           IN  /\ q \in Packets /\ q.layer = Layered(proto, size)
               /\ q.transport = packet.transport
               /\ q.payload = packet.payload + n
               /\ PayloadEnd(q) = PayloadEnd(packet)
               /\ q.tcpopt_count = packet.tcpopt_count /\ q.live = packet.live
<1> DEFINE p == Advance(packet, n)
           q == packet_layer_ins(p, proto, size)
<1>1. /\ p \in Packets /\ SameLayers(packet, p) /\ p.payload = packet.payload + n
      /\ PayloadEnd(p) = PayloadEnd(packet)
  BY AdvanceType DEF Typed
<1> HIDE DEF p
<1>2. /\ q \in Packets /\ q.layer = Layered(proto, size)
      /\ q.transport = packet.transport /\ q.payload = p.payload /\ q.paysize = p.paysize
      /\ q.tcpopt_count = packet.tcpopt_count /\ q.live = packet.live
  BY <1>1, InsType
<1> QED
  BY <1>1, <1>2 DEF p, PayloadEnd

LEMMA TransportPacket ==
    ASSUME Typed, NEW n \in Nat, NEW proto \in Transports
    PROVE  LET q == SetTransport(packet_layer_ins(Advance(packet, n), proto, n))
           IN  /\ q \in Packets /\ q.layer = Layered(proto, n)
               /\ q.transport = Len(q.layer)
               /\ q.payload = packet.payload + n
               /\ PayloadEnd(q) = PayloadEnd(packet)
               /\ q.tcpopt_count = packet.tcpopt_count /\ q.live = packet.live
<1> DEFINE p == packet_layer_ins(Advance(packet, n), proto, n)
           q == SetTransport(p)
<1>1. /\ p \in Packets /\ p.layer = Layered(proto, n)
      /\ p.payload = packet.payload + n /\ PayloadEnd(p) = PayloadEnd(packet)
      /\ p.tcpopt_count = packet.tcpopt_count /\ p.live = packet.live
  BY AdvancedPacket DEF Transports, Protocols
<1> HIDE DEF p
<1>2. /\ q \in Packets /\ q.layer = p.layer /\ q.payload = p.payload
      /\ q.paysize = p.paysize
      /\ q.transport = Len(p.layer)
      /\ q.tcpopt_count = p.tcpopt_count /\ q.live = p.live
  BY <1>1, SetTransportType
<1> HIDE DEF q
<1>3. /\ q \in Packets /\ q.layer = Layered(proto, n)
      /\ q.transport = Len(q.layer) /\ q.payload = packet.payload + n
      /\ PayloadEnd(q) = PayloadEnd(packet)
      /\ q.tcpopt_count = packet.tcpopt_count /\ q.live = packet.live
  BY <1>1, <1>2 DEF PayloadEnd
<1> QED
  BY <1>3 DEF q, p

(* A decoder that went on with the next header, or ended there. *)
LEMMA AcceptsOn ==
    ASSUME Typed, NEW proto \in Protocols \ Transports, NEW size \in Nat,
           proto = Named[call.at], Holds(call.len, proto, size), GoesOn(proto, size),
           packet' \in Packets, packet'.layer = Layered(proto, size),
           packet'.transport = packet.transport,
           packet'.tcpopt_count = packet.tcpopt_count, packet'.live = packet.live,
           proto # "EXT" => packet'.payload = packet.payload + size,
           Rest => Rest',
           seen' \in Histories, SameUse(seen, seen'),
           seen'.lost <=> (seen.lost \/ Len(packet.layer) = MAX_LAYERS),
           seen'.drift <=> (seen.drift \/ proto = "EXT"),
           seen'.reached = seen.reached,
           call'.at # "idle" => seen'.pieces \subseteq seen.pieces \cup Hidden
    PROVE  Decoding
<1>1. Accepts(proto, size)
  BY DEF Accepts, Transports, GoesOn, Decoders
<1> QED
  BY <1>1 DEF Decoding

LEMMA DecodeIp6 ==
    ASSUME Typed, NEW h \in Ip6Header, decode_ip6(h)
    PROVE  Decoding
<1> DEFINE p       == SetVersion(packet, 6)
           layered == packet_layer_ins(p, "IP6", 40)
           q       == SetPayload(layered, 40, h.plen)
           end     == packet.payload + 40 + h.plen
           past    == Passed(seen, 40)
<1>0. Named[call.at] = "IP6"
  BY DEF decode_ip6, Named
<1>1. CASE Return(-1) /\ UNCHANGED <<packet, seen>>
  BY <1>1, RefusesPlainly DEF Decoding
<1>2. CASE /\ ~Cut(call.len, 40)
           /\ packet' = q
           /\ Bind(bind_ip6, h.next, 40)
           /\ seen' = EndsAt(past, end)
  <2>1. h.plen \in Nat /\ h.plen \in 0 .. Word - 1
    <3>1. h.plen \in Short
      BY DEF Ip6Header
    <3> QED
      BY <3>1, ShortType, ShortUnsigned
  <2>2. end \in Nat
    BY <2>1 DEF Typed, Packets
  <2>3. 40 <= call.len /\ Holds(call.len, "IP6", 40)
    BY <1>2 DEF Cut, Holds, FixedPart, Typed, Calls
  <2>4. GoesOn("IP6", 40)
    BY <1>2, <2>3, BindType, TablesType DEF Protocols
  <2>5. /\ p \in Packets /\ SameLayers(packet, p) /\ p.payload = packet.payload
    BY SetVersionType DEF Typed
  <2> HIDE DEF p, end
  <2>6. /\ layered \in Packets /\ layered.layer = Layered("IP6", 40)
        /\ layered.transport = packet.transport /\ layered.payload = packet.payload
        /\ layered.tcpopt_count = packet.tcpopt_count /\ layered.live = packet.live
    BY <2>5, InsType DEF Protocols
  <2> HIDE DEF layered
  <2>7. /\ q \in Packets /\ SameLayers(layered, q) /\ q.payload = layered.payload + 40
        /\ q.paysize = h.plen
    <3>1. 40 \in Nat
      OBVIOUS
    <3> QED
      BY <2>1, <2>6, <3>1, SetPayloadType, Zenon
  <2> HIDE DEF q
  <2>8. /\ packet' \in Packets /\ packet'.layer = Layered("IP6", 40)
        /\ packet'.transport = packet.transport /\ packet'.payload = packet.payload + 40
        /\ packet'.paysize = h.plen
        /\ packet'.tcpopt_count = packet.tcpopt_count /\ packet'.live = packet.live
    BY <1>2, <2>6, <2>7 DEF SameLayers
  <2>9. /\ past \in Histories /\ SameUse(seen, past)
        /\ past.lost <=> (seen.lost \/ Len(packet.layer) = MAX_LAYERS)
        /\ past.drift = seen.drift /\ past.pieces = seen.pieces
        /\ past.reached = seen.reached
    BY PassedType DEF Typed
  <2> HIDE DEF past
  <2>10. /\ seen' \in Histories /\ SameUse(seen, seen')
         /\ seen'.lost <=> (seen.lost \/ Len(packet.layer) = MAX_LAYERS)
         /\ seen'.drift = seen.drift /\ seen'.pieces = seen.pieces
         /\ seen'.reached = seen.reached /\ seen'.end = end
    <3> DEFINE t == EndsAt(past, end)
    <3>1. /\ t \in Histories /\ SameUse(past, t) /\ t.lost = past.lost
          /\ t.drift = past.drift /\ t.pieces = past.pieces
          /\ t.reached = past.reached /\ t.end = end
      BY <2>2, <2>9, EndsAtType, Zenon
    <3> HIDE DEF t
    <3>2. seen' = t
      BY <1>2 DEF t
    <3> QED
      BY <2>9, <3>1, <3>2 DEF SameUse
  <2>11. Rest'
    BY <2>8, <2>10 DEF Rest, PayloadEnd, end
  <2> QED
    BY <1>0, <2>3, <2>4, <2>8, <2>10, <2>11, AcceptsOn DEF Protocols, Transports
<1> QED
  BY <1>1, <1>2 DEF decode_ip6

(* The length of an extension header is counted in words of eight bytes, *)
(* the first of which is not counted.                                    *)
LEMMA ExtTypes ==
    ASSUME NEW h \in ExtHeader
    PROVE  h.len * 8 + 8 \in Nat
<1>1. h.len \in Byte
  BY DEF ExtHeader
<1>2. \A x \in Byte : x * 8 + 8 \in Nat
  BY DEF Byte
<1> QED
  BY <1>1, <1>2

LEMMA DecodeRte ==
    ASSUME Typed, NEW h \in ExtHeader, decode_ip6_rte(h)
    PROVE  Decoding
<1> DEFINE rte_len == h.len * 8 + 8
           q       == packet_layer_ins(Advance(packet, rte_len), "RTE", rte_len)
<1>0. Named[call.at] = "RTE"
  BY DEF decode_ip6_rte, Named
<1>1. CASE Return(-1) /\ UNCHANGED <<packet, seen>>
  BY <1>1, RefusesPlainly DEF Decoding
<1>2. CASE /\ ~Cut(call.len, 8) /\ ~Cut(call.len, rte_len)
           /\ packet' = q
           /\ Bind(bind_ip6, h.next, rte_len)
           /\ seen' = Passed(seen, rte_len)
  <2>1. rte_len \in Nat
    BY ExtTypes
  <2> HIDE DEF rte_len
  <2>2. rte_len <= call.len /\ Holds(call.len, "RTE", rte_len)
    BY <1>2, <2>1 DEF Cut, Holds, FixedPart, Typed, Calls
  <2>3. GoesOn("RTE", rte_len)
    BY <1>2, <2>1, <2>2, BindType, TablesType DEF Protocols
  <2>4. /\ q \in Packets /\ q.layer = Layered("RTE", rte_len)
        /\ q.transport = packet.transport /\ q.payload = packet.payload + rte_len
        /\ PayloadEnd(q) = PayloadEnd(packet)
        /\ q.tcpopt_count = packet.tcpopt_count /\ q.live = packet.live
    BY <2>1, AdvancedPacket DEF Protocols
  <2> HIDE DEF q
  <2>5. /\ seen' \in Histories /\ SameUse(seen, seen')
        /\ seen'.lost <=> (seen.lost \/ Len(packet.layer) = MAX_LAYERS)
        /\ seen'.drift = seen.drift /\ seen'.pieces = seen.pieces
        /\ seen'.reached = seen.reached /\ seen'.end = seen.end
    BY <1>2, <2>1, PassedType DEF Typed
  <2>6. Rest => Rest'
    BY <1>2, <2>4, <2>5 DEF Rest, PayloadEnd
  <2> QED
    BY <1>0, <1>2, <2>1, <2>2, <2>3, <2>4, <2>5, <2>6, AcceptsOn DEF Protocols, Transports
<1> QED
  BY <1>1, <1>2 DEF decode_ip6_rte
(* The fields of a fragment header: what the masks leave of an offset, and *)
(* the offsets of which they leave nothing.                                *)
LEMMA FragTypes ==
    ASSUME NEW x \in Short
    PROVE  LET middle == (x \div 256) % 8
           IN  /\ x - 256 * middle \in Short
               /\ x - 256 * middle = 0 /\ middle % 2 # 1 /\ x # 0 => x \in HiddenOffsets
<1> DEFINE a == x \div 256
           m == a % 8
<1>1. x \in Nat /\ x <= USHRT_MAX /\ USHRT_MAX \in Nat
  BY ShortType, ShortMax
<1>2. a \in Nat /\ 256 * a <= x
  BY <1>1
<1> HIDE DEF a
<1>3. m \in 0 .. 7 /\ m <= a
  BY <1>2
<1> HIDE DEF m
<1>4. x - 256 * m \in Nat /\ x - 256 * m <= x
  BY <1>1, <1>2, <1>3
<1>5. x - 256 * m \in Short
  BY <1>1, <1>4 DEF Short
<1>6. ASSUME x - 256 * m = 0, m % 2 # 1, x # 0
      PROVE  x \in HiddenOffsets
  <2>1. m \in {0, 2, 4, 6}
    BY <1>3, <1>6
  <2> QED
    BY <1>1, <1>6, <2>1 DEF HiddenOffsets
<1> QED
  BY <1>5, <1>6 DEF m, a

LEMMA FragHistory ==
    ASSUME Typed, NEW field \in Nat
    PROVE  LET t == Piece(Passed(seen, 8), "FRAG", field)
           IN  /\ t \in Histories /\ SameUse(seen, t)
               /\ t.lost <=> (seen.lost \/ Len(packet.layer) = MAX_LAYERS)
               /\ t.drift = seen.drift /\ t.reached = seen.reached /\ t.end = seen.end
               /\ \A x \in t.pieces :
                     x \in seen.pieces \/ (x = <<"FRAG", field>> /\ field # 0)
<1> DEFINE past == Passed(seen, 8)
           t    == Piece(past, "FRAG", field)
<1>1. /\ past \in Histories /\ SameUse(seen, past)
      /\ past.lost <=> (seen.lost \/ Len(packet.layer) = MAX_LAYERS)
      /\ past.drift = seen.drift /\ past.pieces = seen.pieces
      /\ past.reached = seen.reached /\ past.end = seen.end
  BY PassedType DEF Typed
<1> HIDE DEF past
<1>2. /\ t \in Histories /\ SameUse(past, t) /\ t.lost = past.lost
      /\ t.drift = past.drift /\ t.reached = past.reached /\ t.end = past.end
      /\ \A x \in t.pieces : x \in past.pieces \/ (x = <<"FRAG", field>> /\ field # 0)
  BY <1>1, PieceType
<1> HIDE DEF t
<1>3. /\ t \in Histories /\ SameUse(seen, t)
      /\ t.lost <=> (seen.lost \/ Len(packet.layer) = MAX_LAYERS)
      /\ t.drift = seen.drift /\ t.reached = seen.reached /\ t.end = seen.end
      /\ \A x \in t.pieces : x \in seen.pieces \/ (x = <<"FRAG", field>> /\ field # 0)
  BY <1>1, <1>2 DEF SameUse
<1> QED
  BY <1>3 DEF t, past

LEMMA DecodeFrag ==
    ASSUME Typed, NEW h \in FragHeader, decode_ip6_frag(h)
    PROVE  Decoding
<1> DEFINE middle  == (h.offlg \div 256) % 8
           offset  == h.offlg - 256 * middle
           mf      == middle % 2 = 1
           layered == packet_layer_ins(Advance(packet, 8), "FRAG", 8)
           inner   == SetFragment(layered, offset, mf)
<1>0. Named[call.at] = "FRAG"
  BY DEF decode_ip6_frag, Named
<1>1. CASE Return(-1) /\ UNCHANGED <<packet, seen>>
  BY <1>1, RefusesPlainly DEF Decoding
<1>2. CASE /\ ~Cut(call.len, 8)
           /\ packet' = inner
           /\ IF packet_is_fragment(inner) THEN Return(0) ELSE Bind(bind_ip6, h.next, 8)
           /\ seen' = Piece(Passed(seen, 8), "FRAG", h.offlg)
  <2>1. h.offlg \in Short
    BY DEF FragHeader
  <2>2. /\ offset \in Short /\ mf \in BOOLEAN /\ h.offlg \in Nat
        /\ offset = 0 /\ ~mf /\ h.offlg # 0 => h.offlg \in HiddenOffsets
    <3>1. mf \in BOOLEAN /\ h.offlg \in Nat
      BY <2>1, ShortType
    <3>2. /\ offset \in Short
          /\ offset = 0 /\ middle % 2 # 1 /\ h.offlg # 0 => h.offlg \in HiddenOffsets
      BY <2>1, FragTypes, Zenon
    <3> QED
      BY <3>1, <3>2
  <2> HIDE DEF offset, mf, middle
  <2>3. /\ layered \in Packets /\ layered.layer = Layered("FRAG", 8)
        /\ layered.transport = packet.transport /\ layered.payload = packet.payload + 8
        /\ PayloadEnd(layered) = PayloadEnd(packet)
        /\ layered.tcpopt_count = packet.tcpopt_count /\ layered.live = packet.live
    BY AdvancedPacket DEF Protocols
  <2> HIDE DEF layered
  <2>4. /\ inner \in Packets /\ SameLayers(layered, inner)
        /\ inner.payload = layered.payload /\ inner.paysize = layered.paysize
        /\ inner.offset = offset /\ inner.mf = mf
    BY <2>2, <2>3, SetFragmentType
  <2> HIDE DEF inner
  <2>5. /\ packet' \in Packets /\ packet'.layer = Layered("FRAG", 8)
        /\ packet'.transport = packet.transport /\ packet'.payload = packet.payload + 8
        /\ PayloadEnd(packet') = PayloadEnd(packet)
        /\ packet'.tcpopt_count = packet.tcpopt_count /\ packet'.live = packet.live
    BY <1>2, <2>3, <2>4 DEF SameLayers, PayloadEnd
  <2>6. 8 <= call.len /\ Holds(call.len, "FRAG", 8)
    BY <1>2 DEF Cut, Holds, FixedPart, Typed, Calls
  <2>7. GoesOn("FRAG", 8) /\ (call'.at # "idle" => ~packet_is_fragment(inner))
    <3>1. CASE packet_is_fragment(inner)
      BY <1>2, <3>1, StopType
    <3>2. CASE ~packet_is_fragment(inner)
      BY <1>2, <3>2, <2>6, BindType, TablesType DEF Protocols
    <3> QED
      BY <3>1, <3>2
  <2>8. /\ seen' \in Histories /\ SameUse(seen, seen')
        /\ seen'.lost <=> (seen.lost \/ Len(packet.layer) = MAX_LAYERS)
        /\ seen'.drift = seen.drift /\ seen'.reached = seen.reached /\ seen'.end = seen.end
        /\ \A x \in seen'.pieces :
              x \in seen.pieces \/ (x = <<"FRAG", h.offlg>> /\ h.offlg # 0)
    BY <1>2, <2>2, FragHistory
  <2>9. call'.at # "idle" => seen'.pieces \subseteq seen.pieces \cup Hidden
    <3> SUFFICES ASSUME call'.at # "idle", NEW x \in seen'.pieces, x \notin seen.pieces
                 PROVE  x \in Hidden
      OBVIOUS
    <3>1. x = <<"FRAG", h.offlg>> /\ h.offlg # 0
      BY <2>8
    <3>2. offset = 0 /\ ~mf
      BY <2>4, <2>7 DEF packet_is_fragment
    <3>3. h.offlg \in HiddenOffsets
      BY <2>2, <3>1, <3>2
    <3> QED
      BY <3>1, <3>3 DEF Hidden
  <2>10. Rest => Rest'
    BY <2>5, <2>8 DEF Rest, PayloadEnd
  <2> QED
    BY <1>0, <2>5, <2>6, <2>7, <2>8, <2>9, <2>10, AcceptsOn DEF Protocols, Transports
<1> QED
  BY <1>1, <1>2 DEF decode_ip6_frag

LEMMA SwappedType ==
    ASSUME NEW x \in Nat
    PROVE  ntohs(x) \in Nat
BY DEF ntohs

LEMMA DecodeExt ==
    ASSUME Typed, NEW h \in ExtHeader, decode_ip6_ext(h)
    PROVE  Decoding
<1> DEFINE ext_len == h.len * 8 + 8
           p       == Advance(packet, ntohs(ext_len))
           moved   == Advance(p, ext_len)
           q       == packet_layer_ins(moved, "EXT", ext_len)
           past    == Passed(seen, ext_len)
<1>0. Named[call.at] = "EXT"
  BY DEF decode_ip6_ext, Named
<1>1. CASE Return(-1) /\ UNCHANGED <<packet, seen>>
  BY <1>1, RefusesPlainly DEF Decoding
<1>2. CASE /\ ~Cut(call.len, 2) /\ ~Cut(call.len, ext_len)
           /\ packet' = q
           /\ Bind(bind_ip6, h.next, ext_len)
           /\ seen' = Drifted(past)
  <2>1. ext_len \in Nat
    BY ExtTypes
  <2> HIDE DEF ext_len
  <2>2. ext_len <= call.len /\ Holds(call.len, "EXT", ext_len)
    BY <1>2, <2>1 DEF Cut, Holds, FixedPart, Typed, Calls
  <2>3. GoesOn("EXT", ext_len)
    BY <1>2, <2>1, <2>2, BindType, TablesType DEF Protocols
  <2>4. p \in Packets /\ SameLayers(packet, p) /\ PayloadEnd(p) = PayloadEnd(packet)
    BY <2>1, SwappedType, AdvanceType DEF Typed
  <2> HIDE DEF p
  <2>5. moved \in Packets /\ SameLayers(p, moved) /\ PayloadEnd(moved) = PayloadEnd(p)
    BY <2>1, <2>4, AdvanceType
  <2> HIDE DEF moved
  <2>6. /\ q \in Packets /\ q.layer = Layered("EXT", ext_len)
        /\ q.transport = packet.transport
        /\ q.payload = moved.payload /\ q.paysize = moved.paysize
        /\ q.tcpopt_count = packet.tcpopt_count /\ q.live = packet.live
    BY <2>1, <2>4, <2>5, InsType DEF Protocols, SameLayers
  <2> HIDE DEF q
  <2>7. /\ past \in Histories /\ SameUse(seen, past)
        /\ past.lost <=> (seen.lost \/ Len(packet.layer) = MAX_LAYERS)
        /\ past.drift = seen.drift /\ past.pieces = seen.pieces
        /\ past.reached = seen.reached /\ past.end = seen.end
    BY <2>1, PassedType DEF Typed
  <2> HIDE DEF past
  <2>8. /\ seen' \in Histories /\ SameUse(seen, seen')
        /\ seen'.lost <=> (seen.lost \/ Len(packet.layer) = MAX_LAYERS)
        /\ seen'.drift /\ seen'.pieces = seen.pieces
        /\ seen'.reached = seen.reached /\ seen'.end = seen.end
    BY <1>2, <2>7, DriftedType DEF SameUse
  <2>9. Rest => Rest'
    BY <1>2, <2>4, <2>5, <2>6, <2>8 DEF Rest, PayloadEnd
  <2> QED
    BY <1>0, <1>2, <2>1, <2>2, <2>3, <2>6, <2>8, <2>9, AcceptsOn DEF Protocols, Transports
<1> QED
  BY <1>1, <1>2 DEF decode_ip6_ext

(* What the transport decoders leave of the history. *)
LEMMA TransportHistory ==
    ASSUME Typed, NEW size \in Nat, NEW proto \in Transports
    PROVE  LET t == Reached(Passed(seen, size), proto)
           IN  /\ t \in Histories /\ SameUse(seen, t)
               /\ t.lost <=> (seen.lost \/ Len(packet.layer) = MAX_LAYERS)
               /\ t.drift = seen.drift /\ t.pieces = seen.pieces /\ t.reached = proto /\ t.end = seen.end
<1> DEFINE past == Passed(seen, size)
           t    == Reached(past, proto)
<1>1. /\ past \in Histories /\ SameUse(seen, past)
      /\ past.lost <=> (seen.lost \/ Len(packet.layer) = MAX_LAYERS)
      /\ past.drift = seen.drift /\ past.pieces = seen.pieces /\ past.end = seen.end
  BY PassedType DEF Typed
<1> HIDE DEF past
<1>2. /\ t \in Histories /\ SameUse(past, t) /\ t.lost = past.lost
      /\ t.drift = past.drift /\ t.pieces = past.pieces /\ t.reached = proto /\ t.end = seen.end
  BY <1>1, ReachedType DEF Transports
<1> HIDE DEF t
<1>3. /\ t \in Histories /\ SameUse(seen, t)
      /\ t.lost <=> (seen.lost \/ Len(packet.layer) = MAX_LAYERS)
      /\ t.drift = seen.drift /\ t.pieces = seen.pieces /\ t.reached = proto /\ t.end = seen.end
  BY <1>1, <1>2 DEF SameUse
<1> QED
  BY <1>3 DEF t, past

LEMMA DecodeUdp ==
    ASSUME Typed, NEW h \in UdpHeader, decode_udp(h)
    PROVE  Decoding
<1> DEFINE ret == IF h.sum = 0 /\ packet.version = 6 THEN -1 ELSE 0
           q   == SetTransport(packet_layer_ins(Advance(packet, 8), "UDP", 8))
<1>0. Named[call.at] = "UDP"
  BY DEF decode_udp, Named
<1>1. CASE Return(-1) /\ UNCHANGED <<packet, seen>>
  BY <1>1, RefusesPlainly DEF Decoding
<1>2. CASE /\ ~Cut(call.len, 8)
           /\ packet' = q
           /\ Return(ret)
           /\ seen' = Reached(Passed(seen, 8), "UDP")
  <2>1. call' \in Calls /\ call'.at = "idle"
    <3>1. ret \in {0, -1}
      OBVIOUS
    <3> HIDE DEF ret
    <3> QED
      BY <1>2, <3>1, ReturnType
  <2>2. 8 <= call.len /\ Holds(call.len, "UDP", 8)
    BY <1>2 DEF Cut, Holds, FixedPart, Typed, Calls
  <2>3. /\ q \in Packets /\ q.layer = Layered("UDP", 8)
        /\ q.transport = Len(q.layer) /\ q.payload = packet.payload + 8
        /\ PayloadEnd(q) = PayloadEnd(packet)
        /\ q.tcpopt_count = packet.tcpopt_count /\ q.live = packet.live
    BY TransportPacket DEF Transports
  <2> HIDE DEF q
  <2>4. /\ seen' \in Histories /\ SameUse(seen, seen')
        /\ seen'.lost <=> (seen.lost \/ Len(packet.layer) = MAX_LAYERS)
        /\ seen'.drift = seen.drift /\ seen'.pieces = seen.pieces
        /\ seen'.reached = "UDP" /\ seen'.end = seen.end
    BY <1>2, TransportHistory DEF Transports
  <2>5. Rest => Rest'
    BY <1>2, <2>3, <2>4 DEF Rest, PayloadEnd
  <2>6. Accepts("UDP", 8)
    BY <1>0, <1>2, <2>1, <2>2, <2>3, <2>4, <2>5 DEF Accepts, Transports, Final, Decoders
  <2> QED
    BY <2>6 DEF Decoding, Protocols
<1> QED
  BY <1>1, <1>2 DEF decode_udp

LEMMA DecodeTcp ==
    ASSUME Typed, NEW h \in TcpHeader, decode_tcp(h)
    PROVE  Decoding
<1> DEFINE hlen   == h.off * 4
           optlen == (hlen - 20) % 65536
           q      == SetTransport(packet_layer_ins(Advance(packet, hlen), "TCP", hlen))
<1>0. Named[call.at] = "TCP"
  BY DEF decode_tcp, Named
<1>1. CASE Return(-1) /\ UNCHANGED <<packet, seen>>
  BY <1>1, RefusesPlainly DEF Decoding
<1>2. CASE /\ ~Cut(call.len, 20)
           /\ packet' = q
           /\ IF OptionsRead(optlen)
              THEN call' = [at |-> "opt", pos |-> 0, len |-> optlen, ret |-> 0]
              ELSE Return(0)
           /\ seen' = Reached(Passed(seen, 20), "TCP")
  <2>1. h.off \in 0 .. 15
    BY DEF TcpHeader
  <2>2. hlen \in Nat
    BY <2>1, WordsType
  <2> HIDE DEF hlen
  <2>3. optlen \in Nat
    BY <2>2
  <2> HIDE DEF optlen
  <2>4. /\ call' \in Calls /\ call'.at \in {"idle", "opt"}
        /\ call'.at = "opt" => call'.pos = 0 /\ call'.len <= MAX_TCPOPTLEN
    <3>1. CASE OptionsRead(optlen)
      BY <1>2, <2>3, <3>1 DEF OptionsRead, Calls
    <3>2. CASE ~OptionsRead(optlen)
      BY <1>2, <3>2, ReturnType
    <3> QED
      BY <3>1, <3>2
  <2>5. Holds(call.len, "TCP", hlen)
    BY <1>2 DEF Cut, Holds, FixedPart, Typed, Calls
  <2>6. /\ q \in Packets /\ q.layer = Layered("TCP", hlen)
        /\ q.transport = Len(q.layer) /\ q.payload = packet.payload + hlen
        /\ PayloadEnd(q) = PayloadEnd(packet)
        /\ q.tcpopt_count = packet.tcpopt_count /\ q.live = packet.live
    BY <2>2, TransportPacket DEF Transports
  <2> HIDE DEF q
  <2>7. /\ seen' \in Histories /\ SameUse(seen, seen')
        /\ seen'.lost <=> (seen.lost \/ Len(packet.layer) = MAX_LAYERS)
        /\ seen'.drift = seen.drift /\ seen'.pieces = seen.pieces
        /\ seen'.reached = "TCP" /\ seen'.end = seen.end
    BY <1>2, TransportHistory DEF Transports
  <2>8. Rest => Rest'
    BY <1>2, <2>6, <2>7 DEF Rest, PayloadEnd
  <2>9. Accepts("TCP", hlen)
    BY <1>0, <1>2, <2>4, <2>5, <2>6, <2>7, <2>8 DEF Accepts, Transports, Final, Decoders
  <2> QED
    BY <2>2, <2>9 DEF Decoding, Protocols
<1> QED
  BY <1>1, <1>2 DEF decode_tcp
-----------------------------------------------------------------------------
(* The types, and the steps they leave to consider.                        *)

(* A step of the program: one of the client's, one of a decoder, or one of *)
(* the loop over the TCP options.                                          *)
Opened == \E entry \in {"ip", "ip6"} : decode_dlt(entry)
Headed == call.at \in Decoders /\ Decoding
OptionStep(o) == RecordOption(o) \/ SkipOption(o) \/ OptionsEnd(o)
Options == \E o \in TcpOption : OptionStep(o)

LEMMA StepCases ==
    ASSUME Typed, [Next]_vars
    PROVE  \/ packet_create \/ packet_destroy \/ packet_decode
           \/ \E on \in BOOLEAN : packet_set_payload(on)
           \/ Opened \/ Headed \/ Options \/ UNCHANGED vars
<1>1. ASSUME NEW h \in Contents.ip, decode_ip(h)   PROVE Headed
  BY <1>1, ContentsAssumption, DecodeIp DEF Headed, decode_ip, Decoders
<1>2. ASSUME NEW h \in Contents.ip6, decode_ip6(h)   PROVE Headed
  BY <1>2, ContentsAssumption, DecodeIp6 DEF Headed, decode_ip6, Decoders
<1>3. ASSUME NEW h \in Contents.rte, decode_ip6_rte(h)   PROVE Headed
  BY <1>3, ContentsAssumption, DecodeRte DEF Headed, decode_ip6_rte, Decoders
<1>4. ASSUME NEW h \in Contents.frag, decode_ip6_frag(h)   PROVE Headed
  BY <1>4, ContentsAssumption, DecodeFrag DEF Headed, decode_ip6_frag, Decoders
<1>5. ASSUME NEW h \in Contents.ext, decode_ip6_ext(h)   PROVE Headed
  BY <1>5, ContentsAssumption, DecodeExt DEF Headed, decode_ip6_ext, Decoders
<1>6. ASSUME NEW h \in Contents.udp, decode_udp(h)   PROVE Headed
  BY <1>6, ContentsAssumption, DecodeUdp DEF Headed, decode_udp, Decoders
<1>7. ASSUME NEW h \in Contents.tcp, decode_tcp(h)   PROVE Headed
  BY <1>7, ContentsAssumption, DecodeTcp DEF Headed, decode_tcp, Decoders
<1>8. ASSUME NEW o \in Contents.opt, RecordOption(o) \/ SkipOption(o) \/ OptionsEnd(o)
      PROVE  Options
  BY <1>8, ContentsAssumption DEF Options, OptionStep
<1>9. Decode => Headed \/ Options
  BY <1>1, <1>2, <1>3, <1>4, <1>5, <1>6, <1>7, <1>8 DEF Decode
<1> QED
  BY <1>9 DEF Next, Client, Opened

LEMMA ZeroedType ==
    ASSUME NEW garbage \in Nat
    PROVE  Zeroed(garbage) \in Packets /\ NoPacket \in Packets
<1>1. 0 \in 0 .. Word - 1 /\ 0 \in Short
  BY SizeAssumption, ShortMax DEF Short
<1> DEFINE none == <<>>
<1>2. none \in Seq(Header)
  OBVIOUS
<1>3. ASSUME NEW g \in Nat
      PROVE  Zeroed(g) \in Packets
  <2>1. Zeroed(g) = [live |-> TRUE, version |-> 0, offset |-> 0, mf |-> FALSE,
                     payload |-> 0, paysize |-> 0, alt |-> FALSE, transport |-> 0,
                     layer |-> none, tcpopt_count |-> g]
    BY DEF Zeroed
  <2> HIDE DEF none
  <2> QED
    BY <1>1, <1>2, <2>1 DEF Packets
<1>4. NoPacket \in Packets
  <2>1. ASSUME NEW z \in Packets
        PROVE  [z EXCEPT !.live = FALSE] \in Packets
    BY DEF Packets
  <2> QED
    BY <1>3, <2>1, Zenon DEF NoPacket
<1> QED
  BY <1>3, <1>4

LEMMA FreshTypes ==
    /\ Nothing \in Histories
    /\ Idle(0) \in Calls
    /\ NoPacket.layer = <<>> /\ NoPacket.transport = 0 /\ NoPacket.payload = 0
    /\ NoPacket.tcpopt_count = 0 /\ NoPacket.live = FALSE
BY DEF Nothing, Histories, Idle, Calls, NoPacket, Zeroed

LEMMA TypedInit == Init => Typed
<1> SUFFICES ASSUME Init
             PROVE  Typed
  OBVIOUS
<1>1. packet = NoPacket /\ call = Idle(0) /\ seen = Nothing
  BY DEF Init
<1>2. Len(packet.layer) = 0 /\ packet.transport = 0 /\ seen.base = 0
  BY <1>1, FreshTypes DEF Nothing
<1>3. packet \in Packets
  BY <1>1, ZeroedType
<1> QED
  BY <1>1, <1>2, <1>3, FreshTypes, SizeAssumption DEF Typed

(* What packet_decode leaves. *)
LEMMA DecodeStep ==
    ASSUME Typed, packet_decode
    PROVE  \E len \in 1 .. Word - 1 :
              /\ packet' \in Packets /\ SameLayers(packet, packet') /\ packet'.payload = 0
              /\ call' \in Calls /\ seen' \in Histories
              /\ packet'.paysize = len
              /\ call'.at = "dlt" /\ call'.pos = 0 /\ call'.len = len
              /\ seen'.uses = seen.uses + 1 /\ seen'.captured = len /\ seen'.end = len
              /\ seen'.base = Len(packet.layer) /\ seen'.opts = packet.tcpopt_count
              /\ ~seen'.drift /\ ~seen'.lost /\ ~seen'.stalled
              /\ seen'.pieces = {} /\ seen'.reached = "none"
<1>1. PICK len \in Captures[seen.uses + 1] :
          /\ packet' = [packet EXCEPT !.payload = 0, !.paysize = len]
          /\ call' = [at |-> "dlt", pos |-> 0, len |-> len, ret |-> 0]
          /\ seen' = [Nothing EXCEPT
                        !.uses = seen.uses + 1, !.captured = len, !.end = len,
                        !.base = Len(packet.layer),
                        !.opts = packet.tcpopt_count]
  BY DEF packet_decode
<1>2. seen.uses \in Nat /\ packet \in Packets
  BY DEF Typed, Histories
<1>3. seen.uses + 1 \in 1 .. Len(Captures)
  BY <1>2, UseAssumption DEF packet_decode
<1>4. len \in 1 .. Word - 1
  BY <1>3, UseAssumption
<1>5. len \in Nat /\ len \in 0 .. Word - 1 /\ seen.uses + 1 \in Nat
  BY <1>2, <1>4, SizeAssumption
<1>6. Len(packet.layer) \in Nat /\ packet.tcpopt_count \in Nat
  BY <1>2 DEF Packets
<1>7. packet' \in Packets /\ SameLayers(packet, packet') /\ packet'.payload = 0
      /\ packet'.paysize = len
  BY <1>1, <1>2, <1>5 DEF Packets, SameLayers
<1>8. call' \in Calls /\ call'.at = "dlt" /\ call'.pos = 0 /\ call'.len = len
  BY <1>1, <1>5 DEF Calls
<1>9. seen' = [uses |-> seen.uses + 1, captured |-> len, base |-> Len(packet.layer),
               opts |-> packet.tcpopt_count, end |-> len,
               drift |-> FALSE, lost |-> FALSE, stalled |-> FALSE,
               pieces |-> {}, reached |-> "none"]
  BY <1>1 DEF Nothing
<1>10. seen' \in Histories
  BY <1>5, <1>6, <1>9 DEF Histories
<1> QED
  BY <1>4, <1>7, <1>8, <1>9, <1>10

(* What a step of the loop over the options does: it stores beyond the     *)
(* array, records an option, jumps over one, or is the last.               *)
StoresBeyond == /\ call'.at = "undefined" /\ call.pos < call.len
                /\ packet.tcpopt_count >= MAX_TCPOPTLEN
                /\ packet' = packet /\ seen' = seen
Records == /\ call'.at = "opt" /\ call'.len = call.len
           /\ packet'.tcpopt_count = packet.tcpopt_count + 1
           /\ seen.stalled => seen'.stalled
           /\ seen'.stalled \/ call'.pos >= call.pos + 1
Skips == /\ call'.at = "opt" /\ call'.len = call.len /\ call'.pos >= call.pos
         /\ packet' = packet /\ seen' = seen
Finishes == call'.at = "idle" /\ packet' = packet /\ seen' = seen

SamePacket == /\ packet' \in Packets
              /\ packet'.layer = packet.layer /\ packet'.transport = packet.transport
              /\ packet'.live = packet.live /\ packet'.payload = packet.payload
              /\ packet'.paysize = packet.paysize
SameHistory == /\ seen' \in Histories /\ SameUse(seen, seen')
               /\ seen'.lost = seen.lost /\ seen'.drift = seen.drift
               /\ seen'.pieces = seen.pieces /\ seen'.reached = seen.reached
               /\ seen'.end = seen.end

LEMMA OptionEffects ==
    ASSUME Typed, NEW o \in TcpOption, OptionStep(o)
    PROVE  /\ call.at = "opt" /\ call' \in Calls
           /\ SamePacket /\ SameHistory
           /\ StoresBeyond \/ Records \/ Skips \/ Finishes
<1>1. packet \in Packets /\ call \in Calls /\ seen \in Histories
  BY DEF Typed
<1>2. o.second \in Nat
  BY DEF TcpOption, Byte
<1>3. ASSUME packet' = packet, seen' = seen
      PROVE  SamePacket /\ SameHistory
  BY <1>1, <1>3 DEF SamePacket, SameHistory, SameUse
<1>4. CASE RecordOption(o)
  <2> DEFINE jump  == JumpLen(o)
             nowhere == tcpopt_len_tbl[o.type] = -1 /\ o.second = 0
             q == [packet EXCEPT !.tcpopt_count = @ + 1]
             t == [seen EXCEPT !.stalled = @ \/ nowhere]
  <2>1. jump \in Nat /\ (nowhere \/ jump >= 1)
    BY <1>2, <1>4 DEF JumpLen, RecordOption
  <2>2. CASE packet.tcpopt_count >= MAX_TCPOPTLEN
    <3>1. /\ call' = [call EXCEPT !.at = "undefined"] /\ UNCHANGED <<packet, seen>>
          /\ call.at = "opt" /\ call.pos < call.len
      BY <1>4, <2>2 DEF RecordOption
    <3>2. call' \in Calls /\ call'.at = "undefined"
      BY <1>1, <3>1 DEF Calls
    <3> QED
      BY <1>3, <2>2, <3>1, <3>2 DEF StoresBeyond
  <2>3. CASE ~(packet.tcpopt_count >= MAX_TCPOPTLEN)
    <3> HIDE DEF jump
    <3>1. /\ call.at = "opt" /\ packet' = q /\ seen' = t
          /\ call' = [call EXCEPT !.pos = @ + jump]
      BY <1>4, <2>3 DEF RecordOption, jump
    <3>2. packet.tcpopt_count + 1 \in Nat /\ call.pos + jump \in Nat
      BY <1>1, <2>1 DEF Packets, Calls
    <3>3. q \in Packets /\ q.tcpopt_count = packet.tcpopt_count + 1
          /\ q.layer = packet.layer /\ q.transport = packet.transport
          /\ q.live = packet.live /\ q.payload = packet.payload /\ q.paysize = packet.paysize
      BY <1>1, <3>2 DEF Packets
    <3>4. SamePacket /\ packet'.tcpopt_count = packet.tcpopt_count + 1
      BY <3>1, <3>3 DEF SamePacket
    <3>5. /\ call' \in Calls /\ call'.at = "opt" /\ call'.len = call.len
          /\ call'.pos = call.pos + jump
      BY <1>1, <3>1, <3>2 DEF Calls
    <3>6. nowhere \in BOOLEAN
      OBVIOUS
    <3> HIDE DEF nowhere
    <3>7. /\ t \in Histories /\ SameUse(seen, t) /\ t.lost = seen.lost
          /\ t.drift = seen.drift /\ t.pieces = seen.pieces /\ t.reached = seen.reached
          /\ t.end = seen.end /\ t.stalled = (seen.stalled \/ nowhere)
      BY <1>1, <3>6 DEF Histories, SameUse
    <3>8. SameHistory /\ seen'.stalled = (seen.stalled \/ nowhere)
      BY <3>1, <3>7 DEF SameHistory
    <3>9. call'.pos >= call.pos + 1 \/ nowhere
      BY <1>1, <2>1, <3>5 DEF Calls
    <3> QED
      BY <3>1, <3>4, <3>5, <3>8, <3>9 DEF Records
  <2> QED
    BY <2>2, <2>3
<1>5. CASE SkipOption(o)
  <2>1. call.at = "opt" /\ call' = [call EXCEPT !.pos = @ + o.second]
        /\ UNCHANGED <<packet, seen>>
    BY <1>5 DEF SkipOption
  <2>2. call.pos + o.second \in Nat /\ call.pos + o.second >= call.pos
    BY <1>1, <1>2 DEF Calls
  <2>3. call' \in Calls /\ call'.at = "opt" /\ call'.len = call.len
        /\ call'.pos >= call.pos
    BY <1>1, <2>1, <2>2 DEF Calls
  <2> QED
    BY <1>3, <2>1, <2>3 DEF Skips
<1>6. CASE OptionsEnd(o)
  <2>1. call.at = "opt" /\ Return(0) /\ UNCHANGED <<packet, seen>>
    BY <1>6 DEF OptionsEnd
  <2> QED
    BY <1>3, <2>1, ReturnType DEF Finishes
<1> QED
  BY <1>4, <1>5, <1>6 DEF OptionStep

(* What the other steps of the client leave. *)
LEMMA CreateStep ==
    ASSUME packet_create
    PROVE  /\ packet' \in Packets /\ packet'.layer = <<>> /\ packet'.transport = 0
           /\ packet'.payload = 0 /\ packet'.paysize = 0
           /\ call' = Idle(0) /\ seen' = Nothing
<1>1. PICK garbage \in Heap : packet' = Zeroed(garbage)
  BY DEF packet_create
<1>2. garbage \in Nat
  BY UseAssumption
<1>3. packet' \in Packets
  BY <1>1, <1>2, ZeroedType
<1> QED
  BY <1>1, <1>3 DEF Zeroed, packet_create

LEMMA SetPayloadStep ==
    ASSUME Typed, NEW on \in BOOLEAN, packet_set_payload(on)
    PROVE  SamePacket /\ packet'.tcpopt_count = packet.tcpopt_count /\ UNCHANGED <<call, seen>>
BY DEF packet_set_payload, Typed, Packets, SamePacket

LEMMA OpenedStep ==
    ASSUME Typed, Opened
    PROVE  /\ call.at = "dlt" /\ call' \in Calls /\ call'.at \in Decoders
           /\ call'.pos = call.pos /\ call'.len = call.len
           /\ UNCHANGED <<packet, seen>>
BY DEF Opened, decode_dlt, Typed, Calls, Decoders

LEMMA TypedStep == Typed /\ [Next]_vars => Typed'
<1> SUFFICES ASSUME Typed, [Next]_vars
             PROVE  Typed'
  OBVIOUS
<1>1. /\ Len(packet.layer) \in Nat /\ MAX_LAYERS \in Nat
      /\ seen.base \in Nat /\ packet.transport \in Nat
  BY SizeAssumption DEF Typed, Packets, Histories
<1>2. CASE packet_create
  <2>1. Len(packet'.layer) = 0 /\ seen'.base = 0 /\ packet'.transport = 0
    BY <1>2, CreateStep DEF Nothing
  <2> QED
    BY <1>1, <1>2, <2>1, CreateStep, FreshTypes DEF Typed
<1>3. CASE packet_destroy
  <2>1. packet' = NoPacket /\ call' = Idle(0) /\ seen' = Nothing
    BY <1>3 DEF packet_destroy
  <2>2. Len(packet'.layer) = 0 /\ seen'.base = 0 /\ packet'.transport = 0
    BY <2>1, FreshTypes DEF Nothing
  <2>3. packet' \in Packets
    BY <2>1, ZeroedType
  <2> QED
    BY <1>1, <2>1, <2>2, <2>3, FreshTypes DEF Typed
<1>4. CASE packet_decode
  <2>1. /\ packet' \in Packets /\ SameLayers(packet, packet')
        /\ call' \in Calls /\ seen' \in Histories /\ seen'.base = Len(packet.layer)
    BY <1>4, DecodeStep
  <2> QED
    BY <1>1, <2>1 DEF Typed, SameLayers
<1>5. CASE \E on \in BOOLEAN : packet_set_payload(on)
  BY <1>5, SetPayloadStep DEF Typed, SamePacket
<1>6. CASE Opened
  BY <1>6, OpenedStep DEF Typed
<1>7. CASE Headed
  <2>1. CASE Refuses
    BY <2>1 DEF Refuses, SameLayers, Typed
  <2>2. ASSUME NEW proto \in Protocols, NEW size \in Nat, Accepts(proto, size)
        PROVE  Typed'
    <3>1. /\ packet' \in Packets /\ call' \in Calls /\ seen' \in Histories
          /\ packet'.layer = Layered(proto, size) /\ seen'.base = seen.base
          /\ packet'.transport \in {Len(packet'.layer), packet.transport}
      BY <2>2 DEF Accepts, SameUse
    <3>2. /\ Len(packet'.layer) <= MAX_LAYERS /\ Len(packet'.layer) \in Nat
          /\ Len(packet.layer) <= Len(packet'.layer)
      BY <3>1, LayeredType
    <3> QED
      BY <1>1, <3>1, <3>2 DEF Typed
  <2> QED
    BY <1>7, <2>1, <2>2 DEF Headed, Decoding
<1>8. CASE Options
  <2>1. call' \in Calls /\ SamePacket /\ SameHistory
    BY <1>8, OptionEffects DEF Options
  <2> QED
    BY <2>1 DEF Typed, SamePacket, SameHistory, SameUse
<1>9. CASE UNCHANGED vars
  BY <1>9 DEF vars, Typed
<1> QED
  BY <1>2, <1>3, <1>4, <1>5, <1>6, <1>7, <1>8, <1>9, StepCases

LEMMA TypedAlways == Spec => []Typed
BY TypedInit, TypedStep, PTL DEF Spec

(* The members keep their types, and no more layers are recorded than the  *)
(* array of packet_private.h:58 has room for, for any depth of nesting.    *)
THEOREM TypeCorrect == Spec => []TypeOK
<1>1. Typed => TypeOK
  BY DEF Typed, TypeOK, Packets, Calls
<1> QED
  BY <1>1, TypedAlways, PTL
-----------------------------------------------------------------------------
(* Headers lie inside the capture.                                         *)

Walking == call.at \in Decoders \cup {"dlt"}

(* What a decoder is given is the rest of the capture. *)
Reading == Walking => call.pos + call.len = seen.captured

(* What is captured from the start of a layer on holds it. *)
Captured(h) == Holds(seen.captured - h.start, h.protocol, h.size)
Recorded == \A k \in Own : Captured(packet.layer[k])

LEMMA OwnStep ==
    ASSUME Typed, NEW proto \in Protocols, NEW size \in Nat, Accepts(proto, size)
    PROVE  \A k \in Own' :
              \/ k \in Own /\ packet'.layer[k] = packet.layer[k]
              \/ /\ k = Len(packet.layer) + 1 /\ k = Len(packet'.layer)
                 /\ Len(packet.layer) # MAX_LAYERS
                 /\ packet'.layer[k] = [protocol |-> proto, start |-> call.pos,
                                        size |-> size, use |-> seen.uses]
<1> DEFINE h == [protocol |-> proto, start |-> call.pos, size |-> size, use |-> seen.uses]
<1>1. packet'.layer = Layered(proto, size) /\ seen'.base = seen.base
  BY DEF Accepts, SameUse
<1>2. packet.layer \in Seq(Header) /\ Len(packet.layer) \in Nat /\ seen.base \in Nat
  BY DEF Typed, Packets, Histories
<1>3. CASE Len(packet.layer) = MAX_LAYERS
  BY <1>1, <1>3 DEF Layered, Own
<1>4. CASE Len(packet.layer) # MAX_LAYERS
  <2>1. h \in Header
    BY DEF Typed, Header, Calls, Histories
  <2>2. packet'.layer = Append(packet.layer, h)
    BY <1>1, <1>4 DEF Layered
  <2> HIDE DEF h
  <2>3. /\ Len(Append(packet.layer, h)) = Len(packet.layer) + 1
        /\ Append(packet.layer, h)[Len(packet.layer) + 1] = h
        /\ \A k \in 1 .. Len(packet.layer) : Append(packet.layer, h)[k] = packet.layer[k]
    BY <1>2, <2>1
  <2>4. SUFFICES ASSUME NEW k \in Own'
                 PROVE  \/ k \in Own /\ packet'.layer[k] = packet.layer[k]
                        \/ /\ k = Len(packet.layer) + 1 /\ k = Len(packet'.layer)
                           /\ packet'.layer[k] = h
    BY <1>4 DEF h
  <2>5. k \in seen.base + 1 .. Len(packet.layer) + 1
    BY <1>1, <2>2, <2>3 DEF Own
  <2>6. CASE k = Len(packet.layer) + 1
    BY <2>2, <2>3, <2>6
  <2>7. CASE k # Len(packet.layer) + 1
    <3>1. k \in 1 .. Len(packet.layer) /\ k \in seen.base + 1 .. Len(packet.layer)
      BY <1>2, <2>5, <2>7
    <3> QED
      BY <2>2, <2>3, <3>1 DEF Own
  <2> QED
    BY <2>6, <2>7
<1> QED
  BY <1>3, <1>4

(* No step but a decoder's disturbs the layers of the current use. *)
LEMMA OwnFresh ==
    ASSUME Typed, packet_create \/ packet_destroy \/ packet_decode
    PROVE  Own' = {}
<1>1. CASE packet_create
  <2>1. Len(packet'.layer) = 0 /\ seen'.base = 0
    BY <1>1, CreateStep DEF Nothing
  <2> QED
    BY <2>1 DEF Own
<1>2. CASE packet_destroy
  <2>1. Len(packet'.layer) = 0 /\ seen'.base = 0
    BY <1>2, FreshTypes DEF packet_destroy, Nothing
  <2> QED
    BY <2>1 DEF Own
<1>3. CASE packet_decode
  <2>1. packet'.layer = packet.layer /\ seen'.base = Len(packet.layer)
    BY <1>3, DecodeStep DEF SameLayers
  <2>2. Len(packet.layer) \in Nat
    BY DEF Typed, Packets
  <2> QED
    BY <2>1, <2>2 DEF Own
<1> QED
  BY <1>1, <1>2, <1>3

(* The other steps, together: the client's or the options'. *)
Quiet == /\ SamePacket /\ SameHistory /\ call' \in Calls
         /\ call'.at \notin Decoders \cup {"dlt"}

LEMMA QuietCases ==
    ASSUME Typed, (\E on \in BOOLEAN : packet_set_payload(on)) \/ Options
                  \/ (Headed /\ Refuses)
    PROVE  Quiet
<1>1. CASE \E on \in BOOLEAN : packet_set_payload(on)
  BY <1>1, SetPayloadStep
  DEF Quiet, packet_set_payload, SameHistory, SameUse, Typed, Decoders
<1>2. CASE Options
  <2>1. /\ SamePacket /\ SameHistory /\ call' \in Calls
        /\ StoresBeyond \/ Records \/ Skips \/ Finishes
    BY <1>2, OptionEffects DEF Options
  <2>2. call'.at \in {"opt", "idle", "undefined"}
    BY <2>1 DEF StoresBeyond, Records, Skips, Finishes
  <2>3. call'.at \notin Decoders \cup {"dlt"}
    BY <2>2 DEF Decoders
  <2> QED
    BY <2>1, <2>3 DEF Quiet
<1>3. CASE Headed /\ Refuses
  BY <1>3 DEF Quiet, Refuses, SamePacket, SameLayers, SameHistory, SameUse, Typed, Decoders
<1> QED
  BY <1>1, <1>2, <1>3

LEMMA CapturedInit == Init => Reading /\ Recorded
<1> SUFFICES ASSUME Init
             PROVE  Reading /\ Recorded
  OBVIOUS
<1>1. call.at = "idle" /\ Own = {}
  BY FreshTypes DEF Init, Idle, Own, Nothing
<1> QED
  BY <1>1 DEF Reading, Walking, Recorded, Decoders

LEMMA ReadingStep == Typed /\ Reading /\ [Next]_vars => Reading'
<1> SUFFICES ASSUME Typed, Reading, [Next]_vars
             PROVE  Reading'
  OBVIOUS
<1>1. CASE packet_create \/ packet_destroy
  <2>1. call'.at = "idle"
    BY <1>1 DEF packet_create, packet_destroy, Idle
  <2> QED
    BY <2>1 DEF Reading, Walking, Decoders
<1>2. CASE packet_decode
  <2>1. call'.pos = 0 /\ call'.len = seen'.captured /\ call'.len \in Nat
    BY <1>2, DecodeStep, SizeAssumption
  <2> QED
    BY <2>1 DEF Reading
<1>3. CASE (\E on \in BOOLEAN : packet_set_payload(on)) \/ Options
  BY <1>3, QuietCases DEF Quiet, Reading, Walking
<1>4. CASE Opened
  BY <1>4, OpenedStep DEF Reading, Walking
<1>5. CASE Headed /\ Refuses
  BY <1>5 DEF Refuses, Reading, Walking, Decoders
<1>6. ASSUME NEW proto \in Protocols, NEW size \in Nat, Headed, Accepts(proto, size)
      PROVE  Reading'
  <2>1. call.pos + call.len = seen.captured
    BY <1>6 DEF Headed, Reading, Walking
  <2>2. call.pos \in Nat /\ call.len \in Nat
    BY DEF Typed, Calls
  <2>3. SUFFICES ASSUME call'.at \in Decoders
                 PROVE  call'.pos + call'.len = seen'.captured
    BY <1>6 DEF Reading, Walking, Accepts, Decoders
  <2> QED
    BY <1>6, <2>1, <2>2, <2>3 DEF Accepts, SameUse
<1>7. CASE UNCHANGED vars
  BY <1>7 DEF vars, Reading, Walking
<1> QED
  BY <1>1, <1>2, <1>3, <1>4, <1>5, <1>6, <1>7, StepCases DEF Headed, Decoding

LEMMA RecordedStep == Typed /\ Reading /\ Recorded /\ [Next]_vars => Recorded'
<1> SUFFICES ASSUME Typed, Reading, Recorded, [Next]_vars
             PROVE  Recorded'
  OBVIOUS
<1>1. CASE packet_create \/ packet_destroy \/ packet_decode
  BY <1>1, OwnFresh DEF Recorded
<1>2. CASE (\E on \in BOOLEAN : packet_set_payload(on)) \/ Options
  BY <1>2, QuietCases DEF Quiet, SamePacket, SameHistory, SameUse, Recorded, Captured, Own
<1>3. CASE Opened
  BY <1>3, OpenedStep DEF Recorded, Captured, Own
<1>4. CASE Headed /\ Refuses
  BY <1>4 DEF Refuses, SameLayers, Recorded, Captured, Own
<1>5. ASSUME NEW proto \in Protocols, NEW size \in Nat, Headed, Accepts(proto, size)
      PROVE  Recorded'
  <2>1. /\ call.pos \in Nat /\ call.len \in Nat /\ Holds(call.len, proto, size)
        /\ seen'.captured = seen.captured
    BY <1>5 DEF Typed, Calls, Accepts, SameUse
  <2>2. call.len = seen.captured - call.pos
    <3>1. call.pos + call.len = seen.captured
      BY <1>5 DEF Headed, Reading, Walking
    <3> QED
      BY <2>1, <3>1
  <2>3. ASSUME NEW k \in Own'
        PROVE  Captured(packet.layer[k])'
    <3> DEFINE h == [protocol |-> proto, start |-> call.pos,
                     size |-> size, use |-> seen.uses]
    <3>1. (k \in Own /\ packet'.layer[k] = packet.layer[k]) \/ packet'.layer[k] = h
      BY <1>5, <2>3, OwnStep
    <3>2. Captured(h)
      BY <2>1, <2>2 DEF Captured
    <3> HIDE DEF h
    <3> QED
      BY <2>1, <3>1, <3>2 DEF Recorded, Captured
  <2> QED
    BY <2>3 DEF Recorded
<1>6. CASE UNCHANGED vars
  BY <1>6 DEF vars, Recorded, Captured, Own
<1> QED
  BY <1>1, <1>2, <1>3, <1>4, <1>5, <1>6, StepCases DEF Headed, Decoding

(* From the start of every recorded header the capture holds its fixed     *)
(* part and the length it states, up to the exceptions of Holds, and the   *)
(* length a decoder is given never wraps around.                           *)
THEOREM HeadersCaptured == Spec => []HeadersInside
<1> DEFINE Inv == Typed /\ Reading /\ Recorded
<1>1. Init => Inv
  BY TypedInit, CapturedInit
<1>2. Inv /\ [Next]_vars => Inv'
  BY TypedStep, ReadingStep, RecordedStep
<1>3. Inv => HeadersInside
  <2> SUFFICES ASSUME Inv
               PROVE  HeadersInside
    OBVIOUS
  <2>1. call.at \in Decoders => call.pos + call.len = seen.captured /\ call.len >= 0
    BY DEF Typed, Calls, Reading, Walking
  <2> QED
    BY <2>1 DEF HeadersInside, Recorded, Captured
<1> QED
  BY <1>1, <1>2, <1>3, PTL DEF Spec
-----------------------------------------------------------------------------
(* The options fit their array.                                            *)

(* Before the options their number is what the decoding began with; among  *)
(* them it is no more than the bytes they took.                            *)
Room ==
    /\ call.at \in Decoders \cup {"dlt"} => packet.tcpopt_count = seen.opts
    /\ call.at = "opt" => call.len <= MAX_TCPOPTLEN
    /\ call.at = "opt" /\ ~seen.stalled /\ seen.opts = 0 =>
          packet.tcpopt_count <= call.pos
    /\ OptionsFit

LEMMA RoomStep == Typed /\ Room /\ [Next]_vars => Room'
<1> SUFFICES ASSUME Typed, Room, [Next]_vars
             PROVE  Room'
  OBVIOUS
<1>1. CASE packet_create \/ packet_destroy
  <2>1. call'.at = "idle"
    BY <1>1 DEF packet_create, packet_destroy, Idle
  <2> QED
    BY <2>1 DEF Room, OptionsFit, Decoders
<1>2. CASE packet_decode
  <2>1. call'.at = "dlt" /\ packet'.tcpopt_count = seen'.opts
    BY <1>2, DecodeStep DEF SameLayers
  <2> QED
    BY <2>1 DEF Room, OptionsFit
<1>3. CASE \E on \in BOOLEAN : packet_set_payload(on)
  BY <1>3, SetPayloadStep DEF Room, OptionsFit
<1>4. CASE Opened
  BY <1>4, OpenedStep DEF Room, OptionsFit, Decoders
<1>5. CASE Headed /\ Refuses
  BY <1>5 DEF Refuses, Room, OptionsFit, Decoders
<1>6. ASSUME NEW proto \in Protocols, NEW size \in Nat, Headed, Accepts(proto, size)
      PROVE  Room'
  <2>1. packet.tcpopt_count = seen.opts
    BY <1>6 DEF Headed, Room
  <2>2. packet'.tcpopt_count = seen'.opts
    BY <1>6, <2>1 DEF Accepts, SameUse
  <2>3. /\ call'.at \in Decoders \cup {"idle", "opt"}
        /\ call'.at = "opt" => call'.pos = 0 /\ call'.len <= MAX_TCPOPTLEN
    BY <1>6 DEF Accepts
  <2> QED
    BY <2>2, <2>3 DEF Room, OptionsFit, Decoders
<1>7. CASE Options
  <2>1. /\ call.at = "opt" /\ SameHistory
        /\ StoresBeyond \/ Records \/ Skips \/ Finishes
    BY <1>7, OptionEffects DEF Options
  <2>2. /\ call.len <= MAX_TCPOPTLEN /\ seen'.opts = seen.opts
        /\ ~seen.stalled /\ seen.opts = 0 => packet.tcpopt_count <= call.pos
    BY <2>1 DEF Room, SameHistory, SameUse
  <2>3. /\ call.len \in Nat /\ call.pos \in Nat /\ call'.pos \in Nat
        /\ packet.tcpopt_count \in Nat /\ MAX_TCPOPTLEN \in Nat
    BY <1>7, OptionEffects, SizeAssumption DEF Options, Typed, Calls, Packets
  <2>4. CASE StoresBeyond
    <3>1. seen.stalled \/ seen.opts # 0
      BY <2>2, <2>3, <2>4 DEF StoresBeyond
    <3> QED
      BY <2>4, <3>1 DEF StoresBeyond, Room, OptionsFit, Decoders
  <2>5. CASE Records
    <3>1. /\ call'.at = "opt" /\ call'.len = call.len
          /\ packet'.tcpopt_count = packet.tcpopt_count + 1
      BY <2>5 DEF Records
    <3>2. ~seen'.stalled /\ seen'.opts = 0 => packet'.tcpopt_count <= call'.pos
      BY <2>2, <2>3, <2>5 DEF Records
    <3> QED
      BY <2>2, <3>1, <3>2 DEF Room, OptionsFit, Decoders
  <2>6. CASE Skips
    <3>1. ~seen'.stalled /\ seen'.opts = 0 => packet'.tcpopt_count <= call'.pos
      BY <2>2, <2>3, <2>6 DEF Skips
    <3> QED
      BY <2>2, <2>6, <3>1 DEF Skips, Room, OptionsFit, Decoders
  <2>7. CASE Finishes
    BY <2>7 DEF Finishes, Room, OptionsFit, Decoders
  <2> QED
    BY <2>1, <2>4, <2>5, <2>6, <2>7
<1>8. CASE UNCHANGED vars
  BY <1>8 DEF vars, Room, OptionsFit
<1> QED
  BY <1>1, <1>2, <1>3, <1>4, <1>5, <1>6, <1>7, <1>8, StepCases DEF Headed, Decoding

(* Options are never stored beyond their array, whatever they contain,     *)
(* unless one takes no bytes or there were options before.                 *)
THEOREM OptionsBounded == Spec => []OptionsFit
<1>1. Init => Typed /\ Room
  <2>1. ASSUME Init
        PROVE  Room
    <3>1. call.at = "idle"
      BY <2>1 DEF Init, Idle
    <3> QED
      BY <3>1 DEF Room, OptionsFit, Decoders
  <2> QED
    BY <2>1, TypedInit
<1>2. Typed /\ Room /\ [Next]_vars => (Typed /\ Room)'
  BY TypedStep, RoomStep
<1>3. Room => OptionsFit
  BY DEF Room
<1> QED
  BY <1>1, <1>2, <1>3, PTL DEF Spec
-----------------------------------------------------------------------------
(* No decoding goes on past a fragment.                                    *)

(* As long as a decoder goes on, and once a transport header was reached.  *)
(* Nothing goes on from a transport header but the loop over its options.  *)
Passing ==
    /\ call.at # "idle" \/ seen.reached # "none" => seen.pieces \subseteq Hidden
    /\ Walking => seen.reached = "none"

LEMMA PassingStep == Typed /\ Passing /\ [Next]_vars => Passing'
<1> SUFFICES ASSUME Typed, Passing, [Next]_vars
             PROVE  Passing'
  OBVIOUS
<1>1. CASE packet_create \/ packet_destroy
  <2>1. call'.at = "idle" /\ seen'.reached = "none" /\ seen'.pieces = {}
    BY <1>1 DEF packet_create, packet_destroy, Idle, Nothing
  <2> QED
    BY <2>1 DEF Passing
<1>2. CASE packet_decode
  <2>1. seen'.pieces = {} /\ seen'.reached = "none"
    BY <1>2, DecodeStep
  <2> QED
    BY <2>1 DEF Passing
<1>3. CASE \E on \in BOOLEAN : packet_set_payload(on)
  BY <1>3, SetPayloadStep DEF Passing, Walking
<1>4. CASE Opened
  BY <1>4, OpenedStep DEF Passing, Walking
<1>5. CASE Headed /\ Refuses
  <2>1. seen' = seen /\ call'.at = "idle" /\ Walking
    BY <1>5 DEF Refuses, Headed, Walking
  <2> QED
    BY <2>1 DEF Passing
<1>6. ASSUME NEW proto \in Protocols, NEW size \in Nat, Headed, Accepts(proto, size)
      PROVE  Passing'
  <2>1. seen.pieces \subseteq Hidden /\ seen.reached = "none"
    BY <1>6 DEF Headed, Passing, Walking, Decoders
  <2>2. CASE call'.at # "idle" \/ proto \in Transports
    <3>1. seen'.pieces \subseteq seen.pieces \cup Hidden
      BY <1>6, <2>2 DEF Accepts
    <3>2. call'.at \in Decoders \cup {"dlt"} => seen'.reached = "none"
      BY <1>6, <2>1 DEF Accepts, Decoders
    <3> QED
      BY <2>1, <3>1, <3>2 DEF Passing, Walking
  <2>3. CASE ~(call'.at # "idle" \/ proto \in Transports)
    <3>1. seen'.reached = "none"
      BY <1>6, <2>1, <2>3 DEF Accepts
    <3> QED
      BY <2>3, <3>1 DEF Passing
  <2> QED
    BY <2>2, <2>3
<1>7. CASE Options
  <2>1. call.at = "opt" /\ SameHistory /\ Quiet
    BY <1>7, OptionEffects, QuietCases DEF Options
  <2> QED
    BY <2>1 DEF SameHistory, Quiet, Passing, Walking
<1>8. CASE UNCHANGED vars
  BY <1>8 DEF vars, Passing, Walking
<1> QED
  BY <1>1, <1>2, <1>3, <1>4, <1>5, <1>6, <1>7, <1>8, StepCases DEF Headed, Decoding

LEMMA PassingInit == Init => Passing
<1> SUFFICES ASSUME Init
             PROVE  Passing
  OBVIOUS
<1>1. call.at = "idle" /\ seen.reached = "none"
  BY DEF Init, Idle, Nothing
<1> QED
  BY <1>1 DEF Passing

LEMMA PassingAlways == Spec => [](Typed /\ Passing)
<1>1. Init => Typed /\ Passing
  BY TypedInit, PassingInit
<1>2. Typed /\ Passing /\ [Next]_vars => (Typed /\ Passing)'
  BY TypedStep, PassingStep
<1> QED
  BY <1>1, <1>2, PTL DEF Spec

(* A transport header is not reached past a fragment, for every value of   *)
(* the fragment fields but the three the mask hides, however IP headers    *)
(* and extensions are nested.                                              *)
THEOREM FragmentsAreStopped == Spec => []FragmentsStop
<1>1. Passing => FragmentsStop
  BY DEF Passing, FragmentsStop, Hidden
<1> QED
  BY <1>1, PassingAlways, PTL
-----------------------------------------------------------------------------
(* The accessors read the TCP header of the capture.                       *)

(* A layer is lost only when there is no room, and there will be none; a   *)
(* transport header that was not lost is the last layer; and no other TCP  *)
(* header is of this use of the packet.                                    *)
Lost == seen.lost => Len(packet.layer) = MAX_LAYERS
OnTop ==
    seen.reached # "none" /\ ~seen.lost =>
        /\ packet.transport = Len(packet.layer) /\ Len(packet.layer) \in Own
        /\ Innermost.protocol = seen.reached /\ Innermost.use = seen.uses
Older(h) ==
    /\ h.use \in 1 .. seen.uses
    /\ (seen.reached = "none" \/ seen.lost) /\ h.protocol = "TCP" => h.use # seen.uses
NoOther == \A k \in 1 .. Len(packet.layer) : Older(packet.layer[k])
Unused == seen.uses = 0 => packet.layer = <<>> /\ call.at = "idle"
Topmost == Lost /\ OnTop /\ NoOther /\ Unused

LEMMA LayersStep ==
    ASSUME Typed, NEW proto \in Protocols, NEW size \in Nat, Accepts(proto, size)
    PROVE  \/ /\ Len(packet.layer) = MAX_LAYERS /\ packet'.layer = packet.layer
           \/ /\ Len(packet.layer) # MAX_LAYERS
              /\ Len(packet'.layer) = Len(packet.layer) + 1
              /\ Len(packet'.layer) \in Own'
              /\ packet'.layer[Len(packet'.layer)] =
                    [protocol |-> proto, start |-> call.pos,
                     size |-> size, use |-> seen.uses]
              /\ \A k \in 1 .. Len(packet.layer) : packet'.layer[k] = packet.layer[k]
<1> DEFINE h == [protocol |-> proto, start |-> call.pos, size |-> size, use |-> seen.uses]
<1>1. packet'.layer = Layered(proto, size) /\ seen'.base = seen.base
  BY DEF Accepts, SameUse
<1>2. /\ packet.layer \in Seq(Header) /\ Len(packet.layer) \in Nat
      /\ seen.base \in Nat /\ seen.base <= Len(packet.layer)
  BY DEF Typed, Packets, Histories
<1>3. CASE Len(packet.layer) = MAX_LAYERS
  BY <1>1, <1>3 DEF Layered
<1>4. CASE Len(packet.layer) # MAX_LAYERS
  <2>1. h \in Header
    BY DEF Typed, Header, Calls, Histories
  <2>2. packet'.layer = Append(packet.layer, h)
    BY <1>1, <1>4 DEF Layered
  <2> HIDE DEF h
  <2>3. /\ Len(Append(packet.layer, h)) = Len(packet.layer) + 1
        /\ Append(packet.layer, h)[Len(packet.layer) + 1] = h
        /\ \A k \in 1 .. Len(packet.layer) : Append(packet.layer, h)[k] = packet.layer[k]
    BY <1>2, <2>1
  <2>4. Len(packet.layer) + 1 \in seen.base + 1 .. Len(packet.layer) + 1
    BY <1>2
  <2>5. Len(packet'.layer) \in Own'
    BY <1>1, <2>2, <2>3, <2>4 DEF Own
  <2> QED
    BY <1>4, <2>2, <2>3, <2>5 DEF h
<1> QED
  BY <1>3, <1>4

LEMMA TopmostInit == Init => Topmost
<1> SUFFICES ASSUME Init
             PROVE  Topmost
  OBVIOUS
<1>1. /\ call.at = "idle" /\ packet.layer = <<>> /\ seen.reached = "none" /\ ~seen.lost
  BY FreshTypes DEF Init, Idle, Nothing
<1>2. Len(packet.layer) = 0
  BY <1>1
<1> QED
  BY <1>1, <1>2 DEF Topmost, Lost, OnTop, NoOther, Unused

LEMMA TopmostStep == Typed /\ Passing /\ Topmost /\ [Next]_vars => Topmost'
<1> SUFFICES ASSUME Typed, Passing, Topmost, [Next]_vars
             PROVE  Topmost'
  OBVIOUS
<1> USE DEF Topmost
<1>1. CASE packet_create \/ packet_destroy
  <2>1. /\ packet'.layer = <<>> /\ call'.at = "idle"
        /\ ~seen'.lost /\ seen'.reached = "none"
    BY <1>1, CreateStep, FreshTypes DEF packet_destroy, Idle, Nothing
  <2>2. Len(packet'.layer) = 0
    BY <2>1
  <2> QED
    BY <2>1, <2>2 DEF Lost, OnTop, NoOther, Unused
<1>2. CASE packet_decode
  <2>1. /\ packet'.layer = packet.layer /\ ~seen'.lost /\ seen'.reached = "none"
        /\ seen'.uses = seen.uses + 1 /\ seen.uses \in Nat
    BY <1>2, DecodeStep DEF SameLayers, Typed, Histories
  <2>2. seen'.uses # 0
    BY <2>1
  <2>3. ASSUME NEW k \in 1 .. Len(packet'.layer)
        PROVE  Older(packet.layer[k])'
    <3>1. packet.layer[k].use \in 1 .. seen.uses
      BY <2>1, <2>3 DEF NoOther, Older
    <3> QED
      BY <2>1, <3>1 DEF Older
  <2>4. NoOther'
    BY <2>3 DEF NoOther
  <2> QED
    BY <2>1, <2>2, <2>4 DEF Lost, OnTop, Unused
<1>3. CASE (\E on \in BOOLEAN : packet_set_payload(on)) \/ Options
  <2>1. Quiet /\ (seen.uses = 0 => call'.at = "idle")
    <3>1. CASE \E on \in BOOLEAN : packet_set_payload(on)
      BY <3>1, QuietCases, SetPayloadStep DEF Unused
    <3>2. CASE Options
      BY <3>2, QuietCases, OptionEffects DEF Options, Unused
    <3> QED
      BY <1>3, <3>1, <3>2
  <2>2. /\ packet'.layer = packet.layer /\ packet'.transport = packet.transport
        /\ seen'.lost = seen.lost /\ seen'.reached = seen.reached
        /\ seen'.uses = seen.uses /\ seen'.base = seen.base
    BY <2>1 DEF Quiet, SamePacket, SameHistory, SameUse
  <2> QED
    BY <2>1, <2>2 DEF Lost, OnTop, NoOther, Older, Unused, Own, Innermost
<1>4. CASE Opened
  BY <1>4, OpenedStep DEF Lost, OnTop, NoOther, Older, Unused, Own, Innermost
<1>5. CASE Headed /\ Refuses
  BY <1>5 DEF Refuses, SameLayers, Lost, OnTop, NoOther, Older, Unused, Own, Innermost
<1>6. ASSUME NEW proto \in Protocols, NEW size \in Nat, Headed, Accepts(proto, size)
      PROVE  Topmost'
  <2>1. /\ call.at \in Decoders /\ seen.reached = "none"
    BY <1>6 DEF Headed, Passing, Walking
  <2>2. seen.uses # 0
    BY <2>1 DEF Unused, Decoders
  <2>3. /\ seen'.uses = seen.uses
        /\ seen'.lost <=> (seen.lost \/ Len(packet.layer) = MAX_LAYERS)
        /\ seen'.reached = IF proto \in Transports THEN proto ELSE seen.reached
        /\ packet'.transport = IF proto \in Transports THEN Len(packet'.layer)
                               ELSE packet.transport
    BY <1>6 DEF Accepts, SameUse
  <2>4. CASE Len(packet.layer) = MAX_LAYERS
    <3>1. packet'.layer = packet.layer /\ seen'.lost
      BY <1>6, <2>3, <2>4, LayersStep
    <3> QED
      BY <2>1, <2>2, <2>3, <2>4, <3>1 DEF Lost, OnTop, NoOther, Older, Unused
  <2>5. CASE Len(packet.layer) # MAX_LAYERS
    <3>1. /\ Len(packet'.layer) = Len(packet.layer) + 1 /\ Len(packet'.layer) \in Own'
          /\ Innermost'.protocol = proto /\ Innermost'.use = seen.uses
          /\ \A k \in 1 .. Len(packet.layer) : packet'.layer[k] = packet.layer[k]
      <4> DEFINE h == [protocol |-> proto, start |-> call.pos,
                       size |-> size, use |-> seen.uses]
      <4>1. h.protocol = proto /\ h.use = seen.uses
        OBVIOUS
      <4> HIDE DEF h
      <4>2. /\ Len(packet'.layer) = Len(packet.layer) + 1 /\ Len(packet'.layer) \in Own'
            /\ packet'.layer[Len(packet'.layer)] = h
            /\ \A k \in 1 .. Len(packet.layer) : packet'.layer[k] = packet.layer[k]
        BY <1>6, <2>5, LayersStep DEF h
      <4> QED
        BY <4>1, <4>2 DEF Innermost
    <3>2. ~seen'.lost
      BY <2>3, <2>5 DEF Lost
    <3>3. OnTop'
      BY <2>1, <2>3, <3>1 DEF OnTop
    <3>4. ASSUME NEW k \in 1 .. Len(packet'.layer)
          PROVE  Older(packet.layer[k])'
      <4>1. seen.uses \in Nat
        BY DEF Typed, Histories
      <4>2. CASE k = Len(packet'.layer)
        <5>1. packet'.layer[k].protocol = proto /\ packet'.layer[k].use = seen.uses
          BY <3>1, <4>2 DEF Innermost
        <5>2. proto = "TCP" => seen'.reached = "TCP"
          BY <2>3 DEF Transports
        <5> QED
          BY <2>2, <2>3, <3>2, <4>1, <5>1, <5>2 DEF Older
      <4>3. CASE k # Len(packet'.layer)
        <5>1. k \in 1 .. Len(packet.layer)
          BY <3>1, <4>3 DEF Typed, Packets
        <5>2. Older(packet.layer[k]) /\ packet'.layer[k] = packet.layer[k]
          BY <3>1, <5>1 DEF NoOther
        <5> QED
          BY <2>1, <2>3, <5>2 DEF Older
      <4> QED
        BY <4>2, <4>3
    <3>5. NoOther'
      BY <3>4 DEF NoOther
    <3> QED
      BY <2>2, <2>3, <3>2, <3>3, <3>5 DEF Lost, Unused
  <2> QED
    BY <2>4, <2>5
<1>7. CASE UNCHANGED vars
  BY <1>7 DEF vars, Lost, OnTop, NoOther, Older, Unused, Own, Innermost
<1> QED
  BY <1>1, <1>2, <1>3, <1>4, <1>5, <1>6, <1>7, StepCases DEF Headed, Decoding

(* After a decoding that recorded a TCP header the TCP accessors read that *)
(* header, whole; after any other, nothing of this capture: in a Packet    *)
(* used once nothing at all, in one used again at most an earlier header.  *)
THEOREM AccessorsRight == Spec => []AccessorsReadTcp
<1> DEFINE Inv == Typed /\ Reading /\ Recorded /\ Passing /\ Topmost
<1>1. Init => Inv
  BY TypedInit, CapturedInit, PassingInit, TopmostInit
<1>2. Inv /\ [Next]_vars => Inv'
  BY TypedStep, ReadingStep, RecordedStep, PassingStep, TopmostStep
<1>3. Inv => AccessorsReadTcp
  <2> SUFFICES ASSUME Inv
               PROVE  AccessorsReadTcp
    OBVIOUS
  <2>1. /\ packet.transport \in Nat /\ packet.transport <= Len(packet.layer)
        /\ Len(packet.layer) \in Nat /\ seen.base \in Nat /\ seen.uses \in Nat
        /\ seen.reached \in {"none", "TCP", "UDP"}
    BY DEF Typed, Packets, Histories
  <2>2. CASE seen.reached # "none" /\ ~seen.lost
    <3>1. /\ packet.transport = Len(packet.layer) /\ Len(packet.layer) \in Own
          /\ Innermost.protocol = seen.reached /\ Innermost.use = seen.uses
      BY <2>2 DEF Topmost, OnTop
    <3>2. packet.transport # 0
      BY <2>1, <3>1 DEF Own
    <3>3. TcpHeaders(packet) = IF seen.reached = "TCP" THEN {Innermost} ELSE {}
      BY <3>1, <3>2 DEF TcpHeaders, validate_transport_protocol, Innermost
    <3>4. seen.reached = "TCP" => Innermost.start + 20 <= seen.captured
      <4>1. Innermost.start \in Nat /\ seen.captured \in Nat
        <5>1. packet.layer \in Seq(Header) /\ seen.captured \in Nat
          BY DEF Typed, Packets, Histories
        <5>2. Len(packet.layer) \in 1 .. Len(packet.layer)
          BY <2>1, <3>1 DEF Own
        <5>3. Innermost \in Header
          BY <5>1, <5>2 DEF Innermost
        <5> QED
          BY <5>1, <5>3 DEF Header
      <4>2. seen.reached = "TCP" => 20 <= seen.captured - Innermost.start
        BY <3>1 DEF Recorded, Captured, Holds, FixedPart, Innermost
      <4> QED
        BY <4>1, <4>2
    <3> QED
      BY <2>2, <3>1, <3>3, <3>4 DEF AccessorsReadTcp
  <2>3. CASE seen.reached = "none" \/ seen.lost
    <3>1. SUFFICES ASSUME NEW h \in TcpHeaders(packet)
                   PROVE  h.use \in 1 .. seen.uses - 1
      BY <2>3 DEF AccessorsReadTcp
    <3>2. /\ packet.transport # 0 /\ h = packet.layer[packet.transport]
          /\ h.protocol = "TCP"
      BY <3>1 DEF TcpHeaders, validate_transport_protocol
    <3>3. Older(h)
      BY <2>1, <3>2 DEF Topmost, NoOther
    <3>4. h.use \in 1 .. seen.uses /\ h.use # seen.uses
      BY <2>3, <3>2, <3>3 DEF Older
    <3> QED
      BY <2>1, <3>4
  <2> QED
    BY <2>2, <2>3
<1> QED
  BY <1>1, <1>2, <1>3, PTL DEF Spec
-----------------------------------------------------------------------------
(* The payload is the rest of the datagram.                                *)

(* While the decoders run, the payload is where the next header is.        *)
OnTrack == Walking /\ ~seen.drift => packet.payload = call.pos
Begins ==
    packet.live /\ ~seen.drift /\ ~seen.lost =>
        packet.payload = IF Own = {} THEN 0 ELSE Innermost.start + Innermost.size
Following == Rest /\ OnTrack /\ Begins

LEMMA FollowingStep == Typed /\ Lost /\ Following /\ [Next]_vars => Following'
<1> SUFFICES ASSUME Typed, Lost, Following, [Next]_vars
             PROVE  Following'
  OBVIOUS
<1> USE DEF Following
<1>1. CASE packet_create \/ packet_destroy
  <2>1. /\ packet'.payload = 0 /\ packet'.paysize = 0 /\ seen'.end = 0
        /\ call'.at = "idle"
    BY <1>1, CreateStep, FreshTypes DEF packet_destroy, NoPacket, Zeroed, Idle, Nothing
  <2>2. Own' = {}
    BY <1>1, OwnFresh
  <2> QED
    BY <2>1, <2>2 DEF Rest, PayloadEnd, OnTrack, Walking, Begins, Decoders
<1>2. CASE packet_decode
  <2>1. /\ packet'.payload = 0 /\ packet'.paysize = seen'.end /\ call'.pos = 0
        /\ seen'.end \in Nat
    BY <1>2, DecodeStep, SizeAssumption
  <2>2. Own' = {}
    BY <1>2, OwnFresh
  <2> QED
    BY <2>1, <2>2 DEF Rest, PayloadEnd, OnTrack, Begins
<1>3. CASE (\E on \in BOOLEAN : packet_set_payload(on)) \/ Options
  <2>1. Quiet
    BY <1>3, QuietCases
  <2> QED
    BY <2>1 DEF Quiet, SamePacket, SameHistory, SameUse, Rest, PayloadEnd, OnTrack,
                Walking, Begins, Own, Innermost
<1>4. CASE Opened
  BY <1>4, OpenedStep
  DEF Rest, PayloadEnd, OnTrack, Walking, Begins, Own, Innermost
<1>5. CASE Headed /\ Refuses
  <2>1. /\ packet'.payload = packet.payload /\ packet'.paysize = packet.paysize
        /\ packet'.layer = packet.layer /\ packet'.live = packet.live
        /\ seen' = seen /\ call'.at = "idle"
    BY <1>5 DEF Refuses, SameLayers
  <2> QED
    BY <2>1 DEF Rest, PayloadEnd, OnTrack, Walking, Begins, Own, Innermost, Decoders
<1>6. ASSUME NEW proto \in Protocols, NEW size \in Nat, Headed, Accepts(proto, size)
      PROVE  Following'
  <2>1. Rest'
    BY <1>6 DEF Accepts
  <2>2. ~seen'.drift => packet'.payload = call.pos + size
    <3>1. ~seen'.drift => ~seen.drift /\ packet'.payload = packet.payload + size
      BY <1>6 DEF Accepts
    <3> QED
      BY <1>6, <3>1 DEF Headed, OnTrack, Walking
  <2>3. OnTrack'
    <3> SUFFICES ASSUME Walking', ~seen'.drift
                 PROVE  packet'.payload = call'.pos
      BY DEF OnTrack
    <3>1. call'.at \in Decoders
      BY <1>6 DEF Accepts, Walking, Decoders
    <3> QED
      BY <1>6, <2>2, <3>1 DEF Accepts
  <2>4. Begins'
    <3> SUFFICES ASSUME ~seen'.drift, ~seen'.lost
                 PROVE  packet'.payload = IF Own' = {} THEN 0
                                          ELSE Innermost'.start + Innermost'.size
      BY DEF Begins
    <3> DEFINE h == [protocol |-> proto, start |-> call.pos,
                     size |-> size, use |-> seen.uses]
    <3>1. h.start = call.pos /\ h.size = size
      OBVIOUS
    <3> HIDE DEF h
    <3>2. Len(packet.layer) # MAX_LAYERS
      BY <1>6 DEF Accepts
    <3>3. Innermost' = h /\ Own' # {}
      BY <1>6, <3>2, LayersStep DEF Innermost, h
    <3> QED
      BY <2>2, <3>1, <3>3
  <2> QED
    BY <2>1, <2>3, <2>4
<1>7. CASE UNCHANGED vars
  BY <1>7 DEF vars, Rest, PayloadEnd, OnTrack, Walking, Begins, Own, Innermost
<1> QED
  BY <1>1, <1>2, <1>3, <1>4, <1>5, <1>6, <1>7, StepCases DEF Headed, Decoding

(* The payload ends where the innermost datagram does and begins where the *)
(* innermost header ends, for every nesting of headers without an option   *)
(* header; for every width of unsigned.                                    *)
THEOREM PayloadFollows == Spec => []PayloadIsRest
<1> DEFINE Inv == Typed /\ Passing /\ Topmost /\ Following
<1>1. Init => Inv
  <2>1. ASSUME Init
        PROVE  Following
    <3>1. /\ packet.payload = 0 /\ packet.paysize = 0 /\ seen.end = 0
          /\ ~packet.live /\ call.at = "idle"
      BY <2>1 DEF Init, NoPacket, Zeroed, Idle, Nothing
    <3> QED
      BY <3>1 DEF Following, Rest, PayloadEnd, OnTrack, Walking, Begins, Decoders
  <2> QED
    BY <2>1, TypedInit, PassingInit, TopmostInit
<1>2. Inv /\ [Next]_vars => Inv'
  BY TypedStep, PassingStep, TopmostStep, FollowingStep DEF Topmost
<1>3. Inv => PayloadIsRest
  BY DEF Following, Rest, PayloadEnd, Begins, PayloadIsRest
<1> QED
  BY <1>1, <1>2, <1>3, PTL DEF Spec
-----------------------------------------------------------------------------
(* The walk over the layers: a recursive function is the one its equation  *)
(* chooses.                                                                *)

(* f is what the loop sees from each iterator on. *)
IsWalk(f, p) ==
    f = [it \in NULL .. MAX_LAYERS - 1 |->
            IF it = NULL THEN <<>>
            ELSE <<p.layer[it + 1]>> \o f[packet_proto_next(p, it)]]

(* The layers from an iterator on; beyond the stack there is what the array *)
(* holds there, and nothing after it.                                      *)
From(p, it) ==
    IF it = NULL THEN <<>>
    ELSE IF it < Len(p.layer) THEN [j \in 1 .. Len(p.layer) - it |-> p.layer[it + j]]
    ELSE <<p.layer[it + 1]>>

LEMMA NextIterator ==
    ASSUME NEW p \in Packets, Len(p.layer) <= MAX_LAYERS, NEW it \in 0 .. MAX_LAYERS - 1
    PROVE  packet_proto_next(p, it) \in NULL .. MAX_LAYERS - 1
<1>1. Len(p.layer) \in Nat /\ MAX_LAYERS \in Nat
  BY SizeAssumption DEF Packets
<1> QED
  BY <1>1 DEF packet_proto_next, NULL

LEMMA OneAhead ==
    ASSUME NEW p \in Packets, Len(p.layer) <= MAX_LAYERS, NEW it \in 0 .. MAX_LAYERS - 1
    PROVE  <<p.layer[it + 1]>> \o From(p, packet_proto_next(p, it)) = From(p, it)
<1> DEFINE x == p.layer[it + 1]
           n == Len(p.layer)
           next == packet_proto_next(p, it)
<1>1. n \in Nat /\ p.layer \in Seq(Header) /\ it \in Nat
  BY DEF Packets
<1>2. CASE it + 1 >= n
  <2>1. From(p, next) = <<>>
    <3>1. next = NULL
      BY <1>1, <1>2 DEF packet_proto_next
    <3> QED
      BY <3>1 DEF From
  <2>2. From(p, it) = <<x>>
    <3>1. CASE it < n
      <4>1. n - it = 1
        BY <1>1, <1>2, <3>1
      <4>2. From(p, it) = [j \in 1 .. 1 |-> p.layer[it + j]]
        BY <1>1, <3>1, <4>1 DEF From, NULL
      <4>3. [j \in 1 .. 1 |-> p.layer[it + j]] = <<x>>
        OBVIOUS
      <4> QED
        BY <4>2, <4>3
    <3>2. CASE ~(it < n)
      BY <1>1, <3>2 DEF From, NULL
    <3> QED
      BY <3>1, <3>2
  <2>3. <<x>> \o <<>> = <<x>>
    <3> HIDE DEF x
    <3>1. <<x>> \in Seq({x})
      OBVIOUS
    <3> QED
      BY <3>1
  <2> QED
    BY <2>1, <2>2, <2>3
<1>3. CASE it + 1 < n
  <2> DEFINE s == [j \in 1 .. n - (it + 1) |-> p.layer[(it + 1) + j]]
             t == [j \in 1 .. n - it |-> p.layer[it + j]]
  <2>1. From(p, next) = s
    BY <1>1, <1>3 DEF packet_proto_next, From, NULL
  <2>2. From(p, it) = t
    BY <1>1, <1>3 DEF From, NULL
  <2>3. x \in Header
    BY <1>1, <1>3
  <2>4. n - (it + 1) \in Nat /\ n - it \in Nat /\ n - it = 1 + (n - (it + 1))
    BY <1>1, <1>3
  <2>5. s \in Seq(Header) /\ Len(s) = n - (it + 1)
    <3>1. \A j \in 1 .. n - (it + 1) : p.layer[(it + 1) + j] \in Header
      BY <1>1, <2>4
    <3> QED
      BY <2>4, <3>1
  <2>6. t \in Seq(Header) /\ Len(t) = n - it
    <3>1. \A j \in 1 .. n - it : p.layer[it + j] \in Header
      BY <1>1, <2>4
    <3> QED
      BY <2>4, <3>1
  <2>7. \A j \in 1 .. n - it : t[j] = p.layer[it + j]
    OBVIOUS
  <2>8. \A j \in 1 .. n - (it + 1) : s[j] = p.layer[(it + 1) + j]
    OBVIOUS
  <2> HIDE DEF s, t
  <2> DEFINE u == <<x>> \o s
  <2>9. /\ u \in Seq(Header) /\ Len(u) = 1 + (n - (it + 1))
        /\ \A j \in 1 .. Len(u) : u[j] = IF j = 1 THEN x ELSE s[j - 1]
    BY <2>3, <2>5
  <2> HIDE DEF u
  <2>10. Len(u) = Len(t)
    BY <2>4, <2>6, <2>9
  <2>11. \A j \in 1 .. Len(t) : u[j] = t[j]
    <3> SUFFICES ASSUME NEW j \in 1 .. Len(t)
                 PROVE  u[j] = t[j]
      OBVIOUS
    <3>1. CASE j = 1
      BY <2>6, <2>7, <2>9, <2>10, <3>1
    <3>2. CASE j # 1
      <4>1. j - 1 \in 1 .. n - (it + 1) /\ (it + 1) + (j - 1) = it + j
        BY <1>1, <2>4, <2>6, <3>2
      <4>2. u[j] = s[j - 1]
        BY <2>9, <2>10, <3>2
      <4> QED
        BY <2>6, <2>7, <2>8, <4>1, <4>2
    <3> QED
      BY <3>1, <3>2
  <2>12. u = t
    <3>1. u \in Seq(Header) /\ t \in Seq(Header)
      BY <2>6, <2>9
    <3>2. \A j \in 1 .. Len(u) : u[j] = t[j]
      BY <2>10, <2>11
    <3> QED
      BY <2>10, <3>1, <3>2, SeqEqual, Zenon
  <2> QED
    BY <2>1, <2>2, <2>12 DEF u
<1> QED
  BY <1>1, <1>2, <1>3

LEMMA WalkExists ==
    ASSUME NEW p \in Packets, Len(p.layer) <= MAX_LAYERS
    PROVE  \E f : IsWalk(f, p)
<1> DEFINE f == [it \in NULL .. MAX_LAYERS - 1 |-> From(p, it)]
           g == [it \in NULL .. MAX_LAYERS - 1 |->
                    IF it = NULL THEN <<>>
                    ELSE <<p.layer[it + 1]>> \o f[packet_proto_next(p, it)]]
<1>1. ASSUME NEW it \in NULL .. MAX_LAYERS - 1
      PROVE  f[it] = g[it]
  <2>1. CASE it = NULL
    BY <2>1 DEF From
  <2>2. CASE it # NULL
    <3>1. it \in 0 .. MAX_LAYERS - 1
      BY <2>2, SizeAssumption DEF NULL
    <3>2. f[packet_proto_next(p, it)] = From(p, packet_proto_next(p, it))
      BY <3>1, NextIterator
    <3> QED
      BY <2>2, <3>1, <3>2, OneAhead
  <2> QED
    BY <2>1, <2>2
<1>2. f = g
  BY <1>1, Zenon
<1> QED
  BY <1>2, Zenon DEF IsWalk

LEMMA WalkStep ==
    ASSUME NEW p \in Packets, Len(p.layer) <= MAX_LAYERS, NEW f, IsWalk(f, p)
    PROVE  /\ f[NULL] = <<>>
           /\ \A it \in 0 .. MAX_LAYERS - 1 :
                 f[it] = <<p.layer[it + 1]>> \o f[packet_proto_next(p, it)]
<1> DEFINE g == [it \in NULL .. MAX_LAYERS - 1 |->
                    IF it = NULL THEN <<>>
                    ELSE <<p.layer[it + 1]>> \o f[packet_proto_next(p, it)]]
<1>1. f = g
  BY Zenon DEF IsWalk
<1>2. \A it \in NULL .. MAX_LAYERS - 1 :
         g[it] = IF it = NULL THEN <<>>
                 ELSE <<p.layer[it + 1]>> \o f[packet_proto_next(p, it)]
  BY Zenon
<1> HIDE DEF g
<1>3. /\ NULL \in NULL .. MAX_LAYERS - 1
      /\ \A it \in 0 .. MAX_LAYERS - 1 : it \in NULL .. MAX_LAYERS - 1 /\ it # NULL
  BY SizeAssumption DEF NULL
<1> QED
  BY <1>1, <1>2, <1>3, Zenon

(* The loop sees the layers, each once and in their order. *)
LEMMA WalkSeesLayers ==
    ASSUME NEW p \in Packets, Len(p.layer) <= MAX_LAYERS
    PROVE  Walk(p) = p.layer
<1> DEFINE f == CHOOSE h : IsWalk(h, p)
           n == Len(p.layer)
<1>1. IsWalk(f, p)
  BY WalkExists, Zenon
<1>2. Walk(p) = f[packet_proto_first(p)]
  BY Zenon DEF Walk, IsWalk
<1>3. n \in Nat /\ n <= MAX_LAYERS /\ MAX_LAYERS \in Nat /\ p.layer \in Seq(Header)
  BY SizeAssumption DEF Packets
<1> HIDE DEF f
<1>4. /\ f[NULL] = <<>>
      /\ \A it \in 0 .. MAX_LAYERS - 1 :
            f[it] = <<p.layer[it + 1]>> \o f[packet_proto_next(p, it)]
  BY <1>1, WalkStep
<1>5. \A k \in 0 .. n - 1 : f[(n - 1) - k] = From(p, (n - 1) - k)
  <2> DEFINE Bad == {k \in 0 .. n - 1 : f[(n - 1) - k] # From(p, (n - 1) - k)}
  <2> SUFFICES ASSUME Bad # {} PROVE FALSE
    OBVIOUS
  <2>1. Bad \in SUBSET Nat
    OBVIOUS
  <2>2. PICK k \in Bad : \A l \in Bad : k <= l
    BY <2>1, NatMin
  <2> DEFINE it == (n - 1) - k
  <2>3. k \in 0 .. n - 1 /\ f[it] # From(p, it)
    BY <2>2
  <2>4. it \in 0 .. MAX_LAYERS - 1 /\ it \in 0 .. n - 1
    BY <1>3, <2>3
  <2>5. f[packet_proto_next(p, it)] = From(p, packet_proto_next(p, it))
    <3>1. CASE k = 0
      <4>1. packet_proto_next(p, it) = NULL
        BY <1>3, <3>1 DEF packet_proto_next
      <4> QED
        BY <1>4, <4>1 DEF From
    <3>2. CASE k # 0
      <4>1. k - 1 \in 0 .. n - 1 /\ ~(k <= k - 1)
        BY <1>3, <2>3, <3>2
      <4>3. k - 1 \notin Bad
        BY <2>2, <4>1, Zenon
      <4>2. packet_proto_next(p, it) = (n - 1) - (k - 1)
        BY <1>3, <2>3, <3>2 DEF packet_proto_next
      <4> QED
        BY <4>1, <4>2, <4>3
    <3> QED
      BY <3>1, <3>2
  <2> HIDE DEF it
  <2>6. f[it] = From(p, it)
    BY <1>4, <2>4, <2>5, OneAhead
  <2> QED
    BY <2>3, <2>6
<1>6. CASE n = 0
  BY <1>2, <1>3, <1>4, <1>6 DEF packet_proto_first
<1>7. CASE n # 0
  <2>1. packet_proto_first(p) = 0 /\ n - 1 \in 0 .. n - 1 /\ (n - 1) - (n - 1) = 0
    BY <1>3, <1>7 DEF packet_proto_first
  <2>2. Walk(p) = From(p, 0)
    BY <1>2, <1>5, <2>1
  <2>3. From(p, 0) = [j \in 1 .. n |-> p.layer[j]]
    <3>1. \A j \in 1 .. n : 0 + j = j
      OBVIOUS
    <3> QED
      BY <1>3, <1>7, <3>1 DEF From, NULL
  <2>4. p.layer = [j \in 1 .. n |-> p.layer[j]]
    BY <1>3
  <2> QED
    BY <2>2, <2>3, <2>4
<1> QED
  BY <1>6, <1>7
-----------------------------------------------------------------------------
(* The chain of headers the client is shown.                               *)

(* The decoder that runs next reads where the innermost layer ends, and    *)
(* its header may follow that layer's; the options are those of a TCP      *)
(* header; and a decoding has begun.                                       *)
Expected ==
    /\ call.at = "dlt" => call.pos = 0 /\ Own = {} /\ ~seen.lost
    /\ call.at \in Decoders /\ ~seen.lost =>
          IF Own = {} THEN call.pos = 0 /\ Named[call.at] \in {"IP4", "IP6"}
          ELSE /\ call.pos = Innermost.start + Innermost.size
               /\ Named[call.at] \in Chain!Successors[Innermost.protocol]
    /\ call.at \in {"opt", "undefined"} => seen.reached = "TCP"

LEMMA ExpectedInit == Init => Expected
BY DEF Init, Idle, Expected, Decoders

LEMMA ExpectedStep == Typed /\ Lost /\ Expected /\ [Next]_vars => Expected'
<1> SUFFICES ASSUME Typed, Lost, Expected, [Next]_vars
             PROVE  Expected'
  OBVIOUS
<1>1. CASE packet_create \/ packet_destroy
  <2>1. call'.at = "idle"
    BY <1>1 DEF packet_create, packet_destroy, Idle
  <2> QED
    BY <2>1 DEF Expected, Decoders
<1>2. CASE packet_decode
  <2>1. call'.at = "dlt" /\ call'.pos = 0 /\ ~seen'.lost
    BY <1>2, DecodeStep
  <2>2. Own' = {}
    BY <1>2, OwnFresh
  <2> QED
    BY <2>1, <2>2 DEF Expected, Decoders
<1>3. CASE \E on \in BOOLEAN : packet_set_payload(on)
  <2>1. /\ call' = call /\ seen' = seen /\ call.at = "idle"
    BY <1>3, SetPayloadStep DEF packet_set_payload
  <2> QED
    BY <2>1 DEF Expected, Decoders
<1>4. CASE Options
  <2>1. /\ call.at = "opt" /\ SameHistory
        /\ call'.at \in {"opt", "idle", "undefined"}
    BY <1>4, OptionEffects DEF Options, StoresBeyond, Records, Skips, Finishes
  <2> QED
    BY <2>1 DEF Expected, Decoders, SameHistory
<1>5. CASE Opened
  <2>1. /\ call.at = "dlt" /\ call'.at \in {"ip", "ip6"} /\ call'.pos = call.pos
        /\ UNCHANGED <<packet, seen>>
    BY <1>5, OpenedStep DEF Opened, decode_dlt, Typed, Calls
  <2>2. Named[call'.at] \in {"IP4", "IP6"}
    BY <2>1 DEF Named
  <2> QED
    BY <2>1, <2>2 DEF Expected, Own, Decoders
<1>6. CASE Headed /\ Refuses
  BY <1>6 DEF Refuses, Expected, Decoders
<1>7. ASSUME NEW proto \in Protocols, NEW size \in Nat, Headed, Accepts(proto, size)
      PROVE  Expected'
  <2>1. /\ call'.at \in Decoders \cup {"idle", "opt"}
        /\ call'.at = "opt" => seen'.reached = "TCP"
    BY <1>7 DEF Accepts, Transports
  <2>2. ASSUME call'.at \in Decoders, ~seen'.lost
        PROVE  /\ Own' # {} /\ call'.pos = Innermost'.start + Innermost'.size
               /\ Named[call'.at] \in Chain!Successors[Innermost'.protocol]
    <3> DEFINE h == [protocol |-> proto, start |-> call.pos,
                     size |-> size, use |-> seen.uses]
    <3>1. h.protocol = proto /\ h.start = call.pos /\ h.size = size
      OBVIOUS
    <3> HIDE DEF h
    <3>2. Len(packet.layer) # MAX_LAYERS
      BY <1>7, <2>2 DEF Accepts
    <3>3. Innermost' = h /\ Own' # {}
      BY <1>7, <3>2, LayersStep DEF Innermost, h
    <3>4. call'.pos = call.pos + size /\ Named[call'.at] \in Chain!Successors[proto]
      BY <1>7, <2>2 DEF Accepts
    <3> QED
      BY <3>1, <3>3, <3>4
  <2> QED
    BY <2>1, <2>2 DEF Expected, Decoders
<1>8. CASE UNCHANGED vars
  BY <1>8 DEF vars, Expected, Own, Innermost
<1> QED
  BY <1>1, <1>2, <1>3, <1>4, <1>5, <1>6, <1>7, <1>8, StepCases DEF Headed, Decoding

(* What the client is shown: the layers of this decoding, in brief. *)
Brief(h) == [protocol |-> h.protocol, start |-> h.start, size |-> h.size]
Briefs == [protocol : Protocols, start : Nat, size : Nat]
ShowsLayers ==
    /\ Shown \in Seq(Briefs)
    /\ Len(Shown) = Len(packet.layer) - seen.base
    /\ \A k \in 1 .. Len(Shown) : Shown[k] = Brief(packet.layer[seen.base + k])

LEMMA ShownNow == Typed => ShowsLayers
<1> SUFFICES ASSUME Typed
             PROVE  ShowsLayers
  OBVIOUS
<1> DEFINE n == Len(packet.layer) - seen.base
           s == [k \in 1 .. n |-> Brief(packet.layer[seen.base + k])]
<1>1. Walk(packet) = packet.layer
  BY WalkSeesLayers DEF Typed
<1>2. Shown = s
  BY <1>1 DEF Shown, Brief
<1>3. /\ packet.layer \in Seq(Header) /\ Len(packet.layer) \in Nat
      /\ seen.base \in Nat /\ n \in Nat
  BY DEF Typed, Packets, Histories
<1>4. ASSUME NEW k \in 1 .. n
      PROVE  Brief(packet.layer[seen.base + k]) \in Briefs
  <2>1. packet.layer[seen.base + k] \in Header
    BY <1>3
  <2> QED
    BY <2>1 DEF Header, Brief, Briefs
<1>5. s \in Seq(Briefs) /\ Len(s) = n
  <2> HIDE DEF n
  <2> QED
    BY <1>3, <1>4
<1>6. \A k \in 1 .. n : s[k] = Brief(packet.layer[seen.base + k])
  OBVIOUS
<1> QED
  BY <1>2, <1>5, <1>6 DEF ShowsLayers

LEMMA Depths ==
    ASSUME Typed
    PROVE  /\ Len(packet.layer) \in Nat /\ seen.base \in Nat /\ MAX_LAYERS \in Nat
           /\ seen.base <= Len(packet.layer) /\ Len(packet.layer) <= MAX_LAYERS
BY SizeAssumption DEF Typed, Packets, Histories

LEMMA ShownNext == (Typed => ShowsLayers)'
BY ShownNow, PTL

LEMMA LastShown ==
    ASSUME Typed, Own # {}
    PROVE  Shown # <<>> /\ Chain!Last(Shown) = Brief(Innermost)
<1>1. /\ Len(packet.layer) \in Nat /\ seen.base \in Nat
      /\ seen.base < Len(packet.layer)
  BY DEF Typed, Packets, Histories, Own
<1>2. Len(Shown) \in 1 .. Len(Shown) /\ seen.base + Len(Shown) = Len(packet.layer)
  BY <1>1, ShownNow DEF ShowsLayers
<1>3. Shown[Len(Shown)] = Brief(packet.layer[Len(packet.layer)])
  BY <1>2, ShownNow DEF ShowsLayers
<1>4. Shown # <<>>
  BY <1>2
<1> QED
  BY <1>3, <1>4 DEF Chain!Last, Innermost

LEMMA SameShown ==
    ASSUME Typed, Typed', packet'.layer = packet.layer, seen'.base = seen.base
    PROVE  Shown' = Shown
BY ShownNow, ShownNext DEF ShowsLayers

(* A header that fits is one more at the end of what is shown. *)
LEMMA OneMoreShown ==
    ASSUME Typed, Typed', NEW proto \in Protocols, NEW size \in Nat,
           Accepts(proto, size), Len(packet.layer) # MAX_LAYERS
    PROVE  Shown' = Append(Shown, [protocol |-> proto, start |-> call.pos, size |-> size])
<1> DEFINE h == [protocol |-> proto, start |-> call.pos,
                 size |-> size, use |-> seen.uses]
           b == [protocol |-> proto, start |-> call.pos, size |-> size]
           n == Len(packet.layer)
           s == Append(Shown, b)
<1>1. Brief(h) = b
  BY DEF Brief
<1>2. b \in Briefs
  BY DEF Typed, Calls, Briefs
<1>3. /\ Len(packet'.layer) = n + 1 /\ packet'.layer[n + 1] = h
      /\ \A k \in 1 .. n : packet'.layer[k] = packet.layer[k]
  BY LayersStep
<1>4. seen'.base = seen.base
  BY DEF Accepts, SameUse
<1> HIDE DEF h, b
<1>5. n \in Nat /\ seen.base \in Nat /\ seen.base <= n
  BY DEF Typed, Packets, Histories
<1> HIDE DEF n
<1>6. /\ Shown \in Seq(Briefs) /\ Len(Shown) = n - seen.base
      /\ \A k \in 1 .. Len(Shown) : Shown[k] = Brief(packet.layer[seen.base + k])
  BY ShownNow DEF ShowsLayers, n
<1>7. /\ Shown' \in Seq(Briefs) /\ Len(Shown') = (n + 1) - seen.base
      /\ \A k \in 1 .. Len(Shown') : Shown'[k] = Brief(packet'.layer[seen.base + k])
  BY <1>3, <1>4, ShownNext DEF ShowsLayers
<1>8. /\ s \in Seq(Briefs) /\ Len(s) = (n - seen.base) + 1
      /\ s[Len(s)] = b /\ \A k \in 1 .. Len(Shown) : s[k] = Shown[k]
  BY <1>2, <1>6
<1> HIDE DEF s
<1>9. ASSUME NEW k \in 1 .. Len(s)
      PROVE  Shown'[k] = s[k]
  <2>1. CASE k = Len(s)
    <3>1. seen.base + k = n + 1 /\ k \in 1 .. Len(Shown')
      BY <1>5, <1>7, <1>8, <2>1
    <3> QED
      BY <1>1, <1>3, <1>7, <1>8, <2>1, <3>1
  <2>2. CASE k # Len(s)
    <3>1. seen.base + k \in 1 .. n /\ k \in 1 .. Len(Shown') /\ k \in 1 .. Len(Shown)
      <4>1. k \in 1 .. n - seen.base
        BY <1>5, <1>8, <2>2
      <4>2. Len(Shown') \in Nat /\ Len(Shown) \in Nat
        BY <1>6, <1>7
      <4> QED
        BY <1>5, <1>6, <1>7, <4>1, <4>2
    <3> QED
      BY <1>3, <1>6, <1>7, <1>8, <3>1
  <2> QED
    BY <2>1, <2>2
<1>10. Len(Shown') = Len(s)
  BY <1>5, <1>7, <1>8
<1>11. Shown' = s
  BY <1>7, <1>8, <1>9, <1>10
<1> QED
  BY <1>11 DEF s, b

(* A chain that ends with a transport header, an IPv4 header or a fragment *)
(* may be accepted, and one that may have lost its end.                    *)
LEMMA FullChain ==
    ASSUME Typed, Len(packet.layer) = MAX_LAYERS
    PROVE  Len(Shown) = MAX_LAYERS - seen.base
BY ShownNow DEF ShowsLayers

LEMMA OptionsMayEnd ==
    ASSUME Typed, Topmost, seen.reached = "TCP"
    PROVE  Chain!MayAccept(Shown)
<1>1. CASE seen.lost
  BY <1>1, FullChain DEF Topmost, Lost, Chain!MayAccept
<1>2. CASE ~seen.lost
  <2>1. Own # {} /\ Innermost.protocol = "TCP"
    BY <1>2 DEF Topmost, OnTop
  <2> QED
    BY <2>1, LastShown DEF Brief, Chain!MayAccept
<1> QED
  BY <1>1, <1>2
-----------------------------------------------------------------------------
(* The steps of the decoder are steps of the chain.                        *)

Chained == [Chain!Next]_(Chain!vars)

LEMMA ChainStutters ==
    ASSUME Typed, Typed', packet'.layer = packet.layer, seen'.base = seen.base,
           Verdict' = Verdict
    PROVE  Chained
BY SameShown DEF Chained, Chain!vars

LEMMA FreshBegins ==
    ASSUME Typed, Typed', packet_create \/ packet_destroy \/ packet_decode
    PROVE  Chained
<1>1. Verdict # "open"
  BY DEF packet_create, packet_destroy, packet_decode, Verdict
<1>5. /\ Len(packet'.layer) \in Nat /\ seen'.base \in Nat /\ MAX_LAYERS \in Nat
      /\ seen'.base <= Len(packet'.layer) /\ Len(packet'.layer) <= MAX_LAYERS
  BY SizeAssumption DEF Typed, Packets, Histories
<1>2. Shown' = <<>>
  <2>1. Own' = {}
    BY OwnFresh
  <2>2. Len(packet'.layer) - seen'.base = 0
    <3>1. Len(packet'.layer) \notin seen'.base + 1 .. Len(packet'.layer)
      BY <2>1 DEF Own
    <3> QED
      BY <1>5, <3>1
  <2> QED
    BY <2>2, ShownNext DEF ShowsLayers
<1>3. MAX_LAYERS - seen'.base \in 0 .. MAX_LAYERS
  BY <1>5
<1>4. Verdict' \in {"none", "open"}
  <2>1. CASE packet_create \/ packet_destroy
    <3>1. seen'.uses = 0
      BY <2>1 DEF packet_create, packet_destroy, Nothing
    <3> QED
      BY <3>1 DEF Verdict
  <2>2. CASE packet_decode
    <3>1. seen'.uses = seen.uses + 1 /\ call'.at = "dlt" /\ seen.uses \in Nat
      BY <2>2, DecodeStep DEF Typed, Histories
    <3> QED
      BY <3>1 DEF Verdict
  <2> QED
    BY <2>1, <2>2
<1> QED
  BY <1>1, <1>2, <1>3, <1>4 DEF Chained, Chain!Next, Chain!Begin

LEMMA OptionsChain ==
    ASSUME Typed, Typed', Topmost, Expected, Options
    PROVE  Chained
<1>1. /\ call.at = "opt" /\ SamePacket /\ SameHistory /\ call' \in Calls
      /\ call'.at \in {"opt", "idle", "undefined"}
  BY OptionEffects DEF Options, StoresBeyond, Records, Skips, Finishes
<1>2. /\ packet'.layer = packet.layer /\ seen'.base = seen.base
      /\ seen'.uses = seen.uses /\ seen.uses # 0
  BY <1>1 DEF SamePacket, SameHistory, SameUse, Topmost, Unused
<1>3. Verdict = "open"
  BY <1>1, <1>2 DEF Verdict
<1>4. CASE call'.at # "idle"
  BY <1>2, <1>3, <1>4, ChainStutters DEF Verdict
<1>5. CASE call'.at = "idle"
  <2>1. Verdict' \in {"accepted", "rejected"}
    BY <1>2, <1>5 DEF Verdict
  <2>2. Chain!MayAccept(Shown)
    BY <1>1, OptionsMayEnd DEF Expected
  <2>3. Shown' = Shown /\ UNCHANGED (MAX_LAYERS - seen.base)
    BY <1>2, SameShown
  <2> QED
    BY <1>3, <2>1, <2>2, <2>3 DEF Chained, Chain!Next, Chain!Settle
<1> QED
  BY <1>4, <1>5

LEMMA RefusalSettles ==
    ASSUME Typed, Typed', Topmost, Headed, Refuses
    PROVE  Chained
<1>1. /\ packet'.layer = packet.layer /\ seen' = seen
      /\ call'.at = "idle" /\ call'.ret = -1 /\ call.at # "idle" /\ seen.uses # 0
  BY DEF Refuses, SameLayers, Headed, Decoders, Topmost, Unused
<1>2. Verdict = "open" /\ Verdict' = "rejected"
  BY <1>1 DEF Verdict
<1>3. Shown' = Shown /\ UNCHANGED (MAX_LAYERS - seen.base)
  BY <1>1, SameShown
<1> QED
  BY <1>2, <1>3 DEF Chained, Chain!Next, Chain!Settle

LEMMA HeaderExtends ==
    ASSUME Typed, Typed', Topmost, Expected, Headed,
           NEW proto \in Protocols, NEW size \in Nat, Accepts(proto, size)
    PROVE  Chained
<1>1. /\ call.at \in Decoders /\ call.at # "idle" /\ seen.uses # 0
      /\ proto = Named[call.at]
  BY DEF Headed, Decoders, Topmost, Unused, Accepts
<1>2. seen'.base = seen.base /\ seen'.uses = seen.uses
  BY DEF Accepts, SameUse
<1>3. /\ Verdict = "open" /\ Verdict' \in {"open", "accepted", "rejected"}
      /\ Verdict' = "accepted" => proto \in Final
  BY <1>1, <1>2 DEF Verdict, Accepts
<1>4. CASE Len(packet.layer) = MAX_LAYERS
  <2>1. packet'.layer = packet.layer
    BY <1>4, LayersStep
  <2>2. Chain!MayAccept(Shown)
    BY <1>4, FullChain DEF Chain!MayAccept
  <2>3. Shown' = Shown /\ UNCHANGED (MAX_LAYERS - seen.base)
    BY <1>2, <2>1, SameShown
  <2> QED
    BY <1>2, <1>3, <2>1, <2>2, <2>3, ChainStutters DEF Chained, Chain!Next, Chain!Settle
<1>5. CASE Len(packet.layer) # MAX_LAYERS
  <2> DEFINE b == [protocol |-> proto, start |-> call.pos, size |-> size]
  <2>1. Shown' = Append(Shown, b)
    BY <1>5, OneMoreShown
  <2>2. b.protocol = proto /\ b.start = call.pos /\ b.size = size /\ b \in Briefs
    BY DEF Typed, Calls, Briefs
  <2> HIDE DEF b
  <2>3. /\ Shown \in Seq(Briefs) /\ Len(Shown) = Len(packet.layer) - seen.base
    BY ShownNow DEF ShowsLayers
  <2>4. /\ Len(Shown') = Len(Shown) + 1 /\ Shown' # <<>>
        /\ Chain!Last(Shown') = b
    BY <2>1, <2>2, <2>3 DEF Chain!Last
  <2>5. Len(Shown) < MAX_LAYERS - seen.base
    BY <1>5, <2>3, Depths
  <2>6. Chain!Fits(b, Shown)
    <3>1. ~seen.lost
      BY <1>5 DEF Topmost, Lost
    <3>2. CASE Own = {}
      <4>1. Shown = <<>>
        <5>1. Len(packet.layer) \notin seen.base + 1 .. Len(packet.layer)
          BY <3>2 DEF Own
        <5>2. Len(packet.layer) - seen.base = 0
          BY <5>1, Depths
        <5> QED
          BY <2>3, <5>2
      <4>2. call.pos = 0 /\ proto \in {"IP4", "IP6"}
        BY <1>1, <3>1, <3>2 DEF Expected
      <4> QED
        BY <2>2, <4>1, <4>2 DEF Chain!Fits
    <3>3. CASE Own # {}
      <4>1. Shown # <<>> /\ Chain!Last(Shown) = Brief(Innermost)
        BY <3>3, LastShown
      <4>2. /\ call.pos = Innermost.start + Innermost.size
            /\ proto \in Chain!Successors[Innermost.protocol]
        BY <1>1, <3>1, <3>3 DEF Expected
      <4>3. /\ Brief(Innermost).start = Innermost.start
            /\ Brief(Innermost).size = Innermost.size
            /\ Brief(Innermost).protocol = Innermost.protocol
        BY DEF Brief
      <4> QED
        BY <2>2, <4>1, <4>2, <4>3 DEF Chain!Fits
    <3> QED
      BY <3>2, <3>3
  <2>7. Verdict' = "accepted" => Chain!MayAccept(Shown')
    BY <1>3, <2>2, <2>4 DEF Final, Chain!MayAccept
  <2>8. Chain!Extend
    BY <1>2, <1>3, <2>1, <2>4, <2>5, <2>6, <2>7 DEF Chain!Extend
  <2> QED
    BY <2>8 DEF Chained, Chain!Next
<1> QED
  BY <1>4, <1>5

LEMMA StepsChain ==
    Typed /\ Typed' /\ Topmost /\ Expected /\ [Next]_vars => Chained
<1> SUFFICES ASSUME Typed, Typed', Topmost, Expected, [Next]_vars
             PROVE  Chained
  OBVIOUS
<1>1. CASE packet_create \/ packet_destroy \/ packet_decode
  BY <1>1, FreshBegins
<1>2. CASE \E on \in BOOLEAN : packet_set_payload(on)
  <2>1. packet'.layer = packet.layer /\ call' = call /\ seen' = seen
    BY <1>2, SetPayloadStep DEF SamePacket
  <2> QED
    BY <2>1, ChainStutters DEF Verdict
<1>3. CASE Opened
  <2>1. /\ packet' = packet /\ seen' = seen
        /\ call.at # "idle" /\ call'.at # "idle"
    BY <1>3, OpenedStep DEF Decoders
  <2>2. Verdict' = Verdict
    BY <2>1 DEF Verdict
  <2> QED
    BY <2>1, <2>2, ChainStutters
<1>4. CASE Options
  BY <1>4, OptionsChain
<1>5. CASE Headed /\ Refuses
  BY <1>5, RefusalSettles
<1>6. ASSUME NEW proto \in Protocols, NEW size \in Nat, Headed, Accepts(proto, size)
      PROVE  Chained
  BY <1>6, HeaderExtends
<1>7. CASE UNCHANGED vars
  BY <1>7, ChainStutters DEF vars, Verdict
<1> QED
  BY <1>1, <1>2, <1>3, <1>4, <1>5, <1>6, <1>7, StepCases DEF Headed, Decoding

(* The decoder implements HeaderChain: what a client walks through is a    *)
(* chain of headers that only grows until the verdict, each header begins  *)
(* where the one before it ends and is of a kind bind_ip or bind_ip6 has a *)
(* decoder for, and the verdict is justified, for any number of layers and *)
(* any contents of the headers.                                            *)
THEOREM Refinement == Spec => ImplementsHeaderChain
<1> DEFINE Inv == Typed /\ Passing /\ Topmost /\ Expected
<1>1. Init => Inv
  BY TypedInit, PassingInit, TopmostInit, ExpectedInit
<1>2. Inv /\ [Next]_vars => Inv'
  BY TypedStep, PassingStep, TopmostStep, ExpectedStep DEF Topmost
<1>3. Init => Chain!Init
  <2> SUFFICES ASSUME Init
               PROVE  Chain!Init
    OBVIOUS
  <2>1. Len(packet.layer) = 0 /\ seen.base = 0 /\ seen.uses = 0
    BY FreshTypes DEF Init, Nothing
  <2>2. Len(Shown) = 0 /\ Shown \in Seq(Briefs)
    BY <2>1, TypedInit, ShownNow DEF ShowsLayers
  <2>3. Shown = <<>> /\ MAX_LAYERS - seen.base = MAX_LAYERS
    BY <2>1, <2>2, SizeAssumption
  <2> QED
    BY <2>1, <2>3 DEF Chain!Init, Verdict
<1>4. Inv /\ Inv' /\ [Next]_vars => Chained
  BY StepsChain
<1> QED
  BY <1>1, <1>2, <1>3, <1>4, PTL DEF Spec, ImplementsHeaderChain, Chain!Spec, Chained
=============================================================================
