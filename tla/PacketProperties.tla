-------------------------- MODULE PacketProperties --------------------------
(***************************************************************************)
(* What the packet decoder guarantees, and how far: nothing clears a       *)
(* Packet between two captures, so several promises are made for its first *)
(* use only, and for decodings that lost no layer.                         *)
(***************************************************************************)
EXTENDS PacketDecoder

(* The members keep their types, and there are never more layers than the  *)
(* array of packet_private.h:58 has room for.                              *)
TypeOK ==
    /\ packet.live \in BOOLEAN /\ packet.mf \in BOOLEAN /\ packet.alt \in BOOLEAN
    /\ packet.version \in {0, 4, 6}
    /\ packet.offset \in Short
    /\ packet.payload \in Nat /\ packet.paysize \in 0 .. Word - 1
    /\ packet.tcpopt_count \in Nat
    /\ Len(packet.layer) <= MAX_LAYERS
    /\ packet.transport \in 0 .. Len(packet.layer)
    /\ call.at \in Decoders \cup {"idle", "dlt", "opt", "undefined"}
    /\ call.ret \in {0, -1}

(* The layers this decoding added, by number; the innermost layer. *)
Own == seen.base + 1 .. Len(packet.layer)
Innermost == packet.layer[Len(packet.layer)]

(* n bytes hold a header: its fixed part and the length it states.  With   *)
(* two exceptions: nobody compares the length a TCP header states          *)
(* (tcp.c:123), and nobody asks for the fixed part of an IPv4 header, only *)
(* for the length it states (ip4.c:66), which may be less.                 *)
FixedPart == [IP4 |-> 20, IP6 |-> 40, RTE |-> 8, FRAG |-> 8, EXT |-> 2,
              UDP |-> 8, TCP |-> 20]
Holds(n, proto, size) ==
    /\ proto = "TCP" \/ size <= n
    /\ (proto = "IP4" /\ size < 20) \/ FixedPart[proto] <= n

(* The bytes from the start of a recorded header to the end of the capture *)
(* hold it, to the extent just said, however headers are nested, cut or    *)
(* lost; and the length left, which is unsigned, never wraps around.       *)
HeadersInside ==
    /\ call.at \in Decoders => call.pos + call.len = seen.captured
                               /\ call.len >= 0
    /\ \A k \in Own :
          LET h == packet.layer[k]
          IN  Holds(seen.captured - h.start, h.protocol, h.size)

(* The payload is the rest of the datagram.  It ends where the innermost    *)
(* IP header says, as what a decoder adds to payload it takes from paysize, *)
(* twice and swapped in decode_ip6_ext too.  It begins where the innermost *)
(* header ends, unless an option header went by, which moves it too far    *)
(* (ip6.c:151), or a layer was lost.                                       *)
PayloadIsRest ==
    /\ (packet.payload + packet.paysize) % Word = seen.end % Word
    /\ packet.live /\ ~seen.drift /\ ~seen.lost =>
          packet.payload = IF Own = {} THEN 0 ELSE Innermost.start + Innermost.size

(* After a decoding that recorded a transport header the TCP accessors     *)
(* read that header, its fixed part whole, if it is TCP, and nothing if it *)
(* is UDP, though transport is set from whatever layer is on top           *)
(* (tcp.c:121).  After any other decoding they read nothing in a Packet    *)
(* used once; in one used again they may still read the header of an       *)
(* earlier capture, which packet_decode does not clear, but none of this.  *)
AccessorsReadTcp ==
    call.at = "idle" =>
        /\ seen.reached = "TCP" /\ ~seen.lost => TcpHeaders(packet) # {}
        /\ \A h \in TcpHeaders(packet) :
              \/ /\ seen.reached = "TCP" /\ ~seen.lost
                 /\ h.use = seen.uses /\ h.start + 20 <= seen.captured
              \/ /\ seen.reached = "none" \/ seen.lost
                 /\ h.use \in 1 .. seen.uses - 1

(* A decoding that goes on to a transport header passed no fragment, but   *)
(* for the IPv6 fragments whose offset lies in the bits the mask of        *)
(* ip6.c:116 drops.                                                        *)
HiddenOffsets == {512, 1024, 1536}
FragmentsStop ==
    seen.reached # "none" =>
        seen.pieces \subseteq {"FRAG"} \X HiddenOffsets

(* The options that are read fit the array without a test of their number, *)
(* because each takes a byte of a block no longer than the array; unless   *)
(* one gives its length as 0, or tcpopt_count did not start at 0, which    *)
(* packet_create does not see to.                                          *)
OptionsFit ==
    call.at = "undefined" => seen.stalled \/ seen.opts # 0

(* A decoding comes to an end, because every header and option takes some  *)
(* bytes: unless one says that it takes none (an ip_hl of 0, an option of  *)
(* length 0), or an option is stored beyond its array because              *)
(* tcpopt_count did not start at 0.                                        *)
DecodeReturns ==
    call.at # "idle" ~> \/ call.at = "idle" \/ seen.stalled
                        \/ call.at = "undefined" /\ seen.opts # 0

(* Seen through packet_proto_first and packet_proto_next, the layers of a  *)
(* decoding are a chain of headers, and its verdict is justified.          *)
Shown ==
    LET walk == Walk(packet)
    IN  [k \in 1 .. Len(walk) - seen.base |->
           LET h == walk[seen.base + k]
           IN  [protocol |-> h.protocol, start |-> h.start, size |-> h.size]]
Verdict == IF seen.uses = 0 THEN "none"
           ELSE IF call.at # "idle" THEN "open"
           ELSE IF call.ret = 0 THEN "accepted" ELSE "rejected"

Chain == INSTANCE HeaderChain WITH chain <- Shown,
            room <- MAX_LAYERS - seen.base, verdict <- Verdict
ImplementsHeaderChain == Chain!Spec
=============================================================================
