------------------------------ MODULE MCPacket ------------------------------
(***************************************************************************)
(* Values for the constants of PacketDecoder: for every field the values   *)
(* its decoder tells apart.                                                *)
(***************************************************************************)
EXTENDS PacketProperties

(* IPv4: whole datagrams with no header length, with one less than what is *)
(* read of a header, and with the usual one; of a length less than that, a *)
(* short one, a long one; first and later fragments.                       *)
Whole    == [hl : {0, 5}, len : {16, 60}, off : {16384},
             next : {"tcp", "udp", "ip", "ip6", "sctp"}]
Short4   == [hl : {1}, len : {16}, off : {16384}, next : {"udp"}]
Pieces   == [hl : {0, 5}, len : {16, 60}, off : {8192, 185}, next : {"tcp"}]
Ip4Headers == Whole \cup Short4 \cup Pieces
Uppers     == {"rte", "frag", "ext", "tcp", "udp", "ip", "ip6"}
Ip6Headers == [plen : {28}, next : Uppers]
Extensions == [len : {0, 1}, next : Uppers]
(* A whole packet; a first fragment; offsets the mask keeps, drops, and     *)
(* takes for the flag.                                                     *)
Fragments  == [offlg : {0, 1, 512, 256}, next : Uppers]
(* A header shorter than 20 bytes, one without options, with 8 and 12 bytes *)
(* of options.                                                             *)
TcpHeaderSizes == [off : {4, 5, 7, 8}]
(* No operation, maximum segment size, selective acknowledgement, unknown. *)
TcpOptions == [type : {1}, second : {0}] \cup [type : {2}, second : {0, 4}]
              \cup [type : {5}, second : {0, 6}] \cup [type : {254}, second : {2, 12}]

(* Enough for every nesting of headers first, for one header and a         *)
(* transport header above it when the packet is used again.                *)
TwoUses == <<{68}, {40}>>

Everything == [ip |-> Ip4Headers, ip6 |-> Ip6Headers, rte |-> Extensions,
               frag |-> Fragments, ext |-> Extensions, udp |-> [sum : {0, 1}],
               tcp |-> TcpHeaderSizes, opt |-> TcpOptions]
=============================================================================
