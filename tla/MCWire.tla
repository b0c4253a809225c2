------------------------------- MODULE MCWire --------------------------------
EXTENDS Wire

A4 == <<49320, 1>>          \* 192.168.0.1
B4 == <<49320, 65535>>      \* 192.168.255.255
A6 == <<65152, 0, 0, 0, 517, 4607, 65041, 1>>
B6 == <<65152, 0, 0, 0, 0, 0, 0, 2>>

Four ==
  [frametype |-> 2048, version |-> 4, priority |-> 0, tos |-> {}, rsv_tos |-> 0,
   frag |-> {}, offset |-> 0, ident |-> 27061, hop_limit |-> 100, protocol |-> 17,
   flow_label |-> <<0, 0>>, src |-> A4, dst |-> B4, data |-> <<>>]
Six ==
  [Four EXCEPT !.frametype = 34525 - 65536, !.version = 6, !.src = A6, !.dst = B6, !.protocol = 59]

AsTCP(p) ==
  p @@ [class |-> "TCPPacket", src_port |-> 12, dst_port |-> 80, sequence |-> <<0, 56>>,
        ack_num |-> <<0, 78>>, flags |-> {4}, window |-> 10, urgent_pointer |-> 10]
AsUDP(p) == p @@ [class |-> "UDPPacket", src_port |-> 1, dst_port |-> 65535]
AsIP(p)  == p @@ [class |-> "IPPacket"]
AsICMP(p) ==
  p @@ [class |-> "ICMPPacket", type |-> 8, code |-> 0, id |-> 3, seq |-> 4,
        redir_ip |-> <<1, 2>>, ippacket |-> <<>>, subnetmask |-> <<65535, 65280>>,
        orig_timestamp |-> <<0, 123>>, recv_timestamp |-> <<1, 789>>,
        trans_timestamp |-> <<65535, 456>>]

With(p) ==
  {[p EXCEPT !.priority = 7], [p EXCEPT !.tos = {2, 4}], [p EXCEPT !.rsv_tos = 3, !.flow_label = <<12, 13398>>],
   [p EXCEPT !.frag = {14}], [p EXCEPT !.frag = {13, 15}], [p EXCEPT !.ident = -2],
   [p EXCEPT !.hop_limit = 255], [p EXCEPT !.hop_limit = 0]}
DataOf(p) == {[p EXCEPT !.data = d] : d \in {<<>>, <<255>>, <<1, 128>>, <<0, 0, 9>>, Zeros(49)}}

Generic ==
  {[AsIP(p) EXCEPT !.protocol = n] : p \in {Four, Six}, n \in {2, 59, 200}}
UNIONOf(S) == UNION {With(p) \cup DataOf(p) : p \in S}

TCPs ==
  LET p == AsTCP(Four)
  IN  {[p EXCEPT !.flags = s] : s \in {{}, 0 .. 7, {7, 0}}} \cup
      {[p EXCEPT !.src_port = w, !.window = w] : w \in {0, 255, 256, 32768, 65535}} \cup
      {[p EXCEPT !.urgent_pointer = w] : w \in {-1, 32767, -32768}} \cup
      {[p EXCEPT !.sequence = <<w, 65535 - w>>] : w \in {0, 1, 32768, 65535}}
(* With 126, 135 the sum is all ones and the checksum zero.                *)
UDPs == {[AsUDP(Four) EXCEPT !.data = <<126, m>>] : m \in {134, 135, 136}}
ICMPs ==
  {[AsICMP(Four) EXCEPT !.type = t, !.data = d, !.ippacket = o] :
     t \in {0, 3, 5, 8, 12, 13, 15, 18}, d \in {<<>>, <<7>>, Zeros(9)}, o \in {<<>>, <<Four>>}}
  \cup {[AsICMP(Four) EXCEPT !.id = n, !.seq = n, !.data = <<1, 2>>] : n \in {999, -129, 127}}
Fragments ==
  {[AsUDP(Four) EXCEPT !.offset = n] : n \in {1, 32, 256, 8191}}
  \cup {[p EXCEPT !.offset = 33] : p \in {AsICMP(Four), AsTCP(Four), AsUDP(Six)}}
(* 256 bytes of IPv6, which read as 1, and their neighbours.              *)
Long == {[AsTCP(Six) EXCEPT !.data = Zeros(n)] : n \in {195, 196, 197}}
ARPs ==
  {[class |-> "ARPPacket", frametype |-> 2054, hardtype |-> 1, prototype |-> 2048,
    hlen |-> 6, plen |-> 4, operation |-> n, sender_hardaddr |-> <<1, 2, 3>>,
    sender_protoaddr |-> A4, target_hardaddr |-> <<0, 0, 0>>, target_protoaddr |-> B4] :
     n \in {1, 2}}
Others == DataOf([class |-> "Packet", frametype |-> 34988 - 65536, data |-> <<>>])

MCPackets ==
  UNIONOf({AsTCP(Four), AsTCP(Six), AsUDP(Four), AsUDP(Six)} \cup Generic)
  \cup TCPs \cup UDPs \cup ICMPs \cup ARPs \cup Others \cup Fragments \cup Long

(* Frames of others: lengths at the edges of each check.                   *)
StrangeIP ==
  {[Blank EXCEPT !.lt = l, !.type = IP, !.caplen = c, !.hl = h, !.len = n, !.off = o,
                 !.p = p, !.doff = 15] :
     l \in {EN10MB, IEEE802, RAW}, c \in {22, 34, 41, 42, 54, 60, 32768, 40014},
     h \in {5, 15}, n \in {20, 28, 40, 1500, 40000}, o \in {0, 8192, 185},
     p \in {ICMP, 2, TCP, UDP}}
StrangeIP6 ==
  {[Blank EXCEPT !.type = IPV6, !.caplen = c, !.flow = <<256 * v + 1, 0>>, !.nxt = n,
                 !.plen = l, !.xlen = IF n \in IPPROTO_EXT THEN x ELSE 0, !.doff = 5] :
     c \in {14, 54, 55, 62, 74, 94, 40014}, v \in {TCP, UDP, 50, 96, 111},
     n \in {0, 44, 51, TCP, UDP, 59}, l \in {0, 8, 20, 40, 40000}, x \in {8, 32728}}
(* The walk goes on behind a first header that says it is one of options,  *)
(* authentication or a fragment, and ends where it hits another protocol.  *)
Walks(v) == {<<<<v, 0>>, <<p, 2>>>> : p \in {ICMP, TCP, 59}} \cup {<<<<UDP, 255>>>>}
StrangeWalks ==
  UNION {{[Blank EXCEPT !.type = IPV6, !.caplen = c, !.flow = <<256 * v, 0>>, !.nxt = 60,
                        !.plen = 40, !.xlen = 8, !.doff = 5, !.walk = w] :
            c \in {63, 71, 94, 300}, w \in Walks(u)} : v \in {0, 44, 51}, u \in {0, 44, 51}}
StrangeARP ==
  {[Blank EXCEPT !.type = ARP, !.caplen = c, !.hln = h, !.pln = 4] :
     c \in {14, 20, 41, 42, 43, 60, 40014}, h \in {6, 8}}
StrangeOthers ==
  {[Blank EXCEPT !.lt = l, !.type = t, !.caplen = c, !.doff = 5] :
     l \in {EN10MB, IEEE802, 9}, t \in {0, 1, 6, 17, 38, REVARP, 34988, 65535},
     c \in {22, 23, 29, 30, 33, 34, 60, 40014}}

MCStrange == StrangeIP \cup StrangeIP6 \cup StrangeWalks \cup StrangeARP \cup StrangeOthers
=============================================================================
