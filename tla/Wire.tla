-------------------------------- MODULE Wire ---------------------------------
(***************************************************************************)
(* Packets between two programs that use jpcap: one sends a Packet object, *)
(* the other captures the frame and gets an object again, which it may     *)
(* dump to a file or send on.  Frames of others are captured as well.      *)
(***************************************************************************)
EXTENDS Headers, TLC

CONSTANTS
  Packets,  (* bound: the objects the first program sends                  *)
  Strange,  (* bound: frames of other programs                             *)
  Junk,     (* bound: words that uninitialised memory may hold             *)
  MaxHops   (* bound: how often a packet is captured                       *)

MAX_PACKET_SIZE == 1600

IsIP(p) == p.class \in {"IPPacket", "TCPPacket", "UDPPacket", "ICMPPacket"}

(* What the fields of an object hold: numbers of Java, of which the header *)
(* gets as many bits as it has, and addresses of the version.  A label of  *)
(* more bits than IPv6 gives it is one that was received, without a class. *)
Pairs == [1 .. 2 -> Words]
Addresses(p) == IF p.version = 4 THEN Pairs ELSE [1 .. 8 -> Words]

HoldsIP(p) ==
  /\ p.version \in {4, 6}
  /\ p.src \in Addresses(p) /\ p.dst \in Addresses(p)
  /\ p.flow_label \in Pairs /\ (p.flow_label[1] < 16 \/ p.priority = 0)
  /\ p.offset \in 0 .. 2^13 - 1
  /\ {p.priority, p.rsv_tos, p.ident, p.hop_limit, p.protocol} \subseteq Int

HoldsTCP(p) ==
  /\ p.sequence \in Pairs /\ p.ack_num \in Pairs
  /\ {p.src_port, p.dst_port, p.window, p.urgent_pointer} \subseteq Int

HoldsICMP(p) ==
  /\ {p.type, p.code} \subseteq -(2^7) .. 2^7 - 1 /\ {p.id, p.seq} \subseteq Int
  /\ p.type = REDIRECT => p.redir_ip \in Pairs
  /\ p.type \in MASK => p.subnetmask \in Pairs
  /\ p.type \in TIMESTAMP => {p.orig_timestamp, p.recv_timestamp, p.trans_timestamp} \subseteq Pairs
  /\ p.ippacket # <<>> => p.ippacket[1].version = 4 /\ HoldsIP(p.ippacket[1])

HoldsARP(p) ==
  /\ {p.hardtype, p.prototype, p.operation} \subseteq Int /\ p.hlen = 6 /\ p.plen = 4
  /\ p.sender_hardaddr \in [1 .. 3 -> Words] /\ p.sender_protoaddr \in Pairs
  /\ p.target_hardaddr \in [1 .. 3 -> Words] /\ p.target_protoaddr \in Pairs

HeaderOf(p) ==
  CASE p.class = "TCPPacket"                   -> TCPHDRLEN
    [] p.class \in {"UDPPacket", "ICMPPacket"} -> 8
    [] OTHER                                   -> 0

(* An object that fits the buffer and says what it is: its EtherType is    *)
(* that of its class, a datagram of a transport protocol is of its class,  *)
(* or a fragment wherever it comes, and ICMP goes over IPv4.  Data over    *)
(* IPv6 that begin with an extension header are not followed.              *)
IsPacket(p) ==
  /\ p.class \in {"Packet", "ARPPacket"} \/ IsIP(p)
  /\ p.frametype \in Int
  /\ p.class = "ARPPacket" => U16(p.frametype) = ARP /\ HoldsARP(p)
  /\ p.class = "Packet" =>
       /\ U16(p.frametype) \notin {IP, IPV6, ARP, REVARP, ICMP, TCP, UDP, UNKNOWN_PROTO}
       /\ p.data \in Seq(Bytes) /\ 14 + Len(p.data) <= MAX_PACKET_SIZE
  /\ IsIP(p) =>
       /\ HoldsIP(p)
       /\ U16(p.frametype) = IF p.version = 4 THEN IP ELSE IPV6
       /\ p.data \in Seq(Bytes)
       /\ (IF p.version = 4 THEN 34 ELSE 54) + HeaderOf(p) + Len(p.data) <= MAX_PACKET_SIZE
  /\ p.class = "IPPacket" /\ U8(p.protocol) \in {ICMP, TCP, UDP} =>
       p.version = 4 /\ Swap16(p.offset) % 8192 # 0
  /\ p.class = "IPPacket" /\ p.version = 6 => U8(p.protocol) \notin IPPROTO_EXT
  /\ p.class = "TCPPacket" => HoldsTCP(p)
  /\ p.class = "UDPPacket" => {p.src_port, p.dst_port} \subseteq Int
  /\ p.class = "ICMPPacket" => p.version = 4 /\ HoldsICMP(p)

(* The driver has delivered the link header of every frame; and a frame is *)
(* as IsFrame and IsWalk say, which leaves no content out.                 *)
ASSUME JunkAssumption    == Junk \subseteq Words
ASSUME PacketsAssumption == \A p \in Packets : IsPacket(p)
ASSUME StrangeAssumption ==
  \A f \in Strange : IsFrame(f) /\ IsWalk(f) /\ datalink_hlen(f) <= f.caplen

VARIABLES
  at,       (* "start", "wire", "received" or "overheard"                  *)
  packet,   (* the object that was sent, or the last one received          *)
  frame,    (* the frame on the wire or in the file                        *)
  hops,
  sent,     (* history: the object the first program sent                  *)
  first     (* history: the object that was first received                 *)

vars == <<at, packet, frame, hops, sent, first>>

None  == [class |-> "none"]

-----------------------------------------------------------------------------
(* set_packet, below the link header: the parts of the frame.              *)
Protocol(p) ==
  CASE p.class = "TCPPacket"  -> TCP
    [] p.class = "UDPPacket"  -> UDP
    [] p.class = "ICMPPacket" -> ICMP
    [] OTHER                  -> U8(p.protocol)

Transport(p, ip, j) ==
  CASE p.class = "TCPPacket"  -> [tr |-> set_tcp(p, ip, j), body |-> p.data]
    [] p.class = "UDPPacket"  -> [tr |-> set_udp(p, ip), body |-> p.data]
    [] p.class = "ICMPPacket" -> set_icmp(p, j)
    [] OTHER                  -> [tr |-> <<>>, body |-> p.data]

LengthOf(t) == 2 * Len(t.tr) + Len(t.body)
Doff(p)     == IF p.class = "TCPPacket" THEN 5 ELSE 0

(* off, whose offset is in network order, is turned; the checksum comes    *)
(* last.                                                                   *)
Turned(off) == Swap16(off)

Network4(p, ip, t) ==
  LET n == 20 + LengthOf(t)
      h == [ip EXCEPT !.len = U16(n), !.off = Swap16(Turned(ip.off)), !.p = Protocol(p),
                      !.caplen = n, !.doff = Doff(p), !.tr = t.tr, !.body = t.body]
  IN  [h EXCEPT !.sum = in_cksum(IPWords(h), <<>>, 0)]

(* The payload length includes the header and is stored as it is.          *)
Network6(p, ip, t) ==
  LET n == 40 + LengthOf(t)
  IN  [ip EXCEPT !.nxt = Protocol(p), !.plen = Swap16(U16(n)),
                 !.caplen = n, !.doff = Doff(p), !.tr = t.tr, !.body = t.body]

set_packet(p, j) ==
  CASE IsIP(p) /\ p.version = 4 -> Network4(p, set_ip(p), Transport(p, set_ip(p), j))
    [] IsIP(p) /\ p.version # 4 -> Network6(p, set_ipv6(p), Transport(p, set_ipv6(p), j))
    [] p.class = "ARPPacket"    ->
         [Blank EXCEPT !.hln = U8(p.hlen), !.pln = U8(p.plen), !.caplen = 2 * Len(set_arp(p)),
                       !.tr = set_arp(p)]
    [] OTHER -> [Blank EXCEPT !.caplen = Len(p.data), !.body = p.data]

Zeros(n) == [i \in 1 .. n |-> 0]

(* nativeSendPacket: with the Ethernet header, filled up to 60 bytes.      *)
nativeSendPacket(p, j) ==
  LET s   == set_packet(p, j)
      pad == IF 14 + s.caplen < 60 THEN 46 - s.caplen ELSE 0
  IN  [s EXCEPT !.lt = EN10MB, !.type = U16(p.frametype), !.caplen = 14 + s.caplen + pad,
                !.body = s.body \o Zeros(pad)]

(* nativeSendPacketViaRawSocket: neither.                                  *)
nativeSendPacketViaRawSocket(p, j) == [set_packet(p, j) EXCEPT !.lt = RAW]

-----------------------------------------------------------------------------
(* get_packet: the object for a frame all of whose bytes are known.        *)
BytesOf(words) ==
  [i \in 1 .. 2 * Len(words) |->
     IF i % 2 = 1 THEN words[(i + 1) \div 2] \div 256 ELSE words[i \div 2] % 256]

analyze_datalink(f) == IF f.lt = EN10MB THEN S16(f.type) ELSE 0

Network(f) ==
  CASE nproto(f) = IP   -> analyze_ip(f)
    [] nproto(f) = IPV6 -> analyze_ipv6(f)
    [] nproto(f) = ARP  -> analyze_arp(f)
    [] OTHER            -> <<>>

AnalyzedTransport(f, class, j) ==
  CASE class = "TCPPacket"  -> analyze_tcp(f)
    [] class = "UDPPacket"  -> analyze_udp(f)
    [] class = "ICMPPacket" -> analyze_icmp(f, Cut(f, j) - NetworkHlen(f), j)
    [] OTHER                -> <<>>

get_packet(f, j) ==
  LET parts == Parts(f, j)
      start == parts.start - Skipped(f) - NetworkHlen(f)
      below == BytesOf(f.tr) \o f.body
      datalink ==
        [class |-> Class(f, j), frametype |-> analyze_datalink(f), caplen |-> f.caplen,
         header |-> parts.header,
         data |-> IF nproto(f) = ARP THEN <<>> ELSE SubSeq(below, start + 1, start + parts.data)]
  IN  Merge(datalink, Merge(Network(f), AnalyzedTransport(f, Class(f, j), j)))

writePacketData(f, p, j) ==   \* mutant: the header is not copied first
  LET from == f.caplen - Len(f.body)
  IN  [f EXCEPT !.body = [i \in DOMAIN f.body |->
                            IF from + i <= Len(p.data) THEN f.body[i] ELSE j % 256]]
(* writePacket: header and data go into a buffer of which caplen bytes are *)
(* written to the file; what the object does not hold is junk there.       *)
writePacket(f, p, j) ==
  LET kept == p.header + Len(p.data)
      from == f.caplen - Len(f.body)
  IN  [f EXCEPT !.body = [i \in DOMAIN f.body |->
                            IF from + i <= kept THEN f.body[i] ELSE j % 256]]

-----------------------------------------------------------------------------
Init ==
  /\ at = "start"
  /\ packet = None /\ frame = Blank /\ sent = None /\ first = None
  /\ hops = 0

Send(p) ==
  /\ at = "start"
  /\ \E j \in Junk :
       \/ frame' = nativeSendPacket(p, j)
       \/ /\ IsIP(p) /\ p.version = 4
          /\ frame' = nativeSendPacketViaRawSocket(p, j)
  /\ at' = "wire"
  /\ packet' = p /\ sent' = p
  /\ UNCHANGED <<hops, first>>

Receive ==
  /\ at = "wire"
  /\ \E j \in Junk : packet' = get_packet(frame, j)
  /\ first' = IF first = None THEN packet' ELSE first
  /\ at' = "received"
  /\ UNCHANGED <<frame, hops, sent>>

(* The object that was received is sent, as it is.                         *)
Forward ==
  /\ at = "received" /\ hops < MaxHops /\ frame.lt = EN10MB
  /\ \E j \in Junk : frame' = nativeSendPacket(packet, j)
  /\ at' = "wire"
  /\ hops' = hops + 1
  /\ UNCHANGED <<packet, sent, first>>

(* It is written to a file, which is opened and read.                      *)
Dump ==
  /\ at = "received" /\ hops < MaxHops
  /\ \E j \in Junk : frame' = writePacket(frame, packet, j)
  /\ at' = "wire"
  /\ hops' = hops + 1
  /\ UNCHANGED <<packet, sent, first>>

(* A frame from elsewhere, of which only class and parts are followed.     *)
Overhear(f) ==
  /\ at = "start"
  /\ \E j \in Junk :
       packet' = [class |-> Class(f, j), tproto |-> tproto(f, j),
                  header |-> Parts(f, j).header, dataLength |-> Parts(f, j).data]
  /\ frame' = f
  /\ at' = "overheard"
  /\ UNCHANGED <<hops, sent, first>>

Next ==
  \/ \E f \in Strange : Overhear(f)
  \/ \E p \in Packets : Send(p)
  \/ Receive \/ Forward \/ Dump

Spec == Init /\ [][Next]_vars
-----------------------------------------------------------------------------
(* Of a frame from elsewhere:                                              *)
Overheard == at = "overheard"
Family == {"IPPacket", "TCPPacket", "UDPPacket", "ICMPPacket"}

(* The class of the object does not depend on what the uninitialised       *)
(* tproto holds, however the frame was cut off.                            *)
ClassIsDetermined ==
  Overheard => \A j \in Junk : Class(frame, j) = packet.class

(* The casts of Arp.run and Ip.run succeed: what Ethernet calls ARP is an  *)
(* ARPPacket, and what it calls IP an IPPacket, however it was cut off.    *)
CastsSucceed ==
  Overheard /\ frame.lt = EN10MB =>
    /\ frame.type = ARP => packet.class = "ARPPacket"
    /\ frame.type = IP  => packet.class \in Family

(* An object of a transport class stems from a frame that holds a complete *)
(* header of that protocol; or get_packet was misled, by one of 802.3      *)
(* whose length, 1, 6 or 17, it takes for a protocol, or by one that says  *)
(* it is IPv6 with extension headers and has another version.  So IPv6     *)
(* with extension headers never gets a transport class, whatever is in it. *)
Misled(f, proto) ==
  \/ nproto(f) = proto
  \/ nproto(f) = IPV6 /\ f.nxt \in IPPROTO_EXT /\ f.flow[1] \div 4096 # 6

Stems(class, proto, hlen) ==
  packet.class = class => Carries(frame, proto, hlen) \/ Misled(frame, proto)

TransportIsReal ==
  Overheard =>
    /\ Stems("TCPPacket", TCP, TCPHDRLEN)
    /\ Stems("UDPPacket", UDP, UDPHDRLEN)
    /\ Stems("ICMPPacket", ICMP, ICMPHDRLEN)

(* Of a whole frame, header and data are the bytes up to the end of the    *)
(* datagram, without the padding; of one that is cut off, those captured,  *)
(* unless get_packet has no protocol for it: then it believes the length.  *)
(* A length that a short cannot hold counts as greater than any.  If these *)
(* bytes are more than a short can count, the length of the header may     *)
(* come out negative, and then there is no header; it does so only then.   *)
PartsAreTheDatagram ==
  Overheard =>
    LET size    == packet.header + packet.dataLength
        trusted == UNKNOWN_PROTO \in {packet.tproto, nproto(frame)}
        fits    == Announced(frame) >= 0
        due     == IF fits /\ (trusted \/ Whole(frame)) THEN Datagram(frame) ELSE frame.caplen
    IN  fits \/ ~trusted =>
          /\ packet.dataLength >= 0
          /\ packet.header >= 0 => size = due
          /\ due < 2^15 /\ NetworkHlen(frame) >= 0 => packet.header >= 0

Sent4 == at = "wire" /\ IsIP(packet) /\ packet.version = 4

(* The receiver of a frame accepts its checksums: that of IP, those of TCP *)
(* and UDP for data of any length, and that of ICMP for an even length;    *)
(* and no UDP datagram says that it has none.                              *)
AcceptsTransport(f, class) ==
  LET size   == f.len - 20
      data   == SubSeq(f.body, 1, size - 2 * Len(f.tr))
      pseudo == f.src \o f.dst \o <<f.p, size>>
  IN  /\ class \in {"TCPPacket", "UDPPacket"} => Accepts(pseudo \o f.tr, data)
      /\ class = "UDPPacket" => f.tr[4] # 0
      /\ class = "ICMPPacket" /\ f.tr # <<>> /\ size % 2 = 0 => Accepts(f.tr, data)

PeerAccepts ==
  Sent4 => /\ Accepts(IPWords(frame) \o <<frame.sum>>, <<>>)
           /\ AcceptsTransport(frame, packet.class)

IPFields  == {"version", "hop_limit", "src", "dst"}
IP4Fields == {"priority", "tos", "rsv_tos", "ident"}
TCPFields == {"src_port", "dst_port", "sequence", "ack_num", "flags", "window", "urgent_pointer"}
UDPFields == {"src_port", "dst_port"}
ARPFields == {"hardtype", "prototype", "hlen", "plen", "operation", "sender_hardaddr",
              "sender_protoaddr", "target_hardaddr", "target_protoaddr"}
ICMPFields == {"type", "code"}

Kept(fields) == \A x \in fields : packet[x] = sent[x]

(* The length of IPv6, header included and its bytes as they lie in memory, *)
(* plus a header: a receiver that finds less than was sent leaves the rest. *)
LengthSuffices(p) ==
  p.version = 4 \/
  LET n    == 40 + LengthOf(Transport(p, set_ipv6(p), 0))
      seen == S16(Swap16(n)) + 40
  IN  seen < 0 \/ n <= seen

DataArrives ==
  IF sent.version = 4 \/ frame.caplen > 60
  THEN packet.data = sent.data
  ELSE IsPrefix(sent.data, packet.data)

(* What arrives with its fields: no fragment, no unknown ICMP message.     *)
Known(p) ==
  /\ IsIP(p) => p.offset = 0
  /\ p.class = "ICMPPacket" => p.type \in Handled

(* A header has fewer bits than the number of Java that is written to it.  *)
Shorts == -(2^15) .. 2^15 - 1
FitsHeader(p) ==
  /\ IsIP(p) => p.hop_limit \in Bytes
  /\ IsIP(p) /\ p.version = 4 =>
       /\ p.priority \in 0 .. 7 /\ p.tos \subseteq TOS /\ p.rsv_tos \in 0 .. 3
       /\ p.ident \in Shorts
  /\ p.class = "TCPPacket" =>
       /\ {p.src_port, p.dst_port, p.window} \subseteq Words
       /\ p.urgent_pointer \in Shorts /\ p.flags \subseteq 0 .. 7
  /\ p.class = "UDPPacket" => {p.src_port, p.dst_port} \subseteq Words
  /\ p.class = "ARPPacket" =>
       {p.frametype, p.hardtype, p.prototype, p.operation} \subseteq Shorts

(* The protocol as it is read: that of IPv6 is cast to a signed byte.      *)
ProtocolRead(p) == IF p.version = 4 THEN Protocol(p) ELSE S8(Protocol(p))

(* What is sent arrives, whichever way and however often it is dumped or   *)
(* sent on: the class, the data, and the fields that are named.  The       *)
(* exceptions are fragments, ICMP of types that set_icmp does not know,    *)
(* data over IPv6 whose length reads as a smaller one, and numbers that do *)
(* not fit their places in the header, of which the low bits arrive.       *)
RoundTrip ==
  at = "received" /\ Known(sent) /\ FitsHeader(sent) =>
    /\ packet.class = sent.class
    /\ IsIP(sent) => Kept(IPFields) /\ packet.protocol = ProtocolRead(sent)
    /\ IsIP(sent) /\ sent.version = 4 => Kept(IP4Fields)
    /\ IsIP(sent) /\ (sent.class = "ICMPPacket" => sent.type \in ECHO) /\ LengthSuffices(sent) =>
         DataArrives
    /\ sent.class = "TCPPacket"  => Kept(TCPFields)
    /\ sent.class = "UDPPacket"  => Kept(UDPFields)
    /\ sent.class = "ICMPPacket" => Kept(ICMPFields)
    /\ sent.class = "ARPPacket"  => Kept(ARPFields \cup {"frametype"})

(* And what never arrives: the fragmentation flags, the bytes of an offset *)
(* in their order, the class of IPv6, all but one byte of the identifier   *)
(* of an echo, the datagram in an ICMP error, the end of the data over     *)
(* IPv6 when its length reads as a smaller one.                            *)
WhatIsLost ==
  at = "received" =>
    /\ IsIP(sent) /\ sent.offset = 0 => packet.frag = {}
    /\ IsIP(sent) /\ sent.version = 4 /\ hops = 0 =>
         packet.offset = Swap16(sent.offset) % 8192
    /\ IsIP(sent) /\ sent.version = 6 => packet.priority = 0
    /\ sent.class = "ICMPPacket" /\ Known(sent) =>
         /\ sent.type \in ECHO   => packet.id = S8(sent.id)
         /\ sent.type \in ERRORS => ~packet.hasInner
    /\ IsIP(sent) /\ ~LengthSuffices(sent) /\ hops = 0 => Len(packet.data) < Len(sent.data)

(* What the comments of the classes promise, and does not arrive: the      *)
(* fragmentation flags and the class of IPPacket, the identifier and the   *)
(* number of ICMPPacket, and all of the data.                              *)
NothingIsLost ==
  at = "received" /\ hops = 0 /\ Known(sent) /\ FitsHeader(sent) =>
    /\ IsIP(sent) => packet.priority = sent.priority
    /\ IsIP(sent) /\ sent.version = 4 => packet.frag = sent.frag
    /\ sent.class = "ICMPPacket" /\ sent.type \in ECHO =>
         packet.id = sent.id /\ packet.seq = sent.seq
    /\ IsIP(sent) /\ sent.class # "ICMPPacket" => IsPrefix(sent.data, packet.data)

(* After the first reception nothing changes any more, but for the         *)
(* checksum of an echo, whose identifier has changed; fragments and the    *)
(* other ICMP messages do change, and data that IPv6 cut off gets shorter. *)
Settles(p) ==
  /\ p.class = "ICMPPacket" => p.type \in ECHO
  /\ IsIP(p) => p.offset = 0 /\ LengthSuffices(p)
ForwardIsStable ==
  at = "received" /\ Settles(sent) =>
    /\ DOMAIN packet = DOMAIN first
    /\ \A x \in DOMAIN first \ {"checksum"} : packet[x] = first[x]
=============================================================================
