------------------------------ MODULE GetPacket ------------------------------
(***************************************************************************)
(* get_packet of JpcapCaptor.c: from a frame to the class of a Packet      *)
(* object and to the parts of the frame that become its header and its     *)
(* data.  A frame is a record; its fields are the numbers in it that steer *)
(* get_packet, each as ntohs gives it:                                     *)
(*   lt      the link type of the handle          caplen  bytes captured   *)
(*   type    the word at offset_type: EtherType, or the length in 802.3    *)
(*   hl len off p          of an IPv4 header                               *)
(*   flow nxt plen         of an IPv6 header; xlen is the length that      *)
(*                         analyze_ipv6 finds of its extension headers     *)
(*   hln pln               of an ARP message      doff    of a TCP header  *)
(* walk is what get_packet's own walk over extension headers reads behind  *)
(* the first header it reads: pairs of a protocol and a length.  junk is   *)
(* what the uninitialised variable tproto happens to hold.                 *)
(***************************************************************************)
EXTENDS Words, Sequences

IP     == 2048
ARP    == 2054
REVARP == 32821
IPV6   == 34525
ICMP   == 1
TCP    == 6
UDP    == 17
UNKNOWN_PROTO == 65535
TCPHDRLEN  == 20
UDPHDRLEN  == 8
ICMPHDRLEN == 8
EN10MB  == 1
IEEE802 == 6
RAW     == 12

(* The numbers that a frame can hold, of which at most 65535 bytes (the    *)
(* length Physical asks for) are captured.                                 *)
IsFrame(f) ==
  /\ f.lt \in Nat /\ f.type \in Words /\ f.caplen \in Words
  /\ f.hl \in 0 .. 15 /\ f.len \in Words /\ f.off \in Words /\ f.p \in Bytes
  /\ f.nxt \in Bytes /\ f.plen \in Words /\ f.xlen \in Nat
  /\ f.hln \in Bytes /\ f.pln \in Bytes /\ f.doff \in 0 .. 15

FRAGMENT == 44
AH       == 51
IPPROTO_EXT == {0, 43, FRAGMENT, AH, 60}   \* and HOPOPTS, ROUTING, DSTOPTS
ESP_OR_NONE == {50, 59}

datalink_hlen(f) ==
  CASE f.lt = EN10MB -> 14 [] f.lt = IEEE802 -> 22 [] OTHER -> 0

nproto(f) ==
  CASE f.lt = RAW               -> IP
    [] f.lt \in {IEEE802, EN10MB} -> f.type
    [] OTHER                    -> UNKNOWN_PROTO

IsFragment(f) == f.off % 8192 # 0

-----------------------------------------------------------------------------
(* clen and tproto after the analysis of the network protocol.             *)
LinkClen(f) == S16(S16(f.caplen) - datalink_hlen(f))

(* The walk over the IPv6 extension headers.  It starts at the IPv6 header *)
(* itself and takes its first byte, of which nobody has checked that it    *)
(* holds the version, for the next protocol: with a 6 in it, it is 96 to   *)
(* 111, and the walk ends; otherwise it may be a transport protocol, or    *)
(* one more extension header, and the walk goes on over the bytes it hits. *)
Ended(w) == w.proto \notin IPPROTO_EXT \/ w.clen <= 0

ReadHeader(w, proto, length) ==
  IF Ended(w) THEN w
  ELSE [proto |-> IF proto \in ESP_OR_NONE THEN UNKNOWN_PROTO ELSE proto,
        clen  |-> w.clen - CASE w.proto = AH       -> 4 * (length + 2)
                             [] w.proto = FRAGMENT -> 8
                             [] OTHER              -> 8 * (length + 1)]

ReadIP6(f) ==
  ReadHeader([proto |-> f.nxt, clen |-> LinkClen(f) - 40], f.flow[1] \div 256, f.flow[1] % 256)

Walked(f) ==
  IF Ended(ReadIP6(f)) THEN ReadIP6(f)
  ELSE LET after[n \in 0 .. Len(f.walk)] ==
             IF n = 0 THEN ReadIP6(f)
             ELSE ReadHeader(after[n - 1], f.walk[n][1], f.walk[n][2])
       IN  after[Len(f.walk)]

(* A frame holds the bytes that the walk over it reads.                    *)
IsWalk(f) ==
  nproto(f) = IPV6 =>
    /\ f.flow \in [1 .. 2 -> Words]
    /\ f.walk \in Seq(Bytes \X Bytes)
    /\ Ended(Walked(f))

NetworkClen(f) ==
  IF LinkClen(f) <= 0 THEN LinkClen(f)
  ELSE CASE nproto(f) = IP   -> LinkClen(f) - 4 * f.hl
         [] nproto(f) = IPV6 -> Walked(f).clen
         [] nproto(f) = ARP  -> LinkClen(f) - 28
         [] OTHER            -> LinkClen(f)

DetectedInFragment(f) == IF NetworkClen(f) > 0 THEN f.p ELSE IP   \* mutant: no offset test
DetectedIP(f) == IF NetworkClen(f) > 0 /\ ~IsFragment(f) THEN f.p ELSE IP
DetectedIP6(f, junk) == IF LinkClen(f) - 40 > 0 THEN Walked(f).proto ELSE junk

Detected(f, junk) ==
  IF LinkClen(f) <= 0 THEN junk
  ELSE CASE nproto(f) = IP   -> DetectedIP(f)
         [] nproto(f) = IPV6 -> DetectedIP6(f, junk)
         [] nproto(f) = ARP  -> IF NetworkClen(f) > 0 THEN ARP ELSE junk
         [] OTHER            -> nproto(f)

(* The check for a header that is cut off.                                 *)
TruncatedButUDP(proto, clen) ==   \* mutant: UDP is not checked
  \/ proto = TCP /\ clen < TCPHDRLEN
  \/ proto = ICMP /\ clen < ICMPHDRLEN
Truncated(proto, clen) ==
  \/ proto = TCP /\ clen < TCPHDRLEN
  \/ proto = UDP /\ clen < UDPHDRLEN
  \/ proto = ICMP /\ clen < ICMPHDRLEN

tproto(f, junk) ==
  IF Truncated(Detected(f, junk), NetworkClen(f))
  THEN UNKNOWN_PROTO
  ELSE Detected(f, junk)

Class(f, junk) ==
  CASE tproto(f, junk) = TCP              -> "TCPPacket"
    [] tproto(f, junk) = UDP              -> "UDPPacket"
    [] tproto(f, junk) = ICMP             -> "ICMPPacket"
    [] OTHER ->
       CASE nproto(f) \in {IP, IPV6}      -> "IPPacket"
         [] nproto(f) \in {ARP, REVARP}   -> "ARPPacket"
         [] OTHER                         -> "Packet"

-----------------------------------------------------------------------------
(* The bytes that become header and data.  The length in the header        *)
(* replaces clen and is cut to what was captured, but not when tproto is   *)
(* unknown.                                                                *)
AnnouncedWithoutHeader(f) ==   \* mutant: the payload length of IPv6 as it is
  CASE nproto(f) = IP            -> S16(f.len)
    [] nproto(f) = IPV6          -> S16(f.plen)
    [] nproto(f) = ARP           -> 8 + 2 * f.hln + 2 * f.pln
    [] nproto(f) = UNKNOWN_PROTO -> S16(f.caplen)
    [] OTHER                     -> S16(f.caplen - datalink_hlen(f))
Announced(f) ==
  CASE nproto(f) = IP            -> S16(f.len)
    [] nproto(f) = IPV6          -> S16(S16(f.plen) + 40)
    [] nproto(f) = ARP           -> 8 + 2 * f.hln + 2 * f.pln
    [] nproto(f) = UNKNOWN_PROTO -> S16(f.caplen)
    [] OTHER                     -> S16(f.caplen - datalink_hlen(f))

NetworkHlen(f) ==
  CASE nproto(f) = IP   -> 4 * f.hl
    [] nproto(f) = IPV6 -> S16(40 + f.xlen)
    [] nproto(f) = ARP  -> 8 + 2 * f.hln + 2 * f.pln
    [] OTHER            -> 0

Skipped(f) == IF nproto(f) = UNKNOWN_PROTO THEN 0 ELSE datalink_hlen(f)

MustCut(f, junk) ==
  /\ UNKNOWN_PROTO \notin {nproto(f), tproto(f, junk)}
  /\ UnsignedGreater(Announced(f), f.caplen - datalink_hlen(f))

Cut(f, junk) ==
  IF MustCut(f, junk) THEN S16(f.caplen - datalink_hlen(f)) ELSE Announced(f)

TransportHlen(f, junk) ==
  CASE tproto(f, junk) = TCP           -> 4 * f.doff
    [] tproto(f, junk) \in {UDP, ICMP} -> 8
    [] OTHER                           -> 0

(* The header is cut off when the datagram ends before it does.  Its       *)
(* length is a short: of a negative one no array can be made.              *)
Parts(f, junk) ==
  LET rest  == S16(Cut(f, junk) - NetworkHlen(f))
      hlen  == TransportHlen(f, junk)
      cut   == IF hlen > rest THEN rest ELSE hlen
      start == Skipped(f) + NetworkHlen(f) + cut
  IN  [header |-> S16(start), start |-> start, data |-> rest - cut]

-----------------------------------------------------------------------------
(* What the parts should be: the bytes the frame says it has.              *)
Datagram(f) ==
  CASE nproto(f) = IP   -> Skipped(f) + f.len
    [] nproto(f) = IPV6 -> Skipped(f) + U16(f.plen + 40)
    [] nproto(f) = ARP  -> Skipped(f) + NetworkHlen(f)
    [] OTHER            -> f.caplen

Whole(f) == Datagram(f) <= f.caplen

(* The frame holds a transport header of the protocol, from its first byte *)
(* to its last.                                                            *)
Carries(f, proto, hlen) ==
  \/ /\ nproto(f) = IP
     /\ f.p = proto /\ ~IsFragment(f)
     /\ f.caplen - datalink_hlen(f) - 4 * f.hl >= hlen
  \/ /\ nproto(f) = IPV6
     /\ f.nxt = proto
     /\ f.caplen - datalink_hlen(f) - 40 >= hlen
=============================================================================
