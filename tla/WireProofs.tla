----------------------------- MODULE WireProofs ------------------------------
(***************************************************************************)
(* What get_packet makes of any frame, for every value of its numbers and  *)
(* of the uninitialised memory; and that what is sent is accepted, for     *)
(* every object, whichever way it goes.                                    *)
(***************************************************************************)
EXTENDS Wire, FiniteSetTheorems, WellFoundedInduction, SequenceTheorems, TLAPS

-----------------------------------------------------------------------------
(* Words and casts to short.                                               *)
LEMMA WordRange ==
  ASSUME NEW w \in Words
  PROVE  w \in Int /\ 0 <= w /\ w < 65536
  BY DEF Words

(* What a cast to short can give.                                          *)
LEMMA ShortRange ==
  ASSUME NEW n \in Int
  PROVE  S16(n) \in Int /\ -32768 <= S16(n) /\ S16(n) < 32768
  BY DEF S16, U16

(* A number that fits is cast to itself.                                   *)
LEMMA ShortIsSame ==
  ASSUME NEW n \in Int, -32768 <= n, n < 32768
  PROVE  S16(n) = n
  BY DEF S16, U16

(* clen after the link header.                                             *)
LEMMA ShortOfShort ==
  ASSUME NEW c \in Int, 0 <= c, c < 65536, NEW d \in {0, 14, 22}
  PROVE  S16(S16(c) - d) \in {c - d, c - d - 65536}
<1>1. CASE c < 32768
  <2>1. S16(c) = c
    BY <1>1, ShortIsSame
  <2> QED
    BY <1>1, <2>1, ShortIsSame
<1>2. CASE c >= 32768
  <2>1. S16(c) = c - 65536
    BY <1>2 DEF S16, U16
  <2>2. CASE c - 65536 - d >= -32768
    BY <2>1, <2>2, ShortIsSame
  <2>3. CASE c - 65536 - d < -32768
    <3>1. (c - 65536 - d) % 65536 = c - d
      BY <2>3, <1>2
    <3> QED
      BY <2>1, <2>3, <3>1 DEF S16, U16
  <2> QED
    BY <2>1, <2>2, <2>3
<1> QED
  BY <1>1, <1>2

(* The numbers of a frame, as get_packet reads them.                       *)
LEMMA FrameNumbers ==
  ASSUME NEW f, IsFrame(f)
  PROVE  /\ datalink_hlen(f) \in {0, 14, 22}
         /\ f.caplen \in Int /\ 0 <= f.caplen /\ f.caplen < 65536
         /\ f.hl \in Int /\ 0 <= f.hl /\ f.hl <= 15
         /\ f.doff \in Int /\ 0 <= f.doff /\ f.doff <= 15
         /\ f.p \in Int /\ f.nxt \in Int
<1>1. f.caplen \in Words /\ f.hl \in 0 .. 15 /\ f.doff \in 0 .. 15
      /\ f.p \in Bytes /\ f.nxt \in Bytes
  BY DEF IsFrame
<1>2. f.caplen \in Int /\ 0 <= f.caplen /\ f.caplen < 65536
  BY <1>1, WordRange
<1>3. f.p \in Int /\ f.nxt \in Int
  BY <1>1 DEF Bytes
<1>4. datalink_hlen(f) \in {0, 14, 22}
  BY DEF datalink_hlen
<1> QED
  BY <1>1, <1>2, <1>3, <1>4

(* What get_packet takes for the captured length, layer by layer.          *)
LEMMA LengthsAreInt ==
  ASSUME NEW f, IsFrame(f)
  PROVE  /\ LinkClen(f) \in Int
         /\ LinkClen(f) <= 0 => NetworkClen(f) = LinkClen(f)
         /\ nproto(f) # IPV6 => NetworkClen(f) \in Int
<1>1. datalink_hlen(f) \in Int /\ f.caplen \in Int /\ f.hl \in Int
  BY FrameNumbers
<1>2. LinkClen(f) \in Int
  BY <1>1, ShortRange DEF LinkClen
<1> QED
  BY <1>1, <1>2 DEF NetworkClen

(* Without extension headers, or without bytes for them, the walk stays    *)
(* where it starts.                                                        *)
LEMMA NoWalk ==
  ASSUME NEW f, LinkClen(f) - 40 <= 0 \/ f.nxt \notin IPPROTO_EXT
  PROVE  Walked(f) = [proto |-> f.nxt, clen |-> LinkClen(f) - 40]
<1> DEFINE w == [proto |-> f.nxt, clen |-> LinkClen(f) - 40]
<1>1. Ended(w)
  BY DEF Ended
<1>2. ReadIP6(f) = w
  BY <1>1 DEF ReadIP6, ReadHeader
<1> QED
  BY <1>1, <1>2 DEF Walked

(* Over a header of version 6 it never meets a transport protocol.         *)
LEMMA VersionEndsWalk ==
  ASSUME NEW f, IsWalk(f), nproto(f) = IPV6, LinkClen(f) \in Int, LinkClen(f) - 40 > 0,
         f.nxt \in IPPROTO_EXT, f.flow[1] \div 4096 = 6
  PROVE  Walked(f).proto \notin {TCP, UDP, ICMP}
<1> DEFINE w  == [proto |-> f.nxt, clen |-> LinkClen(f) - 40]
           pr == f.flow[1] \div 256
<1>1. f.flow[1] \in Int /\ 0 <= f.flow[1] /\ f.flow[1] < 65536
  BY WordRange DEF IsWalk
<1>2. pr \in Int /\ 96 <= pr /\ pr <= 111
  BY <1>1
<1>3. ~Ended(w)
  BY DEF Ended
<1> HIDE DEF pr
<1>4. ReadIP6(f).proto = pr
  <2>1. pr \notin ESP_OR_NONE
    BY <1>2 DEF ESP_OR_NONE
  <2> QED
    BY <1>3, <2>1 DEF ReadIP6, ReadHeader, pr
<1>5. pr \notin IPPROTO_EXT /\ pr \notin {TCP, UDP, ICMP}
  BY <1>2 DEF IPPROTO_EXT, FRAGMENT, AH, TCP, UDP, ICMP
<1>6. Ended(ReadIP6(f))
  BY <1>4, <1>5 DEF Ended
<1>7. Walked(f) = ReadIP6(f)
  BY <1>6 DEF Walked
<1> QED
  BY <1>4, <1>5, <1>7

(* Where tproto is not initialised, clen is too small for any transport    *)
(* header, so that the check for truncation replaces what matters.         *)
LEMMA JunkIsChecked ==
  ASSUME NEW f, IsFrame(f), NEW junk \in Words, NEW proto \in {TCP, UDP, ICMP}
  PROVE  /\ tproto(f, junk) = proto =>
              /\ Detected(f, junk) = proto /\ ~Truncated(proto, NetworkClen(f))
              /\ LinkClen(f) > 0 /\ (nproto(f) = IPV6 => LinkClen(f) - 40 > 0)
              /\ \A other \in Words : tproto(f, other) = proto
<1> SUFFICES ASSUME tproto(f, junk) = proto
             PROVE  /\ Detected(f, junk) = proto /\ ~Truncated(proto, NetworkClen(f))
                    /\ LinkClen(f) > 0 /\ (nproto(f) = IPV6 => LinkClen(f) - 40 > 0)
                    /\ \A other \in Words : tproto(f, other) = proto
  OBVIOUS
<1>1. proto # UNKNOWN_PROTO
  BY DEF TCP, UDP, ICMP, UNKNOWN_PROTO
<1>2. Detected(f, junk) = proto /\ ~Truncated(proto, NetworkClen(f))
  BY <1>1 DEF tproto
<1>3. LinkClen(f) \in Int
  BY LengthsAreInt
<1>4. NetworkClen(f) \in Int => NetworkClen(f) > 0
  BY <1>2 DEF Truncated, TCP, UDP, ICMP, TCPHDRLEN, UDPHDRLEN, ICMPHDRLEN
<1>5. LinkClen(f) > 0
  BY <1>3, <1>4, LengthsAreInt
<1>6. ASSUME nproto(f) = IPV6, LinkClen(f) - 40 <= 0 PROVE FALSE
  <2>1. NetworkClen(f) = LinkClen(f) - 40
    BY <1>3, <1>5, <1>6, NoWalk DEF NetworkClen, IP, IPV6, ARP
  <2> QED
    BY <1>3, <1>4, <1>6, <2>1
<1>7. ASSUME NEW other \in Words PROVE Detected(f, other) = Detected(f, junk)
  <2>1. CASE nproto(f) = IPV6
    <3>1. LinkClen(f) - 40 > 0
      BY <1>3, <1>6, <2>1
    <3> QED
      BY <1>3, <1>5, <2>1, <3>1 DEF Detected, DetectedIP6, IP, IPV6, ARP
  <2>2. CASE nproto(f) # IPV6
    <3>1. NetworkClen(f) > 0
      BY <1>4, <2>2, LengthsAreInt
    <3> QED
      BY <1>3, <1>5, <2>2, <3>1 DEF Detected
  <2> QED
    BY <2>1, <2>2
<1> QED
  BY <1>1, <1>2, <1>3, <1>5, <1>6, <1>7 DEF tproto

(* So the class is the same whatever the memory holds.                     *)
LEMMA ClassIsUnique ==
  ASSUME NEW f, IsFrame(f), NEW i \in Words, NEW j \in Words
  PROVE  Class(f, i) = Class(f, j)
<1>1. \A proto \in {TCP, UDP, ICMP} : (tproto(f, i) = proto) <=> (tproto(f, j) = proto)
  BY JunkIsChecked
<1> QED
  BY <1>1 DEF Class

-----------------------------------------------------------------------------
(* What is known of the state: the object belongs to the frame.            *)
Belongs(p, f, j) ==
  /\ p.class = Class(f, j) /\ p.tproto = tproto(f, j)
  /\ p.header = Parts(f, j).header /\ p.dataLength = Parts(f, j).data
OInv == Overheard => frame \in Strange /\ \E j \in Junk : Belongs(packet, frame, j)

(* The first state has overheard nothing.                                  *)
LEMMA OInvInit == Init => OInv
  BY DEF Init, OInv, Overheard

(* Only overhearing sets the object and the frame it belongs to.           *)
LEMMA OInvNext == OInv /\ [Next]_vars => OInv'
<1> SUFFICES ASSUME OInv, [Next]_vars PROVE OInv'
  OBVIOUS
<1>1. ASSUME NEW p \in Packets, Send(p) PROVE OInv'
  BY <1>1 DEF Send, OInv, Overheard
<1>2. ASSUME NEW f \in Strange, Overhear(f) PROVE OInv'
  BY <1>2 DEF Overhear, OInv, Overheard, Belongs
<1>3. CASE Receive
  BY <1>3 DEF Receive, OInv, Overheard
<1>4. CASE Forward
  BY <1>4 DEF Forward, OInv, Overheard
<1>5. CASE Dump
  BY <1>5 DEF Dump, OInv, Overheard
<1>6. CASE UNCHANGED vars
  BY <1>6 DEF vars, OInv, Overheard, Belongs
<1> QED
  BY <1>1, <1>2, <1>3, <1>4, <1>5, <1>6 DEF Next

(* An object made from a frame of another program is one that get_packet   *)
(* makes of that frame, whatever the uninitialised memory held.            *)
THEOREM Overhearing == Spec => []OInv
  BY OInvInit, OInvNext, PTL DEF Spec

-----------------------------------------------------------------------------
(* The class of an object never depends on uninitialised memory.           *)
THEOREM ClassDetermined == Spec => []ClassIsDetermined
<1>1. OInv => ClassIsDetermined
  BY ClassIsUnique, StrangeAssumption, JunkAssumption
     DEF OInv, ClassIsDetermined, Overheard, Belongs
<1> QED
  BY <1>1, Overhearing, PTL

(* The casts of Arp.run and Ip.run never fail.                             *)
THEOREM CastsAlwaysSucceed == Spec => []CastsSucceed
<1>1. ASSUME NEW f, IsFrame(f), f.lt = EN10MB, NEW j \in Words
      PROVE  /\ f.type = ARP => Class(f, j) = "ARPPacket"
             /\ f.type = IP => Class(f, j) \in Family
  <2>1. nproto(f) = f.type
    BY <1>1 DEF nproto, EN10MB, RAW, IEEE802
  <2>2. f.type = IP => Class(f, j) \in Family
    BY <2>1 DEF Class, Family, TCP, UDP, ICMP, IP, IPV6, ARP, REVARP
  <2>3. ASSUME f.type = ARP
        PROVE  tproto(f, j) \notin {TCP, UDP, ICMP}
    <3> SUFFICES ASSUME NEW proto \in {TCP, UDP, ICMP}, tproto(f, j) = proto
                 PROVE  FALSE
      OBVIOUS
    <3>1. Detected(f, j) = proto /\ LinkClen(f) > 0 /\ LinkClen(f) \in Int
      BY <1>1, JunkIsChecked, LengthsAreInt
    <3>2. NetworkClen(f) \in Int
      BY <1>1, <2>1, <2>3, LengthsAreInt DEF ARP, IPV6
    <3>3. NetworkClen(f) > 0
      BY <1>1, <3>2, JunkIsChecked
         DEF Truncated, TCP, UDP, ICMP, TCPHDRLEN, UDPHDRLEN, ICMPHDRLEN
    <3>4. Detected(f, j) = ARP
      BY <2>1, <2>3, <3>1, <3>3 DEF Detected, ARP, IP, IPV6
    <3> QED
      BY <3>1, <3>4 DEF ARP, TCP, UDP, ICMP
  <2>4. f.type = ARP => Class(f, j) = "ARPPacket"
    BY <2>1, <2>3 DEF Class, ARP, REVARP, IP, IPV6
  <2> QED
    BY <2>2, <2>4
<1>2. OInv => CastsSucceed
  BY <1>1, StrangeAssumption, JunkAssumption DEF OInv, CastsSucceed, Overheard, Belongs
<1> QED
  BY <1>2, Overhearing, PTL

(* What detects a transport protocol is a header of it that was captured,  *)
(* but for lengths of 802.3 and for extension headers.                     *)
LEMMA DetectedProtocol ==
  ASSUME NEW f, IsFrame(f), NEW j \in Words, NEW proto \in {TCP, UDP, ICMP},
         tproto(f, j) = proto
  PROVE  \/ Carries(f, proto, IF proto = TCP THEN 20 ELSE 8)
         \/ nproto(f) = proto
         \/ /\ nproto(f) = IPV6 /\ f.nxt \in IPPROTO_EXT /\ Walked(f).proto = proto
            /\ LinkClen(f) \in Int /\ LinkClen(f) - 40 > 0
<1>1. /\ Detected(f, j) = proto /\ ~Truncated(proto, NetworkClen(f))
      /\ LinkClen(f) > 0 /\ (nproto(f) = IPV6 => LinkClen(f) - 40 > 0)
  BY JunkIsChecked
<1>2. LinkClen(f) \in Int
  BY LengthsAreInt
<1>3. NetworkClen(f) \in Int => NetworkClen(f) >= IF proto = TCP THEN 20 ELSE 8
  BY <1>1 DEF Truncated, TCP, UDP, ICMP, TCPHDRLEN, UDPHDRLEN, ICMPHDRLEN
<1>4. datalink_hlen(f) \in {0, 14, 22} /\ f.caplen \in Int /\ 0 <= f.caplen /\ f.caplen < 65536
  BY FrameNumbers
<1>5. LinkClen(f) <= f.caplen - datalink_hlen(f)
  BY <1>1, <1>2, <1>4, ShortOfShort DEF LinkClen
<1>6. CASE nproto(f) = IP
  <2>1. NetworkClen(f) = LinkClen(f) - 4 * f.hl
    BY <1>1, <1>2, <1>6 DEF NetworkClen, IP, IPV6, ARP
  <2>2. NetworkClen(f) \in Int
    BY <1>6, LengthsAreInt DEF IP, IPV6
  <2>3. f.p = proto /\ ~IsFragment(f)
    BY <1>1, <1>2, <1>6, <2>2 DEF Detected, DetectedIP, IP, IPV6, ARP, TCP, UDP, ICMP
  <2>4. f.caplen - datalink_hlen(f) - 4 * f.hl >= IF proto = TCP THEN 20 ELSE 8
    BY <1>2, <1>3, <1>4, <1>5, <2>1, <2>2, FrameNumbers
  <2> QED
    BY <1>6, <2>3, <2>4 DEF Carries
<1>7. CASE nproto(f) = IPV6
  <2>1. Walked(f).proto = proto
    BY <1>1, <1>2, <1>7 DEF Detected, DetectedIP6, IP, IPV6, ARP
  <2>2. CASE f.nxt \in IPPROTO_EXT
    BY <1>1, <1>2, <1>7, <2>1, <2>2
  <2>3. CASE f.nxt \notin IPPROTO_EXT
    <3>1. Walked(f) = [proto |-> f.nxt, clen |-> LinkClen(f) - 40]
      BY <2>3, NoWalk
    <3>2. NetworkClen(f) = LinkClen(f) - 40
      BY <1>1, <1>2, <1>7, <3>1 DEF NetworkClen, IP, IPV6, ARP
    <3>3. f.caplen - datalink_hlen(f) - 40 >= IF proto = TCP THEN 20 ELSE 8
      BY <1>2, <1>3, <1>4, <1>5, <3>2
    <3> QED
      BY <1>7, <2>1, <3>1, <3>3 DEF Carries
  <2> QED
    BY <2>2, <2>3
<1>8. CASE nproto(f) \notin {IP, IPV6}
  <2>1. NetworkClen(f) > 0
    BY <1>3, <1>8, LengthsAreInt
  <2>2. nproto(f) # ARP
    BY <1>1, <1>2, <2>1 DEF Detected, ARP, IP, IPV6, TCP, UDP, ICMP
  <2> QED
    BY <1>1, <1>2, <1>8, <2>2 DEF Detected, IP, IPV6, ARP
<1> QED
  BY <1>6, <1>7, <1>8

(* So get_packet finds a header of the protocol, or is misled.             *)
LEMMA CarriedProtocol ==
  ASSUME NEW f, IsFrame(f), IsWalk(f), NEW j \in Words, NEW proto \in {TCP, UDP, ICMP},
         tproto(f, j) = proto
  PROVE  Carries(f, proto, IF proto = TCP THEN 20 ELSE 8) \/ Misled(f, proto)
  BY DetectedProtocol, VersionEndsWalk DEF Misled

(* A transport class needs a complete header of that protocol, or a frame  *)
(* that misleads get_packet: a length of 802.3, or another version of IP   *)
(* under the type of IPv6.                                                 *)
THEOREM TransportAlwaysReal == Spec => []TransportIsReal
<1>1. ASSUME OInv, Overheard PROVE TransportIsReal
  <2>1. PICK j \in Junk : Belongs(packet, frame, j)
    BY <1>1 DEF OInv
  <2>2. IsFrame(frame) /\ IsWalk(frame) /\ j \in Words
    BY <1>1, <2>1, StrangeAssumption, JunkAssumption DEF OInv
  <2>3. packet.class = Class(frame, j)
    BY <2>1 DEF Belongs
  <2>4. /\ packet.class = "TCPPacket" => tproto(frame, j) = TCP
        /\ packet.class = "UDPPacket" => tproto(frame, j) = UDP
        /\ packet.class = "ICMPPacket" => tproto(frame, j) = ICMP
    BY <2>3 DEF Class
  <2>5. /\ tproto(frame, j) = TCP => Carries(frame, TCP, 20) \/ Misled(frame, TCP)
        /\ tproto(frame, j) = UDP => Carries(frame, UDP, 8) \/ Misled(frame, UDP)
        /\ tproto(frame, j) = ICMP => Carries(frame, ICMP, 8) \/ Misled(frame, ICMP)
    <3>1. UDP # TCP /\ ICMP # TCP
      BY DEF TCP, UDP, ICMP
    <3> QED
      BY <2>2, <3>1, CarriedProtocol
  <2> QED
    BY <2>4, <2>5 DEF TransportIsReal, Stems, TCPHDRLEN, UDPHDRLEN, ICMPHDRLEN
<1>2. OInv => TransportIsReal
  BY <1>1 DEF TransportIsReal
<1> QED
  BY <1>2, Overhearing, PTL

-----------------------------------------------------------------------------
(* Header and data together, for any number of bytes.                      *)
LEMMA HeaderLengths ==
  ASSUME NEW f, IsFrame(f), NEW j \in Words
  PROVE  /\ Skipped(f) \in {0, 14, 22}
         /\ NetworkHlen(f) \in Int /\ -32768 <= NetworkHlen(f) /\ NetworkHlen(f) < 32768
         /\ nproto(f) # IPV6 => 0 <= NetworkHlen(f) /\ NetworkHlen(f) <= 1028
         /\ TransportHlen(f, j) \in Int
         /\ 0 <= TransportHlen(f, j) /\ TransportHlen(f, j) <= 60
<1>1. f.hln \in Bytes /\ f.pln \in Bytes /\ f.xlen \in Nat
      /\ f.hl \in 0 .. 15 /\ f.doff \in 0 .. 15
  BY DEF IsFrame
<1>2. f.hln \in Int /\ 0 <= f.hln /\ f.hln < 256 /\ f.pln \in Int /\ 0 <= f.pln /\ f.pln < 256
  BY <1>1 DEF Bytes
<1>3. f.hl \in Int /\ 0 <= f.hl /\ f.hl <= 15
  BY <1>1
<1>4. ASSUME nproto(f) = IPV6
      PROVE  NetworkHlen(f) \in Int /\ -32768 <= NetworkHlen(f) /\ NetworkHlen(f) < 32768
  <2>1. NetworkHlen(f) = S16(40 + f.xlen)
    BY <1>4 DEF NetworkHlen, IP, IPV6, ARP
  <2>2. 40 + f.xlen \in Int
    BY <1>1
  <2> QED
    BY <2>1, <2>2, ShortRange
<1>5. ASSUME nproto(f) # IPV6
      PROVE  NetworkHlen(f) \in Int /\ 0 <= NetworkHlen(f) /\ NetworkHlen(f) <= 1028
  <2>1. NetworkHlen(f) \in {4 * f.hl, 8 + 2 * f.hln + 2 * f.pln, 0}
    BY <1>5 DEF NetworkHlen, IP, IPV6, ARP
  <2> QED
    BY <1>2, <1>3, <2>1
<1>6. Skipped(f) \in {0, 14, 22}
  BY FrameNumbers DEF Skipped
<1>7. /\ TransportHlen(f, j) \in Int
      /\ 0 <= TransportHlen(f, j) /\ TransportHlen(f, j) <= 60
  BY <1>1 DEF TransportHlen, TCP, UDP, ICMP
<1>8. /\ NetworkHlen(f) \in Int /\ -32768 <= NetworkHlen(f) /\ NetworkHlen(f) < 32768
      /\ nproto(f) # IPV6 => 0 <= NetworkHlen(f) /\ NetworkHlen(f) <= 1028
  BY <1>4, <1>5
<1> QED
  BY <1>6, <1>7, <1>8

(* A cast to short leaves the number as it is modulo 2^16.                 *)
LEMMA ShortIsCongruent ==
  ASSUME NEW n \in Int
  PROVE  \E q \in Int : S16(n) = n + 65536 * q
<1>1. n = (n % 65536) + 65536 * (n \div 65536) /\ n \div 65536 \in Int
  OBVIOUS
<1>2. PICK d \in Int : d = n \div 65536
  BY <1>1
<1>3. S16(n) = n + 65536 * (-d) \/ S16(n) = n + 65536 * (-d - 1)
  BY <1>1, <1>2 DEF S16, U16
<1>4. CASE S16(n) = n + 65536 * (-d)
  <2>1. PICK e \in Int : e = -d
    OBVIOUS
  <2> WITNESS e \in Int
  <2> QED
    BY <1>4, <2>1
<1>5. CASE S16(n) = n + 65536 * (-d - 1)
  <2>1. PICK e \in Int : e = -d - 1
    OBVIOUS
  <2> WITNESS e \in Int
  <2> QED
    BY <1>5, <2>1
<1> QED
  BY <1>3, <1>4, <1>5

(* What get_packet copies as header and as data, together, is all that it  *)
(* cuts the frame to, if the length of the header is no negative number;   *)
(* and it is none if a short can count these bytes.                        *)
LEMMA PartsAddUp ==
  ASSUME NEW f, IsFrame(f), NEW j \in Words,
         NEW k \in Int, 0 <= k, Skipped(f) + k < 65536, Cut(f, j) = S16(k)
  PROVE  /\ Parts(f, j).data >= 0
         /\ Parts(f, j).header >= 0 =>
              Parts(f, j).header + Parts(f, j).data = Skipped(f) + k
         /\ Skipped(f) + k < 32768 /\ NetworkHlen(f) >= 0 => Parts(f, j).header >= 0
<1> DEFINE s     == Skipped(f)
           n     == NetworkHlen(f)
           t     == TransportHlen(f, j)
           rest  == S16(S16(k) - n)
           cut   == IF t > rest THEN rest ELSE t
           start == s + n + cut
<1>1. /\ s \in {0, 14, 22} /\ n \in Int /\ -32768 <= n /\ n < 32768
      /\ t \in Int /\ 0 <= t /\ t <= 60
  BY HeaderLengths
<1>2. Parts(f, j).header = S16(start) /\ Parts(f, j).data = rest - cut
  BY DEF Parts
<1>3. Skipped(f) = s /\ NetworkHlen(f) = n
  OBVIOUS
<1> HIDE DEF s, n, t
<1>4. PICK a \in Int : S16(k) = k + 65536 * a
  BY ShortIsCongruent
<1>5. S16(k) - n \in Int
  BY <1>1, <1>4
<1>6. PICK b \in Int : rest = S16(k) - n + 65536 * b
  BY <1>5, ShortIsCongruent
<1>7. rest \in Int /\ -32768 <= rest /\ rest < 32768
  BY <1>5, ShortRange
<1> HIDE DEF rest
<1>8. cut \in Int /\ cut <= rest /\ rest - cut <= 32767 /\ (cut = t \/ cut = rest)
  BY <1>1, <1>7
<1> HIDE DEF cut
<1>9. start \in Int
  BY <1>1, <1>8
<1>10. PICK c \in Int : S16(start) = start + 65536 * c
  BY <1>9, ShortIsCongruent
<1>11. S16(start) \in Int /\ S16(start) < 32768
  BY <1>9, ShortRange
<1>12. S16(start) + (rest - cut) = s + k + 65536 * (a + b + c)
  BY <1>1, <1>4, <1>6, <1>8, <1>10
<1>13. S16(start) >= 0 => S16(start) + (rest - cut) = s + k
  <2> SUFFICES ASSUME S16(start) >= 0 PROVE S16(start) + (rest - cut) = s + k
    OBVIOUS
  <2>1. PICK d \in Int : d = a + b + c
    OBVIOUS
  <2>2. PICK m \in Int : m = S16(start) + (rest - cut)
    BY <1>7, <1>8, <1>11
  <2>3. 0 <= m /\ m < 65536 /\ m = s + k + 65536 * d
    BY <1>7, <1>8, <1>11, <1>12, <2>1, <2>2
  <2>4. 0 <= s + k /\ s + k < 65536 /\ s \in Int
    BY <1>1, <1>3
  <2>5. d = 0
    BY <2>3, <2>4
  <2> QED
    BY <2>2, <2>3, <2>4, <2>5
<1>14. s + k < 32768 /\ n >= 0 => S16(start) >= 0
  <2> SUFFICES ASSUME s + k < 32768, n >= 0 PROVE S16(start) >= 0
    OBVIOUS
  <2>1. S16(k) = k
    BY <1>1, ShortIsSame
  <2>2. rest = k - n
    BY <1>1, <2>1, ShortIsSame DEF rest
  <2>3. 0 <= start /\ start <= s + k
    BY <1>1, <1>8, <2>2
  <2>4. S16(start) = start
    BY <1>1, <1>9, <2>3, ShortIsSame
  <2> QED
    BY <2>3, <2>4
<1> QED
  BY <1>2, <1>3, <1>7, <1>8, <1>13, <1>14

(* The length that counts is the one that the frame announces.             *)
LEMMA AnnouncedLength ==
  ASSUME NEW f, IsFrame(f), datalink_hlen(f) <= f.caplen
  PROVE  /\ Announced(f) \in Int /\ Announced(f) < 32768
         /\ Announced(f) >= 0 => Datagram(f) = Skipped(f) + Announced(f)
         /\ nproto(f) # UNKNOWN_PROTO => Skipped(f) = datalink_hlen(f)
         /\ nproto(f) = UNKNOWN_PROTO => Skipped(f) = 0
<1>1. /\ f.len \in Int /\ 0 <= f.len /\ f.len < 65536
      /\ f.plen \in Int /\ 0 <= f.plen /\ f.plen < 65536
  BY WordRange DEF IsFrame
<1>2. /\ datalink_hlen(f) \in Int /\ f.caplen \in Int
      /\ 0 <= datalink_hlen(f) /\ f.caplen < 65536
  BY FrameNumbers
<1>3. /\ nproto(f) # UNKNOWN_PROTO => Skipped(f) = datalink_hlen(f)
      /\ nproto(f) = UNKNOWN_PROTO => Skipped(f) = 0
  BY DEF Skipped
<1>4. CASE nproto(f) = IP
  <2>1. Announced(f) = S16(f.len) /\ Datagram(f) = Skipped(f) + f.len
    BY <1>4 DEF Announced, Datagram, IP, IPV6, ARP, UNKNOWN_PROTO
  <2> QED
    BY <1>1, <1>3, <2>1 DEF S16, U16
<1>5. CASE nproto(f) = IPV6
  <2>1. Announced(f) = S16(S16(f.plen) + 40) /\ Datagram(f) = Skipped(f) + U16(f.plen + 40)
    BY <1>5 DEF Announced, Datagram, IP, IPV6, ARP, UNKNOWN_PROTO
  <2>2. U16(S16(f.plen) + 40) = U16(f.plen + 40)
    BY <1>1 DEF S16, U16
  <2>3. S16(f.plen) \in Int
    BY <1>1, ShortRange
  <2>4. S16(S16(f.plen) + 40) \in Int /\ S16(S16(f.plen) + 40) < 32768
    BY <2>3, ShortRange
  <2>5. S16(S16(f.plen) + 40) >= 0 => S16(S16(f.plen) + 40) = U16(S16(f.plen) + 40)
    BY <2>3 DEF S16, U16
  <2> QED
    BY <1>3, <2>1, <2>2, <2>4, <2>5
<1>6. CASE nproto(f) = ARP
  <2>1. Announced(f) = NetworkHlen(f) /\ Datagram(f) = Skipped(f) + NetworkHlen(f)
    BY <1>6 DEF Announced, Datagram, NetworkHlen, IP, IPV6, ARP, UNKNOWN_PROTO
  <2>2. 0 \in Words /\ nproto(f) # IPV6
    BY <1>6 DEF Words, ARP, IPV6
  <2>3. NetworkHlen(f) \in Int /\ NetworkHlen(f) <= 1028
    BY <2>2, HeaderLengths
  <2> QED
    BY <1>3, <2>1, <2>3
<1>7. CASE nproto(f) = UNKNOWN_PROTO
  <2>1. Announced(f) = S16(f.caplen) /\ Datagram(f) = f.caplen
    BY <1>7 DEF Announced, Datagram, IP, IPV6, ARP, UNKNOWN_PROTO
  <2> QED
    BY <1>2, <1>3, <1>7, <2>1, FrameNumbers DEF S16, U16
<1>8. CASE nproto(f) \notin {IP, IPV6, ARP, UNKNOWN_PROTO}
  <2>1. Announced(f) = S16(f.caplen - datalink_hlen(f)) /\ Datagram(f) = f.caplen
    BY <1>8 DEF Announced, Datagram
  <2> QED
    BY <1>2, <1>3, <1>8, <2>1 DEF S16, U16
<1> QED
  BY <1>3, <1>4, <1>5, <1>6, <1>7, <1>8

(* Header and data are the datagram, or what was captured of it, unless    *)
(* they are more than a short counts.                                      *)
THEOREM PartsAlwaysTheDatagram == Spec => []PartsAreTheDatagram
<1>1. ASSUME NEW f, IsFrame(f), datalink_hlen(f) <= f.caplen, NEW j \in Words
      PROVE  LET header  == Parts(f, j).header
                 data    == Parts(f, j).data
                 trusted == UNKNOWN_PROTO \in {tproto(f, j), nproto(f)}
                 fits    == Announced(f) >= 0
                 due     == IF fits /\ (trusted \/ Whole(f)) THEN Datagram(f) ELSE f.caplen
             IN  fits \/ ~trusted =>
                   /\ data >= 0
                   /\ header >= 0 => header + data = due
                   /\ due < 2^15 /\ NetworkHlen(f) >= 0 => header >= 0
  <2> DEFINE header  == Parts(f, j).header
             data    == Parts(f, j).data
             trusted == UNKNOWN_PROTO \in {tproto(f, j), nproto(f)}
             fits    == Announced(f) >= 0
             due     == IF fits /\ (trusted \/ Whole(f)) THEN Datagram(f) ELSE f.caplen
             room    == f.caplen - datalink_hlen(f)
             Right(n) == /\ data >= 0
                         /\ header >= 0 => header + data = n
                         /\ n < 32768 /\ NetworkHlen(f) >= 0 => header >= 0
  <2>1. /\ room \in Int /\ 0 <= room
        /\ Announced(f) \in Int /\ Announced(f) < 32768
        /\ Announced(f) >= 0 => Datagram(f) = Skipped(f) + Announced(f)
        /\ Skipped(f) \in {0, 14, 22}
        /\ f.caplen \in Int /\ f.caplen < 65536
    BY <1>1, AnnouncedLength, FrameNumbers, HeaderLengths
  <2>2. ~trusted => Skipped(f) + room = f.caplen
    BY <1>1, AnnouncedLength, FrameNumbers
  <2>3. ASSUME MustCut(f, j) PROVE Right(f.caplen) /\ ~trusted
    <3>1. ~trusted /\ Cut(f, j) = S16(room)
      BY <2>3 DEF MustCut, Cut
    <3>2. Skipped(f) + room = f.caplen
      BY <2>2, <3>1
    <3> QED
      BY <1>1, <2>1, <3>1, <3>2, PartsAddUp
  <2>4. ASSUME ~MustCut(f, j), fits PROVE Right(Datagram(f))
    <3>1. Cut(f, j) = S16(Announced(f))
      BY <2>1, <2>4, ShortIsSame DEF Cut
    <3>2. Skipped(f) + Announced(f) < 65536 /\ Datagram(f) = Skipped(f) + Announced(f)
      BY <2>1, <2>4
    <3> QED
      BY <1>1, <2>1, <2>4, <3>1, <3>2, PartsAddUp
  <2>5. MustCut(f, j) <=> ~trusted /\ UnsignedGreater(Announced(f), room)
    BY DEF MustCut
  <2>6. Whole(f) /\ fits => ~MustCut(f, j)
    BY <2>1, <2>2, <2>5 DEF Whole, UnsignedGreater
  <2>7. ~trusted /\ ~(Whole(f) /\ fits) => MustCut(f, j)
    BY <2>1, <2>2, <2>5 DEF Whole, UnsignedGreater
  <2> HIDE DEF header, data, trusted, fits, Right
  <2>8. fits \/ ~trusted => Right(due)
    BY <2>3, <2>4, <2>6, <2>7
  <2> QED
    BY <2>8 DEF Right, header, data, trusted, fits
<1>2. OInv => PartsAreTheDatagram
  BY <1>1, StrangeAssumption, JunkAssumption
     DEF OInv, PartsAreTheDatagram, Overheard, Belongs
<1> QED
  BY <1>2, Overhearing, PTL

-----------------------------------------------------------------------------
(* Checksums: all is counted modulo 2^16 - 1.                              *)
(* What in_cksum and in_cksum2 return makes the sum, for any sum that 32   *)
(* bits hold, a multiple of 2^16 - 1: two folds are enough.                *)
THEOREM ComplementCloses ==
  ASSUME NEW sum \in Int, 0 <= sum, sum < 65536 * 65536
  PROVE  /\ Complement(sum) \in Int /\ 0 <= Complement(sum) /\ Complement(sum) < 65536
         /\ \E k \in Int : sum + Complement(sum) = 65535 * k
<1> DEFINE once  == Fold16(sum)
           twice == Fold16(once)
<1>1. /\ once \in Int /\ 0 <= once /\ once <= 65535 + 65535
      /\ sum = once + 65535 * (sum \div 65536)
      /\ sum \div 65536 \in Int
  BY DEF Fold16
<1>2. /\ twice \in Int /\ 0 <= twice /\ twice < 65536
      /\ once = twice + 65535 * (once \div 65536)
      /\ once \div 65536 \in Int
  BY <1>1 DEF Fold16
<1>3. U16(twice) = twice
  BY <1>2 DEF U16
<1>4. Complement(sum) = 65535 - twice
  BY <1>3 DEF Complement
<1> HIDE DEF once, twice
<1>5. sum + Complement(sum) = 65535 * (1 + sum \div 65536 + once \div 65536)
  BY <1>1, <1>2, <1>4
<1>6. 1 + sum \div 65536 + once \div 65536 \in Int
  BY <1>1, <1>2
<1>7. \E k \in Int : sum + Complement(sum) = 65535 * k
  BY <1>5, <1>6
<1>8. Complement(sum) \in Int /\ 0 <= Complement(sum) /\ Complement(sum) < 65536
  BY <1>2, <1>4
<1> QED
  BY <1>7, <1>8

(* The order of the bytes in memory does not matter to it: turning a word  *)
(* multiplies it by 256 modulo 2^16 - 1, and turning it again gives it     *)
(* back.                                                                   *)
THEOREM SwapIsRotation ==
  ASSUME NEW w \in Words
  PROVE  /\ Swap16(w) \in Int /\ 0 <= Swap16(w) /\ Swap16(w) < 65536
         /\ Swap16(Swap16(w)) = w
         /\ 256 * w = Swap16(w) + 65535 * (w \div 256)
<1>1. w \in Int /\ 0 <= w /\ w < 65536
  BY WordRange
<1>2. Swap16(w) \in Int /\ 0 <= Swap16(w) /\ Swap16(w) < 65536
  BY <1>1 DEF Swap16
<1>3. Swap16(w) % 256 = w \div 256 /\ Swap16(w) \div 256 = w % 256
  BY <1>1 DEF Swap16
<1>4. Swap16(Swap16(w)) = w
  BY <1>1, <1>3 DEF Swap16
<1>5. 256 * w = Swap16(w) + 65535 * (w \div 256)
  BY <1>1 DEF Swap16
<1> QED
  BY <1>2, <1>4, <1>5

-----------------------------------------------------------------------------
(* Loops: a function that is given by its first value and its steps exists *)
(* and is unique. The induction over the steps is that over the finite set *)
(* of those not yet taken; with it the recursive function in Sum is        *)
(* unfolded.                                                               *)

(* Every non-empty set of natural numbers has a least element.             *)
LEMMA Least ==
  ASSUME NEW S \in SUBSET Nat, S # {}
  PROVE  \E m \in S : \A n \in S : m <= n
<1>1. PICK k \in Nat : k \in S
  OBVIOUS
<1>2. IsFiniteSet(0 .. k)
  BY FS_Interval
<1> DEFINE R == StrictSubsetOrdering(0 .. k)
           F == {0 .. n : n \in {m \in S : m <= k}}
<1>3. IsWellFoundedOn(R, SUBSET (0 .. k))
  <2>1. FiniteSubsetsOf(0 .. k) = SUBSET (0 .. k)
    BY <1>2, FS_FiniteSubsetsOfFinite
  <2>2. IsWellFoundedOn(R, FiniteSubsetsOf(0 .. k))
    BY FS_StrictSubsetOrderingWellFounded
  <2> QED BY <2>1, <2>2
<1>4. F # {} /\ F \subseteq SUBSET (0 .. k)
  BY <1>1
<1>5. \E x \in F : \A y \in F : <<y, x>> \notin R
  <2> HIDE DEF R, F
  <2> QED BY <1>3, <1>4, WFMin
<1>6. PICK m \in S : m <= k /\ \A y \in F : <<y, 0 .. m>> \notin R
  BY <1>5
<1>7. ASSUME NEW n \in S, n < m PROVE FALSE
  <2>1. n \in Nat /\ m \in Nat /\ n <= k /\ 0 .. n \in F
    BY <1>6, <1>7
  <2>2. 0 .. n \subseteq 0 .. m /\ m \in 0 .. m /\ m \notin 0 .. n /\ 0..m \subseteq 0..k
    BY <1>6, <1>7, <2>1
  <2>3. <<0 .. n, 0 .. m>> \in R
    BY <2>2 DEF StrictSubsetOrdering
  <2> QED BY <1>6, <2>1, <2>3
<1> QED BY <1>6, <1>7

(* A loop that goes through positions 1 to N and takes a value to the next *)
(* one as a function tells has values at all of them.                      *)
IsLoop(g, N, S, start, step) ==
  /\ g \in [0 .. N -> S]
  /\ g[0] = start
  /\ \A i \in 1 .. N : g[i] = step[<<g[i - 1], i>>]

(* A loop over the first N numbers has a run.                              *)
LEMMA LoopRuns ==
  ASSUME NEW N \in Nat, NEW S, NEW start, start \in S,
         NEW step, step \in [S \X (1 .. N) -> S]
  PROVE  \E g : IsLoop(g, N, S, start, step)
<1> DEFINE Runs(m, g) == /\ g[0] = start
                         /\ \A i \in 1 .. m : g[i] = step[<<g[i - 1], i>>]
           Stuck == {m \in 0 .. N : ~\E g \in [0 .. m -> S] : Runs(m, g)}
<1>1. Stuck = {}
  <2> SUFFICES ASSUME Stuck # {} PROVE FALSE
    OBVIOUS
  <2>1. PICK m \in Stuck : \A i \in Stuck : m <= i
    <3>1. Stuck \in SUBSET Nat
      OBVIOUS
    <3> HIDE DEF Stuck
    <3> QED BY <3>1, Least
  <2>2. m \in 0 .. N /\ ~\E g \in [0 .. m -> S] : Runs(m, g)
    OBVIOUS
  <2>3. m # 0
    <3> DEFINE g == [i \in 0 .. 0 |-> start]
    <3>1. g \in [0 .. 0 -> S] /\ Runs(0, g)
      OBVIOUS
    <3> QED BY <2>2, <3>1
  <2>4. m - 1 \in 0 .. N /\ m - 1 \notin Stuck
    BY <2>1, <2>2, <2>3
  <2>5. PICK g \in [0 .. m - 1 -> S] : Runs(m - 1, g)
    BY <2>4
  <2> DEFINE h == [i \in 0 .. m |-> IF i = m THEN step[<<g[m - 1], m>>] ELSE g[i]]
  <2>6. g[m - 1] \in S /\ <<g[m - 1], m>> \in S \X (1 .. N)
    BY <2>2, <2>3
  <2>7. h \in [0 .. m -> S]
    BY <2>2, <2>3, <2>6
  <2>8. h[0] = start
    BY <2>2, <2>3, <2>5
  <2>9. ASSUME NEW i \in 1 .. m PROVE h[i] = step[<<h[i - 1], i>>]
    <3>1. h[i - 1] = g[i - 1] /\ i - 1 # m
      BY <2>2
    <3>2. CASE i = m
      <4>1. h[m] = step[<<g[m - 1], m>>]
        BY <2>2
      <4> HIDE DEF h
      <4> QED BY <3>1, <3>2, <4>1, Zenon
    <3>3. CASE i # m
      BY <2>2, <2>5, <3>1, <3>3
    <3> QED BY <3>2, <3>3
  <2> QED BY <2>2, <2>7, <2>8, <2>9
<1>2. N \in 0 .. N
  OBVIOUS
<1>3. \E g \in [0 .. N -> S] : Runs(N, g)
  <2> HIDE DEF Runs
  <2> QED BY <1>1, <1>2
<1> QED BY <1>3 DEF IsLoop

-----------------------------------------------------------------------------
(* Sums of words.                                                          *)
IsSum(g, ws) == g = [i \in 0 .. Len(ws) |-> IF i = 0 THEN 0 ELSE g[i - 1] + ws[i]]

Partial(g, ws) ==
  /\ g \in [0 .. Len(ws) -> Int]
  /\ g[0] = 0
  /\ \A i \in 1 .. Len(ws) : g[i] = g[i - 1] + ws[i]

(* The loop has run, and its partial sums are what one expects.            *)
LEMMA SumRuns ==
  ASSUME NEW ws, ws \in Seq(Int)
  PROVE  \E g : Partial(g, ws) /\ Sum(ws) = g[Len(ws)]
<1> DEFINE N    == Len(ws)
           step == [y \in Int \X (1 .. N) |-> y[1] + ws[y[2]]]
<1>1. N \in Nat /\ \A i \in 1 .. N : ws[i] \in Int
  OBVIOUS
<1>2. step \in [Int \X (1 .. N) -> Int]
  <2> HIDE DEF N
  <2> QED BY <1>1
<1>3. PICK g : IsLoop(g, N, Int, 0, step)
  <2>1. PICK start \in Int : start = 0
    OBVIOUS
  <2>2. \E g : IsLoop(g, N, Int, start, step)
    <3> HIDE DEF N, step
    <3> QED BY <1>1, <1>2, LoopRuns
  <2> QED BY <2>1, <2>2
<1>4. ASSUME NEW i \in 1 .. N PROVE g[i] = g[i - 1] + ws[i]
  <2> HIDE DEF N
  <2>1. i - 1 \in 0 .. N
    BY <1>1
  <2>2. <<g[i - 1], i>> \in Int \X (1 .. N)
    BY <1>3, <2>1 DEF IsLoop
  <2>3. step[<<g[i - 1], i>>] = g[i - 1] + ws[i]
    BY <2>2
  <2> HIDE DEF step
  <2> QED BY <1>3, <2>3 DEF IsLoop
<1>5. Partial(g, ws)
  <2> HIDE DEF step
  <2> QED BY <1>3, <1>4 DEF Partial, IsLoop
<1>6. IsSum(g, ws)
  <2>1. \A i \in 0 .. N : g[i] = IF i = 0 THEN 0 ELSE g[i - 1] + ws[i]
    BY <1>1, <1>5 DEF Partial
  <2> QED BY <1>5, <2>1 DEF Partial, IsSum
<1> DEFINE c == CHOOSE h : IsSum(h, ws)
<1>7. IsSum(c, ws)
  BY <1>6, Zenon
<1>8. Sum(ws) = c[Len(ws)]
  BY Zenon DEF Sum, IsSum
<1> HIDE DEF c
<1>9. \A i \in 0 .. N : c[i] = IF i = 0 THEN 0 ELSE c[i - 1] + ws[i]
  BY <1>7 DEF IsSum
<1>10. c[Len(ws)] = g[Len(ws)]
  <2> DEFINE Differ == {i \in 0 .. N : c[i] # g[i]}
  <2>1. Differ = {}
    <3> SUFFICES ASSUME Differ # {} PROVE FALSE
      OBVIOUS
    <3>1. PICK m \in Differ : \A i \in Differ : m <= i
      <4>1. Differ \in SUBSET Nat
        OBVIOUS
      <4> HIDE DEF Differ
      <4> QED BY <4>1, Least
    <3>2. m \in 0 .. N /\ c[m] # g[m]
      OBVIOUS
    <3>3. m # 0 /\ m - 1 \in 0 .. N
      BY <1>1, <1>5, <1>9, <3>2 DEF Partial
    <3>4. c[m - 1] = g[m - 1]
      BY <3>1, <3>2, <3>3
    <3> QED BY <1>5, <1>9, <3>2, <3>3, <3>4 DEF Partial
  <2>2. Len(ws) \in 0 .. N
    BY <1>1
  <2> QED BY <2>1, <2>2
<1> QED BY <1>5, <1>8, <1>10

(* Two functions that add up the same words agree.                         *)
LEMMA PartialIsUnique ==
  ASSUME NEW ws, ws \in Seq(Int), NEW g, Partial(g, ws), NEW h, Partial(h, ws)
  PROVE  g[Len(ws)] = h[Len(ws)]
<1> DEFINE N      == Len(ws)
           Differ == {i \in 0 .. N : g[i] # h[i]}
<1>1. N \in Nat
  OBVIOUS
<1>2. Differ = {}
  <2> SUFFICES ASSUME Differ # {} PROVE FALSE
    OBVIOUS
  <2>1. PICK m \in Differ : \A i \in Differ : m <= i
    <3>1. Differ \in SUBSET Nat
      OBVIOUS
    <3> HIDE DEF Differ
    <3> QED BY <3>1, Least
  <2>2. m \in 0 .. N /\ g[m] # h[m]
    OBVIOUS
  <2>3. m # 0 /\ m - 1 \in 0 .. N
    BY <1>1, <2>2 DEF Partial
  <2>4. g[m - 1] = h[m - 1]
    BY <2>1, <2>2, <2>3
  <2> QED BY <2>2, <2>3, <2>4 DEF Partial
<1> QED BY <1>1, <1>2

(* Sum is the last value of any run of its loop.                           *)
LEMMA SumIs ==
  ASSUME NEW ws, ws \in Seq(Int), NEW g, Partial(g, ws)
  PROVE  Sum(ws) = g[Len(ws)]
  BY SumRuns, PartialIsUnique

(* Sums are numbers,                                                       *)
LEMMA SumIsInt ==
  ASSUME NEW ws, ws \in Seq(Int)
  PROVE  Sum(ws) \in Int
  BY SumRuns DEF Partial

(* that of one number is the number,                                       *)
LEMMA SumOfOne ==
  ASSUME NEW x \in Int
  PROVE  Sum(<<x>>) = x
<1> DEFINE g == [i \in 0 .. 1 |-> IF i = 0 THEN 0 ELSE x]
<1>1. Partial(g, <<x>>)
  BY DEF Partial
<1> QED BY <1>1, SumIs

(* that of none is 0,                                                      *)
LEMMA SumOfNone == Sum(<<>>) = 0
<1> DEFINE g == [i \in 0 .. 0 |-> 0]
<1>1. Partial(g, <<>>)
  BY DEF Partial
<1> QED BY <1>1, SumIs

(* and that of two sequences, one behind the other, the sum of theirs.     *)
LEMMA SumOfBoth ==
  ASSUME NEW a, a \in Seq(Int), NEW b, b \in Seq(Int)
  PROVE  Sum(a \o b) = Sum(a) + Sum(b)
<1>1. PICK g : Partial(g, a) /\ Sum(a) = g[Len(a)]
  BY SumRuns
<1>2. PICK h : Partial(h, b) /\ Sum(b) = h[Len(b)]
  BY SumRuns
<1> DEFINE k == [i \in 0 .. Len(a) + Len(b) |->
                   IF i <= Len(a) THEN g[i] ELSE g[Len(a)] + h[i - Len(a)]]
<1>3. /\ a \o b \in Seq(Int) /\ Len(a \o b) = Len(a) + Len(b)
      /\ Len(a) \in Nat /\ Len(b) \in Nat
      /\ \A i \in 1 .. Len(a) + Len(b) :
           (a \o b)[i] = IF i <= Len(a) THEN a[i] ELSE b[i - Len(a)]
  OBVIOUS
<1>4. k \in [0 .. Len(a) + Len(b) -> Int] /\ k[0] = 0
  <2>1. /\ \A i \in 0 .. Len(a) : g[i] \in Int
        /\ \A i \in 0 .. Len(b) : h[i] \in Int
        /\ g[0] = 0 /\ Len(a) \in 0 .. Len(a)
    <3>1. \A i \in 0 .. Len(a) : g[i] \in Int
      BY <1>1 DEF Partial
    <3>2. \A i \in 0 .. Len(b) : h[i] \in Int
      BY <1>2 DEF Partial
    <3>3. g[0] = 0 /\ Len(a) \in 0 .. Len(a)
      BY <1>1, <1>3 DEF Partial
    <3> QED BY <3>1, <3>2, <3>3
  <2>2. ASSUME NEW i \in 0 .. Len(a) + Len(b) PROVE k[i] \in Int
    <3>1. CASE i <= Len(a)
      BY <1>3, <2>1, <3>1
    <3>2. CASE i > Len(a)
      <4>1. i - Len(a) \in 0 .. Len(b)
        BY <1>3, <3>2
      <4>2. h[i - Len(a)] \in Int /\ g[Len(a)] \in Int
        BY <2>1, <4>1
      <4> QED BY <1>3, <3>2, <4>2
    <3> QED BY <1>3, <3>1, <3>2
  <2> QED BY <1>3, <2>1, <2>2
<1>5. ASSUME NEW i \in 1 .. Len(a) + Len(b)
      PROVE  k[i] = k[i - 1] + (a \o b)[i]
  <2>1. CASE i <= Len(a)
    <3>1. i \in 1 .. Len(a) /\ g[i] = g[i - 1] + a[i]
      BY <1>1, <1>3, <2>1 DEF Partial
    <3> QED BY <1>3, <2>1, <3>1
  <2>2. CASE i > Len(a)
    <3> DEFINE m == i - Len(a)
    <3>1. m \in 1 .. Len(b) /\ h[m] = h[m - 1] + b[m] /\ h[m - 1] \in Int /\ b[m] \in Int
      <4>1. m \in 1 .. Len(b) /\ m - 1 \in 0 .. Len(b)
        BY <1>3, <2>2
      <4> HIDE DEF m
      <4>2. h[m] = h[m - 1] + b[m] /\ h[m - 1] \in Int
        BY <1>2, <4>1 DEF Partial
      <4> QED BY <4>1, <4>2
    <3>2. g[Len(a)] \in Int
      BY <1>1, <1>3, SMTT(30) DEF Partial
    <3>3. k[i] = g[Len(a)] + h[m] /\ (a \o b)[i] = b[m]
      BY <1>3, <2>2
    <3>4. k[i - 1] = g[Len(a)] + h[m - 1]
      <4>1. CASE m = 1
        <5>1. i - 1 = Len(a) /\ h[m - 1] = 0
          BY <1>2, <1>3, <4>1 DEF Partial
        <5> QED BY <1>3, <3>2, <5>1
      <4>2. CASE m # 1
        <5>1. i - 1 > Len(a) /\ i - 1 - Len(a) = m - 1
          BY <1>3, <3>1, <4>2, SMTT(30)
        <5> QED BY <1>3, <5>1
      <4> QED BY <4>1, <4>2
    <3> HIDE DEF k
    <3>5. PICK x, y, z \in Int : x = g[Len(a)] /\ y = h[m - 1] /\ z = b[m]
      BY <3>1, <3>2
    <3>6. h[m] = y + z
      BY <3>1, <3>5
    <3> HIDE DEF m
    <3>7. k[i] = x + (y + z) /\ k[i - 1] = x + y /\ (a \o b)[i] = z
      BY <3>3, <3>4, <3>5, <3>6
    <3> QED BY <3>7
  <2> QED BY <1>3, <2>1, <2>2
<1>6. Partial(k, a \o b)
  <2> HIDE DEF k
  <2> QED BY <1>3, <1>4, <1>5 DEF Partial
<1>7. Sum(a \o b) = k[Len(a \o b)]
  <2> HIDE DEF k
  <2> QED BY <1>3, <1>6, SumIs
<1>8. k[Len(a) + Len(b)] = g[Len(a)] + h[Len(b)]
  <2>1. CASE Len(b) = 0
    <3>1. h[Len(b)] = 0 /\ g[Len(a)] \in Int
      BY <1>1, <1>2, <1>3, <2>1 DEF Partial
    <3> QED BY <1>3, <2>1, <3>1
  <2>2. CASE Len(b) # 0
    BY <1>3, <2>2
  <2> QED BY <2>1, <2>2
<1> HIDE DEF k
<1> QED BY <1>1, <1>2, <1>3, <1>7, <1>8

-----------------------------------------------------------------------------
(* The arithmetic of the Internet checksum. Modulo 65535 a word with its   *)
(* bytes turned is 256 times the word, so that the sum in the order of     *)
(* memory and that in the order of the network close together.             *)

(* A sequence of words is one of integers.                                 *)
LEMMA WordsAreInts ==
  ASSUME NEW ws, ws \in Seq(Words)
  PROVE  ws \in Seq(Int) /\ Len(ws) \in Nat /\ \A i \in 1 .. Len(ws) : ws[i] \in Words
<1>1. Words \subseteq Int
  BY DEF Words
<1>2. Len(ws) \in Nat /\ \A i \in 1 .. Len(ws) : ws[i] \in Words
  OBVIOUS
<1>3. ws \in Seq(Int)
  BY <1>1, SeqMonotonic, Zenon
<1> QED BY <1>2, <1>3

(* The range of a word.                                                    *)
LEMMA RangeIsWord ==
  ASSUME NEW n \in Int, 0 <= n, n < 65536
  PROVE  n \in Words
  BY DEF Words

(* Turning the bytes of a word gives a word.                               *)
LEMMA SwapIsWord ==
  ASSUME NEW w \in Words
  PROVE  Swap16(w) \in Words
  BY RangeIsWord, SwapIsRotation

(* The words as they lie in memory.                                        *)
LEMMA InMemoryIsWords ==
  ASSUME NEW ws, ws \in Seq(Words)
  PROVE  /\ InMemory(ws) \in Seq(Words) /\ Len(InMemory(ws)) = Len(ws)
         /\ \A i \in 1 .. Len(ws) : InMemory(ws)[i] = Swap16(ws[i])
<1>1. \A i \in 1 .. Len(ws) : Swap16(ws[i]) \in Words
  <2> TAKE i \in 1 .. Len(ws)
  <2>1. PICK w \in Words : w = ws[i]
    OBVIOUS
  <2>2. Swap16(w) \in Words
    BY SwapIsWord
  <2> QED BY <2>1, <2>2
<1>2. InMemory(ws) = [i \in 1 .. Len(ws) |-> Swap16(ws[i])]
  BY DEF InMemory
<1> QED BY <1>1, <1>2

(* The words, and the words as they lie in memory: 256 times the one sum   *)
(* is the other modulo 2^16 - 1.                                           *)
Turns(s, m, n) ==
  /\ s \in Int /\ 0 <= s /\ m \in Int /\ 0 <= m /\ m <= 65535 * n
  /\ s = 0 => m = 0
  /\ \E k \in Int : 256 * s = m + 65535 * k

(* One more word, turned and as it is.                                     *)
LEMMA TurnsWithNext ==
  ASSUME NEW n \in Nat, NEW s, NEW m, Turns(s, m, n), NEW w \in Words
  PROVE  Turns(s + w, m + Swap16(w), n + 1)
<1>1. s \in Int /\ 0 <= s /\ m \in Int /\ 0 <= m /\ m <= 65535 * n /\ (s = 0 => m = 0)
  BY DEF Turns
<1>2. PICK k \in Int : 256 * s = m + 65535 * k
  BY DEF Turns
<1>3. w \in Int /\ 0 <= w /\ w \div 256 \in Int
  BY WordRange
<1>4. PICK v \in Int : v = Swap16(w) /\ 0 <= v /\ v < 65536 /\ (w = 0 => v = 0)
  <2>1. Swap16(0) = 0
    BY DEF Swap16
  <2> QED BY <2>1, SwapIsRotation
<1>5. PICK e \in Int : 256 * w = v + 65535 * e
  <2>1. 256 * w = Swap16(w) + 65535 * (w \div 256)
    BY SwapIsRotation
  <2> QED BY <1>3, <1>4, <2>1
<1>6. PICK l \in Int : l = k + e
  OBVIOUS
<1>7. 256 * (s + w) = (m + v) + 65535 * l
  BY <1>1, <1>2, <1>3, <1>4, <1>5, <1>6
<1>8. /\ s + w \in Int /\ 0 <= s + w /\ m + v \in Int /\ 0 <= m + v
      /\ m + v <= 65535 * (n + 1) /\ (s + w = 0 => m + v = 0)
  BY <1>1, <1>3, <1>4
<1> QED BY <1>4, <1>7, <1>8 DEF Turns

(* The sum of the turned words is 256 times that of the words, modulo      *)
(* 65535.                                                                  *)
LEMMA MemorySum ==
  ASSUME NEW ws, ws \in Seq(Words)
  PROVE  Turns(Sum(ws), Sum(InMemory(ws)), Len(ws))
<1> DEFINE N == Len(ws)
<1>1. N \in Nat /\ ws \in Seq(Int) /\ \A i \in 1 .. N : ws[i] \in Words
  BY WordsAreInts
<1>2. PICK g : Partial(g, ws) /\ Sum(ws) = g[N]
  BY <1>1, SumRuns
<1>3. PICK h : Partial(h, InMemory(ws)) /\ Sum(InMemory(ws)) = h[N]
  BY InMemoryIsWords, WordsAreInts, SumRuns
<1>4. g[0] = 0 /\ \A i \in 1 .. N : g[i] = g[i - 1] + ws[i]
  BY <1>2 DEF Partial
<1>5. h[0] = 0 /\ \A i \in 1 .. N : h[i] = h[i - 1] + Swap16(ws[i])
  BY <1>3, InMemoryIsWords DEF Partial
<1> DEFINE Bad == {i \in 0 .. N : ~Turns(g[i], h[i], i)}
<1>6. Bad = {}
  <2> SUFFICES ASSUME Bad # {} PROVE FALSE
    OBVIOUS
  <2>1. PICK m \in Bad : \A i \in Bad : m <= i
    <3>1. Bad \in SUBSET Nat
      OBVIOUS
    <3> HIDE DEF Bad
    <3> QED BY <3>1, Least
  <2>2. m \in 0 .. N /\ ~Turns(g[m], h[m], m)
    OBVIOUS
  <2>3. m # 0
    <3>1. 256 * 0 = 0 + 65535 * 0
      OBVIOUS
    <3>2. Turns(0, 0, 0)
      BY <3>1 DEF Turns
    <3> QED BY <1>4, <1>5, <2>2, <3>2
  <2>4. m \in 1 .. N /\ m - 1 \in 0 .. N
    BY <1>1, <2>2, <2>3
  <2>5. Turns(g[m - 1], h[m - 1], m - 1)
    BY <2>1, <2>4
  <2>6. PICK w \in Words : w = ws[m]
    BY <1>1, <2>4
  <2>7. g[m] = g[m - 1] + w /\ h[m] = h[m - 1] + Swap16(w)
    BY <1>4, <1>5, <2>4, <2>6
  <2>8. Turns(g[m - 1] + w, h[m - 1] + Swap16(w), (m - 1) + 1)
    BY <2>4, <2>5, TurnsWithNext
  <2>9. (m - 1) + 1 = m
    BY <2>4
  <2> QED BY <2>2, <2>7, <2>8, <2>9
<1>7. N \in 0 .. N
  BY <1>1
<1> QED BY <1>2, <1>3, <1>6, <1>7

(* No message that fits the buffer has as many words.                      *)
Longest == 2000

(* The arithmetic of it: s is the sum of the words, m that of the words in *)
(* memory, b the odd byte, x what Complement returns, c the same turned.   *)
LEMMA ClosingArithmetic ==
  ASSUME NEW s \in Int, NEW m \in Int, NEW k \in Int, NEW b \in Int, NEW x \in Int,
         NEW l \in Int, NEW c \in Int, NEW d \in Int,
         256 * s = m + 65535 * k, m + b + x = 65535 * l, 256 * c = x + 65535 * d
  PROVE  s + 256 * b + c = 65535 * (256 * (k + b + d + l) - (s + 256 * b + c))
<1>1. 256 * (s + 256 * b + c) = 65535 * (k + b + d + l)
  OBVIOUS
<1>2. PICK t \in Int, y \in Int : t = s + 256 * b + c /\ y = k + b + d + l
  OBVIOUS
<1>3. t = 65535 * (256 * y - t)
  BY <1>1, <1>2
<1> QED
  BY <1>2, <1>3

(* The checksum that is stored, the complement of the folded sum in the    *)
(* order of memory, makes the sum in the order of the network a positive   *)
(* multiple of 65535, whatever the words and with or without an odd byte:  *)
(* this is what a receiver tests.                                          *)
THEOREM ChecksumCloses ==
  ASSUME NEW ws, ws \in Seq(Words), Len(ws) <= Longest, NEW last \in Bytes,
         NEW c, c = Swap16(Complement(Sum(InMemory(ws)) + last))
  PROVE  /\ c \in Words /\ Sum(ws) \in Int /\ 0 <= Sum(ws)
         /\ 0 < Sum(ws) + 256 * last + c
         /\ (Sum(ws) + 256 * last + c) % 65535 = 0
<1>1. PICK s \in Int, m \in Int :
        s = Sum(ws) /\ m = Sum(InMemory(ws)) /\ Turns(s, m, Len(ws))
  BY MemorySum, SMTT(30) DEF Turns
<1>2. Len(ws) \in Nat
  BY WordsAreInts
<1>3. /\ s \in Int /\ 0 <= s /\ m \in Int /\ 0 <= m /\ m <= 65535 * 2000
      /\ s = 0 => m = 0
  BY <1>1, <1>2 DEF Turns, Longest
<1>4. PICK k \in Int : 256 * s = m + 65535 * k
  BY <1>1 DEF Turns
<1>5. last \in Int /\ 0 <= last /\ last < 256
  BY DEF Bytes
<1>6. PICK x : x = Complement(m + last)
  OBVIOUS
<1>7. /\ x \in Int /\ 0 <= x /\ x < 65536
      /\ \E l \in Int : m + last + x = 65535 * l
  <2>1. PICK sum \in Int : sum = m + last /\ 0 <= sum /\ sum < 65536 * 65536
    BY <1>3, <1>5
  <2>2. x = Complement(sum)
    BY <1>6, <2>1
  <2>3. PICK l \in Int : sum + Complement(sum) = 65535 * l
    BY <2>1, ComplementCloses
  <2> QED BY <2>1, <2>2, <2>3, ComplementCloses
<1>8. PICK l \in Int : m + last + x = 65535 * l
  BY <1>7
<1>9. x \in Words /\ c = Swap16(x)
  BY <1>1, <1>6, <1>7, RangeIsWord
<1>10. c \in Int /\ 0 <= c /\ c < 65536 /\ Swap16(c) = x
  BY <1>9, SwapIsRotation
<1>11. c \in Words
  BY <1>10, RangeIsWord
<1>12. PICK d \in Int : 256 * c = x + 65535 * d
  <2>1. 256 * c = Swap16(c) + 65535 * (c \div 256)
    BY <1>11, SwapIsRotation
  <2>2. PICK d \in Int : d = c \div 256
    BY <1>10
  <2> QED BY <1>10, <2>1, <2>2
<1>13. PICK b \in Int, o \in Int, e \in Int, y \in Int, z \in Int :
         b = last /\ o = l /\ e = d /\ y = x /\ z = c
  BY <1>5, <1>7, <1>10
<1> DEFINE T == s + 256 * b + z
           q == 256 * (k + b + e + o) - T
<1>14. T \in Int /\ 0 <= T /\ q \in Int
  BY <1>3, <1>5, <1>10, <1>13
<1>15. T = 65535 * q
  <2>1. 256 * s = m + 65535 * k /\ m + b + y = 65535 * o /\ 256 * z = y + 65535 * e
    BY <1>4, <1>8, <1>12, <1>13
  <2> QED BY <2>1, ClosingArithmetic
<1>16. T % 65535 = 0
  <2> HIDE DEF T, q
  <2> QED BY <1>14, <1>15
<1>17. T # 0
  <2> SUFFICES ASSUME T = 0 PROVE FALSE
    OBVIOUS
  <2>1. s = 0 /\ last = 0 /\ c = 0
    BY <1>3, <1>5, <1>10, <1>13
  <2>2. m = 0
    BY <1>3, <2>1
  <2>3. x = 65535
    BY <1>6, <2>1, <2>2 DEF Complement, Fold16, U16
  <2> QED BY <1>9, <2>1, <2>3 DEF Swap16
<1>18. T = Sum(ws) + 256 * last + c
  BY <1>1, <1>13
<1>19. 0 < T
  BY <1>14, <1>17
<1> HIDE DEF T
<1> QED BY <1>1, <1>3, <1>11, <1>16, <1>18, <1>19

-----------------------------------------------------------------------------
(* Words, bytes and sequences of them.                                     *)

(* The casts to a byte and to a word.                                      *)
LEMMA NumberRanges ==
  ASSUME NEW n \in Int
  PROVE  U8(n) \in Bytes /\ U16(n) \in Words /\ U8(n) \in Words
  BY DEF Bytes, Words, U8, U16

(* The range of a byte.                                                    *)
LEMMA ByteRange ==
  ASSUME NEW b \in Bytes
  PROVE  b \in Int /\ 0 <= b /\ b < 256
  BY DEF Bytes

(* The words that a sequence of bytes makes.                               *)
LEMMA WordsOfBytes ==
  ASSUME NEW bytes, bytes \in Seq(Bytes)
  PROVE  WordsOf(bytes) \in Seq(Words) /\ Len(WordsOf(bytes)) = Len(bytes) \div 2
<1>1. PICK n \in Nat : n = Len(bytes) \div 2
  OBVIOUS
<1>2. ASSUME NEW i \in 1 .. n PROVE 256 * bytes[2 * i - 1] + bytes[2 * i] \in Words
  <2>1. 2 * i - 1 \in 1 .. Len(bytes) /\ 2 * i \in 1 .. Len(bytes)
    BY <1>1
  <2>2. bytes[2 * i - 1] \in Bytes /\ bytes[2 * i] \in Bytes
    BY <2>1
  <2>3. PICK a \in Int, b \in Int : /\ a = bytes[2 * i - 1] /\ b = bytes[2 * i]
                                    /\ 0 <= a /\ a < 256 /\ 0 <= b /\ b < 256
    BY <2>2, ByteRange
  <2>4. 256 * a + b \in Words
    BY <2>3, RangeIsWord
  <2> QED BY <2>3, <2>4
<1>3. WordsOf(bytes) = [i \in 1 .. n |-> 256 * bytes[2 * i - 1] + bytes[2 * i]]
  BY <1>1 DEF WordsOf
<1> QED BY <1>1, <1>2, <1>3

(* One sequence behind another.                                            *)
LEMMA Joined ==
  ASSUME NEW S, NEW a, a \in Seq(S), NEW b, b \in Seq(S)
  PROVE  a \o b \in Seq(S) /\ Len(a \o b) = Len(a) + Len(b)
  BY ConcatProperties, Zenon

(* The odd byte of a message, or nothing.                                  *)
OddByte(bytes) == IF IsOdd(bytes) THEN Last(bytes) ELSE 0

(* The last byte, if it has no neighbour.                                  *)
LEMMA OddByteIsByte ==
  ASSUME NEW bytes, bytes \in Seq(Bytes)
  PROVE  OddByte(bytes) \in Bytes
<1>1. 0 \in Bytes
  BY DEF Bytes
<1>2. IsOdd(bytes) => Len(bytes) \in 1 .. Len(bytes)
  BY DEF IsOdd
<1> QED BY <1>1, <1>2 DEF OddByte, Last

(* A message is accepted if it is the one that was added up, but for the   *)
(* checksum, which is what was returned or congruent to it.                *)
LEMMA SumIsAccepted ==
  ASSUME NEW zero, zero \in Seq(Words), NEW full, full \in Seq(Words),
         NEW bytes, bytes \in Seq(Bytes), Len(zero) + Len(bytes) <= Longest,
         NEW c, c = Swap16(Complement(Sum(InMemory(zero \o WordsOf(bytes))) + OddByte(bytes))),
         Sum(full) = Sum(zero) + c \/ Sum(full) = Sum(zero) + NonZero(c)
  PROVE  Accepts(full, bytes)
<1> DEFINE tail == WordsOf(bytes)
<1>1. /\ tail \in Seq(Words) /\ Len(tail) = Len(bytes) \div 2 /\ Len(bytes) \in Nat
      /\ zero \in Seq(Int) /\ tail \in Seq(Int) /\ full \in Seq(Int) /\ Len(zero) \in Nat
  BY WordsOfBytes, WordsAreInts
<1> HIDE DEF tail
<1>2. PICK ws : ws = zero \o tail
  BY Zenon
<1>3. ws \in Seq(Words) /\ Len(ws) <= Longest
  <2>1. tail \in Seq(Words)
    BY <1>1
  <2>2. zero \o tail \in Seq(Words) /\ Len(zero \o tail) = Len(zero) + Len(tail)
    BY <2>1, Joined, Zenon
  <2> QED BY <1>1, <1>2, <2>2 DEF Longest
<1>4. PICK last \in Bytes : last = OddByte(bytes)
  BY OddByteIsByte
<1>5. c = Swap16(Complement(Sum(InMemory(ws)) + last))
  BY <1>2, <1>4 DEF tail
<1>6. /\ c \in Words /\ Sum(ws) \in Int /\ 0 <= Sum(ws)
      /\ 0 < Sum(ws) + 256 * last + c
      /\ (Sum(ws) + 256 * last + c) % 65535 = 0
  BY <1>3, <1>5, ChecksumCloses
<1>7. PICK d \in Int : d = c /\ 0 <= d
  <2>1. c \in Int /\ 0 <= c
    BY <1>6, WordRange
  <2> QED BY <2>1
<1>8. PICK s \in Int : /\ s = Sum(ws) /\ 0 <= s /\ 0 < s + 256 * last + d
                       /\ (s + 256 * last + d) % 65535 = 0
  BY <1>7, <1>6
<1>9. PICK a \in Int, b \in Int : a = Sum(zero) /\ b = Sum(tail)
  BY <1>1, SumIsInt
<1>10. s = a + b
  BY <1>1, <1>2, <1>8, <1>9, SumOfBoth
<1>11. PICK e \in Int : e = Sum(full)
  BY <1>1, SumIsInt
<1>12. Sum(full \o tail) = e + b
  BY <1>1, <1>9, <1>11, SumOfBoth
<1>13. PICK l \in Int : l = 256 * last
  BY <1>4, ByteRange
<1>14. 0 < (e + b) + l /\ ((e + b) + l) % 65535 = 0
  <2>1. e = a + d \/ (d = 0 /\ e = a + 65535)
    BY <1>7, <1>9, <1>11 DEF NonZero
  <2>2. PICK n \in Int : n = s + l + d /\ 0 < n /\ n % 65535 = 0
    BY <1>7, <1>8, <1>13, SMTT(30)
  <2>3. (e + b) + l = n \/ (e + b) + l = n + 65535
    BY <1>10, <2>1, <2>2
  <2>4. 0 < n + 65535 /\ (n + 65535) % 65535 = 0
    BY <2>2
  <2> QED BY <2>2, <2>3, <2>4
<1>15. (IF IsOdd(bytes) THEN 256 * Last(bytes) ELSE 0) = l
  BY <1>4, <1>13 DEF OddByte
<1> QED BY <1>12, <1>14, <1>15 DEF Accepts, tail

-----------------------------------------------------------------------------
(* in_cksum and in_cksum2: with their result in its place the receiver     *)
(* accepts.                                                                *)

(* The complement that is stored is a word.                                *)
LEMMA ComplementIsWord ==
  ASSUME NEW n \in Int
  PROVE  Swap16(Complement(n)) \in Words
<1>1. Complement(n) \in Int /\ 0 <= Complement(n) /\ Complement(n) < 65536
  <2>1. PICK m \in Int : m = Fold16(Fold16(n))
    BY DEF Fold16
  <2> QED BY <2>1 DEF Complement, U16
<1> QED BY <1>1, RangeIsWord, SwapIsWord

(* The sum that both functions complement is a number.                     *)
LEMMA InMemorySum ==
  ASSUME NEW words, words \in Seq(Words), NEW bytes, bytes \in Seq(Bytes)
  PROVE  Sum(InMemory(words \o WordsOf(bytes))) \in Int
<1>1. WordsOf(bytes) \in Seq(Words)
  BY WordsOfBytes
<1>2. PICK ws : ws = words \o WordsOf(bytes) /\ ws \in Seq(Words)
  BY <1>1, Joined, Zenon
<1>3. ws \in Seq(Words)
  BY <1>2
<1>4. InMemory(ws) \in Seq(Words)
  BY <1>3, InMemoryIsWords
<1>5. Sum(InMemory(ws)) \in Int
  BY <1>4, WordsAreInts, SumIsInt
<1> QED BY <1>2, <1>5, Zenon

(* Both functions give a word.                                             *)
LEMMA CksumIsWord ==
  ASSUME NEW words, words \in Seq(Words), NEW bytes, bytes \in Seq(Bytes),
         NEW behind \in Bytes
  PROVE  in_cksum(words, bytes, behind) \in Words
<1>1. Sum(InMemory(words \o WordsOf(bytes))) \in Int
  BY InMemorySum
<1>2. behind \in Int
  BY ByteRange
<1>3. PICK n \in Int : n = Sum(InMemory(words \o WordsOf(bytes)))
                           + IF IsOdd(bytes) THEN 256 * behind ELSE 0
  BY <1>1, <1>2
<1> QED BY <1>3, ComplementIsWord DEF in_cksum

(* The same of the one with a pseudo header.                               *)
LEMMA Cksum2IsWord ==
  ASSUME NEW pseudo, pseudo \in Seq(Words), NEW words, words \in Seq(Words),
         NEW bytes, bytes \in Seq(Bytes)
  PROVE  in_cksum2(pseudo, words, bytes) \in Words
<1>1. PICK zero : zero = pseudo \o words /\ zero \in Seq(Words)
  BY Joined, Zenon
<1>2. zero \in Seq(Words)
  BY <1>1
<1>3. Sum(InMemory(zero \o WordsOf(bytes))) \in Int
  BY <1>2, InMemorySum
<1>4. Sum(InMemory(pseudo \o words \o WordsOf(bytes))) \in Int
  BY <1>1, <1>3, Zenon
<1>5. OddByte(bytes) \in Int
  BY OddByteIsByte, ByteRange
<1>6. PICK n \in Int : n = Sum(InMemory(pseudo \o words \o WordsOf(bytes)))
                           + IF IsOdd(bytes) THEN Last(bytes) ELSE 0
  BY <1>4, <1>5 DEF OddByte
<1> QED BY <1>6, ComplementIsWord DEF in_cksum2

(* A message of an even number of bytes is accepted with what in_cksum     *)
(* returns, and any with what in_cksum2 returns.                           *)
LEMMA CksumIsAccepted ==
  ASSUME NEW zero, zero \in Seq(Words), NEW full, full \in Seq(Words),
         NEW bytes, bytes \in Seq(Bytes), Len(zero) + Len(bytes) <= Longest,
         ~IsOdd(bytes), NEW behind,
         Sum(full) = Sum(zero) + in_cksum(zero, bytes, behind)
  PROVE  Accepts(full, bytes)
<1>1. OddByte(bytes) = 0
  BY DEF OddByte
<1>2. in_cksum(zero, bytes, behind)
        = Swap16(Complement(Sum(InMemory(zero \o WordsOf(bytes))) + OddByte(bytes)))
  BY <1>1 DEF in_cksum
<1> QED BY <1>2, SumIsAccepted

(* And so what in_cksum2 gives, behind the pseudo header.                  *)
LEMMA Cksum2IsAccepted ==
  ASSUME NEW pseudo, pseudo \in Seq(Words), NEW words, words \in Seq(Words),
         NEW full, full \in Seq(Words), NEW bytes, bytes \in Seq(Bytes),
         Len(pseudo) + Len(words) + Len(bytes) <= Longest,
         NEW c, c = in_cksum2(pseudo, words, bytes),
         Sum(full) = Sum(words) + c \/ Sum(full) = Sum(words) + NonZero(c)
  PROVE  Accepts(pseudo \o full, bytes)
<1>1. PICK zero : zero = pseudo \o words /\ zero \in Seq(Words)
                  /\ Len(zero) = Len(pseudo) + Len(words)
  BY Joined, Zenon
<1>2. PICK whole : whole = pseudo \o full /\ whole \in Seq(Words)
  BY Joined, Zenon
<1>3. c = Swap16(Complement(Sum(InMemory(zero \o WordsOf(bytes))) + OddByte(bytes)))
  BY <1>1, Zenon DEF in_cksum2, OddByte
<1>4. c \in Int
  BY Cksum2IsWord, WordRange
<1>5. PICK x \in Int : x = NonZero(c)
  BY <1>4 DEF NonZero
<1>6. PICK a \in Int, b \in Int, e \in Int :
        a = Sum(pseudo) /\ b = Sum(words) /\ e = Sum(full)
  BY WordsAreInts, SumIsInt
<1>7. Sum(zero) = a + b /\ Sum(whole) = a + e
  BY <1>1, <1>2, <1>6, WordsAreInts, SumOfBoth
<1>8. e = b + c \/ e = b + x
  BY <1>5, <1>6
<1>9. Sum(whole) = Sum(zero) + c \/ Sum(whole) = Sum(zero) + NonZero(c)
  BY <1>4, <1>5, <1>7, <1>8, SMTT(30)
<1>10. Len(zero) + Len(bytes) <= Longest
  BY <1>1
<1>11. zero \in Seq(Words) /\ whole \in Seq(Words)
  BY <1>1, <1>2
<1>12. Accepts(whole, bytes)
  BY <1>3, <1>9, <1>10, <1>11, SumIsAccepted
<1> QED BY <1>2, <1>12, Zenon

(* The sum of four words.                                                  *)
LEMMA SumOfFour ==
  ASSUME NEW a \in Int, NEW b \in Int, NEW c \in Int, NEW d \in Int
  PROVE  Sum(<<a, b, c, d>>) = a + b + c + d
<1> DEFINE g == [i \in 0 .. 4 |-> CASE i = 0 -> 0 [] i = 1 -> a [] i = 2 -> a + b
                                    [] i = 3 -> a + b + c [] OTHER -> a + b + c + d]
<1>1. Partial(g, <<a, b, c, d>>)
  BY DEF Partial
<1>2. <<a, b, c, d>> \in Seq(Int) /\ Len(<<a, b, c, d>>) = 4 /\ g[4] = a + b + c + d
  OBVIOUS
<1> HIDE DEF g
<1>3. Sum(<<a, b, c, d>>) = g[Len(<<a, b, c, d>>)]
  BY <1>1, <1>2, SumIs, Zenon
<1> QED BY <1>2, <1>3

-----------------------------------------------------------------------------
(* Rows: sequences of words of a known length.                             *)

(* n words.                                                                *)
Row(ws, n) == ws \in Seq(Words) /\ Len(ws) = n

(* A function over the first n numbers is a sequence.                      *)
LEMMA FunctionIsSeq ==
  ASSUME NEW S, NEW n \in Nat, NEW w, w \in [1 .. n -> S]
  PROVE  w \in Seq(S) /\ Len(w) = n
<1>1. w \in Seq(S)
  BY SeqDef, Zenon
<1>2. Len(w) \in Nat /\ DOMAIN w = 1 .. Len(w)
  BY <1>1, LenProperties, Zenon
<1>3. DOMAIN w = 1 .. n
  BY Zenon
<1>4. Len(w) = n
  <2>1. \A m \in Nat, k \in Nat : 1 .. m = 1 .. k => m = k
    <3>1. ASSUME NEW m \in Nat, NEW k \in Nat, m < k, 1 .. m = 1 .. k PROVE FALSE
      <4>1. k \in 1 .. k /\ k \notin 1 .. m
        BY <3>1
      <4> QED BY <3>1, <4>1
    <3>2. ASSUME NEW m \in Nat, NEW k \in Nat, 1 .. m = 1 .. k PROVE m = k
      <4>1. ~(m < k) /\ ~(k < m)
        BY <3>1, <3>2
      <4> QED BY <4>1
    <3> QED BY <3>2
  <2> QED BY <1>2, <1>3, <2>1
<1> QED BY <1>1, <1>4, Zenon

(* And one to words a row.                                                 *)
LEMMA FunctionIsRow ==
  ASSUME NEW n \in Nat, NEW w, w \in [1 .. n -> Words]
  PROVE  Row(w, n) /\ \A i \in 1 .. n : w[i] \in Words
  BY FunctionIsSeq, Zenon DEF Row

(* Addresses of IPv4 are rows of two.                                      *)
LEMMA PairIsRow ==
  ASSUME NEW w, w \in Pairs
  PROVE  Row(w, 2) /\ w[1] \in Words /\ w[2] \in Words
<1>1. w \in [1 .. 2 -> Words]
  BY Zenon DEF Pairs
<1>2. 2 \in Nat
  OBVIOUS
<1>3. Row(w, 2) /\ \A i \in 1 .. 2 : w[i] \in Words
  BY <1>1, <1>2, FunctionIsRow, Zenon
<1> QED BY <1>3

(* Two rows make a row.                                                    *)
LEMMA RowsJoined ==
  ASSUME NEW a, NEW m, Row(a, m), NEW b, NEW n, Row(b, n)
  PROVE  Row(a \o b, m + n)
  BY Joined, Zenon DEF Row

(* Rows of the words they are made of.                                     *)
LEMMA TwoInARow ==
  ASSUME NEW a \in Words, NEW b \in Words
  PROVE  Row(<<a, b>>, 2)
  BY DEF Row

(* Four of them.                                                           *)
LEMMA FourInARow ==
  ASSUME NEW a \in Words, NEW b \in Words, NEW c \in Words, NEW d \in Words
  PROVE  Row(<<a, b, c, d>>, 4)
  BY DEF Row

(* Five of them.                                                           *)
LEMMA FiveInARow ==
  ASSUME NEW a \in Words, NEW b \in Words, NEW c \in Words, NEW d \in Words, NEW e \in Words
  PROVE  Row(<<a, b, c, d, e>>, 5)
  BY DEF Row

(* None of them.                                                           *)
LEMMA NoneInARow == Row(<<>>, 0)
  BY EmptySeq, Zenon DEF Row

(* What a row is.                                                          *)
LEMMA RowIsSeq ==
  ASSUME NEW a, NEW n, Row(a, n)
  PROVE  a \in Seq(Words) /\ Len(a) = n /\ a \in Seq(Int)
<1>1. a \in Seq(Words) /\ Len(a) = n
  BY DEF Row
<1> QED BY <1>1, WordsAreInts

(* The sum of two rows.                                                    *)
LEMMA SumOfRows ==
  ASSUME NEW a, NEW m, Row(a, m), NEW b, NEW n, Row(b, n)
  PROVE  Sum(a) \in Int /\ Sum(b) \in Int /\ Sum(a \o b) = Sum(a) + Sum(b)
  BY RowIsSeq, SumOfBoth, SumIsInt

-----------------------------------------------------------------------------
(* set_ip, set_ipv6 and the pseudo header.                                 *)

(* A bit of a flag byte.                                                   *)
LEMMA FlagIsInt ==
  ASSUME NEW bits
  PROVE  \A i \in {0, 1, 2, 3, 4, 5, 6, 7, 13, 14, 15} : Flag(i, bits) \in Int
  BY DEF Flag

(* What set_ip writes.                                                     *)
HeaderIsSet(ip) ==
  /\ ip.tos \in Bytes /\ ip.id \in Words /\ ip.off \in Words /\ ip.ttl \in Bytes
  /\ ip.src \in Pairs /\ ip.dst \in Pairs

(* The flags of fragmentation leave the offset alone.                      *)
LEMMA OffsetBits ==
  ASSUME NEW o \in Int, NEW k \in Int
  PROVE  ((o + 8192 * k) % 65536) % 8192 = o % 8192
<1>1. PICK n \in Int, q \in Int, r \in Int :
        /\ n = o + 8192 * k /\ r = n % 65536 /\ n = 65536 * q + r /\ q = n \div 65536
  OBVIOUS
<1>2. PICK l \in Int : l = k - 8 * q
  OBVIOUS
<1>3. r = o + 8192 * l
  BY <1>1, <1>2
<1>4. (o + 8192 * l) % 8192 = o % 8192
  OBVIOUS
<1> QED BY <1>1, <1>3, <1>4

(* The header that set_ip writes.                                          *)
LEMMA SetIP ==
  ASSUME NEW p, HoldsIP(p), p.version = 4
  PROVE  HeaderIsSet(set_ip(p)) /\ set_ip(p).hl = 5
         /\ set_ip(p).off % 8192 = Swap16(p.offset) % 8192
<1>1. p.src \in Pairs /\ p.dst \in Pairs
  BY Zenon DEF HoldsIP, Addresses, Pairs
<1>2. /\ p.priority \in Int /\ p.rsv_tos \in Int /\ p.ident \in Int /\ p.hop_limit \in Int
      /\ p.offset \in Int /\ 0 <= p.offset /\ p.offset <= 8191
  BY DEF HoldsIP
<1>3. TOSByte(p) \in Int
  BY <1>2, FlagIsInt DEF TOSByte
<1>4. U16(p.offset) = p.offset
  BY <1>2 DEF U16
<1>5. OffWord(p) \in Int /\ U16(OffWord(p)) % 8192 = Swap16(p.offset) % 8192
  <2>1. PICK o \in Int : o = Swap16(p.offset)
    BY <1>2 DEF Swap16
  <2>2. PICK x \in Int, y \in Int, z \in Int :
          /\ x = (IF 15 \in p.frag THEN 4 ELSE 0)
          /\ y = (IF 14 \in p.frag THEN 2 ELSE 0)
          /\ z = (IF 13 \in p.frag THEN 1 ELSE 0)
    OBVIOUS
  <2>3. Flag(15, p.frag) = 8192 * x /\ Flag(14, p.frag) = 8192 * y /\ Flag(13, p.frag) = 8192 * z
    BY <2>2 DEF Flag
  <2>4. PICK k \in Int : k = x + y + z
    OBVIOUS
  <2>5. OffWord(p) = o + 8192 * k
    BY <1>4, <2>1, <2>3, <2>4 DEF OffWord
  <2> QED BY <2>1, <2>5, OffsetBits DEF U16
<1>6. /\ set_ip(p).hl = 5 /\ set_ip(p).tos = U8(TOSByte(p)) /\ set_ip(p).id = U16(p.ident)
      /\ set_ip(p).off = U16(OffWord(p)) /\ set_ip(p).ttl = U8(p.hop_limit)
      /\ set_ip(p).src = p.src /\ set_ip(p).dst = p.dst
  BY DEF set_ip, Blank
<1> QED BY <1>1, <1>2, <1>3, <1>5, <1>6, NumberRanges DEF HeaderIsSet

(* Its words.                                                              *)
LEMMA IPWordsTyped ==
  ASSUME NEW f, HeaderIsSet(f), f.len \in Words, f.p \in Bytes
  PROVE  Row(IPWords(f), 9)
<1> DEFINE head == <<17664 + f.tos, f.len, f.id, f.off, 256 * f.ttl + f.p>>
<1>1. /\ f.tos \in Int /\ 0 <= f.tos /\ f.tos < 256 /\ f.ttl \in Int /\ 0 <= f.ttl
      /\ f.ttl < 256 /\ f.p \in Int /\ 0 <= f.p /\ f.p < 256
  BY ByteRange DEF HeaderIsSet
<1>2. 17664 + f.tos \in Words /\ 256 * f.ttl + f.p \in Words
  BY <1>1, RangeIsWord
<1>3. Row(head, 5)
  BY <1>2, FiveInARow DEF HeaderIsSet
<1>4. Row(f.src, 2) /\ Row(f.dst, 2)
  BY PairIsRow DEF HeaderIsSet
<1>5. IPWords(f) = (head \o f.src) \o f.dst
  BY SMT DEF IPWords
<1> HIDE DEF head
<1>6. Row((head \o f.src) \o f.dst, (5 + 2) + 2)
  BY <1>3, <1>4, RowsJoined, Zenon
<1>7. PICK ws : ws = IPWords(f) /\ Row(ws, (5 + 2) + 2)
  BY <1>5, <1>6, Zenon
<1>8. Row(ws, 9)
  BY <1>7
<1> QED BY <1>7, <1>8, Zenon

(* A part of a sequence.                                                   *)
LEMMA PartOf ==
  ASSUME NEW S, NEW s, NEW m \in Int, NEW n \in Int, m <= n, \A i \in m .. n : s[i] \in S,
         NEW l, n - m + 1 = l
  PROVE  SubSeq(s, m, n) \in Seq(S) /\ Len(SubSeq(s, m, n)) = l
  BY SubSeqProperties, Zenon

(* TCP and UDP over IPv4 or IPv6.                                          *)
AddressesOf(p, f) ==
  IF p.version = 4 THEN f.src \in Pairs /\ f.dst \in Pairs
  ELSE f.src \in [1 .. 8 -> Words]

(* The pseudo header, and that of a receiver over IPv4.                    *)
LEMMA PseudoHeaderTyped ==
  ASSUME NEW p, NEW f, AddressesOf(p, f), NEW proto \in Words, NEW n \in Int
  PROVE  /\ Row(PseudoHeader(p, f, proto, n), 6)
         /\ p.version = 4 => PseudoHeader(p, f, proto, n) = f.src \o f.dst \o <<proto, U16(n)>>
<1>1. U16(n) \in Words
  BY NumberRanges
<1>2. CASE p.version = 4
  <2>1. Row(f.src, 2) /\ Row(f.dst, 2)
    BY <1>2, PairIsRow, Zenon DEF AddressesOf
  <2>2. Row(<<proto, U16(n)>>, 2)
    BY <1>1, TwoInARow, Zenon
  <2>3. Row((f.src \o f.dst) \o <<proto, U16(n)>>, (2 + 2) + 2)
    BY <2>1, <2>2, RowsJoined, Zenon
  <2>4. PseudoHeader(p, f, proto, n) = (f.src \o f.dst) \o <<proto, U16(n)>>
    BY <1>2, Zenon DEF PseudoHeader
  <2>5. 2 + 2 + 2 = 6
    OBVIOUS
  <2> QED BY <2>3, <2>4, <2>5, Zenon
<1>3. CASE p.version # 4
  <2>1. f.src \in [1 .. 8 -> Words]
    BY <1>3, Zenon DEF AddressesOf
  <2>2. f.src[1] \in Words /\ \A i \in 3 .. 6 : f.src[i] \in Words
    BY <2>1
  <2>3. f.src[1] % 256 \in Words
    <3>1. f.src[1] \in Int
      BY <2>2, WordRange
    <3> QED BY <3>1, NumberRanges DEF U8
  <2>4. SubSeq(f.src, 3, 6) \in Seq(Words) /\ Len(SubSeq(f.src, 3, 6)) = 4
    <3>1. PICK m \in Int, n1 \in Int : m = 3 /\ n1 = 6
      OBVIOUS
    <3>2. m <= n1 /\ n1 - m + 1 = 4 /\ \A i \in m .. n1 : f.src[i] \in Words
      BY <2>2, <3>1
    <3>3. SubSeq(f.src, m, n1) \in Seq(Words) /\ Len(SubSeq(f.src, m, n1)) = 4
      BY <3>2, PartOf
    <3> QED BY <3>1, <3>3, Zenon
  <2>5. Row(SubSeq(f.src, 3, 6), 4)
    BY <2>4, Zenon DEF Row
  <2>6. Row(<<f.src[1] % 256, U16(n)>>, 2)
    BY <1>1, <2>3, TwoInARow, Zenon
  <2>7. Row(SubSeq(f.src, 3, 6) \o <<f.src[1] % 256, U16(n)>>, 4 + 2)
    BY <2>5, <2>6, RowsJoined, Zenon
  <2>8. PseudoHeader(p, f, proto, n) = SubSeq(f.src, 3, 6) \o <<f.src[1] % 256, U16(n)>>
    BY <1>3, Zenon DEF PseudoHeader
  <2>9. 4 + 2 = 6
    OBVIOUS
  <2> QED BY <1>3, <2>7, <2>8, <2>9, Zenon
<1> QED BY <1>2, <1>3, Zenon

-----------------------------------------------------------------------------
(* set_tcp.                                                                *)

(* Zero is a word.                                                         *)
LEMMA ZeroIsWord == 0 \in Words
  BY DEF Words

(* The flags of TCP fill a byte.                                           *)
LEMMA TCPFlagsRange ==
  ASSUME NEW bits
  PROVE  TCPFlags(bits) \in Int /\ 0 <= TCPFlags(bits) /\ TCPFlags(bits) <= 255
<1>1. /\ Flag(0, bits) \in {0, 1} /\ Flag(1, bits) \in {0, 2} /\ Flag(2, bits) \in {0, 4}
      /\ Flag(3, bits) \in {0, 8} /\ Flag(4, bits) \in {0, 16} /\ Flag(5, bits) \in {0, 32}
      /\ Flag(6, bits) \in {0, 64} /\ Flag(7, bits) \in {0, 128}
  BY DEF Flag
<1>2. PICK a \in Int, b \in Int, c \in Int, d \in Int :
        /\ a = Flag(0, bits) + Flag(1, bits) /\ 0 <= a /\ a <= 3
        /\ b = Flag(2, bits) + Flag(3, bits) /\ 0 <= b /\ b <= 12
        /\ c = Flag(4, bits) + Flag(5, bits) /\ 0 <= c /\ c <= 48
        /\ d = Flag(6, bits) + Flag(7, bits) /\ 0 <= d /\ d <= 192
  BY <1>1, SMTT(30)
<1>3. TCPFlags(bits) = a + b + c + d
  BY <1>1, <1>2 DEF TCPFlags
<1> QED BY <1>2, <1>3

(* The checksum adds itself to the sum that was made with a zero in its    *)
(* place.                                                                  *)
LEMMA SumWithChecksum ==
  ASSUME NEW head, NEW n, Row(head, n), NEW a \in Words, NEW b \in Words, NEW c \in Words,
         NEW d \in Words
  PROVE  Sum(head \o <<a, b, c, d>>) = Sum(head \o <<a, b, 0, d>>) + c
<1>1. Row(<<a, b, c, d>>, 4) /\ Row(<<a, b, 0, d>>, 4)
  BY FourInARow, ZeroIsWord, Zenon
<1>2. /\ Sum(head \o <<a, b, c, d>>) = Sum(head) + Sum(<<a, b, c, d>>)
      /\ Sum(head \o <<a, b, 0, d>>) = Sum(head) + Sum(<<a, b, 0, d>>)
      /\ Sum(head) \in Int
  BY <1>1, SumOfRows, Zenon
<1>3. PICK s \in Int, u \in Int, v \in Int, w \in Int, x \in Int :
        s = Sum(head) /\ u = a /\ v = b /\ w = c /\ x = d
  BY <1>2, WordRange
<1>4. Sum(<<u, v, w, x>>) = u + v + w + x /\ Sum(<<u, v, 0, x>>) = u + v + 0 + x
  <2>1. PICK z \in Int : z = 0
    OBVIOUS
  <2>2. Sum(<<u, v, w, x>>) = u + v + w + x /\ Sum(<<u, v, z, x>>) = u + v + z + x
    BY SumOfFour
  <2> QED BY <2>1, <2>2
<1>5. Sum(<<a, b, c, d>>) = u + v + w + x /\ Sum(<<a, b, 0, d>>) = u + v + 0 + x
  BY <1>3, <1>4, Zenon
<1>6. /\ Sum(head \o <<a, b, c, d>>) = s + (u + v + w + x)
      /\ Sum(head \o <<a, b, 0, d>>) = s + (u + v + 0 + x)
  BY <1>2, <1>3, <1>5, Zenon
<1>7. s + (u + v + w + x) = (s + (u + v + 0 + x)) + w
  OBVIOUS
<1> QED BY <1>3, <1>6, <1>7, Zenon

(* A receiver over IPv4 accepts the checksum of set_tcp.                   *)
LEMMA SetTCP ==
  ASSUME NEW p, HoldsTCP(p), p.data \in Seq(Bytes), Len(p.data) <= MAX_PACKET_SIZE,
         NEW f, AddressesOf(p, f), NEW j \in Words
  PROVE  /\ Row(set_tcp(p, f, j), 10)
         /\ p.version = 4 =>
              Accepts((f.src \o f.dst \o <<TCP, U16(Len(p.data) + TCPHDRLEN)>>)
                        \o set_tcp(p, f, j), p.data)
<1> DEFINE n      == Len(p.data) + TCPHDRLEN
           ports  == <<U16(p.src_port), U16(p.dst_port)>>
           head   == ports \o p.sequence \o p.ack_num
           a      == 20480 + 256 * (j % 16) + TCPFlags(p.flags)
           b      == U16(p.window)
           d      == U16(p.urgent_pointer)
           pseudo == PseudoHeader(p, f, TCP, n)
           zero   == head \o <<a, b, 0, d>>
           c      == in_cksum2(pseudo, zero, p.data)
           full   == head \o <<a, b, c, d>>
<1>1. set_tcp(p, f, j) = full
  BY SMT DEF set_tcp
<1>2. /\ U16(p.src_port) \in Words /\ U16(p.dst_port) \in Words /\ b \in Words /\ d \in Words
      /\ p.sequence \in Pairs /\ p.ack_num \in Pairs
  <2>1. /\ p.src_port \in Int /\ p.dst_port \in Int /\ p.window \in Int
        /\ p.urgent_pointer \in Int /\ p.sequence \in Pairs /\ p.ack_num \in Pairs
    BY DEF HoldsTCP
  <2> QED BY <2>1, NumberRanges
<1>3. a \in Words
  <2>1. j \in Int /\ 0 <= j
    BY WordRange
  <2>2. PICK x \in Int, y \in Int : x = j % 16 /\ y = TCPFlags(p.flags)
                                    /\ 0 <= x /\ x < 16 /\ 0 <= y /\ y <= 255
    BY <2>1, TCPFlagsRange
  <2>3. 20480 + 256 * x + y \in Words
    BY <2>2, RangeIsWord
  <2> QED BY <2>2, <2>3
<1>4. n \in Int /\ TCP \in Words
  BY RangeIsWord DEF TCPHDRLEN, TCP
<1> HIDE DEF a, b, d, n
<1>5. /\ Row(pseudo, 6)
      /\ p.version = 4 => pseudo = f.src \o f.dst \o <<TCP, U16(n)>>
  BY <1>4, PseudoHeaderTyped, Zenon
<1> HIDE DEF pseudo
<1>6. Row(head, (2 + 2) + 2)
  BY <1>2, TwoInARow, PairIsRow, RowsJoined, Zenon
<1> HIDE DEF head
<1>7. Row(zero, ((2 + 2) + 2) + 4)
  BY <1>2, <1>3, <1>6, ZeroIsWord, FourInARow, RowsJoined, Zenon
<1> HIDE DEF zero
<1>8. c \in Words
  BY <1>5, <1>7, Cksum2IsWord, RowIsSeq
<1>9. Sum(full) = Sum(zero) + c
  <2> HIDE DEF c
  <2>1. Sum(head \o <<a, b, c, d>>) = Sum(head \o <<a, b, 0, d>>) + c
    BY <1>2, <1>3, <1>6, <1>8, SumWithChecksum
  <2> QED BY <2>1, Zenon DEF zero, full
<1>10. Row(full, ((2 + 2) + 2) + 4)
  <2> HIDE DEF c
  <2> QED BY <1>2, <1>3, <1>6, <1>8, FourInARow, RowsJoined, Zenon
<1> HIDE DEF full
<1>11. Row(full, 10)
  BY <1>10
<1>12. Accepts(pseudo \o full, p.data)
  <2>1. Len(pseudo) + Len(zero) + Len(p.data) <= Longest
    BY <1>5, <1>7 DEF Longest, MAX_PACKET_SIZE, Row
  <2>2. pseudo \in Seq(Words) /\ zero \in Seq(Words) /\ full \in Seq(Words)
    BY <1>5, <1>7, <1>10, RowIsSeq
  <2> HIDE DEF c
  <2> QED BY <2>1, <2>2, <1>9, Cksum2IsAccepted, Zenon DEF c
<1> QED BY <1>1, <1>5, <1>11, <1>12, Zenon DEF n

-----------------------------------------------------------------------------
(* set_udp, and the words of ICMP.                                         *)

(* A receiver over IPv4 accepts the checksum of set_udp, which is never 0. *)
LEMMA SetUDP ==
  ASSUME NEW p, p.src_port \in Int, p.dst_port \in Int, p.data \in Seq(Bytes),
         Len(p.data) <= MAX_PACKET_SIZE, NEW f, AddressesOf(p, f)
  PROVE  /\ Row(set_udp(p, f), 4) /\ set_udp(p, f)[4] # 0
         /\ p.version = 4 =>
              Accepts((f.src \o f.dst \o <<UDP, U16(Len(p.data) + UDPHDRLEN)>>)
                        \o set_udp(p, f), p.data)
<1> DEFINE n      == Len(p.data) + UDPHDRLEN
           a      == U16(p.src_port)
           b      == U16(p.dst_port)
           l      == U16(n)
           pseudo == PseudoHeader(p, f, UDP, n)
           zero   == <<a, b, l, 0>>
           c      == in_cksum2(pseudo, zero, p.data)
           d      == NonZero(c)
           full   == <<a, b, l, d>>
<1>1. set_udp(p, f) = full
  BY SMT DEF set_udp
<1>2. n \in Int /\ UDP \in Words
  BY RangeIsWord DEF UDPHDRLEN, UDP
<1>3. a \in Words /\ b \in Words /\ l \in Words
  BY <1>2, NumberRanges
<1> HIDE DEF n, a, b, l
<1>4. /\ Row(pseudo, 6)
      /\ p.version = 4 => pseudo = f.src \o f.dst \o <<UDP, U16(n)>>
  BY <1>2, PseudoHeaderTyped, Zenon
<1> HIDE DEF pseudo
<1>5. Row(zero, 4)
  BY <1>3, ZeroIsWord, FourInARow, Zenon
<1> HIDE DEF zero
<1>6. c \in Words
  BY <1>4, <1>5, Cksum2IsWord, RowIsSeq
<1> HIDE DEF c
<1>7. d \in Words /\ d # 0
  <2>1. 65535 \in Words
    BY RangeIsWord
  <2> QED BY <1>6, <2>1 DEF NonZero
<1>8. Row(full, 4)
  <2> HIDE DEF d
  <2> QED BY <1>3, <1>7, FourInARow, Zenon
<1>9. Sum(full) = Sum(zero) + d
  <2> HIDE DEF d
  <2>1. PICK t \in Int, u \in Int, v \in Int, w \in Int, z \in Int :
          t = a /\ u = b /\ v = l /\ w = d /\ z = 0
    BY <1>3, <1>7, WordRange
  <2>2. Sum(<<t, u, v, w>>) = t + u + v + w /\ Sum(<<t, u, v, z>>) = t + u + v + z
    BY SumOfFour
  <2>3. Sum(<<t, u, v, w>>) = Sum(<<t, u, v, z>>) + w
    BY <2>1, <2>2
  <2> QED BY <2>1, <2>3, Zenon DEF zero
<1>10. full[4] = d
  OBVIOUS
<1> HIDE DEF full
<1>11. Accepts(pseudo \o full, p.data)
  <2>1. Len(pseudo) + Len(zero) + Len(p.data) <= Longest
    BY <1>4, <1>5 DEF Longest, MAX_PACKET_SIZE, Row
  <2>2. pseudo \in Seq(Words) /\ zero \in Seq(Words) /\ full \in Seq(Words)
    BY <1>4, <1>5, <1>8, RowIsSeq
  <2> QED BY <2>1, <2>2, <1>9, Cksum2IsAccepted, Zenon DEF c, d
<1> QED BY <1>1, <1>4, <1>7, <1>8, <1>10, <1>11, Zenon DEF n

-----------------------------------------------------------------------------
(* ICMP.                                                                   *)

(* The datagram in an ICMP error.                                          *)
LEMMA EmbeddedTyped ==
  ASSUME NEW p, HoldsIP(p), p.version = 4, NEW j \in Words
  PROVE  Row(Embedded(p, j), 12)
<1> DEFINE inner == set_ip(p)
           f     == [inner EXCEPT !.off = Swap16(inner.off), !.len = j, !.p = j % 256]
<1>1. HeaderIsSet(inner)
  BY SetIP
<1>2. /\ f.tos = inner.tos /\ f.id = inner.id /\ f.off = Swap16(inner.off)
      /\ f.ttl = inner.ttl /\ f.src = inner.src /\ f.dst = inner.dst
      /\ f.len = j /\ f.p = j % 256
  BY SMT DEF set_ip, Blank
<1>3. j % 256 \in Bytes
  <2>1. j \in Int
    BY WordRange
  <2> QED BY <2>1, NumberRanges DEF U8
<1>4. Swap16(inner.off) \in Words
  BY <1>1, SwapIsWord, Zenon DEF HeaderIsSet
<1> DEFINE top == SubSeq(IPWords(f), 1, 5)
<1>5. Embedded(p, j) = (((top \o <<j>>) \o f.src) \o f.dst) \o <<j, j>>
  BY Zenon DEF Embedded
<1> HIDE DEF f, inner
<1>6. HeaderIsSet(f) /\ f.len \in Words /\ f.p \in Bytes
  BY <1>1, <1>2, <1>3, <1>4 DEF HeaderIsSet
<1>7. Row(top, 5)
  <2>1. PICK ws : ws = IPWords(f) /\ Row(ws, 9)
    BY <1>6, IPWordsTyped, Zenon
  <2>2. PICK m \in Int, n \in Int : m = 1 /\ n = 5
    OBVIOUS
  <2>3. m <= n /\ n - m + 1 = 5 /\ \A i \in m .. n : i \in 1 .. 9
    BY <2>2
  <2>4. \A i \in m .. n : ws[i] \in Words
    <3>1. ws \in Seq(Words) /\ Len(ws) = 9
      BY <2>1, Zenon DEF Row
    <3>2. \A i \in 1 .. Len(ws) : ws[i] \in Words
      BY <3>1, LenProperties
    <3> QED BY <2>3, <3>1, <3>2, Zenon
  <2>5. SubSeq(ws, m, n) \in Seq(Words) /\ Len(SubSeq(ws, m, n)) = 5
    BY <2>3, <2>4, PartOf
  <2> QED BY <2>1, <2>2, <2>5, Zenon DEF Row
<1> HIDE DEF top
<1>8. Row(<<j>>, 1) /\ Row(<<j, j>>, 2)
  BY TwoInARow DEF Row
<1>9. Row(f.src, 2) /\ Row(f.dst, 2)
  BY <1>6, PairIsRow DEF HeaderIsSet
<1>10. Row(((((top \o <<j>>) \o f.src) \o f.dst) \o <<j, j>>), (((5 + 1) + 2) + 2) + 2)
  BY <1>7, <1>8, <1>9, RowsJoined, Zenon
<1>11. (((5 + 1) + 2) + 2) + 2 = 12
  OBVIOUS
<1> QED BY <1>5, <1>10, <1>11, Zenon

(* The words of every ICMP message.                                        *)
LEMMA ICMPWordsTyped ==
  ASSUME NEW p, HoldsICMP(p), p.type \in Handled, NEW j \in Words
  PROVE  \E n \in 2 .. 14 : Row(ICMPWords(p, j), n)
<1>1. p.id \in Int /\ p.seq \in Int
  BY Zenon DEF HoldsICMP
<1>2. /\ p.type \in TIMESTAMP => p.type \notin ECHO
      /\ p.type \in MASK => p.type \notin ECHO /\ p.type \notin TIMESTAMP
      /\ p.type \in ERRORS => p.type \notin ECHO /\ p.type \notin TIMESTAMP /\ p.type \notin MASK
  BY DEF ECHO, TIMESTAMP, MASK, ERRORS
<1>3. Row(<<U16(p.id), U16(p.seq)>>, 2) /\ Row(<<j, j>>, 2)
  BY <1>1, NumberRanges, TwoInARow
<1>4. CASE p.type \in ECHO
  <2>1. ICMPWords(p, j) = <<U16(p.id), U16(p.seq)>>
    BY <1>2, <1>4, Zenon DEF ICMPWords
  <2> QED BY <1>3, <2>1
<1>5. CASE p.type \in TIMESTAMP
  <2>1. ICMPWords(p, j) = <<U16(p.id), U16(p.seq)>> \o p.orig_timestamp
                            \o p.recv_timestamp \o p.trans_timestamp
    BY <1>2, <1>5, Zenon DEF ICMPWords
  <2>2. p.orig_timestamp \in Pairs /\ p.recv_timestamp \in Pairs /\ p.trans_timestamp \in Pairs
    BY <1>5 DEF HoldsICMP
  <2>3. Row(ICMPWords(p, j), ((2 + 2) + 2) + 2)
    BY <1>3, <2>1, <2>2, PairIsRow, RowsJoined, Zenon
  <2>4. Row(ICMPWords(p, j), 8)
    BY <2>3
  <2> QED BY <2>4
<1>6. CASE p.type \in MASK
  <2>1. ICMPWords(p, j) = <<U16(p.id), U16(p.seq)>> \o p.subnetmask
    BY <1>2, <1>6, Zenon DEF ICMPWords
  <2>2. p.subnetmask \in Pairs
    BY <1>6 DEF HoldsICMP
  <2>3. Row(ICMPWords(p, j), 2 + 2)
    BY <1>3, <2>1, <2>2, PairIsRow, RowsJoined, Zenon
  <2>4. Row(ICMPWords(p, j), 4)
    BY <2>3
  <2> QED BY <2>4
<1>7. CASE p.type \in ERRORS
  <2> DEFINE a == IF p.type = REDIRECT THEN p.redir_ip ELSE <<j, j>>
             b == IF p.ippacket = <<>> THEN <<j, j>> ELSE Embedded(p.ippacket[1], j)
  <2>1. ICMPWords(p, j) = a \o b
    BY <1>2, <1>7, Zenon DEF ICMPWords
  <2>2. Row(a, 2)
    BY <1>3, PairIsRow DEF HoldsICMP
  <2>3. Row(b, 2) \/ Row(b, 12)
    BY <1>3, EmbeddedTyped DEF HoldsICMP
  <2> HIDE DEF a, b
  <2>4. Row(a \o b, 2 + 2) \/ Row(a \o b, 2 + 12)
    BY <2>2, <2>3, RowsJoined, Zenon
  <2>5. Row(ICMPWords(p, j), 4) \/ Row(ICMPWords(p, j), 14)
    <3>1. 2 + 2 = 4 /\ 2 + 12 = 14
      OBVIOUS
    <3> QED BY <2>1, <2>4, <3>1, Zenon
  <2> QED BY <2>5
<1> QED BY <1>4, <1>5, <1>6, <1>7 DEF Handled

-----------------------------------------------------------------------------
(* set_icmp.                                                               *)

(* The numbers of an ICMP message.                                         *)
LEMMA ICMPNumbers ==
  ASSUME NEW p, HoldsICMP(p)
  PROVE  /\ p.type \in Int /\ -128 <= p.type /\ p.type < 128 /\ p.code \in Int
         /\ p.id \in Int /\ p.seq \in Int
<1> DEFINE S == -(2^7) .. 2^7 - 1
<1>1. p.type \in S /\ p.code \in S /\ p.id \in Int /\ p.seq \in Int
  BY Zenon DEF HoldsICMP
<1> QED BY <1>1

(* Those of an echo are two.                                               *)
LEMMA EchoWords ==
  ASSUME NEW p, HoldsICMP(p), p.type \in ECHO, NEW j \in Words
  PROVE  Row(ICMPWords(p, j), 2)
<1>1. p.id \in Int /\ p.seq \in Int
  BY ICMPNumbers
<1>2. Row(<<U16(p.id), U16(p.seq)>>, 2)
  BY <1>1, NumberRanges, TwoInARow
<1>3. p.type \notin TIMESTAMP /\ p.type \notin MASK /\ p.type \notin ERRORS
  BY DEF ECHO, TIMESTAMP, MASK, ERRORS
<1>4. ICMPWords(p, j) = <<U16(p.id), U16(p.seq)>>
  BY <1>3, Zenon DEF ICMPWords
<1> QED BY <1>2, <1>4, Zenon

(* The sum of two words.                                                   *)
LEMMA SumOfTwo ==
  ASSUME NEW a \in Int, NEW b \in Int
  PROVE  Sum(<<a, b>>) = a + b
<1> DEFINE g == [i \in 0 .. 2 |-> CASE i = 0 -> 0 [] i = 1 -> a [] OTHER -> a + b]
<1>1. Partial(g, <<a, b>>)
  BY DEF Partial
<1>2. <<a, b>> \in Seq(Int) /\ Len(<<a, b>>) = 2 /\ g[2] = a + b
  OBVIOUS
<1> HIDE DEF g
<1>3. Sum(<<a, b>>) = g[Len(<<a, b>>)]
  BY <1>1, <1>2, SumIs, Zenon
<1> QED BY <1>2, <1>3

(* What set_icmp writes, with what room it takes.                          *)
ICMPIsSet(t, data) ==
  /\ t.body \in Seq(Bytes)
  /\ \E n \in 0 .. 16 :
       /\ Row(t.tr, n)
       /\ 2 * n + Len(t.body) <= 32 \/ 2 * n + Len(t.body) <= 8 + Len(data)
  /\ t.tr # <<>> /\ ~IsOdd(t.body) => Accepts(t.tr, t.body)

(* A receiver accepts the checksum of set_icmp, for the types that it      *)
(* knows,                                                                  *)
LEMMA SetICMPHandled ==
  ASSUME NEW p, HoldsICMP(p), p.data \in Seq(Bytes), Len(p.data) <= MAX_PACKET_SIZE,
         NEW j \in Words, p.type \in Handled
  PROVE  ICMPIsSet(set_icmp(p, j), p.data)
<1> DEFINE h    == 256 * U8(p.type) + U8(p.code)
           rest == ICMPWords(p, j)
           data == IF p.type \in ECHO THEN p.data ELSE <<>>
           zero == <<h, 0>> \o rest
           c    == in_cksum(zero, data, j % 256)
           full == <<h, c>> \o rest
           t    == set_icmp(p, j)
<1>1. t.tr = full /\ t.body = data
  BY SMT DEF set_icmp
<1>2. h \in Words
  <2>1. p.type \in Int /\ p.code \in Int
    BY ICMPNumbers
  <2>2. PICK x \in Int, y \in Int : /\ x = U8(p.type) /\ y = U8(p.code)
                                    /\ 0 <= x /\ x < 256 /\ 0 <= y /\ y < 256
    BY <2>1 DEF U8
  <2>3. 256 * x + y \in Words
    BY <2>2, RangeIsWord
  <2> QED BY <2>2, <2>3
<1>3. PICK n \in 2 .. 14 : Row(rest, n) /\ (p.type \in ECHO => n = 2)
  <2>1. CASE p.type \in ECHO
    <3>1. Row(rest, 2) /\ 2 \in 2 .. 14
      BY <2>1, EchoWords
    <3> QED BY <3>1
  <2>2. CASE p.type \notin ECHO
    BY <2>2, ICMPWordsTyped
  <2> QED BY <2>1, <2>2
<1>4. data \in Seq(Bytes) /\ Len(data) \in Nat /\ (p.type \notin ECHO => Len(data) = 0)
      /\ (p.type \in ECHO => data = p.data)
  OBVIOUS
<1>5. j % 256 \in Bytes
  <2>1. j \in Int
    BY WordRange
  <2> QED BY <2>1, NumberRanges DEF U8
<1> HIDE DEF h, rest, data
<1>6. Row(zero, 2 + n)
  BY <1>2, <1>3, ZeroIsWord, TwoInARow, RowsJoined, Zenon
<1>7. c \in Words
  <2> HIDE DEF zero
  <2> QED BY <1>4, <1>5, <1>6, CksumIsWord, RowIsSeq
<1>8. Row(full, 2 + n) /\ Sum(full) = Sum(zero) + c
  <2> HIDE DEF c
  <2>1. Row(<<h, c>>, 2) /\ Row(<<h, 0>>, 2)
    BY <1>2, <1>7, ZeroIsWord, TwoInARow, Zenon
  <2>2. /\ Sum(full) = Sum(<<h, c>>) + Sum(rest) /\ Sum(zero) = Sum(<<h, 0>>) + Sum(rest)
        /\ Sum(rest) \in Int
    BY <1>3, <2>1, SumOfRows, Zenon DEF full, zero
  <2>3. PICK x \in Int, y \in Int, z \in Int, s \in Int :
          x = h /\ y = c /\ z = 0 /\ s = Sum(rest)
    BY <1>2, <1>7, <2>2, WordRange
  <2>4. Sum(<<x, y>>) = x + y /\ Sum(<<x, z>>) = x + z
    BY SumOfTwo
  <2>5. Sum(<<h, c>>) = x + y /\ Sum(<<h, 0>>) = x + z
    BY <2>3, <2>4, Zenon
  <2>6. Sum(full) = (x + y) + s /\ Sum(zero) = (x + z) + s
    BY <2>2, <2>3, <2>5, Zenon
  <2>7. (x + y) + s = ((x + z) + s) + y
    BY <2>3
  <2>8. Sum(full) = Sum(zero) + c
    BY <2>3, <2>6, <2>7, Zenon
  <2>9. Row(full, 2 + n)
    BY <1>3, <2>1, RowsJoined, Zenon DEF full
  <2> QED BY <2>8, <2>9
<1> HIDE DEF full, zero
<1>9. ~IsOdd(data) => Accepts(full, data)
  <2>1. Len(zero) + Len(data) <= Longest
    BY <1>3, <1>4, <1>6 DEF Row, Longest, MAX_PACKET_SIZE
  <2>2. zero \in Seq(Words) /\ full \in Seq(Words)
    BY <1>6, <1>8, RowIsSeq
  <2> QED BY <1>4, <1>8, <2>1, <2>2, CksumIsAccepted, ZenonT(40)
<1>10. 2 * (2 + n) + Len(data) <= 32 \/ 2 * (2 + n) + Len(data) <= 8 + Len(p.data)
  BY <1>3, <1>4
<1>11. PICK m \in 0 .. 16 : m = 2 + n
  BY <1>3
<1> HIDE DEF c, t
<1>12. Row(t.tr, m) /\ (2 * m + Len(t.body) <= 32 \/ 2 * m + Len(t.body) <= 8 + Len(p.data))
  BY <1>1, <1>8, <1>10, <1>11
<1>13. ICMPIsSet(t, p.data)
  BY <1>1, <1>4, <1>9, <1>12, Zenon DEF ICMPIsSet
<1> QED BY <1>13 DEF t

(* and there is none to accept for the others.                             *)
LEMMA SetICMP ==
  ASSUME NEW p, HoldsICMP(p), p.data \in Seq(Bytes), Len(p.data) <= MAX_PACKET_SIZE,
         NEW j \in Words
  PROVE  ICMPIsSet(set_icmp(p, j), p.data)
<1>1. CASE p.type \notin Handled
  <2> DEFINE t == set_icmp(p, j)
  <2>1. p.type \in Int /\ p.code \in Int /\ j \in Int
    BY WordRange, ICMPNumbers
  <2>2. U8(p.type) \in Bytes /\ U8(p.code) \in Bytes /\ j % 256 \in Bytes
    BY <2>1, NumberRanges DEF U8
  <2>3. t.tr = <<>> /\ t.body = [i \in DOMAIN p.data |->
                                  CASE i = 1 -> U8(p.type) [] i = 2 -> U8(p.code)
                                    [] OTHER -> j % 256]
    BY <1>1, SMT DEF set_icmp
  <2>4. DOMAIN p.data = 1 .. Len(p.data) /\ Len(p.data) \in Nat
    BY LenProperties, Zenon
  <2>5. t.body \in [1 .. Len(p.data) -> Bytes]
    BY <2>2, <2>3, <2>4
  <2> HIDE DEF t
  <2>6. t.body \in Seq(Bytes) /\ Len(t.body) = Len(p.data)
    BY <2>4, <2>5
  <2>7. Row(t.tr, 0) /\ 0 \in 0 .. 16 /\ 2 * 0 + Len(t.body) <= 8 + Len(p.data)
    BY <2>3, <2>4, <2>6, NoneInARow
  <2>8. ICMPIsSet(t, p.data)
    BY <2>3, <2>6, <2>7 DEF ICMPIsSet
  <2> QED BY <2>8 DEF t
<1>2. CASE p.type \in Handled
  BY <1>2, SetICMPHandled
<1> QED BY <1>1, <1>2

-----------------------------------------------------------------------------
(* What set_packet puts behind the header of IP.                           *)

(* What is put behind the IP header, and that a receiver accepts it.       *)
TransportIsSet(p, ip, t) ==
  /\ t.tr \in Seq(Words) /\ t.body \in Seq(Bytes)
  /\ LengthOf(t) \in Int /\ 0 <= LengthOf(t)
  /\ (IF p.version = 4 THEN 34 ELSE 54) + LengthOf(t) <= MAX_PACKET_SIZE
  /\ p.class = "TCPPacket" => Len(t.tr) = 10
  /\ p.class = "UDPPacket" => Len(t.tr) = 4 /\ t.tr[4] # 0
  /\ p.version = 4 /\ p.class \in {"TCPPacket", "UDPPacket"} =>
       Accepts((ip.src \o ip.dst \o <<Protocol(p), LengthOf(t)>>) \o t.tr, t.body)
  /\ p.class = "ICMPPacket" /\ t.tr # <<>> /\ LengthOf(t) % 2 = 0 => Accepts(t.tr, t.body)

(* What an object of IP holds.                                             *)
LEMMA PacketIP ==
  ASSUME NEW p, IsPacket(p), IsIP(p)
  PROVE  /\ p.class \in {"IPPacket", "TCPPacket", "UDPPacket", "ICMPPacket"}
         /\ HoldsIP(p) /\ p.version \in {4, 6} /\ p.data \in Seq(Bytes) /\ Len(p.data) \in Nat
         /\ (IF p.version = 4 THEN 34 ELSE 54) + HeaderOf(p) + Len(p.data) <= MAX_PACKET_SIZE
         /\ p.class = "TCPPacket" => HoldsTCP(p)
         /\ p.class = "UDPPacket" => p.src_port \in Int /\ p.dst_port \in Int
         /\ p.class = "ICMPPacket" => p.version = 4 /\ HoldsICMP(p)
<1>1. /\ p.class \in {"IPPacket", "TCPPacket", "UDPPacket", "ICMPPacket"}
      /\ HoldsIP(p) /\ p.data \in Seq(Bytes)
      /\ (IF p.version = 4 THEN 34 ELSE 54) + HeaderOf(p) + Len(p.data) <= MAX_PACKET_SIZE
      /\ p.class = "TCPPacket" => HoldsTCP(p)
      /\ p.class = "UDPPacket" => {p.src_port, p.dst_port} \subseteq Int
      /\ p.class = "ICMPPacket" => p.version = 4 /\ HoldsICMP(p)
  BY SMT DEF IsPacket, IsIP
<1>2. p.version \in {4, 6}
  BY <1>1, Zenon DEF HoldsIP
<1>3. Len(p.data) \in Nat
  BY <1>1, LenProperties, Zenon
<1> QED BY <1>1, <1>2, <1>3, Zenon

(* What set_packet puts behind the header of IP is accepted, whatever the  *)
(* object.                                                                 *)
LEMMA TransportTyped ==
  ASSUME NEW p, IsPacket(p), IsIP(p), NEW ip, AddressesOf(p, ip), NEW j \in Words
  PROVE  TransportIsSet(p, ip, Transport(p, ip, j))
<1> DEFINE t == Transport(p, ip, j)
           base == IF p.version = 4 THEN 34 ELSE 54
<1>1. /\ p.class \in {"IPPacket", "TCPPacket", "UDPPacket", "ICMPPacket"}
      /\ HoldsIP(p) /\ p.version \in {4, 6} /\ p.data \in Seq(Bytes) /\ Len(p.data) \in Nat
      /\ base + HeaderOf(p) + Len(p.data) <= MAX_PACKET_SIZE
      /\ p.class = "TCPPacket" => HoldsTCP(p)
      /\ p.class = "UDPPacket" => p.src_port \in Int /\ p.dst_port \in Int
      /\ p.class = "ICMPPacket" => p.version = 4 /\ HoldsICMP(p)
  BY PacketIP
<1>2. HeaderOf(p) \in {0, 8, 20}
  BY DEF HeaderOf, TCPHDRLEN
<1>3. /\ base \in {34, 54} /\ Len(p.data) \in Nat
      /\ base + HeaderOf(p) + Len(p.data) <= MAX_PACKET_SIZE
      /\ p.version = 4 => base = 34
  BY <1>1
<1> HIDE DEF base
<1>4. PICK k \in Int, b \in Int, h \in Int :
        /\ k = Len(p.data) /\ b = base /\ h = HeaderOf(p)
        /\ 0 <= k /\ b \in {34, 54} /\ h \in {0, 8, 20} /\ b + h + k <= 1600
        /\ p.version = 4 => b = 34
  BY <1>2, <1>3 DEF MAX_PACKET_SIZE
<1>5. 0 <= k /\ b \in {34, 54} /\ b + h + k <= 1600 /\ (p.version = 4 => b = 34)
  BY <1>4
<1>6. Len(p.data) <= MAX_PACKET_SIZE
  <2>1. k <= 1600
    BY <1>4
  <2> QED BY <1>4, <2>1 DEF MAX_PACKET_SIZE
<1>7. CASE p.class = "TCPPacket"
  <2>1. t.tr = set_tcp(p, ip, j) /\ t.body = p.data /\ Protocol(p) = TCP /\ HeaderOf(p) = 20
    BY <1>7 DEF Transport, Protocol, HeaderOf, TCPHDRLEN
  <2> HIDE DEF t
  <2>2. /\ Row(t.tr, 10)
        /\ p.version = 4 =>
             Accepts((ip.src \o ip.dst \o <<TCP, U16(Len(p.data) + TCPHDRLEN)>>) \o t.tr, t.body)
    BY <1>1, <1>6, <1>7, <2>1, SetTCP, Zenon
  <2>3. Len(t.tr) = 10 /\ t.tr \in Seq(Words) /\ h = 20
    BY <1>4, <2>1, <2>2 DEF Row
  <2>4. LengthOf(t) = k + 20
    BY <1>4, <2>1, <2>3 DEF LengthOf
  <2>5. h = 20
    BY <2>3
  <2>6. k + 20 \in Int /\ 0 <= k + 20 /\ b + (k + 20) <= 1600 /\ U16(k + 20) = k + 20
    BY <1>5, <2>5 DEF U16
  <2>7. U16(Len(p.data) + TCPHDRLEN) = LengthOf(t)
    BY <1>4, <2>4, <2>6 DEF TCPHDRLEN
  <2>8. p.version = 4 =>
          Accepts((ip.src \o ip.dst \o <<Protocol(p), LengthOf(t)>>) \o t.tr, t.body)
    BY <2>1, <2>2, <2>7, Zenon
  <2>9. LengthOf(t) \in Int /\ 0 <= LengthOf(t) /\ base + LengthOf(t) <= MAX_PACKET_SIZE
    BY <1>4, <2>4, <2>6 DEF MAX_PACKET_SIZE
  <2>10. TransportIsSet(p, ip, t)
    BY <1>1, <1>7, <2>1, <2>8, <2>9, <2>3, Zenon DEF TransportIsSet, base
  <2> QED BY <2>10 DEF t
<1>8. CASE p.class = "UDPPacket"
  <2>1. t.tr = set_udp(p, ip) /\ t.body = p.data /\ Protocol(p) = UDP /\ HeaderOf(p) = 8
    BY <1>8 DEF Transport, Protocol, HeaderOf
  <2> HIDE DEF t
  <2>2. /\ Row(t.tr, 4) /\ t.tr[4] # 0
        /\ p.version = 4 =>
             Accepts((ip.src \o ip.dst \o <<UDP, U16(Len(p.data) + UDPHDRLEN)>>) \o t.tr, t.body)
    BY <1>1, <1>6, <1>8, <2>1, SetUDP, Zenon
  <2>3. Len(t.tr) = 4 /\ t.tr \in Seq(Words) /\ h = 8
    BY <1>4, <2>1, <2>2 DEF Row
  <2>4. LengthOf(t) = k + 8
    BY <1>4, <2>1, <2>3 DEF LengthOf
  <2>5. h = 8
    BY <2>3
  <2>6. k + 8 \in Int /\ 0 <= k + 8 /\ b + (k + 8) <= 1600 /\ U16(k + 8) = k + 8
    BY <1>5, <2>5 DEF U16
  <2>7. U16(Len(p.data) + UDPHDRLEN) = LengthOf(t)
    BY <1>4, <2>4, <2>6 DEF UDPHDRLEN
  <2>8. p.version = 4 =>
          Accepts((ip.src \o ip.dst \o <<Protocol(p), LengthOf(t)>>) \o t.tr, t.body)
    BY <2>1, <2>2, <2>7, Zenon
  <2>9. LengthOf(t) \in Int /\ 0 <= LengthOf(t) /\ base + LengthOf(t) <= MAX_PACKET_SIZE
    BY <1>4, <2>4, <2>6 DEF MAX_PACKET_SIZE
  <2>10. TransportIsSet(p, ip, t)
    BY <1>1, <1>8, <2>1, <2>2, <2>8, <2>9, <2>3, Zenon DEF TransportIsSet, base
  <2> QED BY <2>10 DEF t
<1>9. CASE p.class = "ICMPPacket"
  <2>1. t = set_icmp(p, j) /\ HeaderOf(p) = 8 /\ p.version = 4
    BY <1>1, <1>9 DEF Transport, HeaderOf
  <2> HIDE DEF t
  <2>2. ICMPIsSet(t, p.data)
    BY <1>1, <1>6, <1>9, <2>1, SetICMP
  <2>3. t.body \in Seq(Bytes) /\ Len(t.body) \in Nat
    <3>1. t.body \in Seq(Bytes)
      BY <2>2, Zenon DEF ICMPIsSet
    <3> QED BY <3>1, LenProperties, Zenon
  <2>4. PICK n \in 0 .. 16 :
          /\ Row(t.tr, n)
          /\ 2 * n + Len(t.body) <= 32 \/ 2 * n + Len(t.body) <= 8 + Len(p.data)
    BY <2>2, Zenon DEF ICMPIsSet
  <2>5. t.tr \in Seq(Words) /\ LengthOf(t) = 2 * n + Len(t.body)
    BY <2>4, Zenon DEF Row, LengthOf
  <2>6. PICK m \in Int, i \in Int : m = Len(t.body) /\ 0 <= m /\ i = n /\ 0 <= i
    BY <2>3
  <2>7. LengthOf(t) = 2 * i + m
    BY <2>5, <2>6, Zenon
  <2>8. 2 * i + m <= 32 \/ 2 * i + m <= 8 + k
    BY <1>4, <2>4, <2>6, Zenon
  <2>9. h = 8 /\ b = 34 /\ 0 <= m /\ 0 <= i
    BY <1>4, <2>1, <2>6
  <2>10. 0 <= 2 * i + m /\ b + (2 * i + m) <= 1600 /\ ((2 * i + m) % 2 = 0 => m % 2 = 0)
    BY <1>5, <2>8, <2>9
  <2>11. LengthOf(t) \in Int /\ 0 <= LengthOf(t) /\ base + LengthOf(t) <= MAX_PACKET_SIZE
    BY <1>4, <2>7, <2>10 DEF MAX_PACKET_SIZE
  <2>12. LengthOf(t) % 2 = 0 => ~IsOdd(t.body)
    <3>1. IsOdd(t.body) <=> m % 2 = 1
      BY <2>6, Zenon DEF IsOdd
    <3>2. LengthOf(t) % 2 = 0 => m % 2 = 0
      <4>1. PICK e \in Int : e = 2 * i + m
        BY <2>9
      <4>2. e % 2 = 0 => m % 2 = 0
        BY <2>10, <4>1
      <4>3. LengthOf(t) = e
        BY <2>7, <4>1, Zenon
      <4> QED BY <4>2, <4>3
    <3>3. m % 2 = 0 => m % 2 # 1
      BY <2>9
    <3> QED BY <3>1, <3>2, <3>3, Zenon
  <2>13. t.tr # <<>> /\ LengthOf(t) % 2 = 0 => Accepts(t.tr, t.body)
    BY <2>2, <2>12, Zenon DEF ICMPIsSet
  <2>14. TransportIsSet(p, ip, t)
    BY <1>9, <2>3, <2>5, <2>11, <2>13, Zenon DEF TransportIsSet, base
  <2> QED BY <2>14 DEF t
<1>10. CASE p.class = "IPPacket"
  <2>1. t.tr = <<>> /\ t.body = p.data /\ HeaderOf(p) = 0
    BY <1>10 DEF Transport, HeaderOf
  <2> HIDE DEF t
  <2>2. t.tr \in Seq(Words) /\ Len(t.tr) = 0
    BY <2>1, EmptySeq, Zenon
  <2>3. LengthOf(t) = k
    BY <1>4, <2>1, <2>2 DEF LengthOf
  <2>4. LengthOf(t) \in Int /\ 0 <= LengthOf(t) /\ base + LengthOf(t) <= MAX_PACKET_SIZE
    <3>1. h = 0
      BY <1>4, <2>1
    <3> QED BY <1>4, <2>3, <3>1 DEF MAX_PACKET_SIZE
  <2>5. TransportIsSet(p, ip, t)
    BY <1>1, <1>10, <2>1, <2>2, <2>4, Zenon DEF TransportIsSet, base
  <2> QED BY <2>5 DEF t
<1> QED BY <1>1, <1>7, <1>8, <1>9, <1>10

-----------------------------------------------------------------------------
(* set_packet over IPv4.                                                   *)

(* The numbers of a frame but for those of the link.                       *)
Numbers(f) ==
  /\ f.hl \in 0 .. 15 /\ f.len \in Words /\ f.off \in Words /\ f.p \in Bytes
  /\ f.nxt \in Bytes /\ f.plen \in Words
  /\ f.xlen \in Nat /\ f.xlen <= 2048
  /\ f.hln \in Bytes /\ f.pln \in Bytes /\ f.doff \in 0 .. 15

(* The thirteen bits of an offset, as they lie in memory.                  *)
Offset(off) == off % 8192

(* A datagram of IPv4 with t behind its header.                            *)
Datagram4(s, p, t) ==
  /\ Numbers(s) /\ HeaderIsSet(s) /\ s.hl = 5
  /\ s.tr = t.tr /\ s.body = t.body
  /\ s.len = 20 + LengthOf(t) /\ s.caplen = 20 + LengthOf(t)
  /\ s.p = Protocol(p) /\ s.doff = Doff(p)
  /\ Offset(s.off) = Offset(Swap16(p.offset))
  /\ s.sum \in Words /\ Accepts(IPWords(s) \o <<s.sum>>, <<>>)
  /\ TransportIsSet(p, s, t)

(* The protocol in the header.                                             *)
LEMMA ProtocolIsByte ==
  ASSUME NEW p, HoldsIP(p)
  PROVE  Protocol(p) \in Bytes
<1>1. p.protocol \in Int
  BY Zenon DEF HoldsIP
<1>2. U8(p.protocol) \in Bytes /\ TCP \in Bytes /\ UDP \in Bytes /\ ICMP \in Bytes
  BY <1>1, NumberRanges DEF Bytes, TCP, UDP, ICMP
<1> QED BY <1>2 DEF Protocol

(* The checksum of the header of IP is accepted.                           *)
LEMMA HeaderAccepted ==
  ASSUME NEW f, HeaderIsSet(f), f.len \in Words, f.p \in Bytes,
         NEW c, c = in_cksum(IPWords(f), <<>>, 0)
  PROVE  c \in Words /\ Accepts(IPWords(f) \o <<c>>, <<>>)
<1>1. PICK ws : ws = IPWords(f) /\ Row(ws, 9)
  BY IPWordsTyped, Zenon
<1>2. <<>> \in Seq(Bytes) /\ Len(<<>>) = 0 /\ ~IsOdd(<<>>)
  <2>1. <<>> \in Seq(Bytes) /\ Len(<<>>) = 0
    BY EmptySeq, Zenon
  <2> QED BY <2>1 DEF IsOdd
<1>3. PICK none : none = <<>> /\ none \in Seq(Bytes) /\ Len(none) = 0 /\ ~IsOdd(none)
  BY <1>2, Zenon
<1>4. c = in_cksum(ws, none, 0)
  BY <1>1, <1>3, Zenon
<1>5. ws \in Seq(Words) /\ Len(ws) = 9
  BY <1>1, Zenon DEF Row
<1>6. c \in Words
  <2>1. 0 \in Bytes
    BY DEF Bytes
  <2> QED BY <1>3, <1>4, <1>5, <2>1, CksumIsWord, Zenon
<1>7. Row(<<c>>, 1)
  BY <1>6 DEF Row
<1>8. PICK full : full = ws \o <<c>> /\ Row(full, 9 + 1)
  BY <1>1, <1>7, RowsJoined, Zenon
<1>9. Sum(full) = Sum(ws) + c
  <2>1. Sum(full) = Sum(ws) + Sum(<<c>>)
    BY <1>1, <1>7, <1>8, SumOfRows, Zenon
  <2>2. Sum(<<c>>) = c
    BY <1>6, SumOfOne, WordRange
  <2> QED BY <2>1, <2>2, Zenon
<1>10. Len(ws) + Len(none) <= Longest
  BY <1>3, <1>5 DEF Longest
<1>11. full \in Seq(Words)
  BY <1>8, Zenon DEF Row
<1>12. Accepts(full, none)
  BY <1>3, <1>4, <1>5, <1>9, <1>10, <1>11, CksumIsAccepted, Zenon
<1> QED BY <1>1, <1>3, <1>6, <1>8, <1>12, Zenon

(* The fields that set_ip takes from the object.                           *)
Written4(s, p) ==
  /\ s.tos = U8(TOSByte(p)) /\ s.id = U16(p.ident) /\ s.ttl = U8(p.hop_limit)
  /\ s.src = p.src /\ s.dst = p.dst

(* set_packet makes a datagram of IPv4.                                    *)
LEMMA SetPacket4 ==
  ASSUME NEW p, IsPacket(p), IsIP(p), p.version = 4, NEW j \in Words
  PROVE  /\ Datagram4(set_packet(p, j), p, Transport(p, set_ip(p), j))
         /\ Written4(set_packet(p, j), p)
<1> DEFINE ip == set_ip(p)
           t  == Transport(p, ip, j)
           n  == 20 + LengthOf(t)
           h  == [ip EXCEPT !.len = U16(n), !.off = Swap16(Turned(ip.off)), !.p = Protocol(p),
                            !.caplen = n, !.doff = Doff(p), !.tr = t.tr, !.body = t.body]
           s  == [h EXCEPT !.sum = in_cksum(IPWords(h), <<>>, 0)]
<1>1. set_packet(p, j) = s
  <2>1. p.class # "ARPPacket"
    BY DEF IsIP
  <2> QED BY <2>1, Zenon DEF set_packet, Network4
<1>2. HoldsIP(p)
  BY PacketIP
<1>3. HeaderIsSet(ip) /\ ip.hl = 5 /\ ip.off % 8192 = Swap16(p.offset) % 8192
  BY <1>2, SetIP
<1>4. /\ h.tos = ip.tos /\ h.id = ip.id /\ h.ttl = ip.ttl /\ h.src = ip.src /\ h.dst = ip.dst
      /\ h.hl = ip.hl /\ h.len = U16(n) /\ h.off = Swap16(Turned(ip.off)) /\ h.p = Protocol(p)
      /\ h.caplen = n /\ h.doff = Doff(p) /\ h.tr = t.tr /\ h.body = t.body
      /\ h.nxt = 0 /\ h.plen = 0 /\ h.xlen = 0 /\ h.hln = 0 /\ h.pln = 0
  BY SMT DEF set_ip, Blank
<1>5. /\ s.tos = h.tos /\ s.id = h.id /\ s.ttl = h.ttl /\ s.src = h.src /\ s.dst = h.dst
      /\ s.hl = h.hl /\ s.len = h.len /\ s.off = h.off /\ s.p = h.p
      /\ s.caplen = h.caplen /\ s.doff = h.doff /\ s.tr = h.tr /\ s.body = h.body
      /\ s.nxt = h.nxt /\ s.plen = h.plen /\ s.xlen = h.xlen
      /\ s.hln = h.hln /\ s.pln = h.pln /\ s.sum = in_cksum(IPWords(h), <<>>, 0)
  BY SMT DEF set_ip, Blank
<1>20. Written4(ip, p)
  BY SMT DEF set_ip, Blank, Written4
<1> HIDE DEF s, h, ip
<1>6. AddressesOf(p, ip)
  BY <1>3 DEF AddressesOf, HeaderIsSet
<1>7. TransportIsSet(p, ip, t)
  BY <1>6, TransportTyped
<1> HIDE DEF t
<1>8. n \in Int /\ 20 <= n /\ n <= 1600
  <2>1. LengthOf(t) \in Int /\ 0 <= LengthOf(t) /\ 34 + LengthOf(t) <= 1600
    BY <1>7, SMT DEF TransportIsSet, MAX_PACKET_SIZE
  <2> QED BY <2>1
<1>9. U16(n) = n /\ n \in Words
  BY <1>8, RangeIsWord DEF U16
<1>10. Swap16(Turned(ip.off)) = ip.off
  BY <1>3, SwapIsRotation DEF HeaderIsSet, Turned
<1>11. Protocol(p) \in Bytes
  BY <1>2, ProtocolIsByte
<1> HIDE DEF n
<1>12. HeaderIsSet(h) /\ h.len \in Words /\ h.p \in Bytes
  BY <1>3, <1>4, <1>9, <1>10, <1>11 DEF HeaderIsSet
<1>13. s.sum \in Words /\ Accepts(IPWords(h) \o <<s.sum>>, <<>>)
  BY <1>5, <1>12, HeaderAccepted
<1>14. IPWords(s) = IPWords(h)
  BY <1>5 DEF IPWords
<1>15. Numbers(s)
  <2>1. Doff(p) \in {0, 5}
    BY DEF Doff
  <2>2. 0 \in Bytes /\ 0 \in Words
    BY DEF Bytes, Words
  <2>3. s.hl = 5 /\ s.doff \in {0, 5} /\ s.xlen = 0
    BY <1>3, <1>4, <1>5, <2>1
  <2>4. s.hl \in 0 .. 15 /\ s.doff \in 0 .. 15 /\ s.xlen \in Nat
        /\ s.xlen <= 2048
    BY <2>3
  <2>5. /\ s.len \in Words /\ s.off \in Words /\ s.p \in Bytes /\ s.nxt \in Bytes
        /\ s.plen \in Words /\ s.hln \in Bytes /\ s.pln \in Bytes
    BY <1>4, <1>5, <1>12, <2>2, Zenon DEF HeaderIsSet
  <2> QED BY <2>4, <2>5 DEF Numbers
<1>16. HeaderIsSet(s)
  BY <1>5, <1>12, Zenon DEF HeaderIsSet
<1>17. TransportIsSet(p, s, t)
  <2>1. s.src = ip.src /\ s.dst = ip.dst
    BY <1>4, <1>5
  <2> QED BY <1>7, <2>1, Zenon DEF TransportIsSet
<1>18. /\ s.hl = 5 /\ s.tr = t.tr /\ s.body = t.body /\ s.len = n /\ s.caplen = n
       /\ s.p = Protocol(p) /\ s.doff = Doff(p) /\ s.off % 8192 = Swap16(p.offset) % 8192
  BY <1>3, <1>4, <1>5, <1>9, <1>10
<1>19. Datagram4(s, p, t)
  BY <1>13, <1>14, <1>15, <1>16, <1>17, <1>18 DEF Datagram4, Offset, n
<1>21. Written4(s, p)
  BY <1>4, <1>5, <1>20, Zenon DEF Written4
<1> QED BY <1>1, <1>19, <1>21, Zenon DEF t, ip

-----------------------------------------------------------------------------
(* nativeSendPacket and nativeSendPacketViaRawSocket.                      *)

Fields ==
  {"lt", "type", "caplen", "hl", "tos", "len", "id", "off", "ttl", "p", "sum", "src", "dst",
   "flow", "walk", "nxt", "plen", "xlen", "hln", "pln", "doff", "tr", "body"}

(* The fields of a frame.                                                  *)
LEMMA SetPacketFields ==
  ASSUME NEW p, NEW j
  PROVE  DOMAIN set_packet(p, j) = Fields
<1>1. IsIP(p) => p.class # "ARPPacket"
  BY DEF IsIP
<1>2. DOMAIN Blank = Fields
  BY SMT DEF Blank, Fields
<1>3. CASE IsIP(p) /\ p.version = 4
  <2>1. set_packet(p, j) = Network4(p, set_ip(p), Transport(p, set_ip(p), j))
    BY <1>3, <1>1, Zenon DEF set_packet
  <2>2. DOMAIN set_ip(p) = Fields
    BY <1>2, Zenon DEF set_ip
  <2> QED BY <2>1, <2>2, Zenon DEF Network4
<1>4. CASE IsIP(p) /\ p.version # 4
  <2>1. set_packet(p, j) = Network6(p, set_ipv6(p), Transport(p, set_ipv6(p), j))
    BY <1>4, <1>1, Zenon DEF set_packet
  <2>2. DOMAIN set_ipv6(p) = Fields
    BY <1>2, Zenon DEF set_ipv6
  <2> QED BY <2>1, <2>2, Zenon DEF Network6
<1>5. CASE ~IsIP(p) /\ p.class = "ARPPacket"
  BY <1>2, <1>5, Zenon DEF set_packet
<1>6. CASE ~IsIP(p) /\ p.class # "ARPPacket"
  BY <1>2, <1>6, Zenon DEF set_packet
<1> QED BY <1>3, <1>4, <1>5, <1>6

SameHeaders(f, s) ==
  /\ f.hl = s.hl /\ f.tos = s.tos /\ f.len = s.len /\ f.id = s.id /\ f.off = s.off
  /\ f.ttl = s.ttl /\ f.p = s.p /\ f.sum = s.sum /\ f.src = s.src /\ f.dst = s.dst
  /\ f.flow = s.flow /\ f.nxt = s.nxt /\ f.plen = s.plen
  /\ f.xlen = s.xlen /\ f.hln = s.hln /\ f.pln = s.pln /\ f.doff = s.doff /\ f.tr = s.tr

(* A frame that holds what set_packet wrote: with the header of Ethernet   *)
(* and as many bytes as that wants, or without.                            *)
Frames(f, s, type) ==
  /\ SameHeaders(f, s)
  /\ \/ f.lt = RAW /\ f.type = 0
     \/ f.lt = EN10MB /\ f.type = type /\ 60 <= f.caplen
  /\ f.caplen <= MAX_PACKET_SIZE /\ f.body \in Seq(Bytes)
  /\ \E pad \in Nat : /\ f.caplen = datalink_hlen(f) + s.caplen + pad
                      /\ Len(f.body) = Len(s.body) + pad
  /\ \A i \in 1 .. Len(s.body) : f.body[i] = s.body[i]

(* The padding.                                                            *)
LEMMA ZerosAreBytes ==
  ASSUME NEW n \in Nat
  PROVE  Zeros(n) \in Seq(Bytes) /\ Len(Zeros(n)) = n
<1>1. 0 \in Bytes
  BY DEF Bytes
<1> QED BY <1>1 DEF Zeros

(* A sequence begins with the one that something was put behind.           *)
LEMMA Begins ==
  ASSUME NEW S, NEW a, a \in Seq(S), NEW b, b \in Seq(S)
  PROVE  /\ a \o b \in Seq(S) /\ Len(a \o b) = Len(a) + Len(b)
         /\ \A i \in 1 .. Len(a) : (a \o b)[i] = a[i]
  OBVIOUS

(* nativeSendPacket frames what set_packet wrote.                          *)
LEMMA NativeFrames ==
  ASSUME NEW p, NEW j, NEW s, s = set_packet(p, j), s.body \in Seq(Bytes),
         s.caplen \in Int, 0 <= s.caplen, 14 + s.caplen <= MAX_PACKET_SIZE
  PROVE  Frames(nativeSendPacket(p, j), s, U16(p.frametype))
<1> DEFINE pad == IF 14 + s.caplen < 60 THEN 46 - s.caplen ELSE 0
           f   == [s EXCEPT !.lt = EN10MB, !.type = U16(p.frametype),
                            !.caplen = 14 + s.caplen + pad, !.body = s.body \o Zeros(pad)]
<1>1. nativeSendPacket(p, j) = f
  BY Zenon DEF nativeSendPacket
<1>2. DOMAIN s = Fields
  BY SetPacketFields, Zenon
<1>3. pad \in Nat /\ 60 <= 14 + s.caplen + pad /\ 14 + s.caplen + pad <= MAX_PACKET_SIZE
  BY DEF MAX_PACKET_SIZE
<1>4. /\ f.lt = EN10MB /\ f.type = U16(p.frametype) /\ f.caplen = 14 + s.caplen + pad
      /\ f.body = s.body \o Zeros(pad)
  <2> HIDE DEF pad
  <2> QED BY <1>2, SMT DEF Fields
<1>5. SameHeaders(f, s)
  <2> HIDE DEF pad
  <2> QED BY <1>2, SMT DEF Fields, SameHeaders
<1> HIDE DEF pad, f
<1>6. PICK z : z = Zeros(pad) /\ z \in Seq(Bytes) /\ Len(z) = pad
  BY <1>3, ZerosAreBytes, Zenon
<1>7. /\ s.body \o z \in Seq(Bytes) /\ Len(s.body \o z) = Len(s.body) + Len(z)
      /\ \A i \in 1 .. Len(s.body) : (s.body \o z)[i] = s.body[i]
  <2>1. z \in Seq(Bytes)
    BY <1>6, Zenon
  <2> HIDE <1>6
  <2>2. s.body \in Seq(Bytes)
    OBVIOUS
  <2> QED BY ONLY <2>1, <2>2, Begins
<1>8. /\ f.body \in Seq(Bytes) /\ Len(f.body) = Len(s.body) + Len(z)
      /\ \A i \in 1 .. Len(s.body) : f.body[i] = s.body[i]
  BY <1>4, <1>6, <1>7, Zenon
<1>9. datalink_hlen(f) = 14
  BY <1>4 DEF datalink_hlen, EN10MB, IEEE802
<1>10. f.caplen = datalink_hlen(f) + s.caplen + pad /\ Len(f.body) = Len(s.body) + pad
  BY <1>4, <1>6, <1>8, <1>9
<1>11. 60 <= f.caplen /\ f.caplen <= MAX_PACKET_SIZE
  BY <1>3, <1>4
<1> QED BY <1>1, <1>3, <1>4, <1>5, <1>8, <1>10, <1>11, Zenon DEF Frames

(* So does nativeSendPacketViaRawSocket.                                   *)
LEMMA RawFrames ==
  ASSUME NEW p, NEW j, NEW s, s = set_packet(p, j), s.body \in Seq(Bytes),
         s.caplen \in Int, 0 <= s.caplen, s.caplen <= MAX_PACKET_SIZE, s.type = 0
  PROVE  Frames(nativeSendPacketViaRawSocket(p, j), s, U16(p.frametype))
<1> DEFINE f == [s EXCEPT !.lt = RAW]
<1>1. nativeSendPacketViaRawSocket(p, j) = f
  BY Zenon DEF nativeSendPacketViaRawSocket
<1>2. DOMAIN s = Fields
  BY SetPacketFields, Zenon
<1>3. f.lt = RAW /\ f.type = 0 /\ f.caplen = s.caplen /\ f.body = s.body
  BY <1>2, SMT DEF Fields
<1>4. SameHeaders(f, s)
  BY <1>2, SMT DEF Fields, SameHeaders
<1> HIDE DEF f
<1>5. datalink_hlen(f) = 0
  BY <1>3 DEF datalink_hlen, RAW, EN10MB, IEEE802
<1>6. Len(s.body) \in Nat
  BY LenProperties, Zenon
<1>7. f.caplen = datalink_hlen(f) + s.caplen + 0 /\ Len(f.body) = Len(s.body) + 0 /\ 0 \in Nat
  BY <1>3, <1>5, <1>6
<1> QED BY <1>1, <1>3, <1>4, <1>7, Zenon DEF Frames

-----------------------------------------------------------------------------
(* set_packet over IPv6, for ARP and for anything else.                    *)

(* A datagram of IPv6 with t behind its header.                            *)
Datagram6(s, p, t) ==
  /\ Numbers(s) /\ s.xlen = 0 /\ s.nxt = Protocol(p) /\ s.nxt \notin IPPROTO_EXT \cup {ICMP}
  /\ s.ttl \in Bytes /\ s.flow \in Pairs
  /\ s.src \in [1 .. 8 -> Words] /\ s.dst \in [1 .. 8 -> Words]
  /\ s.tr = t.tr /\ s.body = t.body /\ s.caplen = 40 + LengthOf(t) /\ s.doff = Doff(p)
  /\ TransportIsSet(p, s, t)

(* The flow word of a header of IPv6 fits its place.                       *)
LEMMA FlowWordRange ==
  ASSUME NEW p, HoldsIP(p)
  PROVE  <<FlowWord(p), p.flow_label[2]>> \in Pairs
<1>1. p.priority \in Int /\ p.flow_label \in Pairs
  BY Zenon DEF HoldsIP
<1>2. p.flow_label[1] \in Words /\ p.flow_label[2] \in Words
  BY <1>1, PairIsRow
<1>3. PICK n \in Int : n = 16 * p.priority + p.flow_label[1]
  BY <1>1, <1>2, WordRange
<1>4. PICK w \in Int : w = FlowWord(p) /\ 24576 <= w /\ w < 24576 + 4096
  BY <1>3 DEF FlowWord
<1>5. w \in Words
  BY <1>4, RangeIsWord
<1>6. <<w, p.flow_label[2]>> \in Pairs
  BY <1>2, <1>5 DEF Pairs
<1> QED BY <1>4, <1>6

(* The fields that set_ipv6 takes from the object, and the length.         *)
Written6(s, p, t) ==
  /\ s.ttl = U8(p.hop_limit) /\ s.src = p.src /\ s.dst = p.dst
  /\ s.flow = <<FlowWord(p), p.flow_label[2]>> /\ s.plen = Swap16(U16(40 + LengthOf(t)))

(* set_packet makes a datagram of IPv6.                                    *)
LEMMA SetPacket6 ==
  ASSUME NEW p, IsPacket(p), IsIP(p), p.version # 4, NEW j \in Words
  PROVE  /\ Datagram6(set_packet(p, j), p, Transport(p, set_ipv6(p), j))
         /\ Written6(set_packet(p, j), p, Transport(p, set_ipv6(p), j))
<1> DEFINE ip == set_ipv6(p)
           t  == Transport(p, ip, j)
           n  == 40 + LengthOf(t)
           s  == [ip EXCEPT !.nxt = Protocol(p), !.plen = Swap16(U16(n)), !.caplen = n,
                            !.doff = Doff(p), !.tr = t.tr, !.body = t.body]
<1>1. set_packet(p, j) = s
  <2>1. p.class # "ARPPacket"
    BY DEF IsIP
  <2> QED BY <2>1, Zenon DEF set_packet, Network6
<1>2. HoldsIP(p) /\ p.version = 6 /\ p.class \in {"IPPacket", "TCPPacket", "UDPPacket"}
  BY PacketIP
<1>3. p.src \in [1 .. 8 -> Words] /\ p.dst \in [1 .. 8 -> Words] /\ p.hop_limit \in Int
      /\ p.protocol \in Int
  BY <1>2, Zenon DEF HoldsIP, Addresses
<1>4. /\ ip.flow = <<FlowWord(p), p.flow_label[2]>>
      /\ ip.ttl = U8(p.hop_limit) /\ ip.src = p.src /\ ip.dst = p.dst
      /\ ip.hl = 0 /\ ip.len = 0 /\ ip.off = 0 /\ ip.p = 0 /\ ip.xlen = 0
      /\ ip.hln = 0 /\ ip.pln = 0
  BY SMT DEF set_ipv6, Blank
<1>5. /\ s.flow = ip.flow /\ s.ttl = ip.ttl /\ s.src = ip.src
      /\ s.dst = ip.dst /\ s.hl = ip.hl /\ s.len = ip.len /\ s.off = ip.off /\ s.p = ip.p
      /\ s.xlen = ip.xlen /\ s.hln = ip.hln /\ s.pln = ip.pln
      /\ s.nxt = Protocol(p) /\ s.plen = Swap16(U16(n)) /\ s.caplen = n /\ s.doff = Doff(p)
      /\ s.tr = t.tr /\ s.body = t.body
  BY SMT DEF set_ipv6, Blank
<1> HIDE DEF s, ip
<1>6. AddressesOf(p, ip)
  BY <1>2, <1>3, <1>4 DEF AddressesOf
<1>7. TransportIsSet(p, ip, t)
  BY <1>6, TransportTyped
<1> HIDE DEF t
<1>8. LengthOf(t) \in Int
  BY <1>7, Zenon DEF TransportIsSet
<1>9. Swap16(U16(n)) \in Words
  BY <1>8, NumberRanges, SwapIsWord
<1> HIDE DEF n
<1>10. Protocol(p) \in Bytes /\ Protocol(p) \notin IPPROTO_EXT \cup {ICMP}
  <2>1. p.class = "IPPacket" => U8(p.protocol) # ICMP /\ U8(p.protocol) \notin IPPROTO_EXT
    BY <1>2, SMT DEF IsPacket
  <2> QED BY <1>2, <2>1, ProtocolIsByte
         DEF Protocol, TCP, UDP, ICMP, IPPROTO_EXT, FRAGMENT, AH
<1>11. Numbers(s)
  <2>1. Doff(p) \in {0, 5}
    BY DEF Doff
  <2>2. 0 \in Bytes /\ 0 \in Words
    BY DEF Bytes, Words
  <2>4. s.hl = 0 /\ s.doff \in {0, 5} /\ s.xlen = 0
    BY <1>4, <1>5, <2>1, SMT
  <2>5. s.hl \in 0 .. 15 /\ s.doff \in 0 .. 15 /\ s.xlen \in Nat /\ s.xlen <= 2048
    BY <2>4
  <2> QED BY <1>4, <1>5, <1>9, <1>10, <2>2, <2>4, <2>5, SMT DEF Numbers
<1>12. s.ttl \in Bytes /\ s.flow \in Pairs
  BY <1>2, <1>3, <1>4, <1>5, NumberRanges, FlowWordRange
<1>13. TransportIsSet(p, s, t)
  <2>1. s.src = ip.src /\ s.dst = ip.dst
    BY <1>5
  <2> QED BY <1>7, <2>1, Zenon DEF TransportIsSet
<1>14. Datagram6(s, p, t)
  BY <1>3, <1>4, <1>5, <1>10, <1>11, <1>12, <1>13, Zenon DEF Datagram6, n
<1>15. Written6(s, p, t)
  BY <1>4, <1>5, Zenon DEF Written6, n
<1> QED BY <1>1, <1>14, <1>15, Zenon DEF t, ip

-----------------------------------------------------------------------------
(* A row begins with the one that something was put behind.                *)
LEMMA RowBegins ==
  ASSUME NEW a, NEW m, Row(a, m), NEW b, NEW n, Row(b, n)
  PROVE  \A i \in 1 .. m : (a \o b)[i] = a[i]
  BY Begins DEF Row

(* A row, the third word of which is that of the first part.               *)
Grown(c, a, b, n) == c = a \o b /\ Row(c, n) /\ c[3] = a[3]

(* A row to which something is added keeps its third word.                 *)
LEMMA RowGrows ==
  ASSUME NEW a, NEW m \in Int, Row(a, m), 3 <= m, NEW b, NEW n \in Int, Row(b, n)
  PROVE  Grown(a \o b, a, b, m + n)
<1>1. 3 \in 1 .. m
  OBVIOUS
<1>2. Row(a \o b, m + n)
  BY RowsJoined, Zenon
<1>3. \A i \in 1 .. m : (a \o b)[i] = a[i]
  BY RowBegins, Zenon
<1>4. (a \o b)[3] = a[3]
  BY ONLY <1>1, <1>3, Zenon
<1> QED BY <1>2, <1>4, Zenon DEF Grown

(* The lengths of the addresses, 6 and 4, in one word.                     *)
ARPLengths == 256 * 6 + 4

(* The message that set_arp writes.                                        *)
LEMMA SetARP ==
  ASSUME NEW p, HoldsARP(p)
  PROVE  Row(set_arp(p), 14) /\ set_arp(p)[3] = ARPLengths
<1> DEFINE a == <<U16(p.hardtype), U16(p.prototype), 256 * U8(p.hlen) + U8(p.plen),
                  U16(p.operation)>>
           b == p.sender_hardaddr
           c == p.sender_protoaddr
           d == p.target_hardaddr
           e == p.target_protoaddr
<1>1. /\ p.hardtype \in Int /\ p.prototype \in Int /\ p.operation \in Int
      /\ p.hlen = 6 /\ p.plen = 4
  BY DEF HoldsARP
<1>2. 256 * U8(p.hlen) + U8(p.plen) = ARPLengths
  BY <1>1 DEF U8, ARPLengths
<1>3. Row(a, 4) /\ a[3] = ARPLengths
  <2>1. ARPLengths \in Words
    BY RangeIsWord DEF ARPLengths
  <2> QED BY <1>1, <1>2, <2>1, NumberRanges, FourInARow
<1>4. Row(b, 3) /\ Row(d, 3)
  <2>1. b \in [1 .. 3 -> Words] /\ d \in [1 .. 3 -> Words] /\ 3 \in Nat
    BY Zenon DEF HoldsARP
  <2> QED BY <2>1, FunctionIsRow, Zenon
<1>5. Row(c, 2) /\ Row(e, 2)
  BY PairIsRow, Zenon DEF HoldsARP
<1>6. set_arp(p) = (((a \o b) \o c) \o d) \o e
  BY SMT DEF set_arp
<1> HIDE DEF a, b, c, d, e
<1>7. PICK ab : Grown(ab, a, b, 7)
  <2>1. Row(a, 4) /\ Row(b, 3) /\ 4 \in Int /\ 3 \in Int /\ 3 <= 4
    BY <1>3, <1>4, <1>5 DEF Grown
  <2>2. Grown(a \o b, a, b, 4 + 3)
    BY <2>1, RowGrows, Zenon
  <2>3. 4 + 3 = 7
    OBVIOUS
  <2> QED BY <2>2, <2>3, Zenon
<1>8. PICK abc : Grown(abc, ab, c, 9)
  <2>1. Row(ab, 7) /\ Row(c, 2) /\ 7 \in Int /\ 2 \in Int /\ 3 <= 7
    BY <1>3, <1>4, <1>5, <1>7 DEF Grown
  <2>2. Grown(ab \o c, ab, c, 7 + 2)
    BY <2>1, RowGrows, Zenon
  <2>3. 7 + 2 = 9
    OBVIOUS
  <2> QED BY <2>2, <2>3, Zenon
<1>9. PICK abcd : Grown(abcd, abc, d, 12)
  <2>1. Row(abc, 9) /\ Row(d, 3) /\ 9 \in Int /\ 3 \in Int /\ 3 <= 9
    BY <1>3, <1>4, <1>5, <1>8 DEF Grown
  <2>2. Grown(abc \o d, abc, d, 9 + 3)
    BY <2>1, RowGrows, Zenon
  <2>3. 9 + 3 = 12
    OBVIOUS
  <2> QED BY <2>2, <2>3, Zenon
<1>10. PICK all : Grown(all, abcd, e, 14)
  <2>1. Row(abcd, 12) /\ Row(e, 2) /\ 12 \in Int /\ 2 \in Int /\ 3 <= 12
    BY <1>3, <1>4, <1>5, <1>9 DEF Grown
  <2>2. Grown(abcd \o e, abcd, e, 12 + 2)
    BY <2>1, RowGrows, Zenon
  <2>3. 12 + 2 = 14
    OBVIOUS
  <2> QED BY <2>2, <2>3, Zenon
<1>11. all = set_arp(p)
  BY <1>6, <1>7, <1>8, <1>9, <1>10, Zenon DEF Grown
<1>12. Row(all, 14)
  BY <1>10, Zenon DEF Grown
<1>13. all[3] = a[3]
  BY <1>7, <1>8, <1>9, <1>10, Zenon DEF Grown
<1> QED BY <1>3, <1>11, <1>12, <1>13, SMT

(* An ARP message, and what is neither IP nor ARP.                         *)
MessageARP(s) ==
  Numbers(s) /\ s.hln = 6 /\ s.pln = 4 /\ Row(s.tr, 14) /\ s.tr[3] = ARPLengths /\ s.body = <<>>
  /\ s.caplen = 28
Plain(s, p) == Numbers(s) /\ s.tr = <<>> /\ s.body = p.data /\ s.caplen = Len(p.data)

(* The numbers of an empty frame.                                          *)
LEMMA BlankNumbers ==
  /\ Numbers(Blank) /\ Blank.tr = <<>> /\ Blank.body = <<>> /\ Blank.type = 0
<1>1. /\ Blank.hl = 0 /\ Blank.len = 0 /\ Blank.off = 0 /\ Blank.p = 0
      /\ Blank.nxt = 0 /\ Blank.plen = 0 /\ Blank.xlen = 0 /\ Blank.hln = 0 /\ Blank.pln = 0
      /\ Blank.doff = 0 /\ Blank.tr = <<>> /\ Blank.body = <<>> /\ Blank.type = 0
  BY SMT DEF Blank
<1>2. 0 \in Bytes /\ 0 \in Words
  BY DEF Bytes, Words
<1> QED BY <1>1, <1>2, SMT DEF Numbers

(* set_packet makes a message of ARP.                                      *)
LEMMA SetPacketARP ==
  ASSUME NEW p, HoldsARP(p), p.class = "ARPPacket", NEW j
  PROVE  MessageARP(set_packet(p, j))
<1> DEFINE a == set_arp(p)
           s == [Blank EXCEPT !.hln = U8(p.hlen), !.pln = U8(p.plen), !.caplen = 2 * Len(a),
                              !.tr = a]
<1>1. set_packet(p, j) = s
  BY Zenon DEF set_packet, IsIP
<1>2. Row(a, 14) /\ a[3] = ARPLengths
  BY SetARP
<1> HIDE DEF a
<1>3. /\ s.hln = U8(p.hlen) /\ s.pln = U8(p.plen) /\ s.caplen = 2 * Len(a) /\ s.tr = a
      /\ s.hl = Blank.hl /\ s.len = Blank.len /\ s.off = Blank.off /\ s.p = Blank.p
      /\ s.nxt = Blank.nxt /\ s.plen = Blank.plen
      /\ s.xlen = Blank.xlen /\ s.doff = Blank.doff /\ s.body = Blank.body
  BY SMT DEF Blank
<1> HIDE DEF s
<1>4. U8(p.hlen) = 6 /\ U8(p.plen) = 4 /\ 6 \in Bytes /\ 4 \in Bytes
  BY DEF HoldsARP, U8, Bytes
<1>5. 2 * Len(a) = 28
  BY <1>2 DEF Row
<1>6. Numbers(s)
  BY <1>3, <1>4, BlankNumbers, SMT DEF Numbers
<1>7. Row(s.tr, 14) /\ s.tr[3] = ARPLengths
  BY <1>2, <1>3, SMT
<1> QED BY <1>1, <1>3, <1>4, <1>5, <1>6, <1>7, BlankNumbers, SMT DEF MessageARP

(* set_packet takes any other object as it is.                             *)
LEMMA SetPacketPlain ==
  ASSUME NEW p, p.class = "Packet", NEW j
  PROVE  Plain(set_packet(p, j), p)
<1> DEFINE s == [Blank EXCEPT !.caplen = Len(p.data), !.body = p.data]
<1>1. set_packet(p, j) = s
  BY Zenon DEF set_packet, IsIP
<1>2. /\ s.hln = Blank.hln /\ s.pln = Blank.pln /\ s.caplen = Len(p.data) /\ s.tr = Blank.tr
      /\ s.hl = Blank.hl /\ s.len = Blank.len /\ s.off = Blank.off /\ s.p = Blank.p
      /\ s.nxt = Blank.nxt /\ s.plen = Blank.plen
      /\ s.xlen = Blank.xlen /\ s.doff = Blank.doff /\ s.body = p.data
  BY SMT DEF Blank
<1> HIDE DEF s
<1>3. Numbers(s)
  BY <1>2, BlankNumbers, SMT DEF Numbers
<1> QED BY <1>1, <1>2, <1>3, BlankNumbers, Zenon DEF Plain

-----------------------------------------------------------------------------
(* The inductive invariant. A frame is sound if get_packet finds in it     *)
(* what set_packet wrote.                                                  *)

Holds(f, proto) ==
  \/ nproto(f) = IP /\ f.p = proto /\ ~IsFragment(f)
  \/ nproto(f) = IPV6 /\ f.nxt = proto

(* The offset is still one when it is turned and turned back.              *)
StillFragment(f) == Swap16(f.off % 8192) % 8192 # 0

Sound4(f) ==
  /\ f.hl = 5 /\ f.tos \in Bytes /\ f.id \in Words /\ f.ttl \in Bytes /\ f.sum \in Words
  /\ f.src \in Pairs /\ f.dst \in Pairs
  /\ 20 + 2 * Len(f.tr) <= f.len /\ f.len <= f.caplen - datalink_hlen(f)
  /\ Accepts(IPWords(f) \o <<f.sum>>, <<>>)
  /\ f.p \in {ICMP, TCP, UDP} /\ IsFragment(f) => StillFragment(f)
  /\ Holds(f, TCP)  => AcceptsTransport(f, "TCPPacket")
  /\ Holds(f, UDP)  => AcceptsTransport(f, "UDPPacket")
  /\ Holds(f, ICMP) => AcceptsTransport(f, "ICMPPacket")

Sound6(f) ==
  /\ f.xlen = 0 /\ f.nxt \notin IPPROTO_EXT \cup {ICMP} /\ f.ttl \in Bytes /\ f.flow \in Pairs
  /\ f.src \in [1 .. 8 -> Words] /\ f.dst \in [1 .. 8 -> Words]

Sound(f) ==
  /\ IsFrame(f) /\ f.caplen <= MAX_PACKET_SIZE
  /\ f.lt = RAW \/ (f.lt = EN10MB /\ 60 <= f.caplen)
  /\ nproto(f) \notin {ICMP, TCP, UDP, REVARP, UNKNOWN_PROTO}
  /\ f.tr \in Seq(Words) /\ f.body \in Seq(Bytes)
  /\ nproto(f) # ARP =>
       f.caplen = datalink_hlen(f) + NetworkHlen(f) + 2 * Len(f.tr) + Len(f.body)
  /\ nproto(f) = IP   => Sound4(f)
  /\ nproto(f) = IPV6 => Sound6(f)
  /\ nproto(f) = ARP  => f.hln = 6 /\ f.pln = 4 /\ Len(f.tr) = 14 /\ f.tr[3] = ARPLengths
  /\ nproto(f) \notin {IP, IPV6, ARP} => f.tr = <<>>
  /\ Holds(f, TCP) => f.doff = 5 /\ Len(f.tr) = 10
  /\ Holds(f, UDP) => Len(f.tr) = 4

WireInv ==
  /\ at \in {"wire", "received"} => Sound(frame) /\ DOMAIN frame = Fields
  /\ at = "wire" /\ IsIP(packet) /\ packet.version = 4 =>
       nproto(frame) = IP /\ AcceptsTransport(frame, packet.class)
  /\ at = "received" => \E j \in Junk : packet = get_packet(frame, j)

(* A part of a sequence.                                                   *)
LEMMA SubSeqIs ==
  ASSUME NEW S, NEW s, NEW m \in Int, NEW n \in Int, m <= n + 1, \A i \in m .. n : s[i] \in S
  PROVE  /\ SubSeq(s, m, n) \in Seq(S) /\ Len(SubSeq(s, m, n)) = n - m + 1
         /\ \A i \in 1 .. n - m + 1 : SubSeq(s, m, n)[i] = s[m + i - 1]
<1>1. Len(SubSeq(s, m, n)) = n - m + 1
  BY SubSeqProperties, SMT
<1>2. SubSeq(s, m, n) \in Seq(S)
      /\ \A i \in 1 .. n - m + 1 : SubSeq(s, m, n)[i] = s[m + i - 1]
  BY SubSeqProperties, SMT
<1> QED BY <1>1, <1>2, Zenon

(* What a sequence begins with, taken out of it.                           *)
LEMMA BodyBegins ==
  ASSUME NEW S, NEW a, a \in Seq(S), NEW b, b \in Seq(S), Len(b) <= Len(a),
         \A i \in 1 .. Len(b) : a[i] = b[i]
  PROVE  SubSeq(a, 1, Len(b)) = b
<1>1. PICK n \in Nat : n = Len(b) /\ n <= Len(a)
  BY LenProperties
<1>2. \A i \in 1 .. n : a[i] = b[i] /\ a[i] \in S
  BY <1>1
<1>3. /\ SubSeq(a, 1, n) \in Seq(S) /\ Len(SubSeq(a, 1, n)) = n - 1 + 1
      /\ \A i \in 1 .. n - 1 + 1 : SubSeq(a, 1, n)[i] = a[1 + i - 1]
  BY <1>2, SubSeqIs
<1>4. PICK c : c = SubSeq(a, 1, n) /\ c \in Seq(S) /\ Len(c) = n /\ \A i \in 1 .. n : c[i] = a[i]
  <2>1. n - 1 + 1 = n /\ \A i \in 1 .. n : 1 + i - 1 = i
    OBVIOUS
  <2> QED BY <1>3, <2>1, Zenon
<1>5. Len(c) = Len(b) /\ \A i \in 1 .. Len(c) : c[i] = b[i]
  BY <1>1, <1>2, <1>4
<1>6. c = b
  BY <1>4, <1>5, SeqEqual, Zenon
<1> QED BY <1>1, <1>4, <1>6, Zenon

(* An offset other than 0 is one whichever way it is turned.               *)
LEMMA FragmentStays ==
  ASSUME NEW n \in Int, 0 <= n, n < 8192, NEW m \in Int, m = Swap16(n) % 8192, m # 0
  PROVE  Swap16(m) % 8192 # 0
<1>1. PICK a \in Int, b \in Int : n = 256 * a + b /\ 0 <= a /\ a < 32 /\ 0 <= b /\ b < 256
                                  /\ a = n \div 256 /\ b = n % 256
  OBVIOUS
<1>2. Swap16(n) = 256 * b + a
  BY <1>1 DEF Swap16
<1>3. PICK c \in Int, d \in Int : b = 32 * d + c /\ 0 <= c /\ c < 32 /\ 0 <= d /\ d < 8
  <2>1. b = 32 * (b \div 32) + (b % 32) /\ 0 <= b % 32 /\ b % 32 < 32 /\ 0 <= b \div 32
        /\ b \div 32 < 8 /\ b \div 32 \in Int /\ b % 32 \in Int
    BY <1>1
  <2> QED BY <2>1
<1>4. m = 256 * c + a
  <2>1. 256 * b + a = 8192 * d + (256 * c + a) /\ 0 <= 256 * c + a /\ 256 * c + a < 8192
    BY <1>1, <1>3
  <2> QED BY <1>2, <2>1
<1>5. Swap16(m) = 256 * a + c
  <2>1. m % 256 = a /\ m \div 256 = c
    BY <1>1, <1>3, <1>4
  <2> QED BY <2>1 DEF Swap16
<1>6. Swap16(m) % 8192 = 256 * a + c
  BY <1>1, <1>3, <1>5
<1> QED BY <1>1, <1>3, <1>4, <1>6

(* What every frame that is sent has.                                      *)
Common(f) ==
  /\ IsFrame(f) /\ f.caplen <= MAX_PACKET_SIZE
  /\ f.lt = RAW \/ (f.lt = EN10MB /\ 60 <= f.caplen)
  /\ f.tr \in Seq(Words) /\ f.body \in Seq(Bytes)

(* A frame has what every sound frame has.                                 *)
LEMMA FramesCommon ==
  ASSUME NEW f, NEW s, NEW type \in Words, Frames(f, s, type), Numbers(s),
         s.tr \in Seq(Words), s.body \in Seq(Bytes), s.caplen \in Int, 0 <= s.caplen
  PROVE  Common(f)
<1>1. PICK pad \in Nat : f.caplen = datalink_hlen(f) + s.caplen + pad
  BY DEF Frames
<1>2. datalink_hlen(f) \in {0, 14, 22}
  BY DEF datalink_hlen
<1>3. f.caplen \in Int /\ 0 <= f.caplen /\ f.caplen <= 1600
  BY <1>1, <1>2 DEF Frames, MAX_PACKET_SIZE
<1>4. f.caplen \in Words
  BY <1>3, RangeIsWord
<1>5. 0 \in Words
  BY DEF Words
<1>6. f.lt \in Nat /\ f.type \in Words
  BY <1>5 DEF Frames, RAW, EN10MB
<1>7. SameHeaders(f, s) /\ f.caplen <= MAX_PACKET_SIZE /\ f.body \in Seq(Bytes)
      /\ (f.lt = RAW \/ (f.lt = EN10MB /\ 60 <= f.caplen))
  BY Zenon DEF Frames
<1>8. IsFrame(f)
  BY <1>4, <1>6, <1>7 DEF SameHeaders, Numbers, IsFrame
<1>9. f.tr \in Seq(Words)
  BY <1>7, Zenon DEF SameHeaders
<1> QED BY <1>7, <1>8, <1>9, Zenon DEF Common

-----------------------------------------------------------------------------
(* What is sent is sound: IPv4,                                            *)

(* What a receiver of IPv4 takes for the datagram is t.                    *)
Finds(f, t) ==
  /\ f.tr = t.tr /\ f.len - 20 = LengthOf(t)
  /\ SubSeq(f.body, 1, LengthOf(t) - 2 * Len(t.tr)) = t.body

(* A receiver that finds what was set accepts it.                          *)
LEMMA FoundIsAccepted ==
  ASSUME NEW f, NEW t, Finds(f, t), NEW p, TransportIsSet(p, f, t), p.version = 4,
         f.p = Protocol(p)
  PROVE  AcceptsTransport(f, p.class)
<1>1. /\ p.class \in {"TCPPacket", "UDPPacket"} =>
           Accepts((f.src \o f.dst \o <<f.p, LengthOf(t)>>) \o t.tr, t.body)
      /\ p.class = "UDPPacket" => t.tr[4] # 0
      /\ p.class = "ICMPPacket" /\ t.tr # <<>> /\ LengthOf(t) % 2 = 0 => Accepts(t.tr, t.body)
  BY Zenon DEF TransportIsSet
<1>2. /\ f.tr = t.tr /\ f.len - 20 = LengthOf(t)
      /\ SubSeq(f.body, 1, f.len - 20 - 2 * Len(f.tr)) = t.body
  BY Zenon DEF Finds
<1> QED BY <1>1, <1>2, Zenon DEF AcceptsTransport

(* It does find it, behind the header and before the padding.              *)
LEMMA DatagramIsFound ==
  ASSUME NEW p, NEW s, NEW t, Datagram4(s, p, t), NEW f, NEW type, Frames(f, s, type)
  PROVE  /\ Finds(f, t) /\ f.tr \in Seq(Words)
         /\ 20 + 2 * Len(f.tr) <= f.len /\ f.len <= f.caplen - datalink_hlen(f)
         /\ f.caplen = datalink_hlen(f) + 20 + 2 * Len(f.tr) + Len(f.body)
<1>1. /\ t.tr \in Seq(Words) /\ t.body \in Seq(Bytes) /\ s.body = t.body
      /\ s.tr = t.tr /\ s.len = 20 + LengthOf(t) /\ s.caplen = 20 + LengthOf(t)
  BY Zenon DEF Datagram4, TransportIsSet
<1>2. Len(t.tr) \in Nat /\ Len(t.body) \in Nat
  BY <1>1, LenProperties, Zenon
<1>3. PICK pad \in Nat : /\ f.caplen = datalink_hlen(f) + s.caplen + pad
                         /\ Len(f.body) = Len(s.body) + pad
  BY Zenon DEF Frames
<1>4. f.body \in Seq(Bytes) /\ (\A i \in 1 .. Len(s.body) : f.body[i] = s.body[i])
      /\ f.tr = s.tr /\ f.len = s.len
  BY Zenon DEF Frames, SameHeaders
<1>5. PICK a \in Int, b \in Int, d \in Int :
        a = Len(t.tr) /\ b = Len(t.body) /\ d = datalink_hlen(f) /\ 0 <= a /\ 0 <= b
  BY <1>2 DEF datalink_hlen
<1>6. LengthOf(t) = 2 * a + b
  BY <1>5 DEF LengthOf
<1>7. /\ f.len = 20 + (2 * a + b) /\ f.caplen = d + (20 + (2 * a + b)) + pad
      /\ Len(f.body) = b + pad /\ Len(f.tr) = a
  BY <1>1, <1>3, <1>4, <1>5, <1>6, Zenon
<1>8. SubSeq(f.body, 1, Len(t.body)) = t.body
  <2>1. Len(t.body) <= Len(f.body)
    BY <1>5, <1>7
  <2> QED BY <1>1, <1>4, <2>1, BodyBegins, ZenonT(40)
<1>9. LengthOf(t) - 2 * Len(t.tr) = Len(t.body) /\ f.len - 20 = LengthOf(t)
  BY <1>5, <1>6, <1>7
<1>10. f.tr = t.tr
  BY <1>1, <1>4, Zenon
<1>11. Finds(f, t)
  BY <1>8, <1>9, <1>10, Zenon DEF Finds
<1>12. /\ 20 + 2 * Len(f.tr) <= f.len /\ f.len <= f.caplen - datalink_hlen(f)
       /\ f.caplen = datalink_hlen(f) + 20 + 2 * Len(f.tr) + Len(f.body)
  <2>1. PICK l \in Int, c \in Int, e \in Int :
          l = f.len /\ c = f.caplen /\ e = Len(f.body) /\ l = 20 + (2 * a + b)
          /\ c = d + (20 + (2 * a + b)) + pad /\ e = b + pad
    BY <1>7
  <2>2. /\ 0 <= a /\ 0 <= b /\ l = 20 + (2 * a + b)
        /\ c = d + (20 + (2 * a + b)) + pad /\ e = b + pad
    BY <1>5, <2>1, Zenon
  <2>3. 20 + 2 * a <= l /\ l <= c - d /\ c = d + 20 + 2 * a + e
    BY ONLY <2>2, pad \in Nat, l \in Int, c \in Int, e \in Int, a \in Int, b \in Int, d \in Int
  <2> QED BY <1>5, <1>7, <2>1, <2>3, Zenon
<1> QED BY <1>1, <1>10, <1>11, <1>12, Zenon

(* A frame with a datagram of IPv4 is sound and accepted.                  *)
LEMMA Frame4IsSound ==
  ASSUME NEW p, IsPacket(p), IsIP(p), p.version = 4, NEW s, NEW t, Datagram4(s, p, t),
         NEW f, Frames(f, s, IP)
  PROVE  Sound(f) /\ nproto(f) = IP /\ AcceptsTransport(f, p.class)
<1>1. /\ Numbers(s) /\ HeaderIsSet(s) /\ s.hl = 5 /\ s.p = Protocol(p) /\ s.doff = Doff(p)
      /\ Offset(s.off) = Offset(Swap16(p.offset)) /\ TransportIsSet(p, s, t)
      /\ s.sum \in Words /\ Accepts(IPWords(s) \o <<s.sum>>, <<>>)
      /\ s.tr = t.tr /\ s.body = t.body /\ s.caplen = 20 + LengthOf(t)
  BY Zenon DEF Datagram4
<1>2. SameHeaders(f, s)
  BY Zenon DEF Frames
<1>3. /\ f.hl = s.hl /\ f.tos = s.tos /\ f.len = s.len /\ f.id = s.id /\ f.off = s.off
      /\ f.ttl = s.ttl /\ f.p = s.p /\ f.sum = s.sum /\ f.src = s.src /\ f.dst = s.dst
      /\ f.doff = s.doff /\ f.tr = s.tr
  BY <1>2, Zenon DEF SameHeaders
<1>4. nproto(f) = IP
  BY DEF Frames, nproto, RAW, EN10MB, IEEE802
<1>5. Common(f)
  <2>1. IP \in Words
    BY RangeIsWord DEF IP
  <2>2. /\ s.tr \in Seq(Words) /\ s.body \in Seq(Bytes)
        /\ LengthOf(t) \in Int /\ 0 <= LengthOf(t)
    BY <1>1, Zenon DEF TransportIsSet
  <2>3. s.caplen \in Int /\ 0 <= s.caplen
    BY <1>1, <2>2
  <2> QED BY <1>1, <2>1, <2>2, <2>3, FramesCommon, Zenon
<1>6. /\ Finds(f, t)
      /\ 20 + 2 * Len(f.tr) <= f.len /\ f.len <= f.caplen - datalink_hlen(f)
      /\ f.caplen = datalink_hlen(f) + 20 + 2 * Len(f.tr) + Len(f.body)
  BY DatagramIsFound, Zenon
<1>7. AcceptsTransport(f, p.class)
  <2>1. TransportIsSet(p, f, t)
    BY <1>1, <1>3, Zenon DEF TransportIsSet
  <2> QED BY <1>1, <1>3, <1>6, <2>1, FoundIsAccepted, Zenon
<1>8. /\ Holds(f, TCP) => p.class = "TCPPacket"
      /\ Holds(f, UDP) => p.class = "UDPPacket"
      /\ Holds(f, ICMP) => p.class = "ICMPPacket"
      /\ f.p \in {ICMP, TCP, UDP} /\ IsFragment(f) => StillFragment(f)
  <2>1. /\ p.class \in {"IPPacket", "TCPPacket", "UDPPacket", "ICMPPacket"} /\ HoldsIP(p)
    BY PacketIP, Zenon
  <2>2. p.class = "IPPacket" /\ U8(p.protocol) \in {ICMP, TCP, UDP} =>
          Offset(Swap16(p.offset)) # 0
    BY SMT DEF IsPacket, Offset
  <2>3. IsFragment(f) <=> Offset(Swap16(p.offset)) # 0
    <3>1. IsFragment(f) <=> Offset(f.off) # 0
      BY SMT DEF IsFragment, Offset
    <3> QED BY <1>1, <1>3, <3>1, Zenon
  <2>4. \A proto : Holds(f, proto) => Protocol(p) = proto /\ ~IsFragment(f)
    BY <1>1, <1>3, <1>4 DEF Holds, IP, IPV6
  <2>5. p.class = "IPPacket" => Protocol(p) = U8(p.protocol)
    BY DEF Protocol
  <2>6. /\ p.class = "TCPPacket" => Protocol(p) = TCP
        /\ p.class = "UDPPacket" => Protocol(p) = UDP
        /\ p.class = "ICMPPacket" => Protocol(p) = ICMP
    BY Zenon DEF Protocol
  <2>7. TCP # UDP /\ TCP # ICMP /\ UDP # ICMP
    BY DEF TCP, UDP, ICMP
  <2>8. IsFragment(f) => StillFragment(f)
    <3>1. PICK n \in Int : n = p.offset /\ 0 <= n /\ n < 8192
      <4>1. p.offset \in 0 .. 2^13 - 1
        BY <2>1, Zenon DEF HoldsIP
      <4> QED BY <4>1
    <3>2. PICK m \in Int : m = Swap16(n) % 8192
      BY <3>1 DEF Swap16
    <3>3. f.off % 8192 = m /\ (IsFragment(f) <=> m # 0)
      BY <1>1, <1>3, <2>3, <3>1, <3>2, SMT DEF Offset
    <3> QED BY <3>1, <3>2, <3>3, FragmentStays, SMT DEF StillFragment
  <2> QED BY <2>1, <2>2, <2>3, <2>4, <2>5, <2>6, <2>7, <2>8
<1>9. IPWords(f) = IPWords(s)
  BY <1>3, SMT DEF IPWords
<1>10. Sound4(f)
  <2>1. /\ f.hl = 5 /\ f.tos \in Bytes /\ f.id \in Words /\ f.ttl \in Bytes /\ f.sum \in Words
        /\ f.src \in Pairs /\ f.dst \in Pairs
        /\ Accepts(IPWords(f) \o <<f.sum>>, <<>>)
    BY <1>1, <1>3, <1>9, Zenon DEF HeaderIsSet
  <2>2. /\ Holds(f, TCP) => AcceptsTransport(f, "TCPPacket")
        /\ Holds(f, UDP) => AcceptsTransport(f, "UDPPacket")
        /\ Holds(f, ICMP) => AcceptsTransport(f, "ICMPPacket")
    BY <1>7, <1>8, Zenon
  <2> QED BY <1>6, <1>8, <2>1, <2>2, Zenon DEF Sound4
<1>11. /\ Holds(f, TCP) => f.doff = 5 /\ Len(f.tr) = 10
       /\ Holds(f, UDP) => Len(f.tr) = 4
  <2>1. /\ p.class = "TCPPacket" => Len(t.tr) = 10
        /\ p.class = "UDPPacket" => Len(t.tr) = 4
    BY <1>1, Zenon DEF TransportIsSet
  <2>2. p.class = "TCPPacket" => Doff(p) = 5
    BY DEF Doff
  <2>3. f.doff = Doff(p) /\ f.tr = t.tr
    BY <1>1, <1>3, Zenon
  <2>4. Holds(f, TCP) => f.doff = 5 /\ Len(f.tr) = 10
    BY ONLY <1>8, <2>1, <2>2, <2>3, Zenon
  <2>5. Holds(f, UDP) => Len(f.tr) = 4
    BY ONLY <1>8, <2>1, <2>3, Zenon
  <2> QED BY <2>4, <2>5, Zenon
<1>12. NetworkHlen(f) = 20
  BY <1>1, <1>3, <1>4 DEF NetworkHlen, IP, IPV6, ARP
<1>13. IP \notin {ICMP, TCP, UDP, REVARP, UNKNOWN_PROTO, IPV6, ARP}
  BY DEF IP, ICMP, TCP, UDP, REVARP, UNKNOWN_PROTO, IPV6, ARP
<1> QED BY <1>4, <1>5, <1>6, <1>7, <1>10, <1>11, <1>12, <1>13, Zenon DEF Sound, Common

-----------------------------------------------------------------------------
(* IPv6 and the others,                                                    *)

(* A frame with a datagram of IPv6 is sound.                               *)
LEMMA Frame6IsSound ==
  ASSUME NEW p, IsPacket(p), IsIP(p), p.version # 4, NEW s, NEW t, Datagram6(s, p, t),
         NEW f, Frames(f, s, IPV6), f.lt = EN10MB
  PROVE  Sound(f) /\ nproto(f) = IPV6
<1>1. /\ Numbers(s) /\ s.xlen = 0 /\ s.nxt = Protocol(p) /\ s.nxt \notin IPPROTO_EXT \cup {ICMP}
      /\ s.ttl \in Bytes /\ s.flow \in Pairs
      /\ s.src \in [1 .. 8 -> Words] /\ s.dst \in [1 .. 8 -> Words]
      /\ s.tr = t.tr /\ s.body = t.body /\ s.caplen = 40 + LengthOf(t) /\ s.doff = Doff(p)
      /\ TransportIsSet(p, s, t)
  BY Zenon DEF Datagram6
<1>2. SameHeaders(f, s)
  BY Zenon DEF Frames
<1>3. /\ f.xlen = s.xlen /\ f.nxt = s.nxt /\ f.ttl = s.ttl /\ f.flow = s.flow /\ f.src = s.src
      /\ f.dst = s.dst /\ f.doff = s.doff /\ f.tr = s.tr
  BY <1>2, Zenon DEF SameHeaders
<1>4. nproto(f) = IPV6
  BY DEF Frames, nproto, RAW, EN10MB, IEEE802
<1>5. /\ t.tr \in Seq(Words) /\ t.body \in Seq(Bytes)
      /\ LengthOf(t) \in Int /\ 0 <= LengthOf(t)
  BY <1>1, Zenon DEF TransportIsSet
<1>6. Common(f)
  <2>1. IPV6 \in Words
    BY RangeIsWord DEF IPV6
  <2>2. s.caplen \in Int /\ 0 <= s.caplen
    BY <1>1, <1>5
  <2> QED BY <1>1, <1>5, <2>1, <2>2, FramesCommon, Zenon
<1>7. Sound6(f)
  BY <1>1, <1>3, Zenon DEF Sound6
<1>8. NetworkHlen(f) = 40
  BY <1>1, <1>3, <1>4, ShortIsSame DEF NetworkHlen, IP, IPV6, ARP
<1>9. f.caplen = datalink_hlen(f) + 40 + 2 * Len(f.tr) + Len(f.body)
  <2>1. PICK pad \in Nat : /\ f.caplen = datalink_hlen(f) + s.caplen + pad
                           /\ Len(f.body) = Len(s.body) + pad
    BY Zenon DEF Frames
  <2>2. Len(t.tr) \in Nat /\ Len(t.body) \in Nat
    BY <1>5, LenProperties, Zenon
  <2>3. PICK a \in Int, b \in Int, d \in Int :
          a = Len(t.tr) /\ b = Len(t.body) /\ d = datalink_hlen(f)
    BY <2>2 DEF datalink_hlen
  <2>4. LengthOf(t) = 2 * a + b
    BY <2>3 DEF LengthOf
  <2>5. f.caplen = d + (40 + (2 * a + b)) + pad /\ Len(f.body) = b + pad /\ Len(f.tr) = a
    BY <1>1, <1>3, <2>1, <2>3, <2>4, Zenon
  <2>6. PICK c \in Int, e \in Int :
          c = f.caplen /\ e = Len(f.body) /\ c = d + (40 + (2 * a + b)) + pad /\ e = b + pad
    BY <2>5
  <2>7. c = d + (40 + (2 * a + b)) + pad /\ e = b + pad
    BY <2>6, Zenon
  <2>8. c = d + 40 + 2 * a + e
    BY ONLY <2>7, pad \in Nat, c \in Int, e \in Int, a \in Int, b \in Int, d \in Int
  <2> QED BY <2>3, <2>5, <2>6, <2>8, Zenon
<1>10. /\ Holds(f, TCP) => p.class = "TCPPacket"
       /\ Holds(f, UDP) => p.class = "UDPPacket"
  <2>1. /\ p.class \in {"IPPacket", "TCPPacket", "UDPPacket"}
    BY PacketIP
  <2>2. p.class = "IPPacket" => U8(p.protocol) \notin {ICMP, TCP, UDP}
    BY SMT DEF IsPacket
  <2>3. p.class = "IPPacket" => Protocol(p) = U8(p.protocol)
    BY DEF Protocol
  <2>4. /\ p.class = "TCPPacket" => Protocol(p) = TCP
        /\ p.class = "UDPPacket" => Protocol(p) = UDP
    BY Zenon DEF Protocol
  <2>5. TCP # UDP
    BY DEF TCP, UDP
  <2>6. \A proto : Holds(f, proto) => Protocol(p) = proto
    BY <1>1, <1>3, <1>4 DEF Holds, IP, IPV6
  <2> QED BY <2>1, <2>2, <2>3, <2>4, <2>5, <2>6
<1>11. /\ Holds(f, TCP) => f.doff = 5 /\ Len(f.tr) = 10
       /\ Holds(f, UDP) => Len(f.tr) = 4
  <2>1. /\ p.class = "TCPPacket" => Len(t.tr) = 10
        /\ p.class = "UDPPacket" => Len(t.tr) = 4
    BY <1>1, Zenon DEF TransportIsSet
  <2>2. p.class = "TCPPacket" => Doff(p) = 5
    BY DEF Doff
  <2>3. f.doff = Doff(p) /\ f.tr = t.tr
    BY <1>1, <1>3, Zenon
  <2>4. Holds(f, TCP) => f.doff = 5 /\ Len(f.tr) = 10
    BY ONLY <1>10, <2>1, <2>2, <2>3, Zenon
  <2>5. Holds(f, UDP) => Len(f.tr) = 4
    BY ONLY <1>10, <2>1, <2>3, Zenon
  <2> QED BY <2>4, <2>5, Zenon
<1>12. IPV6 \notin {ICMP, TCP, UDP, REVARP, UNKNOWN_PROTO, IP, ARP}
  BY DEF IP, ICMP, TCP, UDP, REVARP, UNKNOWN_PROTO, IPV6, ARP
<1> QED BY <1>4, <1>6, <1>7, <1>8, <1>9, <1>11, <1>12, Zenon DEF Sound, Common

(* So is one with anything else.                                           *)
LEMMA OtherFrameIsSound ==
  ASSUME NEW s, NEW type \in Words, NEW f, Frames(f, s, type), f.lt = EN10MB,
         Numbers(s), s.tr \in Seq(Words), s.body \in Seq(Bytes),
         \/ type = ARP /\ MessageARP(s)
         \/ /\ type \notin {IP, IPV6, ARP, REVARP, ICMP, TCP, UDP, UNKNOWN_PROTO}
            /\ s.tr = <<>> /\ s.caplen = Len(s.body)
  PROVE  Sound(f) /\ nproto(f) = type
<1>1. nproto(f) = type
  BY DEF Frames, nproto, RAW, EN10MB, IEEE802
<1>2. SameHeaders(f, s)
  BY Zenon DEF Frames
<1>3. f.tr = s.tr /\ f.hln = s.hln /\ f.pln = s.pln
  BY <1>2, Zenon DEF SameHeaders
<1>4. Len(s.body) \in Nat /\ s.caplen \in Nat
  BY LenProperties DEF MessageARP
<1>5. Common(f)
  BY <1>4, FramesCommon
<1>6. type \notin {IP, IPV6, ICMP, TCP, UDP, REVARP, UNKNOWN_PROTO}
  BY DEF IP, ICMP, TCP, UDP, REVARP, UNKNOWN_PROTO, IPV6, ARP
<1>7. type # ARP => NetworkHlen(f) = 0
  BY <1>1, <1>6 DEF NetworkHlen
<1>8. type # ARP => f.caplen = datalink_hlen(f) + NetworkHlen(f) + 2 * Len(f.tr) + Len(f.body)
  <2> SUFFICES ASSUME type # ARP PROVE f.caplen = datalink_hlen(f) + 0 + 2 * 0 + Len(f.body)
    <3>1. type # ARP => f.tr = <<>>
      BY <1>3
    <3>2. Len(<<>>) = 0
      BY EmptySeq, Zenon
    <3> QED BY <1>7, <3>1, <3>2, Zenon
  <2>1. PICK pad \in Nat : /\ f.caplen = datalink_hlen(f) + s.caplen + pad
                           /\ Len(f.body) = Len(s.body) + pad
    BY Zenon DEF Frames
  <2>2. s.caplen = Len(s.body)
    OBVIOUS
  <2>3. PICK d \in Int, k \in Int : d = datalink_hlen(f) /\ k = Len(s.body)
    <3>1. datalink_hlen(f) \in {0, 14, 22}
      BY ONLY DEF datalink_hlen
    <3>2. datalink_hlen(f) \in Int /\ Len(s.body) \in Int
      BY ONLY <1>4, <3>1
    <3> QED BY <3>2, Zenon
  <2>4. f.caplen = d + k + pad /\ Len(f.body) = k + pad
    BY <2>1, <2>2, <2>3, Zenon
  <2>5. d + k + pad = d + 0 + 2 * 0 + (k + pad)
    OBVIOUS
  <2> QED BY <2>3, <2>4, <2>5, Zenon
<1>9. type = ARP => f.hln = 6 /\ f.pln = 4 /\ Len(f.tr) = 14 /\ f.tr[3] = ARPLengths
  BY <1>3, SMT DEF MessageARP, Row
<1>10. ~Holds(f, TCP) /\ ~Holds(f, UDP)
  BY <1>1, <1>6 DEF Holds
<1>11. type # ARP => f.tr = <<>>
  BY <1>3
<1>12. /\ IsFrame(f) /\ f.caplen <= MAX_PACKET_SIZE
       /\ f.lt = RAW \/ (f.lt = EN10MB /\ 60 <= f.caplen)
       /\ f.tr \in Seq(Words) /\ f.body \in Seq(Bytes)
  BY <1>5, Zenon DEF Common
<1> QED BY <1>1, <1>6, <1>8, <1>9, <1>10, <1>11, <1>12, SMT DEF Sound

-----------------------------------------------------------------------------
(* and so every object that can be sent.                                   *)

(* What is sent is sound, and a receiver of IPv4 accepts it.               *)
Sending(f, p) ==
  /\ Sound(f)
  /\ IsIP(p) /\ p.version = 4 => nproto(f) = IP /\ AcceptsTransport(f, p.class)

(* nativeSendPacket writes the header of Ethernet.                         *)
LEMMA TypeIsEthernet ==
  ASSUME NEW p, NEW j, NEW s, s = set_packet(p, j),
         NEW type, Frames(nativeSendPacket(p, j), s, type)
  PROVE  nativeSendPacket(p, j).lt = EN10MB
<1> DEFINE pad == IF 14 + s.caplen < 60 THEN 46 - s.caplen ELSE 0
           f   == [s EXCEPT !.lt = EN10MB, !.type = U16(p.frametype),
                            !.caplen = 14 + s.caplen + pad, !.body = s.body \o Zeros(pad)]
<1>1. nativeSendPacket(p, j) = f
  BY Zenon DEF nativeSendPacket
<1>2. DOMAIN s = Fields
  BY SetPacketFields, Zenon
<1>3. f.lt = EN10MB
  <2> HIDE DEF pad
  <2> QED BY <1>2, SMT DEF Fields
<1> HIDE DEF f
<1> QED BY <1>1, <1>3, Zenon

(* What is put behind the header of IP fits the buffer.                    *)
LEMMA TransportBounds ==
  ASSUME NEW p, p.version \in {4, 6}, NEW s, NEW t, TransportIsSet(p, s, t)
  PROVE  /\ LengthOf(t) \in Int /\ 0 <= LengthOf(t)
         /\ p.version = 4 => 34 + LengthOf(t) <= MAX_PACKET_SIZE
         /\ p.version # 4 => 54 + LengthOf(t) <= MAX_PACKET_SIZE
  BY Zenon DEF TransportIsSet

(* Whatever object nativeSendPacket is given, the frame is sound, and a    *)
(* receiver accepts its checksums: those of IP, TCP, UDP and, for an even  *)
(* length, ICMP.                                                           *)
THEOREM NativeIsSound ==
  ASSUME NEW p, IsPacket(p), NEW j \in Words
  PROVE  Sending(nativeSendPacket(p, j), p)
<1> DEFINE s == set_packet(p, j)
           f == nativeSendPacket(p, j)
<1>1. CASE IsIP(p) /\ p.version = 4
  <2>1. PICK t : Datagram4(s, p, t)
    BY <1>1, SetPacket4
  <2>2. s.body = t.body /\ s.caplen = 20 + LengthOf(t) /\ TransportIsSet(p, s, t)
    BY <2>1, Zenon DEF Datagram4
  <2>3. s.body \in Seq(Bytes)
    BY <2>2, Zenon DEF TransportIsSet
  <2>4. s.caplen \in Int /\ 0 <= s.caplen /\ 14 + s.caplen <= MAX_PACKET_SIZE
    <3>1. /\ LengthOf(t) \in Int /\ 0 <= LengthOf(t) /\ 34 + LengthOf(t) <= MAX_PACKET_SIZE
      BY <1>1, <2>2, TransportBounds
    <3> QED BY <2>2, <3>1 DEF MAX_PACKET_SIZE
  <2>5. U16(p.frametype) = IP
    BY <1>1, SMT DEF IsPacket
  <2>6. Frames(f, s, IP)
    BY <2>3, <2>4, <2>5, NativeFrames, Zenon
  <2> HIDE DEF s, f
  <2> QED BY <1>1, <2>1, <2>6, Frame4IsSound, Zenon DEF Sending, f
<1>2. CASE IsIP(p) /\ p.version # 4
  <2>1. PICK t : Datagram6(s, p, t)
    BY <1>2, SetPacket6
  <2>2. s.body = t.body /\ s.caplen = 40 + LengthOf(t) /\ TransportIsSet(p, s, t)
    BY <2>1, Zenon DEF Datagram6
  <2>3. s.body \in Seq(Bytes)
    BY <2>2, Zenon DEF TransportIsSet
  <2>4. s.caplen \in Int /\ 0 <= s.caplen /\ 14 + s.caplen <= MAX_PACKET_SIZE
    <3>1. p.version \in {4, 6}
      BY <1>2, PacketIP
    <3>2. /\ LengthOf(t) \in Int /\ 0 <= LengthOf(t) /\ 54 + LengthOf(t) <= MAX_PACKET_SIZE
      BY <1>2, <2>2, <3>1, TransportBounds
    <3> QED BY <2>2, <3>2 DEF MAX_PACKET_SIZE
  <2>5. U16(p.frametype) = IPV6
    BY <1>2, SMT DEF IsPacket
  <2>6. Frames(f, s, IPV6)
    BY <2>3, <2>4, <2>5, NativeFrames, Zenon
  <2>7. f.lt = EN10MB
    BY <2>6, TypeIsEthernet, Zenon
  <2> HIDE DEF s, f
  <2> QED BY <1>2, <2>1, <2>6, <2>7, Frame6IsSound, Zenon DEF Sending, f
<1>3. CASE ~IsIP(p) /\ p.class = "ARPPacket"
  <2>1. HoldsARP(p) /\ U16(p.frametype) = ARP
    BY <1>3, SMT DEF IsPacket
  <2>2. MessageARP(s)
    BY <1>3, <2>1, SetPacketARP
  <2>3. /\ Numbers(s) /\ s.tr \in Seq(Words) /\ s.body \in Seq(Bytes)
        /\ s.caplen \in Int /\ 0 <= s.caplen /\ 14 + s.caplen <= MAX_PACKET_SIZE
    <3>1. s.body = <<>> /\ s.caplen = 28 /\ Numbers(s) /\ Row(s.tr, 14)
      BY <2>2, SMT DEF MessageARP
    <3>2. <<>> \in Seq(Bytes)
      BY EmptySeq, Zenon
    <3>3. s.tr \in Seq(Words)
      BY <3>1, Zenon DEF Row
    <3>4. s.caplen \in Int /\ 0 <= s.caplen /\ 14 + s.caplen <= MAX_PACKET_SIZE
      BY <3>1 DEF MAX_PACKET_SIZE
    <3> QED BY <3>1, <3>2, <3>3, <3>4, Zenon
  <2>4. Frames(f, s, ARP)
    BY <2>1, <2>3, NativeFrames, Zenon
  <2>5. f.lt = EN10MB
    BY <2>4, TypeIsEthernet, Zenon
  <2>6. ARP \in Words
    BY RangeIsWord DEF ARP
  <2> HIDE DEF s, f
  <2>7. Sound(f)
    BY <2>2, <2>3, <2>4, <2>5, <2>6, OtherFrameIsSound, Zenon
  <2> QED BY <1>3, <2>7, Zenon DEF Sending, f
<1>4. CASE ~IsIP(p) /\ p.class = "Packet"
  <2>1. /\ U16(p.frametype) \notin {IP, IPV6, ARP, REVARP, ICMP, TCP, UDP, UNKNOWN_PROTO}
        /\ p.frametype \in Int /\ p.data \in Seq(Bytes) /\ 14 + Len(p.data) <= MAX_PACKET_SIZE
    BY <1>4, SMT DEF IsPacket
  <2>2. Numbers(s) /\ s.tr = <<>> /\ s.body = p.data /\ s.caplen = Len(p.data)
    BY <1>4, SetPacketPlain, Zenon DEF Plain
  <2>3. s.tr \in Seq(Words)
    BY <2>2, EmptySeq, Zenon
  <2>4. s.caplen \in Int /\ 0 <= s.caplen /\ 14 + s.caplen <= MAX_PACKET_SIZE
    <3>1. Len(p.data) \in Nat
      BY <2>1, LenProperties, Zenon
    <3> QED BY <2>1, <2>2, <3>1
  <2>5. Frames(f, s, U16(p.frametype))
    BY <2>1, <2>2, <2>4, NativeFrames, Zenon
  <2>6. f.lt = EN10MB
    BY <2>5, TypeIsEthernet, Zenon
  <2>7. U16(p.frametype) \in Words
    BY <2>1, NumberRanges
  <2> HIDE DEF s, f
  <2>8. Sound(f)
    BY <2>1, <2>2, <2>3, <2>5, <2>6, <2>7, OtherFrameIsSound, Zenon
  <2> QED BY <1>4, <2>8, Zenon DEF Sending, f
<1>5. p.class \in {"Packet", "ARPPacket"} \/ IsIP(p)
  BY SMT DEF IsPacket
<1> QED BY <1>1, <1>2, <1>3, <1>4, <1>5

(* So is what nativeSendPacketViaRawSocket sends.                          *)
LEMMA RawIsSound ==
  ASSUME NEW p, IsPacket(p), IsIP(p), p.version = 4, NEW j \in Words
  PROVE  Sending(nativeSendPacketViaRawSocket(p, j), p)
<1> DEFINE s == set_packet(p, j)
           f == nativeSendPacketViaRawSocket(p, j)
<1>1. PICK t : Datagram4(s, p, t)
  BY SetPacket4
<1>2. s.body = t.body /\ s.caplen = 20 + LengthOf(t) /\ TransportIsSet(p, s, t)
  BY <1>1, Zenon DEF Datagram4
<1>3. s.body \in Seq(Bytes)
  BY <1>2, Zenon DEF TransportIsSet
<1>4. s.caplen \in Int /\ 0 <= s.caplen /\ s.caplen <= MAX_PACKET_SIZE
  <2>1. /\ LengthOf(t) \in Int /\ 0 <= LengthOf(t) /\ 34 + LengthOf(t) <= MAX_PACKET_SIZE
    BY <1>2, TransportBounds
  <2> QED BY <1>2, <2>1 DEF MAX_PACKET_SIZE
<1>5. U16(p.frametype) = IP
  BY SMT DEF IsPacket
<1>6. s.type = 0
  <2>1. p.class # "ARPPacket"
    BY DEF IsIP
  <2>2. s = Network4(p, set_ip(p), Transport(p, set_ip(p), j))
    BY <2>1, Zenon DEF set_packet
  <2> QED BY <2>2, SMT DEF Network4, set_ip, Blank
<1>7. Frames(f, s, IP)
  BY <1>3, <1>4, <1>5, <1>6, RawFrames, Zenon
<1> HIDE DEF s, f
<1> QED BY <1>1, <1>7, Frame4IsSound, Zenon DEF Sending, f

-----------------------------------------------------------------------------
(* get_packet: what its analyses leave in the fields of the object.        *)

(* Merge keeps every field of the first,                                   *)
LEMMA MergedFirst ==
  ASSUME NEW a, NEW b, NEW c, c = Merge(a, b)
  PROVE  \A x \in DOMAIN a : c[x] = a[x] /\ x \in DOMAIN c
  BY DEF Merge

(* and those of the second that the first has not.                         *)
LEMMA MergedSecond ==
  ASSUME NEW a, NEW b, NEW c, c = Merge(a, b)
  PROVE  \A x \in DOMAIN b : x \notin DOMAIN a => c[x] = b[x] /\ x \in DOMAIN c
  BY DEF Merge

Datalink(f, j) ==
  LET parts == Parts(f, j)
      start == parts.start - Skipped(f) - NetworkHlen(f)
      below == BytesOf(f.tr) \o f.body
  IN  [class |-> Class(f, j), frametype |-> analyze_datalink(f), caplen |-> f.caplen,
       header |-> parts.header,
       data |-> IF nproto(f) = ARP THEN <<>> ELSE SubSeq(below, start + 1, start + parts.data)]

(* get_packet merges what its analyses give.                               *)
LEMMA Got ==
  ASSUME NEW f, NEW j
  PROVE  get_packet(f, j) =
           Merge(Datalink(f, j), Merge(Network(f), AnalyzedTransport(f, Class(f, j), j)))
  BY SMT DEF get_packet, Datalink

(* The fields that get_packet itself sets.                                 *)
LEMMA GotDatalink ==
  ASSUME NEW f, NEW j, NEW p, p = get_packet(f, j)
  PROVE  /\ p.class = Class(f, j) /\ p.frametype = analyze_datalink(f)
         /\ p.header = Parts(f, j).header /\ p.data = Datalink(f, j).data
<1> DEFINE d == Datalink(f, j)
           m == Merge(Network(f), AnalyzedTransport(f, Class(f, j), j))
<1>1. p = Merge(d, m)
  BY Got, Zenon
<1>2. /\ DOMAIN d = {"class", "frametype", "caplen", "header", "data"}
      /\ d.class = Class(f, j) /\ d.frametype = analyze_datalink(f)
      /\ d.header = Parts(f, j).header
  BY SMT DEF Datalink
<1> HIDE DEF d, m
<1>3. \A x \in DOMAIN d : p[x] = d[x]
  BY <1>1, MergedFirst
<1>4. p.class = d.class /\ p.frametype = d.frametype /\ p.header = d.header /\ p.data = d.data
  BY <1>2, <1>3, SMT
<1> QED BY <1>2, <1>4, Zenon DEF d

(* What was read below the link: fields of the network protocol win.       *)
LEMMA GotBelow ==
  ASSUME NEW f, NEW j, NEW p, p = get_packet(f, j),
         NEW x, x \notin {"class", "frametype", "caplen", "header", "data"}
  PROVE  /\ x \in DOMAIN Network(f) => p[x] = Network(f)[x]
         /\ x \notin DOMAIN Network(f) /\ x \in DOMAIN AnalyzedTransport(f, Class(f, j), j) =>
              p[x] = AnalyzedTransport(f, Class(f, j), j)[x]
<1> DEFINE d == Datalink(f, j)
           n == Network(f)
           t == AnalyzedTransport(f, Class(f, j), j)
<1>1. p = Merge(d, Merge(n, t))
  BY Got, Zenon
<1>2. x \notin DOMAIN d
  BY SMT DEF Datalink
<1> HIDE DEF d, n, t
<1>3. PICK m : m = Merge(n, t)
  OBVIOUS
<1>4. \A y \in DOMAIN m : y \notin DOMAIN d => p[y] = m[y]
  BY <1>1, <1>3, MergedSecond
<1>5. \A y \in DOMAIN n : m[y] = n[y] /\ y \in DOMAIN m
  BY <1>3, MergedFirst
<1>6. \A y \in DOMAIN t : y \notin DOMAIN n => m[y] = t[y] /\ y \in DOMAIN m
  BY <1>3, MergedSecond
<1> QED BY <1>2, <1>4, <1>5, <1>6, Zenon DEF n, t

(* The analysis that is made.                                              *)
LEMMA NetworkIs ==
  ASSUME NEW f
  PROVE  /\ nproto(f) = IP => Network(f) = analyze_ip(f)
         /\ nproto(f) = IPV6 => Network(f) = analyze_ipv6(f)
         /\ nproto(f) = ARP => Network(f) = analyze_arp(f)
         /\ nproto(f) \notin {IP, IPV6, ARP} => Network(f) = <<>>
<1>1. IP # IPV6 /\ IP # ARP /\ IPV6 # ARP
  BY DEF IP, IPV6, ARP
<1> QED BY <1>1, SMT DEF Network

(* The object of a header of IPv4,                                         *)
LEMMA GotIP ==
  ASSUME NEW f, nproto(f) = IP, NEW j, NEW p, p = get_packet(f, j)
  PROVE  /\ p.version = 4 /\ p.priority = f.tos \div 32 /\ p.rsv_tos = f.tos % 4
         /\ p.offset = f.off % 8192 /\ p.ident = S16(f.id) /\ p.hop_limit = f.ttl
         /\ p.protocol = f.p /\ p.flow_label = <<0, 0>> /\ p.src = f.src /\ p.dst = f.dst
         /\ p.tos = BitsOf(f.tos, TOS) /\ p.frag = BitsOf(Swap16(f.off), FRAG)
<1> DEFINE n == analyze_ip(f)
           F == {"version", "priority", "rsv_tos", "offset", "ident", "hop_limit", "protocol",
                 "flow_label", "src", "dst", "tos", "frag"}
<1>1. Network(f) = n
  BY NetworkIs, Zenon
<1>2. \A x \in F : x \in DOMAIN n /\ x \notin {"class", "frametype", "caplen", "header", "data"}
  BY SMT DEF analyze_ip
<1>3. /\ n.version = 4 /\ n.priority = f.tos \div 32 /\ n.rsv_tos = f.tos % 4
      /\ n.offset = f.off % 8192 /\ n.ident = S16(f.id) /\ n.hop_limit = f.ttl
      /\ n.protocol = f.p /\ n.flow_label = <<0, 0>> /\ n.src = f.src /\ n.dst = f.dst
      /\ n.tos = BitsOf(f.tos, TOS) /\ n.frag = BitsOf(Swap16(f.off), FRAG)
  BY SMT DEF analyze_ip
<1> HIDE DEF n, F
<1>4. \A x \in F : p[x] = n[x]
  BY <1>1, <1>2, GotBelow, SMT
<1> QED BY <1>3, <1>4, SMT DEF F

(* of one of IPv6,                                                         *)
LEMMA GotIPV6 ==
  ASSUME NEW f, nproto(f) = IPV6, NEW j, NEW p, p = get_packet(f, j)
  PROVE  /\ p.version = 6 /\ p.priority = 0 /\ p.rsv_tos = 0 /\ p.offset = 0 /\ p.ident = 0
         /\ p.flow_label = <<f.flow[1], 256 * ((f.flow[2] \div 256) % 16)>>
         /\ p.hop_limit = f.ttl /\ p.protocol = S8(f.nxt) /\ p.src = f.src /\ p.dst = f.dst
         /\ p.frag = {}
<1> DEFINE n == analyze_ipv6(f)
           F == {"version", "priority", "rsv_tos", "offset", "ident", "hop_limit", "protocol",
                 "flow_label", "src", "dst", "frag"}
<1>1. Network(f) = n
  BY NetworkIs, Zenon
<1>2. \A x \in F : x \in DOMAIN n /\ x \notin {"class", "frametype", "caplen", "header", "data"}
  BY SMT DEF analyze_ipv6
<1>3. /\ n.version = 6 /\ n.priority = 0 /\ n.rsv_tos = 0 /\ n.offset = 0 /\ n.ident = 0
      /\ n.flow_label = <<f.flow[1], 256 * ((f.flow[2] \div 256) % 16)>>
      /\ n.hop_limit = f.ttl /\ n.protocol = S8(f.nxt) /\ n.src = f.src /\ n.dst = f.dst
      /\ n.frag = {}
  BY SMT DEF analyze_ipv6
<1> HIDE DEF n, F
<1>4. \A x \in F : p[x] = n[x]
  BY <1>1, <1>2, GotBelow, SMT
<1> QED BY <1>3, <1>4, SMT DEF F

(* and of a message of ARP.                                                *)
LEMMA GotARP ==
  ASSUME NEW f, nproto(f) = ARP, NEW j, NEW p, p = get_packet(f, j)
  PROVE  /\ p.hardtype = S16(f.tr[1]) /\ p.prototype = S16(f.tr[2])
         /\ p.hlen = f.tr[3] \div 256 /\ p.plen = f.tr[3] % 256 /\ p.operation = S16(f.tr[4])
         /\ p.sender_hardaddr = SubSeq(f.tr, 5, 7) /\ p.sender_protoaddr = SubSeq(f.tr, 8, 9)
         /\ p.target_hardaddr = SubSeq(f.tr, 10, 12) /\ p.target_protoaddr = SubSeq(f.tr, 13, 14)
<1> DEFINE n == analyze_arp(f)
           F == {"hardtype", "prototype", "hlen", "plen", "operation", "sender_hardaddr",
                 "sender_protoaddr", "target_hardaddr", "target_protoaddr"}
<1>1. Network(f) = n
  BY NetworkIs, Zenon
<1>2. \A x \in F : x \in DOMAIN n /\ x \notin {"class", "frametype", "caplen", "header", "data"}
  BY SMT DEF analyze_arp
<1>3. /\ n.hardtype = S16(f.tr[1]) /\ n.prototype = S16(f.tr[2])
      /\ n.hlen = f.tr[3] \div 256 /\ n.plen = f.tr[3] % 256 /\ n.operation = S16(f.tr[4])
      /\ n.sender_hardaddr = SubSeq(f.tr, 5, 7) /\ n.sender_protoaddr = SubSeq(f.tr, 8, 9)
      /\ n.target_hardaddr = SubSeq(f.tr, 10, 12) /\ n.target_protoaddr = SubSeq(f.tr, 13, 14)
  BY SMT DEF analyze_arp
<1> HIDE DEF n, F
<1>4. \A x \in F : p[x] = n[x]
  BY <1>1, <1>2, GotBelow, SMT
<1> QED BY <1>3, <1>4, SMT DEF F

-----------------------------------------------------------------------------
(* The transport header it reads.                                          *)

(* The analysis of the transport header.                                   *)
LEMMA TransportRead ==
  ASSUME NEW f, NEW j
  PROVE  /\ AnalyzedTransport(f, "TCPPacket", j) = analyze_tcp(f)
         /\ AnalyzedTransport(f, "UDPPacket", j) = analyze_udp(f)
         /\ AnalyzedTransport(f, "ICMPPacket", j) =
              analyze_icmp(f, Cut(f, j) - NetworkHlen(f), j)
  BY SMT DEF AnalyzedTransport

(* A field of a transport header is none of those below it.                *)
LEMMA TransportOnTop ==
  ASSUME NEW f, nproto(f) \in {IP, IPV6},
         NEW x \in {"src_port", "dst_port", "sequence", "ack_num", "flags", "window",
                    "urgent_pointer", "hasInner", "type", "code", "id", "seq", "redir_ip",
                    "ippacket", "subnetmask", "orig_timestamp", "recv_timestamp",
                    "trans_timestamp"}
  PROVE  /\ x \notin DOMAIN Network(f)
         /\ x \notin {"class", "frametype", "caplen", "header", "data"}
<1>1. Network(f) = analyze_ip(f) \/ Network(f) = analyze_ipv6(f)
  BY NetworkIs, Zenon
<1>2. x \notin DOMAIN analyze_ip(f)
  BY SMT DEF analyze_ip
<1>3. x \notin DOMAIN analyze_ipv6(f)
  BY SMT DEF analyze_ipv6
<1> QED BY <1>1, <1>2, <1>3, SMT

(* The object of a header of TCP,                                          *)
LEMMA GotTCP ==
  ASSUME NEW f, nproto(f) \in {IP, IPV6}, NEW j, NEW p, p = get_packet(f, j),
         Class(f, j) = "TCPPacket"
  PROVE  /\ p.src_port = f.tr[1] /\ p.dst_port = f.tr[2] /\ p.sequence = <<f.tr[3], f.tr[4]>>
         /\ p.ack_num = <<f.tr[5], f.tr[6]>> /\ p.window = f.tr[8]
         /\ p.urgent_pointer = S16(f.tr[10]) /\ p.flags = BitsOf(f.tr[7], 0 .. 7)
<1> DEFINE t == analyze_tcp(f)
           F == {"src_port", "dst_port", "sequence", "ack_num", "flags", "window", "urgent_pointer"}
<1>1. AnalyzedTransport(f, Class(f, j), j) = t
  BY TransportRead, Zenon
<1>2. \A x \in F : x \in DOMAIN t
  BY SMT DEF analyze_tcp
<1>3. /\ t.src_port = f.tr[1] /\ t.dst_port = f.tr[2] /\ t.sequence = <<f.tr[3], f.tr[4]>>
      /\ t.ack_num = <<f.tr[5], f.tr[6]>> /\ t.window = f.tr[8]
      /\ t.urgent_pointer = S16(f.tr[10]) /\ t.flags = BitsOf(f.tr[7], 0 .. 7)
  BY SMT DEF analyze_tcp
<1>4. \A x \in F : /\ x \notin DOMAIN Network(f)
                   /\ x \notin {"class", "frametype", "caplen", "header", "data"}
  BY TransportOnTop, SMT
<1> HIDE DEF t, F
<1>5. \A x \in F : p[x] = t[x]
  BY <1>1, <1>2, <1>4, GotBelow, SMT
<1> QED BY <1>3, <1>5, SMT DEF F

(* of UDP,                                                                 *)
LEMMA GotUDP ==
  ASSUME NEW f, nproto(f) \in {IP, IPV6}, NEW j, NEW p, p = get_packet(f, j),
         Class(f, j) = "UDPPacket"
  PROVE  p.src_port = f.tr[1] /\ p.dst_port = f.tr[2]
<1> DEFINE t == analyze_udp(f)
           F == {"src_port", "dst_port"}
<1>1. AnalyzedTransport(f, Class(f, j), j) = t
  BY TransportRead, Zenon
<1>2. \A x \in F : x \in DOMAIN t
  BY SMT DEF analyze_udp
<1>3. t.src_port = f.tr[1] /\ t.dst_port = f.tr[2]
  BY SMT DEF analyze_udp
<1>4. \A x \in F : /\ x \notin DOMAIN Network(f)
                   /\ x \notin {"class", "frametype", "caplen", "header", "data"}
  BY TransportOnTop, SMT
<1> HIDE DEF t, F
<1>5. \A x \in F : p[x] = t[x]
  BY <1>1, <1>2, <1>4, GotBelow, SMT
<1> QED BY <1>3, <1>5, SMT DEF F

(* What analyze_icmp reads from the words m.                               *)
ReadICMP(m, clen, junk) ==
  LET type  == m[1] \div 256
      hasID == type \in ECHO \/ type > 12
      Time(i) == IF type \in TIMESTAMP THEN Swap32(<<m[i], m[i + 1]>>) ELSE <<0, 0>>
  IN  [type |-> S8(type), code |-> S8(m[1]), checksum |-> S16(Swap16(m[2])),
       id  |-> IF hasID THEN S8(m[3]) ELSE S16(junk),
       seq |-> IF hasID THEN S8(m[4]) ELSE S16(junk),
       redir_ip |-> IF type = REDIRECT THEN <<m[3], m[4]>> ELSE <<>>,
       mtu |-> IF type \in {REDIRECT, 3} THEN S16(Swap16(m[4])) ELSE 0,
       hasInner |-> type \in ERRORS /\ clen >= 36,
       ippacket |-> <<>>,
       subnetmask |-> IF type \in MASK THEN Swap32(<<m[5], m[6]>>) ELSE <<0, 0>>,
       orig_timestamp |-> Time(5), recv_timestamp |-> Time(7), trans_timestamp |-> Time(9)]

(* and of an ICMP message, of which the words are read.                    *)
LEMMA ICMPRead ==
  ASSUME NEW f, NEW clen, NEW j
  PROVE  analyze_icmp(f, clen, j) = ReadICMP(f.tr \o WordsOf(f.body), clen, j)
  BY Zenon DEF analyze_icmp, ReadICMP

(* The fields of an ICMP message that was read from the words m.           *)
ICMPNames == {"type", "code", "id", "seq", "redir_ip", "ippacket", "subnetmask",
              "orig_timestamp", "recv_timestamp", "trans_timestamp"}

HasICMP(t, m, j) ==
  /\ t.type = S8(m[1] \div 256) /\ t.code = S8(m[1]) /\ t.ippacket = <<>>
  /\ t.id \in {S8(m[3]), S16(j)} /\ t.seq \in {S8(m[4]), S16(j)}
  /\ m[1] \div 256 = REDIRECT => t.redir_ip = <<m[3], m[4]>>
  /\ t.subnetmask \in {Swap32(<<m[5], m[6]>>), <<0, 0>>}
  /\ t.orig_timestamp \in {Swap32(<<m[5], m[6]>>), <<0, 0>>}
  /\ t.recv_timestamp \in {Swap32(<<m[7], m[8]>>), <<0, 0>>}
  /\ t.trans_timestamp \in {Swap32(<<m[9], m[10]>>), <<0, 0>>}

(* What is read of an ICMP message.                                        *)
LEMMA ICMPIsRead ==
  ASSUME NEW m, NEW clen, NEW j, NEW t, t = ReadICMP(m, clen, j)
  PROVE  HasICMP(t, m, j) /\ ICMPNames \subseteq DOMAIN t
  BY SMT DEF ReadICMP, HasICMP, ICMPNames

(* That depends on its own fields only.                                    *)
LEMMA SameICMP ==
  ASSUME NEW m, NEW j, NEW t, HasICMP(t, m, j), NEW p, \A x \in ICMPNames : p[x] = t[x]
  PROVE  HasICMP(p, m, j)
<1>1. /\ p.type = t.type /\ p.code = t.code /\ p.ippacket = t.ippacket /\ p.id = t.id
      /\ p.seq = t.seq /\ p.redir_ip = t.redir_ip /\ p.subnetmask = t.subnetmask
      /\ p.orig_timestamp = t.orig_timestamp /\ p.recv_timestamp = t.recv_timestamp
      /\ p.trans_timestamp = t.trans_timestamp
  BY SMT DEF ICMPNames
<1> QED BY <1>1, Zenon DEF HasICMP

Message(f) == f.tr \o WordsOf(f.body)

(* The object of an ICMP message.                                          *)
LEMMA GotICMP ==
  ASSUME NEW f, nproto(f) \in {IP, IPV6}, NEW j, NEW p, p = get_packet(f, j),
         Class(f, j) = "ICMPPacket"
  PROVE  HasICMP(p, Message(f), j)
<1> DEFINE t == analyze_icmp(f, Cut(f, j) - NetworkHlen(f), j)
<1>1. AnalyzedTransport(f, Class(f, j), j) = t
  BY TransportRead, Zenon
<1>2. t = ReadICMP(Message(f), Cut(f, j) - NetworkHlen(f), j)
  BY ICMPRead, Zenon DEF Message
<1>3. \A x \in ICMPNames : /\ x \notin DOMAIN Network(f)
                           /\ x \notin {"class", "frametype", "caplen", "header", "data"}
  BY ONLY nproto(f) \in {IP, IPV6}, TransportOnTop DEF ICMPNames
<1> HIDE DEF t
<1>4. HasICMP(t, Message(f), j) /\ ICMPNames \subseteq DOMAIN t
  BY <1>2, ICMPIsRead, Zenon
<1>5. \A x \in ICMPNames : p[x] = t[x]
  BY ONLY p = get_packet(f, j), <1>1, <1>3, <1>4, GotBelow, SMT
<1> QED BY <1>4, <1>5, SameICMP, Zenon

-----------------------------------------------------------------------------
(* The class it gives to a sound frame.                                    *)

(* Of a sound frame, the class says what it holds.                         *)
LEMMA ClassOfSound ==
  ASSUME NEW f, Sound(f), NEW j \in Words, NEW c, c = Class(f, j)
  PROVE  /\ c = "TCPPacket"  => Holds(f, TCP) /\ tproto(f, j) = TCP
         /\ c = "UDPPacket"  => Holds(f, UDP) /\ tproto(f, j) = UDP
         /\ c = "ICMPPacket" => Holds(f, ICMP) /\ tproto(f, j) = ICMP
         /\ c = "IPPacket"   => nproto(f) \in {IP, IPV6} /\ tproto(f, j) \notin {TCP, UDP, ICMP}
         /\ c = "ARPPacket"  => nproto(f) = ARP
         /\ c = "Packet"     => nproto(f) \notin {IP, IPV6, ARP}
         /\ c \in {"TCPPacket", "UDPPacket", "ICMPPacket"} => nproto(f) \in {IP, IPV6}
         /\ c \in {"TCPPacket", "UDPPacket", "ICMPPacket", "IPPacket", "ARPPacket", "Packet"}
<1>1. IsFrame(f) /\ nproto(f) \notin {ICMP, TCP, UDP, REVARP, UNKNOWN_PROTO}
  BY Zenon DEF Sound
<1>2. /\ c = "TCPPacket" => tproto(f, j) = TCP
      /\ c = "UDPPacket" => tproto(f, j) = UDP
      /\ c = "ICMPPacket" => tproto(f, j) = ICMP
      /\ c = "IPPacket"   => nproto(f) \in {IP, IPV6} /\ tproto(f, j) \notin {TCP, UDP, ICMP}
      /\ c = "ARPPacket"  => nproto(f) \in {ARP, REVARP}
      /\ c = "Packet"     => nproto(f) \notin {IP, IPV6, ARP}
      /\ c \in {"TCPPacket", "UDPPacket", "ICMPPacket", "IPPacket", "ARPPacket", "Packet"}
  BY SMT DEF Class
<1>3. ASSUME NEW proto \in {TCP, UDP, ICMP}, tproto(f, j) = proto
      PROVE  Holds(f, proto)
  <2>1. Carries(f, proto, IF proto = TCP THEN 20 ELSE 8)
    <3>1. nproto(f) = IPV6 => f.nxt \notin IPPROTO_EXT
      BY Zenon DEF Sound, Sound6
    <3>2. nproto(f) # proto
      BY <1>1
    <3> QED BY <1>1, <1>3, <3>1, <3>2, DetectedProtocol
  <2> QED BY <2>1 DEF Carries, Holds
<1>4. \A proto : Holds(f, proto) => nproto(f) \in {IP, IPV6}
  BY Zenon DEF Holds
<1> QED BY <1>1, <1>2, <1>3, <1>4

(* An object of IPv4 comes from a frame that a receiver accepts.           *)
LEMMA GotIsAccepted ==
  ASSUME NEW f, Sound(f), NEW j \in Words, NEW p, p = get_packet(f, j), IsIP(p), p.version = 4
  PROVE  nproto(f) = IP /\ AcceptsTransport(f, p.class)
<1>1. p.class = Class(f, j)
  BY GotDatalink, Zenon
<1>2. p.class \in {"IPPacket", "TCPPacket", "UDPPacket", "ICMPPacket"}
  BY Zenon DEF IsIP
<1>3. nproto(f) \in {IP, IPV6}
  BY <1>1, <1>2, ClassOfSound
<1>4. nproto(f) # IPV6
  BY GotIPV6
<1>5. nproto(f) = IP
  BY <1>3, <1>4, Zenon
<1>6. Sound4(f)
  BY <1>5, Zenon DEF Sound
<1>7. /\ p.class = "TCPPacket"  => AcceptsTransport(f, "TCPPacket")
      /\ p.class = "UDPPacket"  => AcceptsTransport(f, "UDPPacket")
      /\ p.class = "ICMPPacket" => AcceptsTransport(f, "ICMPPacket")
  <2>1. /\ p.class = "TCPPacket" => Holds(f, TCP)
        /\ p.class = "UDPPacket" => Holds(f, UDP)
        /\ p.class = "ICMPPacket" => Holds(f, ICMP)
    BY <1>1, ClassOfSound
  <2> QED BY <1>6, <2>1, Zenon DEF Sound4
<1>8. AcceptsTransport(f, "IPPacket")
  BY SMT DEF AcceptsTransport
<1> QED BY <1>2, <1>5, <1>7, <1>8

-----------------------------------------------------------------------------
(* The lengths of a sound frame of Ethernet.                               *)
LEMMA EthernetLengths ==
  ASSUME NEW f, Sound(f), f.lt = EN10MB
  PROVE  /\ datalink_hlen(f) = 14 /\ nproto(f) = f.type /\ Skipped(f) = 14
         /\ f.caplen \in Int /\ 60 <= f.caplen /\ f.caplen <= 1600
         /\ LinkClen(f) = f.caplen - 14
<1>1. IsFrame(f) /\ f.caplen <= MAX_PACKET_SIZE /\ (f.lt = RAW \/ 60 <= f.caplen)
  BY Zenon DEF Sound
<1>2. f.caplen \in Int /\ 60 <= f.caplen /\ f.caplen <= 1600
  <2>1. f.caplen \in Int
    BY <1>1, FrameNumbers
  <2>2. f.lt # RAW
    BY DEF RAW, EN10MB
  <2> QED BY <1>1, <2>1, <2>2 DEF MAX_PACKET_SIZE
<1>3. datalink_hlen(f) = 14 /\ nproto(f) = f.type
  BY DEF datalink_hlen, nproto, RAW, EN10MB, IEEE802
<1>4. Skipped(f) = 14
  <2>1. nproto(f) # UNKNOWN_PROTO
    BY Zenon DEF Sound
  <2> QED BY <1>3, <2>1 DEF Skipped
<1>5. S16(f.caplen) = f.caplen /\ S16(f.caplen - 14) = f.caplen - 14
  BY <1>2, ShortIsSame
<1>6. LinkClen(f) = f.caplen - 14
  BY <1>3, <1>5 DEF LinkClen
<1> QED BY <1>2, <1>3, <1>4, <1>6

(* What get_packet detects in a frame of Ethernet.                         *)
LEMMA EthernetDetected ==
  ASSUME NEW f, Sound(f), f.lt = EN10MB, NEW j \in Words
  PROVE  /\ nproto(f) = IP   => tproto(f, j) = IF IsFragment(f) THEN IP ELSE f.p
         /\ nproto(f) = IPV6 => tproto(f, j) = f.nxt
         /\ tproto(f, j) # UNKNOWN_PROTO
<1>1. /\ f.caplen \in Int /\ 60 <= f.caplen /\ f.caplen <= 1600
      /\ LinkClen(f) = f.caplen - 14 /\ datalink_hlen(f) = 14
  BY EthernetLengths
<1>2. /\ IsFrame(f) /\ nproto(f) \notin {ICMP, TCP, UDP, REVARP, UNKNOWN_PROTO}
      /\ f.tr \in Seq(Words) /\ f.body \in Seq(Bytes)
      /\ nproto(f) # ARP =>
           f.caplen = datalink_hlen(f) + NetworkHlen(f) + 2 * Len(f.tr) + Len(f.body)
      /\ nproto(f) = IP   => Sound4(f)
      /\ nproto(f) = IPV6 => Sound6(f)
      /\ Holds(f, TCP) => f.doff = 5 /\ Len(f.tr) = 10
      /\ Holds(f, UDP) => Len(f.tr) = 4
  BY Zenon DEF Sound
<1>3. Len(f.tr) \in Nat /\ Len(f.body) \in Nat
  BY <1>2, LenProperties, Zenon
<1>4. ~(LinkClen(f) <= 0)
  BY <1>1
<1>5. f.p \in Int /\ 0 <= f.p /\ f.p < 256 /\ f.nxt \in Int /\ 0 <= f.nxt /\ f.nxt < 256
  <2>1. f.p \in Bytes /\ f.nxt \in Bytes
    BY <1>2, SMT DEF IsFrame
  <2> QED BY <2>1, ByteRange
<1>6. CASE nproto(f) = IP
  <2>1. f.hl = 5
    BY <1>2, <1>6, Zenon DEF Sound4
  <2>2. NetworkClen(f) = f.caplen - 34
    <3>1. NetworkClen(f) = LinkClen(f) - 4 * f.hl
      BY <1>4, <1>6 DEF NetworkClen, IP, IPV6, ARP
    <3> QED BY <1>1, <2>1, <3>1
  <2>3. NetworkClen(f) \in Int /\ 26 <= NetworkClen(f)
    BY <1>1, <2>2
  <2>4. Detected(f, j) = IF IsFragment(f) THEN IP ELSE f.p
    <3>1. Detected(f, j) = DetectedIP(f)
      BY <1>4, <1>6 DEF Detected, IP, IPV6, ARP
    <3> QED BY <2>3, <3>1 DEF DetectedIP
  <2>5. ~Truncated(Detected(f, j), NetworkClen(f))
    BY <2>3 DEF Truncated, TCPHDRLEN, UDPHDRLEN, ICMPHDRLEN
  <2>6. tproto(f, j) = Detected(f, j)
    BY <2>5 DEF tproto
  <2>7. f.p # UNKNOWN_PROTO /\ IP # UNKNOWN_PROTO /\ IP # IPV6
    BY <1>5 DEF UNKNOWN_PROTO, IP, IPV6
  <2> QED BY <1>6, <2>4, <2>6, <2>7
<1>7. CASE nproto(f) = IPV6
  <2>1. f.xlen = 0 /\ f.nxt \notin IPPROTO_EXT /\ f.nxt # ICMP
    BY <1>2, <1>7, SMT DEF Sound6
  <2>2. NetworkHlen(f) = 40
    BY <1>7, <2>1, ShortIsSame DEF NetworkHlen, IP, IPV6, ARP
  <2>3. NetworkClen(f) = f.caplen - 54
    <3>1. NetworkClen(f) = Walked(f).clen
      BY <1>4, <1>7 DEF NetworkClen, IP, IPV6, ARP
    <3> QED BY <1>1, <2>1, <3>1, NoWalk
  <2>4. NetworkClen(f) \in Int /\ 6 <= NetworkClen(f)
    BY <1>1, <2>3
  <2>5. Detected(f, j) = f.nxt
    <3>1. Detected(f, j) = DetectedIP6(f, j)
      BY <1>4, <1>7 DEF Detected, IP, IPV6, ARP
    <3>2. LinkClen(f) - 40 > 0
      BY <1>1
    <3> QED BY <2>1, <3>1, <3>2, NoWalk DEF DetectedIP6
  <2>6. PICK a \in Int, b \in Int : a = Len(f.tr) /\ b = Len(f.body) /\ 0 <= b
    BY <1>3
  <2>7. f.caplen = 14 + 40 + 2 * a + b
    <3>1. nproto(f) # ARP
      BY <1>7 DEF IPV6, ARP
    <3> QED BY <1>1, <1>2, <2>2, <2>6, <3>1, ZenonT(40)
  <2>8. /\ f.nxt = TCP => NetworkClen(f) >= 20
        /\ f.nxt = UDP => NetworkClen(f) >= 8
    <3>1. /\ f.nxt = TCP => a = 10
          /\ f.nxt = UDP => a = 4
      BY <1>2, <1>7, <2>6, Zenon DEF Holds
    <3>2. NetworkClen(f) = 2 * a + b
      BY <2>3, <2>7
    <3>3. 0 <= b
      BY <2>6
    <3> QED BY ONLY <3>1, <3>2, <3>3, a \in Int, b \in Int
  <2>9. ~Truncated(f.nxt, NetworkClen(f))
    BY <2>1, <2>4, <2>8 DEF Truncated, TCPHDRLEN, UDPHDRLEN, ICMPHDRLEN
  <2>10. tproto(f, j) = f.nxt
    BY <2>5, <2>9 DEF tproto
  <2>11. f.nxt # UNKNOWN_PROTO /\ IP # IPV6
    BY <1>5 DEF UNKNOWN_PROTO, IP, IPV6
  <2> QED BY <1>7, <2>10, <2>11
<1>8. CASE nproto(f) = ARP
  <2>1. NetworkClen(f) = LinkClen(f) - 28
    BY <1>4, <1>8 DEF NetworkClen, IP, IPV6, ARP
  <2>2. NetworkClen(f) > 0
    BY <1>1, <2>1
  <2>3. Detected(f, j) = ARP
    BY <1>4, <1>8, <2>2 DEF Detected, IP, IPV6, ARP
  <2>4. tproto(f, j) = ARP
    BY <2>3 DEF tproto, Truncated, ARP, TCP, UDP, ICMP
  <2> QED BY <1>8, <2>4 DEF ARP, UNKNOWN_PROTO, IP, IPV6
<1>9. CASE nproto(f) \notin {IP, IPV6, ARP}
  <2>1. Detected(f, j) = nproto(f)
    BY <1>4, <1>9 DEF Detected
  <2>2. tproto(f, j) = nproto(f)
    BY <1>2, <2>1 DEF tproto, Truncated
  <2> QED BY <1>2, <1>9, <2>2
<1> QED BY <1>6, <1>7, <1>8, <1>9

-----------------------------------------------------------------------------
(* Header and data of a sound frame.                                       *)

(* The bytes of words.                                                     *)
LEMMA BytesOfWords ==
  ASSUME NEW ws, ws \in Seq(Words)
  PROVE  BytesOf(ws) \in Seq(Bytes) /\ Len(BytesOf(ws)) = 2 * Len(ws)
<1>1. PICK n \in Nat : n = Len(ws)
  BY LenProperties
<1>2. ASSUME NEW i \in 1 .. 2 * n
      PROVE  (IF i % 2 = 1 THEN ws[(i + 1) \div 2] \div 256 ELSE ws[i \div 2] % 256) \in Bytes
  <2>1. CASE i % 2 = 1
    <3>1. (i + 1) \div 2 \in 1 .. n
      BY <1>2, <2>1
    <3>2. ws[(i + 1) \div 2] \in Words
      BY <1>1, <3>1
    <3>3. ASSUME NEW w \in Words PROVE w \div 256 \in Bytes
      <4>1. w \in Int /\ 0 <= w /\ w < 65536
        BY WordRange
      <4>2. w \div 256 \in Int /\ 0 <= w \div 256 /\ w \div 256 < 256
        BY <4>1
      <4> QED BY <4>2 DEF Bytes
    <3> QED BY <2>1, <3>2, <3>3
  <2>2. CASE i % 2 # 1
    <3>1. i \div 2 \in 1 .. n
      BY <1>2, <2>2
    <3>2. ws[i \div 2] \in Words
      BY <1>1, <3>1
    <3>3. \A w \in Words : w % 256 \in Bytes
      BY DEF Words, Bytes
    <3> QED BY <2>2, <3>2, <3>3, SMTT(30)
  <2> QED BY <2>1, <2>2
<1>3. 2 * Len(ws) = 2 * n /\ 2 * n \in Nat
  BY <1>1
<1>4. BytesOf(ws) \in [1 .. 2 * n -> Bytes]
  BY <1>2, <1>3 DEF BytesOf
<1>5. BytesOf(ws) \in Seq(Bytes) /\ Len(BytesOf(ws)) = 2 * n
  <2>1. PICK m \in Nat : m = 2 * n /\ BytesOf(ws) \in [1 .. m -> Bytes]
    BY <1>3, <1>4
  <2>2. BytesOf(ws) \in Seq(Bytes) /\ Len(BytesOf(ws)) = m
    BY <2>1, FunctionIsSeq, Zenon
  <2> QED BY <2>1, <2>2, Zenon
<1> QED BY <1>1, <1>5, Zenon

(* The network header of a sound frame.                                    *)
LEMMA SoundNetworkHlen ==
  ASSUME NEW f, Sound(f)
  PROVE  /\ nproto(f) = IP => NetworkHlen(f) = 20
         /\ nproto(f) = IPV6 => NetworkHlen(f) = 40
         /\ nproto(f) = ARP => NetworkHlen(f) = 28
         /\ nproto(f) \notin {IP, IPV6, ARP} => NetworkHlen(f) = 0
<1>1. /\ nproto(f) = IP => f.hl = 5
      /\ nproto(f) = IPV6 => f.xlen = 0
      /\ nproto(f) = ARP => f.hln = 6 /\ f.pln = 4
  BY Zenon DEF Sound, Sound4, Sound6
<1>2. S16(40 + 0) = 40
  BY ShortIsSame
<1> QED BY <1>1, <1>2 DEF NetworkHlen, IP, IPV6, ARP

(* What get_packet cuts a frame of Ethernet to.                            *)
LEMMA EthernetCut ==
  ASSUME NEW f, Sound(f), f.lt = EN10MB, NEW j \in Words
  PROVE  Cut(f, j) \in Int /\ 0 <= Cut(f, j) /\ Cut(f, j) <= f.caplen - 14
<1> DEFINE a == Announced(f)
<1>1. /\ f.caplen \in Int /\ 60 <= f.caplen /\ f.caplen <= 1600 /\ datalink_hlen(f) = 14
  BY EthernetLengths
<1>2. IsFrame(f) /\ nproto(f) # UNKNOWN_PROTO /\ tproto(f, j) # UNKNOWN_PROTO
  <2>1. IsFrame(f) /\ nproto(f) # UNKNOWN_PROTO
    BY Zenon DEF Sound
  <2> QED BY <2>1, EthernetDetected
<1>3. a \in Int
  <2>1. datalink_hlen(f) <= f.caplen
    BY <1>1
  <2> QED BY <1>2, <2>1, AnnouncedLength
<1> HIDE DEF a
<1>4. MustCut(f, j) <=> UnsignedGreater(a, f.caplen - 14)
  BY <1>1, <1>2 DEF MustCut, a
<1>5. CASE MustCut(f, j)
  <2>1. Cut(f, j) = S16(f.caplen - 14)
    BY <1>1, <1>5 DEF Cut
  <2>2. S16(f.caplen - 14) = f.caplen - 14
    BY <1>1, ShortIsSame
  <2> QED BY <1>1, <2>1, <2>2
<1>6. CASE ~MustCut(f, j)
  <2>1. Cut(f, j) = a
    BY <1>6 DEF Cut, a
  <2>2. ~UnsignedGreater(a, f.caplen - 14)
    BY <1>4, <1>6
  <2>3. 0 <= a /\ a <= f.caplen - 14
    BY <1>1, <1>3, <2>2 DEF UnsignedGreater
  <2> QED BY <1>3, <2>1, <2>3
<1> QED BY <1>5, <1>6

(* The numbers of the parts: c is what the frame is cut to, n and t are    *)
(* the lengths of the headers, cut what is left of that of the transport   *)
(* protocol, d the length of the data.                                     *)
PartsAre(f, j, c, n, t, room, cut, d) ==
  /\ Parts(f, j).start - Skipped(f) - n = cut /\ Parts(f, j).data = d
  /\ Parts(f, j).header + d = Skipped(f) + c
  /\ 0 <= d /\ (d = 0 \/ (0 <= cut /\ n + cut + d <= room))
  /\ n + t + d <= 100 \/ n + t + d <= room

(* What they are made of.                                                  *)
Measures(f, j, c, n, t, room) ==
  /\ c = Cut(f, j) /\ n = NetworkHlen(f) /\ t = TransportHlen(f, j)
  /\ 0 <= c /\ c <= room /\ room <= 1600
  /\ 0 <= n /\ n <= 40 /\ 0 <= t /\ t <= 60
  /\ Skipped(f) \in {0, 14}

(* Those numbers exist.                                                    *)
LEMMA PartsArithmetic ==
  ASSUME NEW f, NEW j, NEW c \in Int, NEW n \in Int, NEW t \in Int, NEW room \in Int,
         Measures(f, j, c, n, t, room)
  PROVE  \E cut \in Int, d \in Int : PartsAre(f, j, c, n, t, room, cut, d)
<1> USE DEF Measures
<1>1. S16(c - n) = c - n
  BY ShortIsSame
<1>2. PICK s \in Int : s = Skipped(f) /\ s \in {0, 14}
  OBVIOUS
<1>3. PICK cut \in Int : cut = IF t > c - n THEN c - n ELSE t
  OBVIOUS
<1>4. Parts(f, j).start = s + n + cut /\ Parts(f, j).data = c - n - cut
      /\ Parts(f, j).header = S16(s + n + cut)
  BY <1>1, <1>2, <1>3 DEF Parts
<1>5. S16(s + n + cut) = s + n + cut
  <2>1. 0 <= n + cut /\ n + cut <= 100 /\ 0 <= s /\ s <= 14
    BY <1>2, <1>3
  <2> QED BY <1>2, <1>3, <2>1, ShortIsSame
<1>6. PICK d \in Int : d = c - n - cut
  OBVIOUS
<1>7. s + n + cut - s - n = cut /\ s + n + cut + d = s + c
  BY <1>2, <1>6
<1>8. 0 <= d /\ (d = 0 \/ (0 <= cut /\ n + cut + d <= room))
  BY <1>3, <1>6
<1>9. n + t + d <= 100 \/ n + t + d <= room
  BY <1>3, <1>6
<1>10. /\ Parts(f, j).start - Skipped(f) - n = cut /\ Parts(f, j).data = d
       /\ Parts(f, j).header + d = Skipped(f) + c
  BY <1>2, <1>4, <1>5, <1>6, <1>7
<1> QED BY <1>8, <1>9, <1>10 DEF PartsAre

-----------------------------------------------------------------------------
(* The data of the object.                                                 *)

(* A part of the bytes, or none.                                           *)
LEMMA PartOfBytes ==
  ASSUME NEW s, s \in Seq(Bytes), NEW cut \in Int, NEW d \in Int, 0 <= d,
         d = 0 \/ (0 <= cut /\ cut + d <= Len(s))
  PROVE  SubSeq(s, cut + 1, cut + d) \in Seq(Bytes) /\ Len(SubSeq(s, cut + 1, cut + d)) = d
<1>1. PICK m \in Int, n \in Int, k \in Int : m = cut + 1 /\ n = cut + d /\ k = Len(s)
  BY LenProperties
<1>2. m <= n + 1 /\ n - m + 1 = d
  BY <1>1
<1>3. \A i \in m .. n : i \in 1 .. k
  BY <1>1
<1>4. \A i \in m .. n : s[i] \in Bytes
  <2>1. \A i \in 1 .. Len(s) : s[i] \in Bytes
    BY LenProperties
  <2> QED BY <1>1, <1>3, <2>1, Zenon
<1>5. SubSeq(s, m, n) \in Seq(Bytes) /\ Len(SubSeq(s, m, n)) = n - m + 1
  BY <1>2, <1>4, SubSeqIs
<1> QED BY <1>1, <1>2, <1>5

(* The length of the transport header.                                     *)
LEMMA TransportHlenIs ==
  ASSUME NEW f, IsFrame(f), NEW j
  PROVE  TransportHlen(f, j) \in Int /\ 0 <= TransportHlen(f, j) /\ TransportHlen(f, j) <= 60
<1>1. f.doff \in Int /\ 0 <= f.doff /\ f.doff <= 15
  BY FrameNumbers
<1> QED BY <1>1 DEF TransportHlen, TCP, UDP, ICMP

(* The lengths of a sound frame.                                           *)
LEMMA SoundLengths ==
  ASSUME NEW f, Sound(f)
  PROVE  /\ f.caplen \in Int /\ 0 <= f.caplen /\ f.caplen <= 1600
         /\ datalink_hlen(f) \in {0, 14} /\ Skipped(f) = datalink_hlen(f)
<1>1. /\ IsFrame(f) /\ f.caplen <= MAX_PACKET_SIZE /\ (f.lt = RAW \/ f.lt = EN10MB)
      /\ nproto(f) # UNKNOWN_PROTO
  BY Zenon DEF Sound
<1>2. f.caplen \in Int /\ 0 <= f.caplen
  BY <1>1, FrameNumbers
<1>3. datalink_hlen(f) \in {0, 14}
  BY <1>1 DEF datalink_hlen, RAW, EN10MB, IEEE802
<1>4. Skipped(f) = datalink_hlen(f)
  BY <1>1 DEF Skipped
<1> QED BY <1>1, <1>2, <1>3, <1>4 DEF MAX_PACKET_SIZE

(* The data of an object fit where they were, if get_packet cuts the frame *)
(* to what it holds.                                                       *)
LEMMA DataOfCut ==
  ASSUME NEW f, Sound(f), nproto(f) # ARP, NEW j \in Words, NEW p, p = get_packet(f, j),
         Cut(f, j) \in Int, 0 <= Cut(f, j), Cut(f, j) <= f.caplen - datalink_hlen(f)
  PROVE  /\ p.data \in Seq(Bytes)
         /\ datalink_hlen(f) + NetworkHlen(f) + TransportHlen(f, j) + Len(p.data) <= 1600
         /\ p.header + Len(p.data) = datalink_hlen(f) + Cut(f, j)
<1> DEFINE below == BytesOf(f.tr) \o f.body
<1>1. /\ IsFrame(f) /\ f.tr \in Seq(Words) /\ f.body \in Seq(Bytes)
      /\ f.caplen = datalink_hlen(f) + NetworkHlen(f) + 2 * Len(f.tr) + Len(f.body)
  BY Zenon DEF Sound
<1>2. PICK h \in Int : /\ h = datalink_hlen(f) /\ h \in {0, 14} /\ Skipped(f) = h
                       /\ f.caplen \in Int /\ f.caplen <= 1600
  BY SoundLengths
<1>3. PICK l : l = BytesOf(f.tr) /\ l \in Seq(Bytes) /\ Len(l) = 2 * Len(f.tr)
  BY <1>1, BytesOfWords
<1>4. PICK b : b = below /\ b \in Seq(Bytes) /\ Len(b) = Len(l) + Len(f.body)
  BY <1>1, <1>3, Joined, ZenonT(40)
<1>5. Len(f.tr) \in Nat /\ Len(f.body) \in Nat /\ Len(b) \in Nat
  BY <1>1, <1>4, LenProperties, Zenon
<1> HIDE DEF below
<1>6. PICK n \in Int : n = NetworkHlen(f) /\ 0 <= n /\ n <= 40
  BY SoundNetworkHlen
<1>7. PICK t \in Int : t = TransportHlen(f, j) /\ 0 <= t /\ t <= 60
  BY <1>1, TransportHlenIs
<1>8. PICK c \in Int, room \in Int :
        c = Cut(f, j) /\ room = f.caplen - h /\ 0 <= c /\ c <= room /\ h + room <= 1600
  BY <1>2
<1>9. PICK cut \in Int, d \in Int : PartsAre(f, j, c, n, t, room, cut, d)
  <2>1. 0 <= c /\ c <= room /\ room <= 1600 /\ Skipped(f) \in {0, 14}
    BY <1>2, <1>8
  <2>2. c = Cut(f, j) /\ n = NetworkHlen(f) /\ t = TransportHlen(f, j)
    BY <1>6, <1>7, <1>8
  <2>3. 0 <= n /\ n <= 40 /\ 0 <= t /\ t <= 60
    BY <1>6, <1>7
  <2>4. Measures(f, j, c, n, t, room)
    BY <2>1, <2>2, <2>3 DEF Measures
  <2> QED BY <2>4, PartsArithmetic, Zenon
<1>10. /\ Parts(f, j).start - Skipped(f) - n = cut /\ Parts(f, j).data = d
       /\ Parts(f, j).header + d = Skipped(f) + c
       /\ 0 <= d /\ (d = 0 \/ (0 <= cut /\ n + cut + d <= room))
       /\ n + t + d <= 100 \/ n + t + d <= room
  BY <1>9 DEF PartsAre
<1>11. n + Len(b) = room
  <2>1. PICK x \in Int, y \in Int : x = Len(f.tr) /\ y = Len(f.body)
    BY <1>5
  <2>2. Len(b) = 2 * x + y /\ f.caplen = h + n + 2 * x + y
    BY <1>1, <1>2, <1>3, <1>4, <1>6, <2>1
  <2> QED BY <1>8, <2>2
<1>12. SubSeq(b, cut + 1, cut + d) \in Seq(Bytes) /\ Len(SubSeq(b, cut + 1, cut + d)) = d
  <2>1. 0 <= d /\ (d = 0 \/ (0 <= cut /\ cut + d <= Len(b)))
    BY <1>5, <1>10, <1>11
  <2> QED BY <1>4, <2>1, PartOfBytes, ZenonT(40)
<1>13. p.data = SubSeq(b, cut + 1, cut + d)
  <2>1. p.data = SubSeq(below, Parts(f, j).start - Skipped(f) - NetworkHlen(f) + 1,
                        Parts(f, j).start - Skipped(f) - NetworkHlen(f) + Parts(f, j).data)
    <3>1. p.data = Datalink(f, j).data
      BY GotDatalink, Zenon
    <3>2. Datalink(f, j).data =
            SubSeq(below, Parts(f, j).start - Skipped(f) - NetworkHlen(f) + 1,
                   Parts(f, j).start - Skipped(f) - NetworkHlen(f) + Parts(f, j).data)
      BY Zenon DEF Datalink, below
    <3> QED BY <3>1, <3>2, Zenon
  <2> QED BY <1>4, <1>6, <1>10, <2>1, Zenon
<1>14. p.data \in Seq(Bytes) /\ Len(p.data) = d
  BY <1>12, <1>13, Zenon
<1>15. h + n + t + d <= 1600
  BY <1>2, <1>8, <1>10
<1>16. p.header = Parts(f, j).header
  BY GotDatalink, Zenon
<1>17. p.header + Len(p.data) = h + Cut(f, j)
  BY <1>2, <1>8, <1>10, <1>14, <1>16, SMT
<1> QED BY <1>2, <1>6, <1>7, <1>14, <1>15, <1>17

(* The data of an object that comes from Ethernet.                         *)
LEMMA GotData ==
  ASSUME NEW f, Sound(f), f.lt = EN10MB, nproto(f) # ARP, NEW j \in Words,
         NEW p, p = get_packet(f, j)
  PROVE  /\ p.data \in Seq(Bytes)
         /\ 14 + NetworkHlen(f) + TransportHlen(f, j) + Len(p.data) <= 1600
<1>1. datalink_hlen(f) = 14
  BY EthernetLengths
<1>2. Cut(f, j) \in Int /\ 0 <= Cut(f, j) /\ Cut(f, j) <= f.caplen - 14
  BY EthernetCut
<1> QED BY <1>1, <1>2, DataOfCut

(* A datagram is cut to its length,                                        *)
LEMMA DatagramCut ==
  ASSUME NEW f, Sound(f), nproto(f) = IP, NEW j \in Words
  PROVE  Cut(f, j) = f.len /\ f.len \in Int /\ 0 <= f.len /\ f.len <= f.caplen - datalink_hlen(f)
<1>1. IsFrame(f) /\ 20 + 2 * Len(f.tr) <= f.len /\ f.len <= f.caplen - datalink_hlen(f)
      /\ f.tr \in Seq(Words)
  BY Zenon DEF Sound, Sound4
<1>2. PICK h \in Int, room \in Int : h = datalink_hlen(f) /\ room = f.caplen - h /\ room <= 1600
  BY SoundLengths
<1>3. PICK r \in Int : r = Len(f.tr) /\ 0 <= r
  BY <1>1, LenProperties
<1>4. PICK n \in Int : n = f.len
  <2>1. f.len \in Words
    BY <1>1, SMT DEF IsFrame
  <2> QED BY <2>1, WordRange
<1>5. 0 <= n /\ n <= room
  BY ONLY <1>1, <1>2, <1>3, <1>4, SMT
<1>6. Announced(f) = n
  <2>1. S16(n) = n
    BY <1>2, <1>5, ShortIsSame
  <2>2. Announced(f) = S16(f.len)
    <3>1. nproto(f) # IPV6 /\ nproto(f) # ARP /\ nproto(f) # UNKNOWN_PROTO
      BY DEF IP, IPV6, ARP, UNKNOWN_PROTO
    <3> QED BY ONLY nproto(f) = IP, <3>1, SMT DEF Announced
  <2> QED BY ONLY <1>4, <2>1, <2>2, Zenon
<1>7. ~UnsignedGreater(n, room)
  BY <1>5 DEF UnsignedGreater
<1>8. Cut(f, j) = n
  <2>1. ~MustCut(f, j)
    <3>1. f.caplen - datalink_hlen(f) = room
      BY ONLY <1>2, SMT
    <3> QED BY ONLY <1>6, <1>7, <3>1, Zenon DEF MustCut
  <2> QED BY ONLY <1>6, <2>1, Zenon DEF Cut
<1> QED BY <1>1, <1>4, <1>5, <1>8

(* of which the object holds every byte.                                   *)
LEMMA DatagramIsKept ==
  ASSUME NEW f, Sound(f), nproto(f) = IP, NEW j \in Words, NEW p, p = get_packet(f, j)
  PROVE  p.header + Len(p.data) = datalink_hlen(f) + f.len
<1>1. Cut(f, j) = f.len /\ f.len \in Int /\ 0 <= f.len /\ f.len <= f.caplen - datalink_hlen(f)
  BY DatagramCut
<1>2. nproto(f) # ARP
  BY DEF IP, ARP
<1> QED BY <1>1, <1>2, DataOfCut

-----------------------------------------------------------------------------
(* The fields of the object hold what they may.                            *)

(* Two words.                                                              *)
LEMMA PairOfWords ==
  ASSUME NEW a \in Words, NEW b \in Words
  PROVE  <<a, b>> \in Pairs
  BY DEF Pairs

(* What is made of a byte is a number.                                     *)
LEMMA BytesAreInts ==
  ASSUME NEW b \in Bytes
  PROVE  b \in Int /\ b \div 32 \in Int /\ b % 4 \in Int
  BY ByteRange

(* The casts give numbers.                                                 *)
LEMMA CastsAreInts ==
  ASSUME NEW n \in Int
  PROVE  S16(n) \in Int /\ S8(n) \in Int /\ S8(n) \in -(2^7) .. 2^7 - 1
  BY DEF S16, S8, U16, U8

(* The fields of IPv4,                                                     *)
LEMMA GotHoldsIP4 ==
  ASSUME NEW f, IsFrame(f), Sound4(f), nproto(f) = IP, NEW j, NEW p, p = get_packet(f, j)
  PROVE  HoldsIP(p) /\ p.version = 4
<1>1. /\ f.tos \in Bytes /\ f.id \in Words /\ f.ttl \in Bytes /\ f.src \in Pairs
      /\ f.dst \in Pairs
  BY Zenon DEF Sound4
<1>2. f.off \in Words /\ f.p \in Bytes
  BY SMT DEF IsFrame
<1>3. /\ p.version = 4 /\ p.priority = f.tos \div 32 /\ p.rsv_tos = f.tos % 4
      /\ p.offset = f.off % 8192 /\ p.ident = S16(f.id) /\ p.hop_limit = f.ttl
      /\ p.protocol = f.p /\ p.flow_label = <<0, 0>> /\ p.src = f.src /\ p.dst = f.dst
  BY GotIP
<1>4. p.src \in Addresses(p) /\ p.dst \in Addresses(p)
  BY <1>1, <1>3 DEF Addresses
<1>5. p.flow_label \in Pairs
  <2>1. 0 \in Words
    BY DEF Words
  <2> QED BY <1>3, <2>1, PairOfWords
<1>6. p.offset \in 0 .. 2^13 - 1
  <2>1. f.off \in Int
    BY <1>2, WordRange
  <2> QED BY <1>3, <2>1
<1>7. p.priority \in Int /\ p.rsv_tos \in Int /\ p.hop_limit \in Int /\ p.protocol \in Int
  BY <1>1, <1>2, <1>3, BytesAreInts
<1>8. p.ident \in Int
  BY <1>1, <1>3, CastsAreInts, WordRange
<1>9. p.flow_label[1] < 16
  BY <1>3
<1> QED BY <1>3, <1>4, <1>5, <1>6, <1>7, <1>8, <1>9, SMT DEF HoldsIP

(* of IPv6,                                                                *)
LEMMA GotHoldsIP6 ==
  ASSUME NEW f, IsFrame(f), Sound6(f), nproto(f) = IPV6, NEW j, NEW p, p = get_packet(f, j)
  PROVE  HoldsIP(p) /\ p.version = 6 /\ U8(p.protocol) = f.nxt
<1>1. /\ f.ttl \in Bytes /\ f.flow \in Pairs
      /\ f.src \in [1 .. 8 -> Words] /\ f.dst \in [1 .. 8 -> Words]
  BY Zenon DEF Sound6
<1>2. f.nxt \in Int /\ 0 <= f.nxt /\ f.nxt < 256
  <2>1. f.nxt \in Bytes
    BY SMT DEF IsFrame
  <2> QED BY <2>1, ByteRange
<1>3. /\ p.version = 6 /\ p.priority = 0 /\ p.rsv_tos = 0 /\ p.offset = 0 /\ p.ident = 0
      /\ p.flow_label = <<f.flow[1], 256 * ((f.flow[2] \div 256) % 16)>>
      /\ p.hop_limit = f.ttl /\ p.protocol = S8(f.nxt) /\ p.src = f.src /\ p.dst = f.dst
  BY GotIPV6
<1>4. p.src \in Addresses(p) /\ p.dst \in Addresses(p)
  BY <1>1, <1>3 DEF Addresses
<1>5. p.flow_label \in Pairs
  <2>1. f.flow[1] \in Words /\ f.flow[2] \in Words
    BY <1>1, PairIsRow
  <2>2. PICK w \in Int : w = f.flow[2]
    BY <2>1, WordRange
  <2>3. PICK v \in Int : v = 256 * ((w \div 256) % 16) /\ 0 <= v /\ v < 65536
    OBVIOUS
  <2>4. v \in Words
    BY <2>3, RangeIsWord
  <2>5. <<f.flow[1], v>> \in Pairs
    BY ONLY <2>1, <2>4, PairOfWords, Zenon
  <2>6. p.flow_label = <<f.flow[1], v>>
    BY ONLY <1>3, <2>2, <2>3
  <2> QED BY ONLY <2>5, <2>6
<1>6. p.offset \in 0 .. 2^13 - 1
  BY <1>3
<1>7. p.priority \in Int /\ p.rsv_tos \in Int /\ p.ident \in Int
  BY <1>3
<1>8. p.hop_limit \in Int /\ p.protocol \in Int
  BY <1>1, <1>2, <1>3, BytesAreInts, CastsAreInts
<1>9. U8(p.protocol) = f.nxt
  BY <1>2, <1>3 DEF U8, S8
<1> QED BY <1>3, <1>4, <1>5, <1>6, <1>7, <1>8, <1>9, SMT DEF HoldsIP

(* A part of a row as an address.                                          *)
LEMMA PartOfRow ==
  ASSUME NEW ws, NEW n \in Int, Row(ws, n), NEW a \in Int, NEW k \in Nat, 0 <= a, a + k <= n
  PROVE  SubSeq(ws, a + 1, a + k) \in [1 .. k -> Words]
<1>1. ws \in Seq(Words) /\ Len(ws) = n
  BY Zenon DEF Row
<1>2. \A i \in a + 1 .. a + k : i \in 1 .. n
  OBVIOUS
<1>3. \A i \in a + 1 .. a + k : ws[i] \in Words
  <2>1. \A i \in 1 .. Len(ws) : ws[i] \in Words
    BY <1>1, LenProperties
  <2> QED BY <1>1, <1>2, <2>1, Zenon
<1>4. PICK m \in Int, l \in Int : m = a + 1 /\ l = a + k /\ m <= l + 1 /\ l - m + 1 = k
  OBVIOUS
<1>5. \A i \in m .. l : ws[i] \in Words
  BY <1>3, <1>4
<1>6. SubSeq(ws, m, l) \in Seq(Words) /\ Len(SubSeq(ws, m, l)) = l - m + 1
  BY <1>4, <1>5, SubSeqIs
<1>7. PICK s : s = SubSeq(ws, m, l) /\ s \in Seq(Words) /\ Len(s) = k
  <2>1. Len(SubSeq(ws, m, l)) = k
    BY ONLY <1>4, <1>6
  <2> QED BY <1>6, <2>1, Zenon
<1>8. s \in [1 .. Len(s) -> Words]
  BY <1>7, LenProperties, Zenon
<1> QED BY <1>4, <1>7, <1>8

(* of ARP,                                                                 *)
LEMMA GotHoldsARP ==
  ASSUME NEW f, nproto(f) = ARP, Row(f.tr, 14), f.tr[3] = ARPLengths, NEW j, NEW p,
         p = get_packet(f, j)
  PROVE  HoldsARP(p)
<1>1. /\ p.hardtype = S16(f.tr[1]) /\ p.prototype = S16(f.tr[2])
      /\ p.hlen = f.tr[3] \div 256 /\ p.plen = f.tr[3] % 256 /\ p.operation = S16(f.tr[4])
      /\ p.sender_hardaddr = SubSeq(f.tr, 5, 7) /\ p.sender_protoaddr = SubSeq(f.tr, 8, 9)
      /\ p.target_hardaddr = SubSeq(f.tr, 10, 12) /\ p.target_protoaddr = SubSeq(f.tr, 13, 14)
  BY GotARP
<1>2. f.tr[1] \in Int /\ f.tr[2] \in Int /\ f.tr[4] \in Int
  <2>1. f.tr[1] \in Words /\ f.tr[2] \in Words /\ f.tr[4] \in Words
    BY DEF Row
  <2> QED BY <2>1, WordRange
<1>3. p.hardtype \in Int /\ p.prototype \in Int /\ p.operation \in Int
  BY <1>1, <1>2, CastsAreInts
<1>4. p.hlen = 6 /\ p.plen = 4
  BY <1>1 DEF ARPLengths
<1>5. /\ SubSeq(f.tr, 4 + 1, 4 + 3) \in [1 .. 3 -> Words]
      /\ SubSeq(f.tr, 7 + 1, 7 + 2) \in [1 .. 2 -> Words]
      /\ SubSeq(f.tr, 9 + 1, 9 + 3) \in [1 .. 3 -> Words]
      /\ SubSeq(f.tr, 12 + 1, 12 + 2) \in [1 .. 2 -> Words]
  BY PartOfRow
<1>6. /\ 4 + 1 = 5 /\ 4 + 3 = 7 /\ 7 + 1 = 8 /\ 7 + 2 = 9 /\ 9 + 1 = 10 /\ 9 + 3 = 12
      /\ 12 + 1 = 13 /\ 12 + 2 = 14
  OBVIOUS
<1>7. /\ p.sender_hardaddr \in [1 .. 3 -> Words] /\ p.sender_protoaddr \in Pairs
      /\ p.target_hardaddr \in [1 .. 3 -> Words] /\ p.target_protoaddr \in Pairs
  BY <1>1, <1>5, <1>6 DEF Pairs
<1> QED BY <1>3, <1>4, <1>7, SMT DEF HoldsARP

(* of TCP,                                                                 *)
LEMMA GotHoldsTCP ==
  ASSUME NEW f, nproto(f) \in {IP, IPV6}, Row(f.tr, 10), NEW j, Class(f, j) = "TCPPacket",
         NEW p, p = get_packet(f, j)
  PROVE  HoldsTCP(p)
<1>1. /\ p.src_port = f.tr[1] /\ p.dst_port = f.tr[2] /\ p.sequence = <<f.tr[3], f.tr[4]>>
      /\ p.ack_num = <<f.tr[5], f.tr[6]>> /\ p.window = f.tr[8]
      /\ p.urgent_pointer = S16(f.tr[10])
  BY GotTCP
<1>2. \A i \in 1 .. 10 : f.tr[i] \in Words /\ f.tr[i] \in Int
  BY WordRange DEF Row
<1>3. p.sequence \in Pairs /\ p.ack_num \in Pairs
  BY <1>1, <1>2, PairOfWords
<1>4. p.src_port \in Int /\ p.dst_port \in Int /\ p.window \in Int /\ p.urgent_pointer \in Int
  BY <1>1, <1>2, CastsAreInts
<1> QED BY <1>3, <1>4, SMT DEF HoldsTCP

(* of UDP                                                                  *)
LEMMA GotHoldsUDP ==
  ASSUME NEW f, nproto(f) \in {IP, IPV6}, Row(f.tr, 4), NEW j, Class(f, j) = "UDPPacket",
         NEW p, p = get_packet(f, j)
  PROVE  p.src_port \in Int /\ p.dst_port \in Int
<1>1. p.src_port = f.tr[1] /\ p.dst_port = f.tr[2]
  BY GotUDP
<1>2. f.tr[1] \in Words /\ f.tr[2] \in Words
  BY DEF Row
<1> QED BY <1>1, <1>2, WordRange

(* What the casts of get_packet make of a word of an ICMP message.         *)
LEMMA CastWord ==
  ASSUME NEW w \in Words
  PROVE  /\ S8(w \div 256) \in -(2^7) .. 2^7 - 1 /\ S8(w) \in -(2^7) .. 2^7 - 1
         /\ S8(w) \in Int /\ S16(w) \in Int
         /\ S8(w \div 256) = REDIRECT => w \div 256 = REDIRECT
<1>1. w \in Int /\ 0 <= w /\ w < 65536
  BY WordRange
<1>2. PICK h \in Int : h = w \div 256 /\ 0 <= h /\ h < 256
  BY <1>1
<1>3. S8(h) \in -(2^7) .. 2^7 - 1 /\ (S8(h) = REDIRECT => h = REDIRECT)
  BY <1>2 DEF S8, U8, REDIRECT
<1>4. S8(w) \in -(2^7) .. 2^7 - 1 /\ S8(w) \in Int /\ S16(w) \in Int
  BY <1>1 DEF S8, U8, S16, U16
<1> QED BY <1>2, <1>3, <1>4

(* A long with its bytes turned.                                           *)
LEMMA SwappedPair ==
  ASSUME NEW a \in Words, NEW b \in Words
  PROVE  Swap32(<<a, b>>) \in Pairs
  BY SwapIsWord, PairOfWords DEF Swap32

(* and of ICMP.                                                            *)
LEMMA GotHoldsICMP ==
  ASSUME NEW p, NEW j \in Words, NEW m, NEW n \in Int, Row(m, n), 10 <= n, HasICMP(p, m, j)
  PROVE  HoldsICMP(p)
<1>1. /\ p.type = S8(m[1] \div 256) /\ p.code = S8(m[1]) /\ p.ippacket = <<>>
      /\ p.id \in {S8(m[3]), S16(j)} /\ p.seq \in {S8(m[4]), S16(j)}
      /\ m[1] \div 256 = REDIRECT => p.redir_ip = <<m[3], m[4]>>
  BY DEF HasICMP
<1>2. /\ p.subnetmask \in {Swap32(<<m[5], m[6]>>), <<0, 0>>}
      /\ p.orig_timestamp \in {Swap32(<<m[5], m[6]>>), <<0, 0>>}
      /\ p.recv_timestamp \in {Swap32(<<m[7], m[8]>>), <<0, 0>>}
      /\ p.trans_timestamp \in {Swap32(<<m[9], m[10]>>), <<0, 0>>}
  BY DEF HasICMP
<1>3. \A i \in 1 .. 10 : m[i] \in Words
  <2>1. m \in Seq(Words) /\ Len(m) = n
    BY Zenon DEF Row
  <2>2. \A i \in 1 .. 10 : i \in 1 .. n
    OBVIOUS
  <2>3. \A i \in 1 .. Len(m) : m[i] \in Words
    BY <2>1, LenProperties
  <2> QED BY <2>1, <2>2, <2>3, Zenon
<1>4. /\ m[1] \in Words /\ m[3] \in Words /\ m[4] \in Words /\ m[5] \in Words /\ m[6] \in Words
      /\ m[7] \in Words /\ m[8] \in Words /\ m[9] \in Words /\ m[10] \in Words
  BY <1>3
<1>5. p.type \in -(2^7) .. 2^7 - 1 /\ p.code \in -(2^7) .. 2^7 - 1
  <2>1. /\ S8(m[1] \div 256) \in -(2^7) .. 2^7 - 1 /\ S8(m[1]) \in -(2^7) .. 2^7 - 1
    BY ONLY <1>4, CastWord
  <2>2. p.type = S8(m[1] \div 256) /\ p.code = S8(m[1])
    BY <1>1, Zenon
  <2> QED BY ONLY <2>1, <2>2
<1>6. p.id \in Int /\ p.seq \in Int
  <2>1. /\ S8(m[3]) \in Int /\ S8(m[4]) \in Int /\ S16(j) \in Int
    BY ONLY <1>4, CastWord, j \in Words
  <2>2. p.id \in {S8(m[3]), S16(j)} /\ p.seq \in {S8(m[4]), S16(j)}
    BY <1>1, Zenon
  <2> QED BY ONLY <2>1, <2>2
<1>7. ASSUME p.type = REDIRECT
      PROVE  p.redir_ip \in Pairs
  <2>1. m[1] \div 256 = REDIRECT
    BY ONLY <1>1, <1>4, <1>7, CastWord, Zenon
  <2>2. p.redir_ip = <<m[3], m[4]>>
    BY ONLY <1>1, <2>1, Zenon
  <2>3. <<m[3], m[4]>> \in Pairs
    BY ONLY <1>4, PairOfWords
  <2> QED BY ONLY <2>2, <2>3, Zenon
<1>8. <<0, 0>> \in Pairs
  <2>1. 0 \in Words
    BY DEF Words
  <2> QED BY <2>1, PairOfWords
<1>9. /\ Swap32(<<m[5], m[6]>>) \in Pairs /\ Swap32(<<m[7], m[8]>>) \in Pairs
      /\ Swap32(<<m[9], m[10]>>) \in Pairs
  BY ONLY <1>4, SwappedPair, Zenon
<1>10. /\ p.subnetmask \in Pairs /\ p.orig_timestamp \in Pairs
       /\ p.recv_timestamp \in Pairs /\ p.trans_timestamp \in Pairs
  BY ONLY <1>2, <1>8, <1>9, Zenon
<1>11. p.ippacket = <<>>
  BY <1>1
<1>12. /\ {p.type, p.code} \subseteq -(2^7) .. 2^7 - 1 /\ {p.id, p.seq} \subseteq Int
       /\ {p.orig_timestamp, p.recv_timestamp, p.trans_timestamp} \subseteq Pairs
  BY ONLY <1>5, <1>6, <1>10, Zenon
<1> QED BY ONLY <1>7, <1>10, <1>11, <1>12, Zenon DEF HoldsICMP

-----------------------------------------------------------------------------
(* What is received can be sent.                                           *)

(* The EtherType survives the cast to short and back.                      *)
LEMMA GotType ==
  ASSUME NEW f, Sound(f), f.lt = EN10MB, NEW j, NEW p, p = get_packet(f, j)
  PROVE  p.frametype \in Int /\ U16(p.frametype) = nproto(f)
<1>1. nproto(f) = f.type
  BY EthernetLengths
<1>2. f.type \in Words
  <2>1. IsFrame(f)
    BY Zenon DEF Sound
  <2> QED BY <2>1, SMT DEF IsFrame
<1>3. p.frametype = S16(f.type)
  BY GotDatalink, Zenon DEF analyze_datalink
<1>4. ASSUME NEW w \in Words
      PROVE  S16(w) \in Int /\ U16(S16(w)) = w
  <2>1. w \in Int /\ 0 <= w /\ w < 65536
    BY WordRange
  <2> QED BY <2>1 DEF S16, U16
<1> QED BY ONLY <1>1, <1>2, <1>3, <1>4, Zenon

(* The header that is set again is no longer than the one that was read.   *)
LEMMA HeaderIsRead ==
  ASSUME NEW f, Sound(f), NEW j \in Words, NEW p, p.class = Class(f, j)
  PROVE  HeaderOf(p) \in Int /\ HeaderOf(p) <= TransportHlen(f, j)
<1> DEFINE c == Class(f, j)
<1>1. /\ c = "TCPPacket"  => Holds(f, TCP) /\ tproto(f, j) = TCP
      /\ c = "UDPPacket"  => tproto(f, j) = UDP
      /\ c = "ICMPPacket" => tproto(f, j) = ICMP
  BY ClassOfSound
<1>2. IsFrame(f) /\ (Holds(f, TCP) => f.doff = 5)
  BY Zenon DEF Sound
<1>3. TransportHlen(f, j) \in Int /\ 0 <= TransportHlen(f, j)
  BY <1>2, TransportHlenIs
<1> HIDE DEF c
<1>4. /\ c = "TCPPacket"  => TransportHlen(f, j) = 20
      /\ c = "UDPPacket"  => TransportHlen(f, j) = 8
      /\ c = "ICMPPacket" => TransportHlen(f, j) = 8
  BY <1>1, <1>2 DEF TransportHlen, TCP, UDP, ICMP
<1>5. p.class = c
  BY DEF c
<1> QED BY <1>3, <1>4, <1>5 DEF HeaderOf, TCPHDRLEN

(* The objects of IP.                                                      *)
FitsIP(p) ==
  /\ HoldsIP(p)
  /\ U16(p.frametype) = IF p.version = 4 THEN IP ELSE IPV6
  /\ p.data \in Seq(Bytes)
  /\ (IF p.version = 4 THEN 34 ELSE 54) + HeaderOf(p) + Len(p.data) <= MAX_PACKET_SIZE

(* An object of IP fits the buffer.                                        *)
LEMMA GotFitsIP ==
  ASSUME NEW f, Sound(f), f.lt = EN10MB, nproto(f) \in {IP, IPV6}, NEW j \in Words,
         NEW p, p = get_packet(f, j)
  PROVE  FitsIP(p) /\ (p.version = 4 <=> nproto(f) = IP)
<1>1. /\ IsFrame(f)
      /\ nproto(f) = IP   => Sound4(f)
      /\ nproto(f) = IPV6 => Sound6(f)
  BY Zenon DEF Sound
<1>2. IP # ARP /\ IPV6 # ARP /\ IP # IPV6
  BY DEF IP, IPV6, ARP
<1>3. /\ p.data \in Seq(Bytes)
      /\ 14 + NetworkHlen(f) + TransportHlen(f, j) + Len(p.data) <= 1600
  BY <1>2, GotData
<1>4. Len(p.data) \in Int
  BY <1>3, LenProperties
<1>5. HeaderOf(p) \in Int /\ HeaderOf(p) <= TransportHlen(f, j)
  BY GotDatalink, HeaderIsRead
<1>6. TransportHlen(f, j) \in Int
  BY <1>1, TransportHlenIs
<1>7. U16(p.frametype) = nproto(f)
  BY GotType
<1>8. CASE nproto(f) = IP
  <2>1. HoldsIP(p) /\ p.version = 4
    BY <1>1, <1>8, GotHoldsIP4
  <2>2. NetworkHlen(f) = 20
    BY <1>8, SoundNetworkHlen
  <2>3. 34 + HeaderOf(p) + Len(p.data) <= MAX_PACKET_SIZE
    BY <1>3, <1>4, <1>5, <1>6, <2>2 DEF MAX_PACKET_SIZE
  <2> QED BY ONLY <1>3, <1>7, <1>8, <2>1, <2>3, SMT DEF FitsIP
<1>9. CASE nproto(f) = IPV6
  <2>1. HoldsIP(p) /\ p.version = 6
    BY <1>1, <1>9, GotHoldsIP6
  <2>2. NetworkHlen(f) = 40
    BY <1>9, SoundNetworkHlen
  <2>3. 54 + HeaderOf(p) + Len(p.data) <= MAX_PACKET_SIZE
    BY <1>3, <1>4, <1>5, <1>6, <2>2 DEF MAX_PACKET_SIZE
  <2> QED BY ONLY <1>2, <1>3, <1>7, <1>9, <2>1, <2>3, SMT DEF FitsIP
<1> QED BY <1>8, <1>9

(* An object without a transport header is a fragment or of another        *)
(* protocol.                                                               *)
Generic(p) ==
  /\ U8(p.protocol) \in {ICMP, TCP, UDP} => p.version = 4 /\ Swap16(p.offset) % 8192 # 0
  /\ p.version = 6 => U8(p.protocol) \notin IPPROTO_EXT

(* So is one that was got.                                                 *)
LEMMA GotGeneric ==
  ASSUME NEW f, Sound(f), f.lt = EN10MB, NEW j \in Words, Class(f, j) = "IPPacket",
         NEW p, p = get_packet(f, j)
  PROVE  Generic(p)
<1>1. /\ IsFrame(f)
      /\ nproto(f) = IP   => Sound4(f)
      /\ nproto(f) = IPV6 => Sound6(f)
  BY Zenon DEF Sound
<1>2. nproto(f) \in {IP, IPV6} /\ tproto(f, j) \notin {TCP, UDP, ICMP}
  BY ClassOfSound
<1>3. /\ nproto(f) = IP   => tproto(f, j) = IF IsFragment(f) THEN IP ELSE f.p
      /\ nproto(f) = IPV6 => tproto(f, j) = f.nxt
  BY EthernetDetected
<1>4. CASE nproto(f) = IP
  <2>1. p.version = 4 /\ p.offset = f.off % 8192 /\ p.protocol = f.p
    BY <1>4, GotIP
  <2>2. U8(p.protocol) = f.p
    <3>1. f.p \in Int /\ 0 <= f.p /\ f.p < 256
      <4>1. f.p \in Bytes
        BY <1>1, SMT DEF IsFrame
      <4> QED BY <4>1, ByteRange
    <3> QED BY <2>1, <3>1 DEF U8
  <2>3. f.p \in {ICMP, TCP, UDP} => IsFragment(f)
    BY <1>2, <1>3, <1>4, Zenon
  <2>4. f.p \in {ICMP, TCP, UDP} => StillFragment(f)
    BY <1>1, <1>4, <2>3, Zenon DEF Sound4
  <2> QED BY ONLY <2>1, <2>2, <2>4, SMT DEF Generic, StillFragment
<1>5. CASE nproto(f) = IPV6
  <2>1. p.version = 6 /\ U8(p.protocol) = f.nxt
    BY <1>1, <1>5, GotHoldsIP6
  <2>2. f.nxt \notin {TCP, UDP, ICMP} /\ f.nxt \notin IPPROTO_EXT
    BY <1>1, <1>2, <1>3, <1>5, Zenon DEF Sound6
  <2> QED BY ONLY <2>1, <2>2, SMT DEF Generic
<1> QED BY <1>2, <1>4, <1>5

(* The transport header of an object that was got.                         *)
LEMMA GotHeader ==
  ASSUME NEW f, Sound(f), f.lt = EN10MB, NEW j \in Words, NEW p, p = get_packet(f, j)
  PROVE  /\ p.class = "TCPPacket" => HoldsTCP(p)
         /\ p.class = "UDPPacket" => p.src_port \in Int /\ p.dst_port \in Int
<1>1. p.class = Class(f, j)
  BY GotDatalink, Zenon
<1>2. /\ p.class = "TCPPacket" => Holds(f, TCP) /\ nproto(f) \in {IP, IPV6}
      /\ p.class = "UDPPacket" => Holds(f, UDP) /\ nproto(f) \in {IP, IPV6}
  BY <1>1, ClassOfSound
<1>3. /\ Holds(f, TCP) => Row(f.tr, 10)
      /\ Holds(f, UDP) => Row(f.tr, 4)
  BY Zenon DEF Sound, Row
<1> QED BY <1>1, <1>2, <1>3, GotHoldsTCP, GotHoldsUDP

(* An ICMP message is got from IPv4 only.                                  *)
LEMMA GotHoldsICMP4 ==
  ASSUME NEW f, Sound(f), f.lt = EN10MB, NEW j \in Words, NEW p, p = get_packet(f, j),
         p.class = "ICMPPacket"
  PROVE  p.version = 4 /\ HoldsICMP(p)
<1>1. Class(f, j) = "ICMPPacket"
  BY GotDatalink, Zenon
<1>2. Holds(f, ICMP) /\ nproto(f) \in {IP, IPV6}
  BY <1>1, ClassOfSound
<1>3. nproto(f) = IPV6 => f.nxt # ICMP
  BY Zenon DEF Sound, Sound6
<1>4. IP # IPV6 /\ IP # ARP
  BY DEF IP, IPV6, ARP
<1>5. nproto(f) = IP
  BY <1>2, <1>3, Zenon DEF Holds
<1>6. p.version = 4
  BY <1>5, GotIP
<1>7. HasICMP(p, Message(f), j)
  BY <1>1, <1>2, GotICMP
<1>8. /\ f.tr \in Seq(Words) /\ f.body \in Seq(Bytes)
      /\ f.caplen = datalink_hlen(f) + NetworkHlen(f) + 2 * Len(f.tr) + Len(f.body)
  BY <1>4, <1>5, Zenon DEF Sound
<1>9. PICK r \in Int, b \in Int : r = Len(f.tr) /\ b = Len(f.body) /\ 0 <= r /\ 0 <= b
  BY <1>8, LenProperties
<1>10. NetworkHlen(f) = 20 /\ datalink_hlen(f) = 14 /\ f.caplen \in Int /\ 60 <= f.caplen
  BY <1>5, SoundNetworkHlen, EthernetLengths
<1>11. 26 <= 2 * r + b
  <2>1. f.caplen = 14 + 20 + 2 * r + b
    BY ONLY <1>8, <1>9, <1>10, Zenon
  <2> QED BY ONLY <1>10, <2>1, r \in Int, b \in Int
<1>12. PICK n \in Int : n = r + b \div 2 /\ 10 <= n
  BY ONLY <1>11, r \in Int, b \in Int
<1>13. Row(f.tr, r) /\ Row(WordsOf(f.body), b \div 2)
  BY <1>8, <1>9, WordsOfBytes, Zenon DEF Row
<1>14. Row(Message(f), n)
  BY <1>12, <1>13, RowsJoined, Zenon DEF Message
<1>15. HoldsICMP(p)
  BY <1>7, <1>12, <1>14, GotHoldsICMP
<1> QED BY <1>6, <1>15

(* What get_packet makes of a sound frame is an object that can be sent:   *)
(* its fields hold what they may, its data fit the buffer, its EtherType   *)
(* is that of its class.                                                   *)
THEOREM GotIsPacket ==
  ASSUME NEW f, Sound(f), f.lt = EN10MB, NEW j \in Words, NEW p, p = get_packet(f, j)
  PROVE  IsPacket(p)
<1>1. p.class = Class(f, j)
  BY GotDatalink, Zenon
<1>2. /\ p.class = "IPPacket"  => nproto(f) \in {IP, IPV6}
      /\ p.class = "ARPPacket" => nproto(f) = ARP
      /\ p.class = "Packet"    => nproto(f) \notin {IP, IPV6, ARP}
      /\ p.class \in {"TCPPacket", "UDPPacket", "ICMPPacket"} => nproto(f) \in {IP, IPV6}
      /\ p.class \in {"TCPPacket", "UDPPacket", "ICMPPacket", "IPPacket", "ARPPacket", "Packet"}
  BY <1>1, ClassOfSound
<1>3. p.frametype \in Int /\ U16(p.frametype) = nproto(f)
  BY GotType
<1>4. nproto(f) \notin {ICMP, TCP, UDP, REVARP, UNKNOWN_PROTO}
  BY Zenon DEF Sound
<1>5. IsIP(p) => FitsIP(p)
  BY <1>2, GotFitsIP, Zenon DEF IsIP
<1>6. ASSUME p.class = "IPPacket"
      PROVE  Generic(p)
  <2>1. Class(f, j) = "IPPacket"
    BY <1>1, <1>6, Zenon
  <2> QED BY <2>1, GotGeneric, Zenon
<1>7. p.class = "ARPPacket" => U16(p.frametype) = ARP /\ HoldsARP(p)
  <2>1. nproto(f) = ARP => Row(f.tr, 14) /\ f.tr[3] = ARPLengths
    BY Zenon DEF Sound, Row
  <2> QED BY <1>2, <1>3, <2>1, GotHoldsARP
<1>8. p.class = "Packet" =>
        /\ U16(p.frametype) \notin {IP, IPV6, ARP, REVARP, ICMP, TCP, UDP, UNKNOWN_PROTO}
        /\ p.data \in Seq(Bytes) /\ 14 + Len(p.data) <= MAX_PACKET_SIZE
  <2>1. SUFFICES ASSUME p.class = "Packet"
                 PROVE  /\ U16(p.frametype) \notin
                             {IP, IPV6, ARP, REVARP, ICMP, TCP, UDP, UNKNOWN_PROTO}
                        /\ p.data \in Seq(Bytes) /\ 14 + Len(p.data) <= MAX_PACKET_SIZE
    BY Zenon
  <2>2. nproto(f) \notin {IP, IPV6, ARP}
    BY <1>2, <2>1, Zenon
  <2>3. /\ p.data \in Seq(Bytes)
        /\ 14 + NetworkHlen(f) + TransportHlen(f, j) + Len(p.data) <= 1600
    BY <2>2, GotData
  <2>4. NetworkHlen(f) = 0
    BY <2>2, SoundNetworkHlen
  <2>5. TransportHlen(f, j) \in Int /\ 0 <= TransportHlen(f, j)
    <3>1. IsFrame(f)
      BY Zenon DEF Sound
    <3> QED BY <3>1, TransportHlenIs
  <2>6. Len(p.data) \in Int
    BY <2>3, LenProperties
  <2>7. 14 + Len(p.data) <= MAX_PACKET_SIZE
    BY <2>3, <2>4, <2>5, <2>6 DEF MAX_PACKET_SIZE
  <2>8. nproto(f) \notin {IP, IPV6, ARP, REVARP, ICMP, TCP, UDP, UNKNOWN_PROTO}
    BY ONLY <1>4, <2>2, SMT
  <2> QED BY ONLY <1>3, <2>3, <2>7, <2>8, SMT
<1>9. /\ p.class = "TCPPacket" => HoldsTCP(p)
      /\ p.class = "UDPPacket" => {p.src_port, p.dst_port} \subseteq Int
  BY GotHeader
<1>10. p.class = "ICMPPacket" => p.version = 4 /\ HoldsICMP(p)
  BY GotHoldsICMP4
<1>11. p.class \in {"Packet", "ARPPacket"} \/ IsIP(p)
  BY <1>2, Zenon DEF IsIP
<1> QED BY ONLY <1>3, <1>5, <1>6, <1>7, <1>8, <1>9, <1>10, <1>11, SMT
        DEF IsPacket, FitsIP, Generic

-----------------------------------------------------------------------------
(* writePacket.                                                            *)

(* Only the body is written again.                                         *)
SameButBody(g, f) ==
  /\ SameHeaders(g, f)
  /\ g.lt = f.lt /\ g.type = f.type /\ g.caplen = f.caplen
  /\ g.body \in Seq(Bytes) /\ Len(g.body) = Len(f.body)

(* writePacket changes the bytes that the object does not hold, and no     *)
(* other.                                                                  *)
LEMMA WrittenBody ==
  ASSUME NEW f, DOMAIN f = Fields, f.body \in Seq(Bytes), NEW p, NEW j \in Words
  PROVE  /\ SameButBody(writePacket(f, p, j), f)
         /\ \A i \in 1 .. Len(f.body) :
              f.caplen - Len(f.body) + i <= p.header + Len(p.data) =>
                writePacket(f, p, j).body[i] = f.body[i]
         /\ DOMAIN writePacket(f, p, j) = Fields
<1> DEFINE kept == p.header + Len(p.data)
           from == f.caplen - Len(f.body)
           b    == [i \in DOMAIN f.body |-> IF from + i <= kept THEN f.body[i] ELSE j % 256]
<1>1. writePacket(f, p, j) = [f EXCEPT !.body = b]
  BY Zenon DEF writePacket
<1> HIDE DEF kept, from
<1>2. PICK n \in Nat : n = Len(f.body) /\ DOMAIN f.body = 1 .. n
  BY LenProperties
<1>3. j % 256 \in Bytes
  <2>1. j \in Int
    BY WordRange
  <2> QED BY <2>1 DEF Bytes
<1>4. \A i \in 1 .. n : f.body[i] \in Bytes
  BY <1>2
<1>5. b \in [1 .. n -> Bytes]
  BY <1>2, <1>3, <1>4
<1>6. b \in Seq(Bytes) /\ Len(b) = n
  BY <1>5, FunctionIsSeq
<1>7. \A i \in 1 .. n : from + i <= kept => b[i] = f.body[i]
  BY <1>2
<1> HIDE DEF b
<1>8. PICK g : g = [f EXCEPT !.body = b]
  BY Zenon
<1>9. DOMAIN g = Fields /\ g.body = b /\ \A x \in Fields \ {"body"} : g[x] = f[x]
  BY ONLY <1>8, DOMAIN f = Fields, SMT DEF Fields
<1>10. SameHeaders(g, f) /\ g.lt = f.lt /\ g.type = f.type /\ g.caplen = f.caplen
  BY ONLY <1>9, SMT DEF SameHeaders, Fields
<1>11. SameButBody(g, f)
  BY ONLY <1>2, <1>6, <1>9, <1>10, Zenon DEF SameButBody
<1> QED BY ONLY <1>1, <1>2, <1>7, <1>8, <1>9, <1>11, Zenon DEF from, kept

-----------------------------------------------------------------------------
(* What is dumped stays sound.                                             *)

(* A datagram is accepted as long as its own bytes are the same.           *)
LEMMA SameTransport ==
  ASSUME NEW f, Sound(f), nproto(f) = IP, NEW g, SameButBody(g, f),
         NEW kept \in Int, kept = datalink_hlen(f) + f.len,
         \A i \in 1 .. Len(f.body) : f.caplen - Len(f.body) + i <= kept => g.body[i] = f.body[i],
         NEW c
  PROVE  AcceptsTransport(g, c) <=> AcceptsTransport(f, c)
<1>1. /\ IsFrame(f) /\ 20 + 2 * Len(f.tr) <= f.len /\ f.len <= f.caplen - datalink_hlen(f)
      /\ f.tr \in Seq(Words) /\ f.body \in Seq(Bytes)
  BY Zenon DEF Sound, Sound4
<1>2. f.caplen = datalink_hlen(f) + NetworkHlen(f) + 2 * Len(f.tr) + Len(f.body)
  <2>1. nproto(f) # ARP
    BY DEF IP, ARP
  <2> QED BY <2>1, Zenon DEF Sound
<1>3. NetworkHlen(f) = 20
  BY SoundNetworkHlen
<1>4. g.body \in Seq(Bytes) /\ Len(g.body) = Len(f.body)
  BY Zenon DEF SameButBody
<1>5. g.len = f.len /\ g.src = f.src /\ g.dst = f.dst /\ g.p = f.p /\ g.tr = f.tr
  BY Zenon DEF SameButBody, SameHeaders
<1>6. PICK h \in Int : h = datalink_hlen(f) /\ f.caplen \in Int
  BY SoundLengths
<1>7. PICK r \in Int, b \in Int : r = Len(f.tr) /\ b = Len(f.body) /\ 0 <= r /\ 0 <= b
  BY <1>1, LenProperties
<1>8. PICK n \in Int : n = f.len
  <2>1. f.len \in Words
    BY <1>1, SMT DEF IsFrame
  <2> QED BY <2>1, WordRange
<1>9. PICK k \in Int : k = n - 20 - 2 * r
  OBVIOUS
<1>10. f.caplen = h + 20 + 2 * r + b /\ 20 + 2 * r <= n /\ n <= f.caplen - h
  BY ONLY <1>1, <1>2, <1>3, <1>6, <1>7, <1>8, SMT
<1>11. 0 <= k /\ k <= b
  BY ONLY <1>6, <1>9, <1>10, h \in Int, r \in Int, b \in Int, n \in Int
<1>12. \A i \in 1 .. k : i \in 1 .. b /\ f.caplen - b + i <= h + n
  BY ONLY <1>6, <1>9, <1>10, <1>11, h \in Int, r \in Int, b \in Int, n \in Int, k \in Int
<1>13. \A i \in 1 .. k : g.body[i] = f.body[i]
  BY ONLY <1>6, <1>7, <1>8, <1>12, kept = datalink_hlen(f) + f.len,
     \A i \in 1 .. Len(f.body) : f.caplen - Len(f.body) + i <= kept => g.body[i] = f.body[i], SMT
<1>14. SubSeq(g.body, 1, k) = SubSeq(f.body, 1, k)
  <2>1. \A i \in 1 .. k : f.body[i] \in Bytes /\ g.body[i] \in Bytes
    BY ONLY <1>1, <1>7, <1>12, <1>13, LenProperties, b \in Int
  <2>2. 1 <= k + 1
    BY ONLY <1>11, k \in Int
  <2>3. /\ SubSeq(f.body, 1, k) \in Seq(Bytes) /\ Len(SubSeq(f.body, 1, k)) = k - 1 + 1
        /\ \A i \in 1 .. k - 1 + 1 : SubSeq(f.body, 1, k)[i] = f.body[1 + i - 1]
    BY ONLY <2>1, <2>2, k \in Int, SubSeqIs
  <2>4. /\ SubSeq(g.body, 1, k) \in Seq(Bytes) /\ Len(SubSeq(g.body, 1, k)) = k - 1 + 1
        /\ \A i \in 1 .. k - 1 + 1 : SubSeq(g.body, 1, k)[i] = g.body[1 + i - 1]
    BY ONLY <2>1, <2>2, k \in Int, SubSeqIs
  <2>5. k - 1 + 1 = k /\ \A i \in 1 .. k : 1 + i - 1 = i
    BY ONLY k \in Int
  <2>6. Len(SubSeq(g.body, 1, k)) = Len(SubSeq(f.body, 1, k))
    BY ONLY <2>3, <2>4, Zenon
  <2>7. \A i \in 1 .. Len(SubSeq(g.body, 1, k)) : SubSeq(g.body, 1, k)[i] = SubSeq(f.body, 1, k)[i]
    <3>1. Len(SubSeq(g.body, 1, k)) = k
      BY ONLY <2>4, <2>5, Zenon
    <3>2. \A i \in 1 .. k : SubSeq(g.body, 1, k)[i] = g.body[i]
      BY ONLY <2>4, <2>5, Zenon
    <3>3. \A i \in 1 .. k : SubSeq(f.body, 1, k)[i] = f.body[i]
      BY ONLY <2>3, <2>5, Zenon
    <3>4. 1 .. Len(SubSeq(g.body, 1, k)) = 1 .. k
      BY ONLY <3>1, Zenon
    <3>5. \A i \in 1 .. k : SubSeq(g.body, 1, k)[i] = SubSeq(f.body, 1, k)[i]
      <4>1. PICK x, y : x = SubSeq(g.body, 1, k) /\ y = SubSeq(f.body, 1, k)
        BY ONLY Zenon
      <4>2. \A i \in 1 .. k : x[i] = g.body[i] /\ y[i] = f.body[i]
        BY ONLY <3>2, <3>3, <4>1, Zenon
      <4>3. \A i \in 1 .. k : x[i] = y[i]
        BY ONLY <1>13, <4>2, SMT
      <4> QED BY ONLY <4>1, <4>3, Zenon
    <3> QED BY ONLY <3>4, <3>5, Zenon
  <2> QED BY ONLY <2>3, <2>4, <2>6, <2>7, SeqEqual, Zenon
<1>15. f.len - 20 - 2 * Len(f.tr) = k
  BY ONLY <1>7, <1>8, <1>9, Zenon
<1>16. SubSeq(g.body, 1, g.len - 20 - 2 * Len(g.tr)) = SubSeq(f.body, 1, f.len - 20 - 2 * Len(f.tr))
  BY ONLY <1>5, <1>14, <1>15, Zenon
<1> QED BY ONLY <1>5, <1>16, Zenon DEF AcceptsTransport

(* What is the same but for the body is as sound, if the datagram is       *)
(* accepted.                                                               *)
LEMMA SameSound ==
  ASSUME NEW f, Sound(f), NEW g, SameButBody(g, f),
         nproto(f) = IP => \A c : AcceptsTransport(g, c) <=> AcceptsTransport(f, c)
  PROVE  Sound(g) /\ nproto(g) = nproto(f)
<1>1. /\ g.hl = f.hl /\ g.tos = f.tos /\ g.len = f.len /\ g.id = f.id /\ g.off = f.off
      /\ g.ttl = f.ttl /\ g.p = f.p /\ g.sum = f.sum /\ g.src = f.src /\ g.dst = f.dst
      /\ g.flow = f.flow /\ g.nxt = f.nxt /\ g.plen = f.plen
      /\ g.xlen = f.xlen /\ g.hln = f.hln /\ g.pln = f.pln /\ g.doff = f.doff /\ g.tr = f.tr
      /\ g.lt = f.lt /\ g.type = f.type /\ g.caplen = f.caplen
      /\ g.body \in Seq(Bytes) /\ Len(g.body) = Len(f.body)
  BY Zenon DEF SameButBody, SameHeaders
<1>2. nproto(g) = nproto(f) /\ datalink_hlen(g) = datalink_hlen(f)
  BY ONLY <1>1, Zenon DEF nproto, datalink_hlen
<1>3. NetworkHlen(g) = NetworkHlen(f)
  BY ONLY <1>1, <1>2, Zenon DEF NetworkHlen
<1>4. IsFrame(f) => IsFrame(g)
  BY ONLY <1>1, SMT DEF IsFrame
<1>5. /\ IsFragment(g) <=> IsFragment(f)
      /\ StillFragment(g) <=> StillFragment(f)
  BY ONLY <1>1, SMT DEF IsFragment, StillFragment
<1>6. \A proto : Holds(g, proto) <=> Holds(f, proto)
  BY ONLY <1>1, <1>2, <1>5, Zenon DEF Holds
<1>7. IPWords(g) = IPWords(f)
  BY ONLY <1>1, SMT DEF IPWords
<1>8. Sound6(f) => Sound6(g)
  BY ONLY <1>1, Zenon DEF Sound6
<1>9. Sound4(f) /\ nproto(f) = IP => Sound4(g)
  BY <1>1, <1>2, <1>5, <1>6, <1>7, Zenon DEF Sound4
<1> QED BY <1>1, <1>2, <1>3, <1>4, <1>6, <1>8, <1>9, Zenon DEF Sound

(* A frame that is read from a file is as sound as the one that was        *)
(* dumped, and accepted where that one was: the bytes that the object does *)
(* not hold are not part of the datagram.                                  *)
THEOREM DumpIsSound ==
  ASSUME NEW f, Sound(f), DOMAIN f = Fields, NEW i \in Words, NEW p, p = get_packet(f, i),
         NEW j \in Words, NEW g, g = writePacket(f, p, j)
  PROVE  /\ Sound(g) /\ DOMAIN g = Fields /\ nproto(g) = nproto(f)
         /\ nproto(f) = IP => \A c : AcceptsTransport(g, c) <=> AcceptsTransport(f, c)
<1>1. f.body \in Seq(Bytes)
  BY Zenon DEF Sound
<1>2. /\ SameButBody(g, f) /\ DOMAIN g = Fields
      /\ \A k \in 1 .. Len(f.body) :
           f.caplen - Len(f.body) + k <= p.header + Len(p.data) => g.body[k] = f.body[k]
  BY <1>1, WrittenBody, Zenon
<1>3. ASSUME nproto(f) = IP, NEW c
      PROVE  AcceptsTransport(g, c) <=> AcceptsTransport(f, c)
  <2>1. p.header + Len(p.data) = datalink_hlen(f) + f.len
    BY <1>3, DatagramIsKept
  <2>2. PICK kept \in Int : kept = datalink_hlen(f) + f.len
    <3>1. f.len \in Words
      <4>1. IsFrame(f)
        BY Zenon DEF Sound
      <4> QED BY <4>1, SMT DEF IsFrame
    <3> QED BY <3>1, SoundLengths, WordRange
  <2>3. \A k \in 1 .. Len(f.body) : f.caplen - Len(f.body) + k <= kept => g.body[k] = f.body[k]
    BY ONLY <1>2, <2>1, <2>2, Zenon
  <2>4. nproto(f) = IP
    BY <1>3
  <2> QED BY ONLY <1>2, <2>2, <2>3, <2>4, kept \in Int, Sound(f), SameTransport, ZenonT(60)
<1> QED BY <1>2, <1>3, SameSound, Zenon

-----------------------------------------------------------------------------
(* The theorems about what is sent.                                        *)

(* The fields of a frame that is sent.                                     *)
LEMMA SentFields ==
  ASSUME NEW p, NEW j
  PROVE  /\ DOMAIN nativeSendPacket(p, j) = Fields
         /\ DOMAIN nativeSendPacketViaRawSocket(p, j) = Fields
<1>1. DOMAIN set_packet(p, j) = Fields
  BY SetPacketFields
<1> QED BY <1>1, Zenon DEF nativeSendPacket, nativeSendPacketViaRawSocket

(* The invariant holds at the start,                                       *)
LEMMA WireInvInit == Init => WireInv
  BY SMT DEF Init, WireInv

(* and every action keeps it: the first program sends an object,           *)
LEMMA SendKeeps ==
  ASSUME WireInv, NEW p \in Packets, Send(p)
  PROVE  WireInv'
<1>1. IsPacket(p)
  BY PacketsAssumption
<1>2. PICK j \in Junk :
        \/ frame' = nativeSendPacket(p, j)
        \/ /\ IsIP(p) /\ p.version = 4
           /\ frame' = nativeSendPacketViaRawSocket(p, j)
  BY Zenon DEF Send
<1>3. j \in Words
  BY JunkAssumption
<1>4. Sending(frame', p) /\ DOMAIN frame' = Fields
  BY <1>1, <1>2, <1>3, NativeIsSound, RawIsSound, SentFields, Zenon
<1>5. at' = "wire" /\ packet' = p
  BY Zenon DEF Send
<1> QED BY ONLY <1>4, <1>5, Zenon DEF WireInv, Sending

(* a program receives one,                                                 *)
LEMMA ReceiveKeeps ==
  ASSUME WireInv, Receive
  PROVE  WireInv'
<1>1. /\ at = "wire" /\ at' = "received" /\ frame' = frame
      /\ \E j \in Junk : packet' = get_packet(frame, j)
  BY Zenon DEF Receive
<1> QED BY ONLY <1>1, WireInv, Zenon DEF WireInv

(* sends on the one it received,                                           *)
LEMMA ForwardKeeps ==
  ASSUME WireInv, Forward
  PROVE  WireInv'
<1>1. /\ at = "received" /\ frame.lt = EN10MB /\ at' = "wire" /\ packet' = packet
      /\ \E j \in Junk : frame' = nativeSendPacket(packet, j)
  BY Zenon DEF Forward
<1>2. Sound(frame) /\ \E i \in Junk : packet = get_packet(frame, i)
  BY <1>1, Zenon DEF WireInv
<1>3. IsPacket(packet)
  BY <1>1, <1>2, JunkAssumption, GotIsPacket
<1>4. PICK j \in Junk : frame' = nativeSendPacket(packet, j)
  BY <1>1
<1>5. j \in Words
  BY JunkAssumption
<1>6. Sending(frame', packet) /\ DOMAIN frame' = Fields
  BY <1>3, <1>4, <1>5, NativeIsSound, SentFields, Zenon
<1> QED BY ONLY <1>1, <1>6, Zenon DEF WireInv, Sending

(* or writes it to a file and reads that.                                  *)
LEMMA DumpKeeps ==
  ASSUME WireInv, Dump
  PROVE  WireInv'
<1>1. /\ at = "received" /\ at' = "wire" /\ packet' = packet
      /\ \E j \in Junk : frame' = writePacket(frame, packet, j)
  BY Zenon DEF Dump
<1>2. /\ Sound(frame) /\ DOMAIN frame = Fields
      /\ \E i \in Junk : packet = get_packet(frame, i)
  BY <1>1, Zenon DEF WireInv
<1>3. PICK i \in Words : packet = get_packet(frame, i)
  BY <1>2, JunkAssumption
<1>4. PICK j \in Words : frame' = writePacket(frame, packet, j)
  BY <1>1, JunkAssumption
<1>5. /\ Sound(frame') /\ DOMAIN frame' = Fields /\ nproto(frame') = nproto(frame)
      /\ nproto(frame) = IP =>
           \A c : AcceptsTransport(frame', c) <=> AcceptsTransport(frame, c)
  BY <1>2, <1>3, <1>4, DumpIsSound, Zenon
<1>6. IsIP(packet) /\ packet.version = 4 =>
        nproto(frame) = IP /\ AcceptsTransport(frame, packet.class)
  BY <1>2, <1>3, GotIsAccepted
<1> QED BY ONLY <1>1, <1>5, <1>6, Zenon DEF WireInv

(* So every step keeps it.                                                 *)
LEMMA WireInvNext == WireInv /\ [Next]_vars => WireInv'
<1> SUFFICES ASSUME WireInv, [Next]_vars
             PROVE  WireInv'
  OBVIOUS
<1>1. ASSUME NEW f \in Strange, Overhear(f)
      PROVE  WireInv'
  BY <1>1, SMT DEF Overhear, WireInv
<1>2. ASSUME NEW p \in Packets, Send(p)
      PROVE  WireInv'
  BY <1>2, SendKeeps
<1>3. CASE Receive
  BY <1>3, ReceiveKeeps
<1>4. CASE Forward
  BY <1>4, ForwardKeeps
<1>5. CASE Dump
  BY <1>5, DumpKeeps
<1>6. CASE UNCHANGED vars
  BY <1>6, Zenon DEF vars, WireInv
<1> QED BY <1>1, <1>2, <1>3, <1>4, <1>5, <1>6 DEF Next

(* A frame that was sent is sound, whatever the object, and however often  *)
(* it was received, sent on or dumped; and an object was made of the frame *)
(* it came in.                                                             *)
THEOREM WireInvariance == Spec => []WireInv
<1>1. Init => WireInv
  BY WireInvInit
<1>2. WireInv /\ [Next]_vars => WireInv'
  BY WireInvNext
<1> QED BY <1>1, <1>2, PTL DEF Spec

(* The receiver of a frame of IPv4 accepts the checksum of its header and  *)
(* that of TCP, UDP or ICMP: set_packet, set_tcp, set_udp, set_icmp and    *)
(* in_cksum for every object, and for every one that get_packet made.      *)
THEOREM PeersAlwaysAccept == Spec => []PeerAccepts
<1>1. WireInv => PeerAccepts
  <2> SUFFICES ASSUME WireInv, Sent4
               PROVE  /\ Accepts(IPWords(frame) \o <<frame.sum>>, <<>>)
                      /\ AcceptsTransport(frame, packet.class)
    BY Zenon DEF PeerAccepts
  <2>1. Sound(frame) /\ nproto(frame) = IP /\ AcceptsTransport(frame, packet.class)
    BY Zenon DEF WireInv, Sent4
  <2>2. Sound4(frame)
    BY <2>1, Zenon DEF Sound
  <2> QED BY <2>1, <2>2, Zenon DEF Sound4
<1> QED BY <1>1, WireInvariance, PTL

=============================================================================
