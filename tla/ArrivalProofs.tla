---------------------------- MODULE ArrivalProofs ----------------------------
(***************************************************************************)
(* What is sent arrives, for every object, whichever of the two ways it is *)
(* sent: what its numbers tell is read again, its data come back but for   *)
(* what is always lost, and what has been received once is received as     *)
(* the same when it is sent on.                                            *)
(***************************************************************************)
EXTENDS WireProofs

-----------------------------------------------------------------------------
(* Bits that are written and read.                                         *)

(* The eight flags of TCP, above which lie the offset and four bits of     *)
(* uninitialised memory.                                                   *)
LEMMA FlagsAreRead ==
  ASSUME NEW bits, NEW k \in Int, NEW w, w = 256 * k + TCPFlags(bits)
  PROVE  BitsOf(w, 0 .. 7) = bits \cap (0 .. 7)
<1>1. PICK b0 \in Int, b1 \in Int, b2 \in Int, b3 \in Int, b4 \in Int, b5 \in Int, b6 \in Int,
           b7 \in Int :
        /\ b0 = (IF 0 \in bits THEN 1 ELSE 0) /\ b1 = (IF 1 \in bits THEN 1 ELSE 0)
        /\ b2 = (IF 2 \in bits THEN 1 ELSE 0) /\ b3 = (IF 3 \in bits THEN 1 ELSE 0)
        /\ b4 = (IF 4 \in bits THEN 1 ELSE 0) /\ b5 = (IF 5 \in bits THEN 1 ELSE 0)
        /\ b6 = (IF 6 \in bits THEN 1 ELSE 0) /\ b7 = (IF 7 \in bits THEN 1 ELSE 0)
  OBVIOUS
<1>2. w = 256 * k + (b0 + 2 * b1 + 4 * b2 + 8 * b3 + 16 * b4 + 32 * b5 + 64 * b6 + 128 * b7)
  BY <1>1 DEF TCPFlags, Flag
<1>3. /\ b0 \in 0 .. 1 /\ b1 \in 0 .. 1 /\ b2 \in 0 .. 1 /\ b3 \in 0 .. 1
      /\ b4 \in 0 .. 1 /\ b5 \in 0 .. 1 /\ b6 \in 0 .. 1 /\ b7 \in 0 .. 1
  BY <1>1
<1>4. PICK w1 \in Int, w2 \in Int, w3 \in Int, w4 \in Int, w5 \in Int, w6 \in Int, w7 \in Int :
        /\ w1 = 128 * k + b1 + 2 * b2 + 4 * b3 + 8 * b4 + 16 * b5 + 32 * b6 + 64 * b7
        /\ w2 = 64 * k + b2 + 2 * b3 + 4 * b4 + 8 * b5 + 16 * b6 + 32 * b7
        /\ w3 = 32 * k + b3 + 2 * b4 + 4 * b5 + 8 * b6 + 16 * b7
        /\ w4 = 16 * k + b4 + 2 * b5 + 4 * b6 + 8 * b7
        /\ w5 = 8 * k + b5 + 2 * b6 + 4 * b7
        /\ w6 = 4 * k + b6 + 2 * b7
        /\ w7 = 2 * k + b7
  OBVIOUS
<1> HIDE DEF TCPFlags
<1>5. /\ w = b0 + 2 * w1 /\ w1 = b1 + 2 * w2 /\ w2 = b2 + 2 * w3 /\ w3 = b3 + 2 * w4
      /\ w4 = b4 + 2 * w5 /\ w5 = b5 + 2 * w6 /\ w6 = b6 + 2 * w7 /\ w7 = b7 + 2 * k
      /\ w \in Int
  BY ONLY <1>2, <1>4, k \in Int, b0 \in Int, b1 \in Int, b2 \in Int, b3 \in Int, b4 \in Int,
     b5 \in Int, b6 \in Int, b7 \in Int, w1 \in Int, w2 \in Int, w3 \in Int, w4 \in Int,
     w5 \in Int, w6 \in Int, w7 \in Int
<1>6. /\ Bit(w, 0) <=> b0 = 1
      /\ Bit(w, 1) <=> b1 = 1
      /\ Bit(w, 2) <=> b2 = 1
      /\ Bit(w, 3) <=> b3 = 1
      /\ Bit(w, 4) <=> b4 = 1
      /\ Bit(w, 5) <=> b5 = 1
      /\ Bit(w, 6) <=> b6 = 1
      /\ Bit(w, 7) <=> b7 = 1
  <2>1. (w \div 1) % 2 = b0
    BY ONLY <1>3, <1>5, w1 \in Int
  <2>2. w \div 2 = w1 /\ w1 % 2 = b1
    BY ONLY <1>3, <1>5, w1 \in Int, w2 \in Int
  <2>3. w \div 4 = w2 /\ w2 % 2 = b2
    BY ONLY <1>3, <1>5, w1 \in Int, w2 \in Int, w3 \in Int
  <2>4. w \div 8 = w3 /\ w3 % 2 = b3
    BY ONLY <1>3, <1>5, w1 \in Int, w2 \in Int, w3 \in Int, w4 \in Int
  <2>5. w \div 16 = w4 /\ w4 % 2 = b4
    BY ONLY <1>3, <1>5, w1 \in Int, w2 \in Int, w3 \in Int, w4 \in Int, w5 \in Int
  <2>6. w \div 32 = w5 /\ w5 % 2 = b5
    BY ONLY <1>3, <1>5, w1 \in Int, w2 \in Int, w3 \in Int, w4 \in Int, w5 \in Int, w6 \in Int
  <2>7. w \div 64 = w6 /\ w6 % 2 = b6
    BY ONLY <1>3, <1>5, w1 \in Int, w2 \in Int, w3 \in Int, w4 \in Int, w5 \in Int, w6 \in Int,
       w7 \in Int
  <2>8. w \div 128 = w7 /\ w7 % 2 = b7
    BY ONLY <1>3, <1>5, w1 \in Int, w2 \in Int, w3 \in Int, w4 \in Int, w5 \in Int, w6 \in Int,
       w7 \in Int, k \in Int
  <2>9. 2^0 = 1 /\ 2^1 = 2 /\ 2^2 = 4 /\ 2^3 = 8 /\ 2^4 = 16 /\ 2^5 = 32 /\ 2^6 = 64 /\ 2^7 = 128
    OBVIOUS
  <2>10. /\ Bit(w, 0) <=> b0 = 1
         /\ Bit(w, 1) <=> b1 = 1
         /\ Bit(w, 2) <=> b2 = 1
         /\ Bit(w, 3) <=> b3 = 1
    BY ONLY <2>1, <2>2, <2>3, <2>4, <2>9, Zenon DEF Bit
  <2>11. /\ Bit(w, 4) <=> b4 = 1
         /\ Bit(w, 5) <=> b5 = 1
         /\ Bit(w, 6) <=> b6 = 1
         /\ Bit(w, 7) <=> b7 = 1
    BY ONLY <2>5, <2>6, <2>7, <2>8, <2>9, Zenon DEF Bit
  <2> QED BY ONLY <2>10, <2>11, Zenon
<1>7. \A i \in 0 .. 7 : Bit(w, i) <=> i \in bits
  <2>1. /\ b0 = 1 <=> 0 \in bits
        /\ b1 = 1 <=> 1 \in bits
        /\ b2 = 1 <=> 2 \in bits
        /\ b3 = 1 <=> 3 \in bits
        /\ b4 = 1 <=> 4 \in bits
        /\ b5 = 1 <=> 5 \in bits
        /\ b6 = 1 <=> 6 \in bits
        /\ b7 = 1 <=> 7 \in bits
    BY <1>1
  <2>2. \A i \in 0 .. 7 : i = 0 \/ i = 1 \/ i = 2 \/ i = 3 \/ i = 4 \/ i = 5 \/ i = 6 \/ i = 7
    OBVIOUS
  <2> QED BY ONLY <1>6, <2>1, <2>2, Zenon
<1> QED BY ONLY <1>7, SMT DEF BitsOf

(* The byte of the type of service is the same when it is written again.   *)
LEMMA TOSIsWritten ==
  ASSUME NEW t \in Int, 0 <= t, t < 256,
         NEW p, p.priority = t \div 32, p.tos = BitsOf(t, TOS), p.rsv_tos = t % 4
  PROVE  U8(TOSByte(p)) = t
<1>1. PICK b2 \in Int, b3 \in Int, b4 \in Int :
        b2 = (t \div 4) % 2 /\ b3 = (t \div 8) % 2 /\ b4 = (t \div 16) % 2
  OBVIOUS
<1>2. /\ 2 \in p.tos <=> b2 = 1
      /\ 3 \in p.tos <=> b3 = 1
      /\ 4 \in p.tos <=> b4 = 1
  BY <1>1 DEF BitsOf, TOS, Bit
<1>3. b2 \in {0, 1} /\ b3 \in {0, 1} /\ b4 \in {0, 1}
  BY <1>1
<1>4. Flag(2, p.tos) = 4 * b2 /\ Flag(3, p.tos) = 8 * b3 /\ Flag(4, p.tos) = 16 * b4
  BY <1>2, <1>3 DEF Flag
<1>5. PICK a \in Int, r \in Int : a = t \div 32 /\ r = t % 4
  OBVIOUS
<1>6. t = 32 * a + 16 * b4 + 8 * b3 + 4 * b2 + r
  BY <1>1, <1>5
<1>7. TOSByte(p) = 32 * a + r + 16 * b4 + 8 * b3 + 4 * b2
  BY <1>4, <1>5 DEF TOSByte
<1>8. TOSByte(p) = t
  BY <1>6, <1>7
<1> QED BY <1>8 DEF U8

(* And what is written of it is read.                                      *)
LEMMA TOSIsRead ==
  ASSUME NEW p, p.priority \in 0 .. 7, p.tos \subseteq TOS, p.rsv_tos \in 0 .. 3,
         NEW t, t = U8(TOSByte(p))
  PROVE  t \div 32 = p.priority /\ BitsOf(t, TOS) = p.tos /\ t % 4 = p.rsv_tos
<1>1. PICK b2 \in Int, b3 \in Int, b4 \in Int :
        /\ b2 = (IF 2 \in p.tos THEN 1 ELSE 0) /\ b3 = (IF 3 \in p.tos THEN 1 ELSE 0)
        /\ b4 = (IF 4 \in p.tos THEN 1 ELSE 0)
  OBVIOUS
<1>2. PICK a \in 0 .. 7, r \in 0 .. 3 : a = p.priority /\ r = p.rsv_tos
  OBVIOUS
<1>3. Flag(2, p.tos) = 4 * b2 /\ Flag(3, p.tos) = 8 * b3 /\ Flag(4, p.tos) = 16 * b4
  BY <1>1 DEF Flag
<1>4. TOSByte(p) = 32 * a + r + 16 * b4 + 8 * b3 + 4 * b2
  BY <1>2, <1>3 DEF TOSByte
<1>5. b2 \in 0 .. 1 /\ b3 \in 0 .. 1 /\ b4 \in 0 .. 1
  BY <1>1
<1>6. t = 32 * a + r + 16 * b4 + 8 * b3 + 4 * b2 /\ t \in Int
  BY <1>4, <1>5 DEF U8
<1>7. /\ t \div 32 = a /\ t % 4 = r
      /\ (t \div 4) % 2 = b2 /\ (t \div 8) % 2 = b3 /\ (t \div 16) % 2 = b4
  BY <1>5, <1>6
<1>8. \A i \in TOS : Bit(t, i) <=> i \in p.tos
  <2>1. (Bit(t, 2) <=> 2 \in p.tos) /\ (Bit(t, 3) <=> 3 \in p.tos) /\ (Bit(t, 4) <=> 4 \in p.tos)
    BY <1>1, <1>7 DEF Bit
  <2>2. TOS = {2, 3, 4}
    BY DEF TOS
  <2> QED BY ONLY <2>1, <2>2
<1>9. BitsOf(t, TOS) = p.tos
  BY ONLY <1>8, p.tos \subseteq TOS, SMT DEF BitsOf
<1> QED BY <1>2, <1>7, <1>9

(* Without an offset no flag is read.                                      *)
LEMMA NoFragment ==
  ASSUME NEW w \in Words, w % 8192 = 0
  PROVE  BitsOf(Swap16(w), FRAG) = {}
<1>1. w \in Int /\ 0 <= w /\ w < 65536
  BY WordRange
<1>2. PICK v \in Int : v = Swap16(w) /\ 0 <= v /\ v < 256
  BY <1>1 DEF Swap16
<1>3. v \div 8192 = 0 /\ v \div 16384 = 0 /\ v \div 32768 = 0
  BY <1>2
<1>4. ~Bit(v, 13) /\ ~Bit(v, 14) /\ ~Bit(v, 15)
  BY <1>3 DEF Bit
<1>5. FRAG = {13, 14, 15}
  BY DEF FRAG
<1>6. \A i \in FRAG : ~Bit(v, i)
  BY ONLY <1>4, <1>5
<1> QED BY ONLY <1>2, <1>6, SMT DEF BitsOf

(* Casts that are made twice.                                              *)
LEMMA CastsAgain ==
  ASSUME NEW n \in Int
  PROVE  /\ U16(S16(U16(n))) = U16(n) /\ S8(U16(S8(n))) = S8(n) /\ S8(U16(n)) = S8(n)
         /\ U8(S8(n)) = U8(n) /\ U8(U8(n)) = U8(n) /\ U16(U16(n)) = U16(n) /\ S8(S8(n)) = S8(n)
         /\ S8(n) \in Int /\ S16(n) \in Int
         /\ U8(n) \in Bytes /\ U16(n) \in Words
  BY DEF U8, S8, U16, S16, Bytes, Words

-----------------------------------------------------------------------------
(* What a frame tells of an object, and what it brings of its data.        *)

(* ICMP without an echo has no data of its own.                            *)
HasData(p) == p.class = "ICMPPacket" => p.type \in ECHO

(* The length of the datagram, and the room that Ethernet gives it.        *)
Size(p) == (IF p.version = 4 THEN 20 ELSE 40) + HeaderOf(p) + Len(p.data)
Room(n) == IF n < 46 THEN 46 ELSE n

(* The frame has the header of the object: each number as the header holds *)
(* it.                                                                     *)
Tells4(f, p) ==
  /\ nproto(f) = IP /\ f.off % 8192 = 0
  /\ f.tos = U8(TOSByte(p)) /\ f.id = U16(p.ident) /\ f.ttl = U8(p.hop_limit)
  /\ f.p = Protocol(p) /\ f.src = p.src /\ f.dst = p.dst
Tells6(f, p) ==
  /\ nproto(f) = IPV6 /\ f.ttl = U8(p.hop_limit) /\ f.nxt = Protocol(p)
  /\ f.src = p.src /\ f.dst = p.dst
  /\ f.flow[1] = FlowWord(p) /\ (f.flow[2] \div 256) % 16 = (p.flow_label[2] \div 256) % 16
TellsTCP(f, p) ==
  /\ f.tr[1] = U16(p.src_port) /\ f.tr[2] = U16(p.dst_port)
  /\ p.sequence = <<f.tr[3], f.tr[4]>> /\ p.ack_num = <<f.tr[5], f.tr[6]>>
  /\ BitsOf(f.tr[7], 0 .. 7) = p.flags \cap (0 .. 7)
  /\ f.tr[8] = U16(p.window) /\ f.tr[10] = U16(p.urgent_pointer)
TellsUDP(f, p) == f.tr[1] = U16(p.src_port) /\ f.tr[2] = U16(p.dst_port)
TellsICMP(f, p) ==
  /\ f.tr[1] = 256 * U8(p.type) + U8(p.code)
  /\ p.type \in ECHO =>
       Len(f.tr) = 4 /\ S8(f.tr[3]) = S8(p.id) /\ S8(f.tr[4]) = S8(p.seq)
  /\ p.type \notin ECHO =>
       4 <= Len(f.tr) /\ Len(f.tr) <= 16 /\ f.len = 20 + 2 * Len(f.tr)
TellsARP(f, p) ==
  /\ nproto(f) = ARP /\ f.caplen = 60
  /\ f.tr[1] = U16(p.hardtype) /\ f.tr[2] = U16(p.prototype) /\ f.tr[4] = U16(p.operation)
  /\ p.sender_hardaddr = SubSeq(f.tr, 5, 7) /\ p.sender_protoaddr = SubSeq(f.tr, 8, 9)
  /\ p.target_hardaddr = SubSeq(f.tr, 10, 12) /\ p.target_protoaddr = SubSeq(f.tr, 13, 14)
Tells(f, p) ==
  /\ IsIP(p) /\ p.version = 4 => Tells4(f, p)
  /\ IsIP(p) /\ p.version # 4 => Tells6(f, p)
  /\ p.class = "TCPPacket"  => TellsTCP(f, p)
  /\ p.class = "UDPPacket"  => TellsUDP(f, p)
  /\ p.class = "ICMPPacket" => TellsICMP(f, p)
  /\ p.class = "ARPPacket"  => TellsARP(f, p)
  /\ p.class = "Packet"     => nproto(f) = U16(p.frametype)

(* The frame has the data of the object behind the header, and nothing but *)
(* the padding behind them.                                                *)
Filled(data, n) == data \o Zeros(Room(n) - n)
Brings4(f, p) ==
  /\ 2 * Len(f.tr) = HeaderOf(p) /\ f.len = Size(p)
  /\ f.caplen = datalink_hlen(f) + (IF f.lt = RAW THEN Size(p) ELSE Room(Size(p)))
  /\ SubSeq(f.body, 1, Len(p.data)) = p.data
Brings6(f, p) ==
  /\ 2 * Len(f.tr) = HeaderOf(p) /\ f.caplen = 14 + Room(Size(p))
  /\ \E n \in 40 .. Room(Size(p)) : f.plen = Swap16(n) /\ Room(n) = Room(Size(p))
  /\ f.body = Filled(p.data, Size(p))
BringsPlain(f, p) ==
  f.caplen = 14 + Room(Len(p.data)) /\ f.body = Filled(p.data, Len(p.data))
Brings(f, p) ==
  /\ IsIP(p) /\ p.version = 4 => Brings4(f, p)
  /\ IsIP(p) /\ p.version # 4 => Brings6(f, p)
  /\ p.class = "Packet" => BringsPlain(f, p)

-----------------------------------------------------------------------------
(* The transport headers, word by word.                                    *)

(* A pair as the words it consists of.                                     *)
LEMMA PairIs ==
  ASSUME NEW w, w \in Pairs
  PROVE  w = <<w[1], w[2]>> /\ w[1] \in Words /\ w[2] \in Words
<1>1. w \in [1 .. 2 -> Words]
  BY Zenon DEF Pairs
<1> QED BY <1>1

(* The words behind each other are those of the parts.                     *)
LEMMA TenWords ==
  ASSUME NEW S, NEW a \in S, NEW b \in S, NEW x \in S, NEW y \in S, NEW k \in S, NEW l \in S,
         NEW m \in S, NEW n \in S, NEW o \in S, NEW q \in S,
         NEW s, s = <<a, b>> \o <<x, y>> \o <<k, l>> \o <<m, n, o, q>>
  PROVE  /\ s[1] = a /\ s[2] = b /\ s[3] = x /\ s[4] = y /\ s[5] = k /\ s[6] = l
         /\ s[7] = m /\ s[8] = n /\ s[10] = q
  OBVIOUS

(* What set_tcp writes.                                                    *)
LEMMA TCPWords ==
  ASSUME NEW p, HoldsTCP(p), NEW f, NEW j \in Words, NEW w, w = set_tcp(p, f, j)
  PROVE  /\ w[1] = U16(p.src_port) /\ w[2] = U16(p.dst_port)
         /\ p.sequence = <<w[3], w[4]>> /\ p.ack_num = <<w[5], w[6]>>
         /\ BitsOf(w[7], 0 .. 7) = p.flags \cap (0 .. 7)
         /\ w[8] = U16(p.window) /\ w[10] = U16(p.urgent_pointer)
<1>1. p.sequence \in Pairs /\ p.ack_num \in Pairs
  BY Zenon DEF HoldsTCP
<1>2. PICK x, y, k, l : p.sequence = <<x, y>> /\ p.ack_num = <<k, l>>
  <2>1. p.sequence = <<p.sequence[1], p.sequence[2]>> /\ p.ack_num = <<p.ack_num[1], p.ack_num[2]>>
    BY <1>1, PairIs, Zenon
  <2> QED BY ONLY <2>1, Zenon
<1> DEFINE a == U16(p.src_port)
           b == U16(p.dst_port)
           m == 20480 + 256 * (j % 16) + TCPFlags(p.flags)
           n == U16(p.window)
           q == U16(p.urgent_pointer)
           head == <<a, b>> \o p.sequence \o p.ack_num
           sum == in_cksum2(PseudoHeader(p, f, TCP, Len(p.data) + TCPHDRLEN),
                            head \o <<m, n, 0, q>>, p.data)
<1>3. PICK c : w = <<a, b>> \o p.sequence \o p.ack_num \o <<m, n, c, q>>
  <2>1. w = head \o <<m, n, sum, q>>
    BY SMT DEF set_tcp
  <2>2. w = <<a, b>> \o p.sequence \o p.ack_num \o <<m, n, sum, q>>
    BY ONLY <2>1, SMT DEF head
  <2> HIDE DEF sum, head, a, b, m, n, q
  <2> QED BY ONLY <2>2, Zenon
<1> HIDE DEF a, b, m, n, q
<1>4. w = <<a, b>> \o <<x, y>> \o <<k, l>> \o <<m, n, c, q>>
  BY <1>2, <1>3, Zenon
<1>5. PICK S : S = {a, b, x, y, k, l, m, n, c, q}
  OBVIOUS
<1>6. /\ w[1] = a /\ w[2] = b /\ w[3] = x /\ w[4] = y /\ w[5] = k /\ w[6] = l
      /\ w[7] = m /\ w[8] = n /\ w[10] = q
  <2>1. /\ a \in S /\ b \in S /\ x \in S /\ y \in S /\ k \in S /\ l \in S
        /\ m \in S /\ n \in S /\ c \in S /\ q \in S
    BY ONLY <1>5
  <2> QED BY ONLY <1>4, <2>1, TenWords
<1>7. BitsOf(w[7], 0 .. 7) = p.flags \cap (0 .. 7)
  <2>1. j \in Int /\ TCPFlags(p.flags) \in Int
    BY WordRange, TCPFlagsRange
  <2>2. PICK g \in Int, y0 \in Int : g = j % 16 /\ y0 = TCPFlags(p.flags)
    BY <2>1
  <2>3. m = 20480 + 256 * g + y0
    BY ONLY <2>1, <2>2, SMT DEF m
  <2>4. PICK r \in Int : r = 80 + g
    BY ONLY g \in Int
  <2>5. m = 256 * r + y0
    <3> HIDE DEF m
    <3> QED BY ONLY <2>3, <2>4, g \in Int, y0 \in Int
  <2>6. w[7] = 256 * r + TCPFlags(p.flags)
    BY ONLY <1>6, <2>2, <2>5, Zenon
  <2> QED BY ONLY <2>6, r \in Int, FlagsAreRead, Zenon
<1> QED BY ONLY <1>2, <1>6, <1>7, Zenon DEF a, b, n, q

(* What set_udp writes.                                                    *)
LEMMA UDPWords ==
  ASSUME NEW p, NEW f, NEW w, w = set_udp(p, f)
  PROVE  w[1] = U16(p.src_port) /\ w[2] = U16(p.dst_port)
<1> DEFINE a == U16(p.src_port)
           b == U16(p.dst_port)
           n == Len(p.data) + UDPHDRLEN
           l == U16(n)
           d == NonZero(in_cksum2(PseudoHeader(p, f, UDP, n), <<a, b, l, 0>>, p.data))
<1>1. w = <<a, b, l, d>>
  BY SMT DEF set_udp
<1> HIDE DEF a, b, l, d
<1>2. <<a, b, l, d>>[1] = a /\ <<a, b, l, d>>[2] = b
  OBVIOUS
<1> QED BY ONLY <1>1, <1>2, Zenon DEF a, b

(* What set_icmp writes of a type that it knows.                           *)
LEMMA ICMPMessage ==
  ASSUME NEW p, HoldsICMP(p), p.type \in Handled, NEW j \in Words, NEW t, t = set_icmp(p, j)
  PROVE  /\ t.tr[1] = 256 * U8(p.type) + U8(p.code)
         /\ p.type \in ECHO => /\ Len(t.tr) = 4 /\ t.body = p.data
                               /\ t.tr[3] = U16(p.id) /\ t.tr[4] = U16(p.seq)
         /\ p.type \notin ECHO => 4 <= Len(t.tr) /\ Len(t.tr) <= 16 /\ t.body = <<>>
<1> DEFINE h    == 256 * U8(p.type) + U8(p.code)
           rest == ICMPWords(p, j)
           data == IF p.type \in ECHO THEN p.data ELSE <<>>
           sum  == in_cksum(<<h, 0>> \o rest, data, j % 256)
<1>1. PICK c : t.tr = <<h, c>> \o rest /\ t.body = data
  <2>1. t.tr = <<h, sum>> \o rest /\ t.body = data
    BY SMT DEF set_icmp
  <2> HIDE DEF sum, h, rest, data
  <2> QED BY ONLY <2>1, Zenon
<1>2. PICK n \in Int : n \in 2 .. 14 /\ Row(rest, n) /\ (p.type \in ECHO => n = 2)
  <2>1. CASE p.type \in ECHO
    <3>1. Row(rest, 2)
      BY <2>1, EchoWords
    <3>2. 2 \in 2 .. 14 /\ 2 \in Int
      OBVIOUS
    <3> QED BY ONLY <3>1, <3>2, Zenon
  <2>2. CASE p.type \notin ECHO
    <3>1. \E n \in 2 .. 14 : Row(rest, n)
      BY ICMPWordsTyped
    <3> QED BY <2>2, <3>1
  <2> QED BY <2>1, <2>2
<1>3. h \in Int /\ U16(p.id) \in Words /\ U16(p.seq) \in Words
  <2>1. p.type \in Int /\ p.code \in Int /\ p.id \in Int /\ p.seq \in Int
    BY ICMPNumbers
  <2> QED BY <2>1, NumberRanges DEF U8
<1>4. PICK S : S = Words \cup {h, c}
  OBVIOUS
<1>5. rest \in Seq(Words) /\ Len(rest) = n
  BY <1>2, Zenon DEF Row
<1>6. p.type \in ECHO => rest = <<U16(p.id), U16(p.seq)>>
  <2>1. p.type \in ECHO => p.type \notin TIMESTAMP /\ p.type \notin MASK /\ p.type \notin ERRORS
    BY DEF ECHO, TIMESTAMP, MASK, ERRORS
  <2> QED BY <2>1, Zenon DEF ICMPWords
<1> HIDE DEF h, rest, data
<1>7. t.tr[1] = h /\ Len(t.tr) = 2 + n
  <2>1. rest \in Seq(S) /\ h \in S /\ c \in S
    BY ONLY <1>4, <1>5
  <2>2. PICK s : s = <<h, c>> \o rest
    OBVIOUS
  <2>3. s[1] = h /\ Len(s) = 2 + Len(rest)
    BY ONLY <2>1, <2>2
  <2> QED BY ONLY <1>1, <1>5, <2>2, <2>3, Zenon
<1>8. ASSUME p.type \in ECHO
      PROVE  t.tr[3] = U16(p.id) /\ t.tr[4] = U16(p.seq)
  <2>1. PICK a, b : a = U16(p.id) /\ b = U16(p.seq)
    OBVIOUS
  <2>2. t.tr = <<h, c>> \o <<a, b>>
    BY ONLY <1>1, <1>6, <1>8, <2>1, Zenon
  <2>3. (<<h, c>> \o <<a, b>>)[3] = a /\ (<<h, c>> \o <<a, b>>)[4] = b
    <3>1. PICK T : T = {h, c, a, b}
      OBVIOUS
    <3>2. h \in T /\ c \in T /\ a \in T /\ b \in T
      BY ONLY <3>1
    <3> QED BY ONLY <3>2
  <2> QED BY ONLY <2>1, <2>2, <2>3, Zenon
<1>9. 2 + n \in Int /\ 4 <= 2 + n /\ 2 + n <= 16 /\ (n = 2 => 2 + n = 4)
  BY ONLY <1>2
<1>10. (p.type \in ECHO => t.body = p.data) /\ (p.type \notin ECHO => t.body = <<>>)
  BY <1>1 DEF data
<1>11. (p.type \in ECHO => Len(t.tr) = 4) /\ 4 <= Len(t.tr) /\ Len(t.tr) <= 16
  BY ONLY <1>2, <1>7, <1>9
<1> QED BY ONLY <1>7, <1>8, <1>10, <1>11, Zenon DEF h

-----------------------------------------------------------------------------
(* What is sent tells of the object and brings its data.                   *)

(* nativeSendPacket, field by field.                                       *)
NativeIs(f, s, p) ==
  /\ f.lt = EN10MB /\ f.type = U16(p.frametype) /\ SameHeaders(f, s)
  /\ f.caplen = 14 + Room(s.caplen) /\ f.body = s.body \o Zeros(Room(s.caplen) - s.caplen)

(* The fields of what nativeSendPacket makes are these.                     *)
LEMMA NativeExact ==
  ASSUME NEW p, NEW j, set_packet(p, j).caplen \in Int
  PROVE  NativeIs(nativeSendPacket(p, j), set_packet(p, j), p)
<1>0. PICK s : s = set_packet(p, j) /\ s.caplen \in Int
  OBVIOUS
<1> DEFINE pad == IF 14 + s.caplen < 60 THEN 46 - s.caplen ELSE 0
           g   == [s EXCEPT !.lt = EN10MB, !.type = U16(p.frametype),
                            !.caplen = 14 + s.caplen + pad, !.body = s.body \o Zeros(pad)]
<1>1. nativeSendPacket(p, j) = g
  BY <1>0, Zenon DEF nativeSendPacket
<1>2. DOMAIN s = Fields
  BY <1>0, SetPacketFields, Zenon
<1>3. /\ g.lt = EN10MB /\ g.type = U16(p.frametype) /\ g.caplen = 14 + s.caplen + pad
      /\ g.body = s.body \o Zeros(pad) /\ SameHeaders(g, s)
  <2> HIDE DEF pad
  <2> QED BY <1>2, SMT DEF Fields, SameHeaders
<1>4. pad = Room(s.caplen) - s.caplen /\ 14 + s.caplen + pad = 14 + Room(s.caplen)
  BY <1>0 DEF Room
<1> HIDE DEF pad, g
<1> QED BY ONLY <1>0, <1>1, <1>3, <1>4, Zenon DEF NativeIs

(* nativeSendPacketViaRawSocket.                                           *)
LEMMA RawExact ==
  ASSUME NEW p, NEW j, NEW s, s = set_packet(p, j), NEW f, f = nativeSendPacketViaRawSocket(p, j)
  PROVE  f.lt = RAW /\ f.caplen = s.caplen /\ f.body = s.body /\ SameHeaders(f, s)
<1> DEFINE g == [s EXCEPT !.lt = RAW]
<1>1. f = g
  BY Zenon DEF nativeSendPacketViaRawSocket
<1>2. DOMAIN s = Fields
  BY SetPacketFields, Zenon
<1>3. g.lt = RAW /\ g.caplen = s.caplen /\ g.body = s.body /\ SameHeaders(g, s)
  BY <1>2, SMT DEF Fields, SameHeaders
<1> HIDE DEF g
<1> QED BY <1>1, <1>3, Zenon

(* The data, and the length of the header, of what set_packet puts behind  *)
(* the header of IP.                                                       *)
LEMMA TransportBrings ==
  ASSUME NEW p, IsPacket(p), IsIP(p), NEW ip, NEW j \in Words, NEW t, t = Transport(p, ip, j),
         NEW s, TransportIsSet(p, s, t), HasData(p)
  PROVE  t.body = p.data /\ 2 * Len(t.tr) = HeaderOf(p)
<1>1. /\ p.class \in {"IPPacket", "TCPPacket", "UDPPacket", "ICMPPacket"}
      /\ p.class = "ICMPPacket" => HoldsICMP(p)
  BY PacketIP, Zenon
<1>2. CASE p.class = "TCPPacket"
  <2>1. t.body = p.data
    BY <1>2, SMT DEF Transport
  <2>2. Len(t.tr) = 10
    BY <1>2, Zenon DEF TransportIsSet
  <2> QED BY <1>2, <2>1, <2>2 DEF HeaderOf, TCPHDRLEN
<1>3. CASE p.class = "UDPPacket"
  <2>1. t.body = p.data
    BY <1>3, SMT DEF Transport
  <2>2. Len(t.tr) = 4
    BY <1>3, Zenon DEF TransportIsSet
  <2> QED BY <1>3, <2>1, <2>2 DEF HeaderOf
<1>4. CASE p.class = "ICMPPacket"
  <2>1. t = set_icmp(p, j)
    BY <1>4, SMT DEF Transport
  <2>2. p.type \in ECHO /\ p.type \in Handled
    BY <1>4, Zenon DEF HasData, Handled
  <2>3. Len(t.tr) = 4 /\ t.body = p.data
    BY <1>1, <1>4, <2>1, <2>2, ICMPMessage
  <2> QED BY <1>4, <2>3 DEF HeaderOf
<1>5. CASE p.class = "IPPacket"
  <2>1. t.body = p.data /\ t.tr = <<>>
    BY <1>5, SMT DEF Transport
  <2>2. Len(t.tr) = 0
    BY <2>1, EmptySeq, Zenon
  <2> QED BY <1>5, <2>1, <2>2 DEF HeaderOf
<1> QED BY <1>1, <1>2, <1>3, <1>4, <1>5

(* The transport header of the object is in the frame.                     *)
LEMMA TransportTells ==
  ASSUME NEW p, IsPacket(p), IsIP(p), Known(p), NEW ip, NEW j \in Words,
         NEW t, t = Transport(p, ip, j), t.tr \in Seq(Words),
         NEW f, f.tr = t.tr, p.class = "ICMPPacket" => f.len = 20 + LengthOf(t)
  PROVE  /\ p.class = "TCPPacket"  => TellsTCP(f, p)
         /\ p.class = "UDPPacket"  => TellsUDP(f, p)
         /\ p.class = "ICMPPacket" => TellsICMP(f, p)
<1>1. /\ p.class = "TCPPacket" => HoldsTCP(p)
      /\ p.class = "ICMPPacket" => HoldsICMP(p)
  BY PacketIP, Zenon
<1>2. ASSUME p.class = "TCPPacket"
      PROVE  TellsTCP(f, p)
  <2>1. f.tr = set_tcp(p, ip, j)
    BY <1>2, SMT DEF Transport
  <2>2. HoldsTCP(p)
    BY <1>1, <1>2
  <2>3. /\ f.tr[1] = U16(p.src_port) /\ f.tr[2] = U16(p.dst_port)
        /\ p.sequence = <<f.tr[3], f.tr[4]>> /\ p.ack_num = <<f.tr[5], f.tr[6]>>
        /\ BitsOf(f.tr[7], 0 .. 7) = p.flags \cap (0 .. 7)
        /\ f.tr[8] = U16(p.window) /\ f.tr[10] = U16(p.urgent_pointer)
    BY ONLY <2>1, <2>2, j \in Words, TCPWords
  <2> QED BY ONLY <2>3, Zenon DEF TellsTCP
<1>3. ASSUME p.class = "UDPPacket"
      PROVE  TellsUDP(f, p)
  <2>1. f.tr = set_udp(p, ip)
    BY <1>3, SMT DEF Transport
  <2> QED BY ONLY <2>1, UDPWords, Zenon DEF TellsUDP
<1>4. ASSUME p.class = "ICMPPacket"
      PROVE  TellsICMP(f, p)
  <2>1. t = set_icmp(p, j)
    BY <1>4, SMT DEF Transport
  <2>2. p.type \in Handled /\ HoldsICMP(p) /\ f.len = 20 + LengthOf(t)
    BY <1>1, <1>4, Zenon DEF Known
  <2>3. /\ t.tr[1] = 256 * U8(p.type) + U8(p.code)
        /\ p.type \in ECHO => /\ Len(t.tr) = 4 /\ t.body = p.data
                              /\ t.tr[3] = U16(p.id) /\ t.tr[4] = U16(p.seq)
        /\ p.type \notin ECHO => 4 <= Len(t.tr) /\ Len(t.tr) <= 16 /\ t.body = <<>>
    BY ONLY <2>1, <2>2, j \in Words, ICMPMessage
  <2>4. S8(U16(p.id)) = S8(p.id) /\ S8(U16(p.seq)) = S8(p.seq)
    <3>1. p.id \in Int /\ p.seq \in Int
      BY <2>2, ICMPNumbers
    <3> QED BY <3>1, CastsAgain
  <2>5. ASSUME p.type \notin ECHO
        PROVE  f.len = 20 + 2 * Len(f.tr)
    <3>1. Len(t.body) = 0
      BY <2>3, <2>5, EmptySeq, Zenon
    <3>2. LengthOf(t) = 2 * Len(t.tr)
      <4>1. Len(t.tr) \in Int
        BY LenProperties
      <4> QED BY ONLY <3>1, <4>1 DEF LengthOf
    <3> QED BY ONLY <2>2, <3>2, f.tr = t.tr, Zenon
  <2> QED BY ONLY <2>3, <2>4, <2>5, f.tr = t.tr, Zenon DEF TellsICMP
<1> QED BY <1>2, <1>3, <1>4

-----------------------------------------------------------------------------
(* An object that is sent, as the frame shows it: the protocol and whether *)
(* it is a fragment, and all of the above for those that keep it.          *)
SameKind(f, p) ==
  /\ IsIP(p) => nproto(f) = IF p.version = 4 THEN IP ELSE IPV6
  /\ IsIP(p) /\ p.version = 4 /\ p.offset = 0 => f.off % 8192 = 0
Shows(f, p) ==
  /\ SameKind(f, p)
  /\ Known(p) => Tells(f, p)
  /\ HasData(p) => Brings(f, p)

(* Data with a padding.                                                    *)
LEMMA Padded ==
  ASSUME NEW a, a \in Seq(Bytes), NEW n \in Nat
  PROVE  SubSeq(a \o Zeros(n), 1, Len(a)) = a
<1>1. PICK z : z = Zeros(n) /\ z \in Seq(Bytes)
  BY ZerosAreBytes, Zenon
<1>2. /\ a \o z \in Seq(Bytes) /\ Len(a \o z) = Len(a) + Len(z)
      /\ \A i \in 1 .. Len(a) : (a \o z)[i] = a[i]
  <2>1. z \in Seq(Bytes)
    BY <1>1
  <2> QED BY ONLY <2>1, a \in Seq(Bytes), Begins
<1>3. Len(a) <= Len(a \o z)
  <2>1. Len(a) \in Nat /\ Len(z) \in Nat
    BY <1>1, LenProperties, Zenon
  <2> QED BY ONLY <1>2, <2>1
<1> QED BY ONLY <1>1, <1>2, <1>3, a \in Seq(Bytes), BodyBegins, ZenonT(40)

(* The length of the datagram with the data of the object.                 *)
LEMMA SizeIs ==
  ASSUME NEW p, IsPacket(p), IsIP(p), NEW t, t.body = p.data, 2 * Len(t.tr) = HeaderOf(p),
         t.tr \in Seq(Words)
  PROVE  /\ Size(p) = (IF p.version = 4 THEN 20 ELSE 40) + LengthOf(t)
         /\ Size(p) \in Int /\ 20 <= Size(p) /\ Size(p) <= 1586
         /\ p.version # 4 => 40 <= Size(p)
<1>1. /\ Len(p.data) \in Nat
      /\ (IF p.version = 4 THEN 34 ELSE 54) + HeaderOf(p) + Len(p.data) <= MAX_PACKET_SIZE
  BY PacketIP, Zenon
<1>2. PICK h \in Int, k \in Int : h = HeaderOf(p) /\ k = Len(p.data) /\ 0 <= h /\ 0 <= k
  <2>1. HeaderOf(p) \in {0, 8, 20}
    BY ONLY DEF HeaderOf, TCPHDRLEN
  <2> QED BY ONLY <1>1, <2>1
<1>3. LengthOf(t) = h + k
  BY <1>2 DEF LengthOf
<1>4. (IF p.version = 4 THEN 34 ELSE 54) + h + k <= 1600
  BY <1>1, <1>2 DEF MAX_PACKET_SIZE
<1>5. Size(p) = (IF p.version = 4 THEN 20 ELSE 40) + (h + k)
  BY <1>2 DEF Size
<1> QED BY ONLY <1>2, <1>3, <1>4, <1>5

(* An object over IPv4 that is sent, framed by Ethernet or not.            *)
LEMMA Shows4 ==
  ASSUME NEW p, IsPacket(p), IsIP(p), p.version = 4, NEW j \in Words,
         NEW s, s = set_packet(p, j), NEW f, SameHeaders(f, s), nproto(f) = IP,
         \/ datalink_hlen(f) = 14 /\ f.lt # RAW /\ f.caplen = 14 + Room(s.caplen)
            /\ f.body = s.body \o Zeros(Room(s.caplen) - s.caplen)
         \/ datalink_hlen(f) = 0 /\ f.lt = RAW /\ f.caplen = s.caplen /\ f.body = s.body
  PROVE  Shows(f, p)
<1> DEFINE t == Transport(p, set_ip(p), j)
<1>1. Datagram4(s, p, t) /\ Written4(s, p)
  BY SetPacket4
<1>2. /\ s.tr = t.tr /\ s.body = t.body /\ s.len = 20 + LengthOf(t)
      /\ s.caplen = 20 + LengthOf(t) /\ s.p = Protocol(p)
      /\ Offset(s.off) = Offset(Swap16(p.offset)) /\ TransportIsSet(p, s, t)
  BY <1>1, Zenon DEF Datagram4
<1>3. t.tr \in Seq(Words) /\ t.body \in Seq(Bytes)
  BY <1>2, Zenon DEF TransportIsSet
<1>4. /\ f.tos = s.tos /\ f.len = s.len /\ f.id = s.id /\ f.off = s.off /\ f.ttl = s.ttl
      /\ f.p = s.p /\ f.src = s.src /\ f.dst = s.dst /\ f.tr = s.tr
  BY Zenon DEF SameHeaders
<1>5. ASSUME p.offset = 0
      PROVE  f.off % 8192 = 0
  <2>1. Offset(Swap16(0)) = 0
    BY DEF Offset, Swap16
  <2>2. Offset(f.off) = 0
    BY <1>2, <1>4, <1>5, <2>1, Zenon
  <2> QED BY ONLY <2>2 DEF Offset
<1>6. SameKind(f, p)
  BY <1>5 DEF SameKind
<1> HIDE DEF t
<1>7. ASSUME Known(p)
      PROVE  Tells(f, p)
  <2>1. f.tr = t.tr /\ f.len = 20 + LengthOf(t)
    BY <1>2, <1>4, Zenon
  <2>2. /\ p.class = "TCPPacket"  => TellsTCP(f, p)
        /\ p.class = "UDPPacket"  => TellsUDP(f, p)
        /\ p.class = "ICMPPacket" => TellsICMP(f, p)
    BY <1>3, <1>7, <2>1, TransportTells, Zenon DEF t
  <2>3. p.offset = 0
    BY <1>7, Zenon DEF Known
  <2>4. /\ f.tos = U8(TOSByte(p)) /\ f.id = U16(p.ident) /\ f.ttl = U8(p.hop_limit)
        /\ f.p = Protocol(p) /\ f.src = p.src /\ f.dst = p.dst
    BY <1>1, <1>2, <1>4, Zenon DEF Written4
  <2>5. Tells4(f, p)
    <3>1. f.off % 8192 = 0
      BY ONLY <1>5, <2>3
    <3> QED BY ONLY <3>1, <2>4, nproto(f) = IP, SMT DEF Tells4
  <2>6. p.class # "ARPPacket" /\ p.class # "Packet"
    BY DEF IsIP
  <2> QED BY ONLY <2>2, <2>5, <2>6, p.version = 4, Zenon DEF Tells
<1>8. ASSUME HasData(p)
      PROVE  Brings(f, p)
  <2>1. t.body = p.data /\ 2 * Len(t.tr) = HeaderOf(p)
    BY <1>2, <1>8, TransportBrings, Zenon DEF t
  <2>2. Size(p) = 20 + LengthOf(t) /\ Size(p) \in Int /\ Size(p) <= 1586 /\ 20 <= Size(p)
    BY <1>3, <2>1, SizeIs
  <2>3. s.caplen = Size(p) /\ f.len = Size(p) /\ 2 * Len(f.tr) = HeaderOf(p)
        /\ s.body = p.data
    <3>1. 2 * Len(f.tr) = HeaderOf(p)
      BY ONLY <1>2, <1>4, <2>1, Zenon
    <3> QED BY ONLY <1>2, <1>4, <2>1, <2>2, <3>1, Zenon
  <2>4. p.data \in Seq(Bytes) /\ Len(p.data) \in Nat
    BY PacketIP, Zenon
  <2>5. f.caplen = datalink_hlen(f) + (IF f.lt = RAW THEN Size(p) ELSE Room(Size(p)))
    <3>1. 0 + Size(p) = Size(p)
      BY <2>2
    <3> QED BY <2>3, <3>1, Zenon
  <2>6. SubSeq(f.body, 1, Len(p.data)) = p.data
    <3>1. CASE f.body = s.body \o Zeros(Room(s.caplen) - s.caplen)
      <4>1. Room(Size(p)) - Size(p) \in Nat
        BY <2>2 DEF Room
      <4>2. f.body = p.data \o Zeros(Room(Size(p)) - Size(p))
        BY <2>3, <3>1, Zenon
      <4> QED BY ONLY <2>4, <4>1, <4>2, Padded, Zenon
    <3>2. CASE f.body = s.body
      <4>1. Len(p.data) <= Len(p.data) /\ \A i \in 1 .. Len(p.data) : p.data[i] = p.data[i]
        BY <2>4
      <4>2. SubSeq(p.data, 1, Len(p.data)) = p.data
        BY ONLY <2>4, <4>1, BodyBegins, Zenon
      <4> QED BY ONLY <2>3, <3>2, <4>2, Zenon
    <3> QED BY <3>1, <3>2
  <2>7. Brings4(f, p)
    BY <2>3, <2>5, <2>6, Zenon DEF Brings4
  <2>8. p.class # "Packet"
    BY DEF IsIP
  <2> QED BY ONLY <2>7, <2>8, p.version = 4, Zenon DEF Brings
<1> QED BY <1>6, <1>7, <1>8 DEF Shows

(* One over IPv6.                                                          *)
LEMMA Shows6 ==
  ASSUME NEW p, IsPacket(p), IsIP(p), p.version # 4, NEW j \in Words,
         NEW s, s = set_packet(p, j), NEW f, SameHeaders(f, s), nproto(f) = IPV6,
         f.caplen = 14 + Room(s.caplen), f.body = s.body \o Zeros(Room(s.caplen) - s.caplen)
  PROVE  Shows(f, p)
<1> DEFINE t == Transport(p, set_ipv6(p), j)
<1>1. Datagram6(s, p, t) /\ Written6(s, p, t)
  BY SetPacket6
<1>2. /\ s.tr = t.tr /\ s.body = t.body /\ s.caplen = 40 + LengthOf(t) /\ s.nxt = Protocol(p)
      /\ TransportIsSet(p, s, t)
  BY <1>1, Zenon DEF Datagram6
<1>3. /\ s.ttl = U8(p.hop_limit) /\ s.src = p.src /\ s.dst = p.dst
      /\ s.flow = <<FlowWord(p), p.flow_label[2]>> /\ s.plen = Swap16(U16(40 + LengthOf(t)))
  BY <1>1, Zenon DEF Written6
<1>4. t.tr \in Seq(Words) /\ t.body \in Seq(Bytes)
  BY <1>2, Zenon DEF TransportIsSet
<1>5. /\ f.flow = s.flow /\ f.nxt = s.nxt /\ f.ttl = s.ttl /\ f.src = s.src /\ f.dst = s.dst
      /\ f.plen = s.plen /\ f.tr = s.tr
  BY Zenon DEF SameHeaders
<1>6. SameKind(f, p)
  BY DEF SameKind
<1>7. p.class # "ICMPPacket" /\ p.class # "ARPPacket" /\ p.class # "Packet"
  <2>1. p.class = "ICMPPacket" => p.version = 4
    BY PacketIP
  <2> QED BY <2>1 DEF IsIP
<1> HIDE DEF t
<1>8. ASSUME Known(p)
      PROVE  Tells(f, p)
  <2>1. f.tr = t.tr
    BY <1>2, <1>5, Zenon
  <2>2. /\ p.class = "TCPPacket"  => TellsTCP(f, p)
        /\ p.class = "UDPPacket"  => TellsUDP(f, p)
    BY <1>4, <1>7, <1>8, <2>1, TransportTells, Zenon DEF t
  <2>3. f.flow[1] = FlowWord(p) /\ f.flow[2] = p.flow_label[2]
    BY ONLY <1>3, <1>5, SMT
  <2>4. Tells6(f, p)
    BY ONLY <1>2, <1>3, <1>5, <2>3, nproto(f) = IPV6, Zenon DEF Tells6
  <2> QED BY ONLY <1>7, <2>2, <2>4, p.version # 4, Zenon DEF Tells
<1>9. ASSUME HasData(p)
      PROVE  Brings(f, p)
  <2>1. t.body = p.data /\ 2 * Len(t.tr) = HeaderOf(p)
    BY <1>2, <1>9, TransportBrings, Zenon DEF t
  <2>2. Size(p) = 40 + LengthOf(t) /\ Size(p) \in Int /\ Size(p) <= 1586 /\ 40 <= Size(p)
    BY <1>4, <2>1, SizeIs
  <2>3. s.caplen = Size(p) /\ 2 * Len(f.tr) = HeaderOf(p) /\ s.body = p.data
    <3>1. f.tr = t.tr /\ s.body = t.body /\ s.caplen = 40 + LengthOf(t)
      BY ONLY <1>2, <1>5, Zenon
    <3>2. Size(p) = 40 + LengthOf(t)
      BY ONLY <2>2, Zenon
    <3> QED BY ONLY <2>1, <3>1, <3>2, Zenon
  <2>4. f.body = Filled(p.data, Size(p)) /\ f.caplen = 14 + Room(Size(p))
    BY <2>3, Zenon DEF Filled
  <2>5. f.plen = Swap16(Size(p)) /\ Size(p) \in 40 .. Room(Size(p))
    <3>1. PICK n \in Int : n = Size(p) /\ n <= 1586 /\ 40 <= n
      BY ONLY <2>2
    <3>2. U16(n) = n /\ n \in 40 .. Room(n)
      BY ONLY <3>1 DEF U16, Room
    <3>3. f.plen = Swap16(U16(Size(p)))
      BY ONLY <1>3, <1>5, <2>2, SMT
    <3> QED BY ONLY <3>1, <3>2, <3>3, SMT
  <2>6. Brings6(f, p)
    BY <2>3, <2>4, <2>5, Zenon DEF Brings6
  <2> QED BY ONLY <1>7, <2>6, p.version # 4, Zenon DEF Brings
<1> QED BY <1>6, <1>8, <1>9 DEF Shows

-----------------------------------------------------------------------------
(* The message of ARP, and every other object.                             *)

(* The words of five parts, behind each other.                             *)
LEMMA FourteenWords ==
  ASSUME NEW S, NEW a \in S, NEW b \in S, NEW c \in S, NEW d \in S,
         NEW x1 \in S, NEW x2 \in S, NEW x3 \in S, NEW y1 \in S, NEW y2 \in S,
         NEW u1 \in S, NEW u2 \in S, NEW u3 \in S, NEW v1 \in S, NEW v2 \in S,
         NEW s, s = <<a, b, c, d>> \o <<x1, x2, x3>> \o <<y1, y2>> \o <<u1, u2, u3>> \o <<v1, v2>>
  PROVE  /\ s \in Seq(S) /\ Len(s) = 14
         /\ s[1] = a /\ s[2] = b /\ s[4] = d /\ s[5] = x1 /\ s[6] = x2 /\ s[7] = x3
         /\ s[8] = y1 /\ s[9] = y2 /\ s[10] = u1 /\ s[11] = u2 /\ s[12] = u3
         /\ s[13] = v1 /\ s[14] = v2
  OBVIOUS

(* Two words of a sequence.                                                *)
LEMMA PartOfTwo ==
  ASSUME NEW s, s \in Seq(Words), NEW n \in Int, NEW m \in Int, m = n + 1, 1 <= n, m <= Len(s)
  PROVE  SubSeq(s, n, m) = <<s[n], s[m]>>
<1>1. \A i \in n .. m : s[i] \in Words
  BY LenProperties
<1>2. PICK t : t = SubSeq(s, n, m) /\ t \in Seq(Words) /\ Len(t) = m - n + 1
               /\ \A i \in 1 .. m - n + 1 : t[i] = s[n + i - 1]
  <2>1. n <= m + 1
    OBVIOUS
  <2>2. /\ SubSeq(s, n, m) \in Seq(Words) /\ Len(SubSeq(s, n, m)) = m - n + 1
        /\ \A i \in 1 .. m - n + 1 : SubSeq(s, n, m)[i] = s[n + i - 1]
    BY <1>1, <2>1, SubSeqIs
  <2> QED BY ONLY <2>2, Zenon
<1>3. Len(t) = 2 /\ t[1] = s[n] /\ t[2] = s[m]
  <2>1. m - n + 1 = 2 /\ 1 \in 1 .. 2 /\ 2 \in 1 .. 2 /\ n + 1 - 1 = n /\ n + 2 - 1 = m
    OBVIOUS
  <2> QED BY ONLY <1>2, <2>1, Zenon
<1>4. t = <<t[1], t[2]>>
  <2>1. t \in [1 .. 2 -> Words]
    BY ONLY <1>2, <1>3, LenProperties, Zenon
  <2> QED BY ONLY <2>1
<1> QED BY ONLY <1>2, <1>3, <1>4, Zenon

(* Three of them.                                                          *)
ThreeOf(s, n, l, m) == SubSeq(s, n, m) = <<s[n], s[l], s[m]>>

(* A part of three words is them.                                           *)
LEMMA PartOfThree ==
  ASSUME NEW s, s \in Seq(Words), NEW n \in Int, NEW l \in Int, NEW m \in Int, l = n + 1,
         m = n + 2, 1 <= n, m <= Len(s)
  PROVE  ThreeOf(s, n, l, m)
<1>1. \A i \in n .. m : s[i] \in Words
  BY LenProperties
<1>2. PICK t : t = SubSeq(s, n, m) /\ t \in Seq(Words) /\ Len(t) = m - n + 1
               /\ \A i \in 1 .. m - n + 1 : t[i] = s[n + i - 1]
  <2>1. n <= m + 1
    OBVIOUS
  <2>2. /\ SubSeq(s, n, m) \in Seq(Words) /\ Len(SubSeq(s, n, m)) = m - n + 1
        /\ \A i \in 1 .. m - n + 1 : SubSeq(s, n, m)[i] = s[n + i - 1]
    BY <1>1, <2>1, SubSeqIs
  <2> QED BY ONLY <2>2, Zenon
<1>3. Len(t) = 3 /\ t[1] = s[n] /\ t[2] = s[l] /\ t[3] = s[m]
  <2>1. /\ m - n + 1 = 3 /\ 1 \in 1 .. 3 /\ 2 \in 1 .. 3 /\ 3 \in 1 .. 3
        /\ n + 1 - 1 = n /\ n + 2 - 1 = l /\ n + 3 - 1 = m
    OBVIOUS
  <2> QED BY ONLY <1>2, <2>1, Zenon
<1>4. t = <<t[1], t[2], t[3]>>
  <2>1. t \in [1 .. 3 -> Words]
    BY ONLY <1>2, <1>3, LenProperties, Zenon
  <2> QED BY ONLY <2>1
<1> QED BY ONLY <1>2, <1>3, <1>4, Zenon DEF ThreeOf

(* An address of Ethernet as the words it consists of.                     *)
LEMMA TripleIs ==
  ASSUME NEW w, w \in [1 .. 3 -> Words]
  PROVE  w = <<w[1], w[2], w[3]>> /\ w[1] \in Words /\ w[2] \in Words /\ w[3] \in Words
  OBVIOUS

(* What set_arp writes.                                                    *)
LEMMA ARPWords ==
  ASSUME NEW p, HoldsARP(p), NEW w, w = set_arp(p)
  PROVE  /\ w \in Seq(Words) /\ Len(w) = 14
         /\ w[1] = U16(p.hardtype) /\ w[2] = U16(p.prototype) /\ w[4] = U16(p.operation)
         /\ p.sender_hardaddr = SubSeq(w, 5, 7) /\ p.sender_protoaddr = SubSeq(w, 8, 9)
         /\ p.target_hardaddr = SubSeq(w, 10, 12) /\ p.target_protoaddr = SubSeq(w, 13, 14)
<1> DEFINE a == U16(p.hardtype)
           b == U16(p.prototype)
           c == 256 * U8(p.hlen) + U8(p.plen)
           d == U16(p.operation)
<1>1. w = <<a, b, c, d>> \o p.sender_hardaddr \o p.sender_protoaddr \o p.target_hardaddr
          \o p.target_protoaddr
  BY SMT DEF set_arp
<1>2. /\ p.sender_hardaddr \in [1 .. 3 -> Words] /\ p.sender_protoaddr \in Pairs
      /\ p.target_hardaddr \in [1 .. 3 -> Words] /\ p.target_protoaddr \in Pairs
  BY Zenon DEF HoldsARP
<1>3. a \in Words /\ b \in Words /\ c \in Words /\ d \in Words
  <2>1. /\ p.hardtype \in Int /\ p.prototype \in Int /\ p.operation \in Int
        /\ p.hlen = 6 /\ p.plen = 4
    BY DEF HoldsARP
  <2>2. c = 1540
    BY <2>1 DEF U8
  <2>3. 1540 \in Words
    BY RangeIsWord
  <2> HIDE DEF c
  <2>4. c \in Words
    BY ONLY <2>2, <2>3
  <2> QED BY <2>1, <2>4, NumberRanges
<1> HIDE DEF a, b, c, d
<1>4. PICK x1 \in Words, x2 \in Words, x3 \in Words : p.sender_hardaddr = <<x1, x2, x3>>
  BY <1>2, TripleIs
<1>5. PICK y1 \in Words, y2 \in Words : p.sender_protoaddr = <<y1, y2>>
  BY <1>2, PairIs
<1>6. PICK u1 \in Words, u2 \in Words, u3 \in Words : p.target_hardaddr = <<u1, u2, u3>>
  BY <1>2, TripleIs
<1>7. PICK v1 \in Words, v2 \in Words : p.target_protoaddr = <<v1, v2>>
  BY <1>2, PairIs
<1>8. w = <<a, b, c, d>> \o <<x1, x2, x3>> \o <<y1, y2>> \o <<u1, u2, u3>> \o <<v1, v2>>
  BY ONLY <1>1, <1>4, <1>5, <1>6, <1>7, Zenon
<1>9. /\ w \in Seq(Words) /\ Len(w) = 14
      /\ w[1] = a /\ w[2] = b /\ w[4] = d /\ w[5] = x1 /\ w[6] = x2 /\ w[7] = x3
      /\ w[8] = y1 /\ w[9] = y2 /\ w[10] = u1 /\ w[11] = u2 /\ w[12] = u3
      /\ w[13] = v1 /\ w[14] = v2
  BY ONLY <1>3, <1>8, x1 \in Words, x2 \in Words, x3 \in Words, y1 \in Words, y2 \in Words,
     u1 \in Words, u2 \in Words, u3 \in Words, v1 \in Words, v2 \in Words, FourteenWords
<1>10. /\ SubSeq(w, 5, 7) = <<w[5], w[6], w[7]>> /\ SubSeq(w, 10, 12) = <<w[10], w[11], w[12]>>
       /\ SubSeq(w, 8, 9) = <<w[8], w[9]>> /\ SubSeq(w, 13, 14) = <<w[13], w[14]>>
  <2>1. w \in Seq(Words) /\ Len(w) = 14
    BY <1>9
  <2>2. SubSeq(w, 5, 7) = <<w[5], w[6], w[7]>> /\ SubSeq(w, 10, 12) = <<w[10], w[11], w[12]>>
    <3>1. /\ 5 \in Int /\ 6 \in Int /\ 7 \in Int /\ 6 = 5 + 1 /\ 7 = 5 + 2 /\ 1 <= 5 /\ 7 <= 14
          /\ 10 \in Int /\ 11 \in Int /\ 12 \in Int /\ 11 = 10 + 1 /\ 12 = 10 + 2
          /\ 1 <= 10 /\ 12 <= 14
      OBVIOUS
    <3>2. ThreeOf(w, 5, 6, 7)
      BY ONLY <2>1, <3>1, PartOfThree, Zenon
    <3>3. ThreeOf(w, 10, 11, 12)
      BY ONLY <2>1, <3>1, PartOfThree, Zenon
    <3> QED BY ONLY <3>2, <3>3, Zenon DEF ThreeOf
  <2>3. SubSeq(w, 8, 9) = <<w[8], w[9]>> /\ SubSeq(w, 13, 14) = <<w[13], w[14]>>
    <3>1. /\ 8 \in Int /\ 9 \in Int /\ 9 = 8 + 1 /\ 1 <= 8 /\ 9 <= 14
          /\ 13 \in Int /\ 14 \in Int /\ 14 = 13 + 1 /\ 1 <= 13 /\ 14 <= 14
      OBVIOUS
    <3> QED BY ONLY <2>1, <3>1, PartOfTwo, Zenon
  <2> QED BY <2>2, <2>3
<1> QED BY ONLY <1>4, <1>5, <1>6, <1>7, <1>9, <1>10, Zenon DEF a, b, d

(* The frame of a message of ARP,                                          *)
LEMMA ShowsARP ==
  ASSUME NEW p, IsPacket(p), p.class = "ARPPacket", NEW j, NEW s, s = set_packet(p, j),
         NEW f, SameHeaders(f, s), f.lt = EN10MB, f.type = U16(p.frametype),
         f.caplen = 14 + Room(s.caplen)
  PROVE  Shows(f, p)
<1>1. HoldsARP(p) /\ U16(p.frametype) = ARP
  BY SMT DEF IsPacket
<1>2. ~IsIP(p) /\ p.class # "Packet"
  BY DEF IsIP
<1>3. s.tr = set_arp(p) /\ s.caplen = 28
  <2>1. MessageARP(s)
    BY <1>1, SetPacketARP
  <2>2. s = [Blank EXCEPT !.hln = U8(p.hlen), !.pln = U8(p.plen), !.caplen = 2 * Len(set_arp(p)),
                          !.tr = set_arp(p)]
    BY <1>2, Zenon DEF set_packet
  <2>3. s.tr = set_arp(p)
    BY ONLY <2>2, SMT DEF Blank
  <2> QED BY <2>1, <2>3, Zenon DEF MessageARP
<1>4. f.tr = set_arp(p) /\ f.caplen = 60
  <2>1. f.tr = s.tr
    BY Zenon DEF SameHeaders
  <2>2. Room(28) = 46
    BY DEF Room
  <2> QED BY ONLY <1>3, <2>1, <2>2, f.caplen = 14 + Room(s.caplen), SMT
<1>5. nproto(f) = ARP
  BY ONLY <1>1, f.lt = EN10MB, f.type = U16(p.frametype) DEF nproto, RAW, EN10MB, IEEE802
<1>6. /\ f.tr[1] = U16(p.hardtype) /\ f.tr[2] = U16(p.prototype) /\ f.tr[4] = U16(p.operation)
      /\ p.sender_hardaddr = SubSeq(f.tr, 5, 7) /\ p.sender_protoaddr = SubSeq(f.tr, 8, 9)
      /\ p.target_hardaddr = SubSeq(f.tr, 10, 12) /\ p.target_protoaddr = SubSeq(f.tr, 13, 14)
  <2>1. PICK w : w = set_arp(p)
    OBVIOUS
  <2>2. /\ w[1] = U16(p.hardtype) /\ w[2] = U16(p.prototype) /\ w[4] = U16(p.operation)
        /\ p.sender_hardaddr = SubSeq(w, 5, 7) /\ p.sender_protoaddr = SubSeq(w, 8, 9)
        /\ p.target_hardaddr = SubSeq(w, 10, 12) /\ p.target_protoaddr = SubSeq(w, 13, 14)
    BY ONLY <1>1, <2>1, ARPWords
  <2> QED BY ONLY <1>4, <2>1, <2>2, Zenon
<1>7. TellsARP(f, p)
  BY ONLY <1>4, <1>5, <1>6, Zenon DEF TellsARP
<1>8. Tells(f, p) /\ Brings(f, p) /\ SameKind(f, p)
  <2>1. p.class # "TCPPacket" /\ p.class # "UDPPacket" /\ p.class # "ICMPPacket"
    OBVIOUS
  <2> QED BY ONLY <1>2, <1>7, <2>1, SMT DEF Tells, Brings, SameKind
<1> QED BY <1>8, Zenon DEF Shows

(* and that of any other object.                                           *)
LEMMA ShowsPlain ==
  ASSUME NEW p, IsPacket(p), p.class = "Packet", NEW j, NEW s, s = set_packet(p, j),
         NEW f, f.lt = EN10MB, f.type = U16(p.frametype),
         f.caplen = 14 + Room(s.caplen), f.body = s.body \o Zeros(Room(s.caplen) - s.caplen)
  PROVE  Shows(f, p)
<1>1. s.body = p.data /\ s.caplen = Len(p.data)
  BY SetPacketPlain, Zenon DEF Plain
<1>2. ~IsIP(p)
  BY DEF IsIP
<1>3. nproto(f) = U16(p.frametype)
  BY ONLY f.lt = EN10MB, f.type = U16(p.frametype) DEF nproto, RAW, EN10MB, IEEE802
<1>4. BringsPlain(f, p)
  <2>1. f.caplen = 14 + Room(Len(p.data)) /\ f.body = Filled(p.data, Len(p.data))
    BY <1>1, Zenon DEF Filled
  <2> QED BY ONLY <2>1, Zenon DEF BringsPlain
<1>5. Tells(f, p) /\ Brings(f, p) /\ SameKind(f, p)
  <2>1. p.class # "TCPPacket" /\ p.class # "UDPPacket" /\ p.class # "ICMPPacket"
        /\ p.class # "ARPPacket"
    OBVIOUS
  <2> QED BY ONLY <1>2, <1>3, <1>4, <2>1, SMT DEF Tells, Brings, SameKind
<1> QED BY <1>5, Zenon DEF Shows

(* Whatever object nativeSendPacket is given, the frame shows it.          *)
LEMMA NativeShows ==
  ASSUME NEW p, IsPacket(p), NEW j \in Words, NEW f, f = nativeSendPacket(p, j)
  PROVE  Shows(f, p)
<1>1. PICK s : s = set_packet(p, j)
  OBVIOUS
<1>2. s.caplen \in Int
  <2>1. CASE IsIP(p) /\ p.version = 4
    <3>1. Datagram4(s, p, Transport(p, set_ip(p), j))
      BY <1>1, <2>1, SetPacket4
    <3>2. s.caplen = 20 + LengthOf(Transport(p, set_ip(p), j))
          /\ LengthOf(Transport(p, set_ip(p), j)) \in Int
      BY <3>1, Zenon DEF Datagram4, TransportIsSet
    <3> QED BY ONLY <3>2
  <2>2. CASE IsIP(p) /\ p.version # 4
    <3>1. Datagram6(s, p, Transport(p, set_ipv6(p), j))
      BY <1>1, <2>2, SetPacket6
    <3>2. s.caplen = 40 + LengthOf(Transport(p, set_ipv6(p), j))
          /\ LengthOf(Transport(p, set_ipv6(p), j)) \in Int
      BY <3>1, Zenon DEF Datagram6, TransportIsSet
    <3> QED BY ONLY <3>2
  <2>3. CASE p.class = "ARPPacket"
    <3>1. HoldsARP(p)
      BY <2>3, SMT DEF IsPacket
    <3>2. s.caplen = 28
      BY <1>1, <2>3, <3>1, SetPacketARP DEF MessageARP
    <3> QED BY ONLY <3>2
  <2>4. CASE p.class = "Packet"
    <3>1. p.data \in Seq(Bytes)
      BY <2>4, SMT DEF IsPacket
    <3>2. s.caplen = Len(p.data)
      BY <1>1, <2>4, SetPacketPlain, Zenon DEF Plain
    <3> QED BY <3>1, <3>2, LenProperties
  <2>5. p.class \in {"Packet", "ARPPacket"} \/ IsIP(p)
    BY SMT DEF IsPacket
  <2> QED BY <2>1, <2>2, <2>3, <2>4, <2>5
<1>3. /\ f.lt = EN10MB /\ f.type = U16(p.frametype) /\ SameHeaders(f, s)
      /\ f.caplen = 14 + Room(s.caplen) /\ f.body = s.body \o Zeros(Room(s.caplen) - s.caplen)
  <2>1. set_packet(p, j).caplen \in Int
    BY ONLY <1>1, <1>2
  <2>2. NativeIs(nativeSendPacket(p, j), set_packet(p, j), p)
    BY ONLY <2>1, NativeExact, Zenon
  <2>3. NativeIs(f, s, p)
    BY ONLY <1>1, <2>2, f = nativeSendPacket(p, j), Zenon
  <2> QED BY ONLY <2>3, Zenon DEF NativeIs
<1>4. CASE IsIP(p) /\ p.version = 4
  <2>1. U16(p.frametype) = IP
    BY <1>4, SMT DEF IsPacket
  <2>2. nproto(f) = IP /\ datalink_hlen(f) = 14 /\ f.lt # RAW
    BY ONLY <1>3, <2>1 DEF nproto, datalink_hlen, RAW, EN10MB, IEEE802
  <2> QED BY <1>1, <1>3, <1>4, <2>2, Shows4, Zenon
<1>5. CASE IsIP(p) /\ p.version # 4
  <2>1. U16(p.frametype) = IPV6
    BY <1>5, SMT DEF IsPacket
  <2>2. nproto(f) = IPV6
    BY ONLY <1>3, <2>1 DEF nproto, RAW, EN10MB, IEEE802
  <2> QED BY <1>1, <1>3, <1>5, <2>2, Shows6, Zenon
<1>6. CASE p.class = "ARPPacket"
  BY <1>1, <1>3, <1>6, ShowsARP, Zenon
<1>7. CASE p.class = "Packet"
  BY <1>1, <1>3, <1>7, ShowsPlain, Zenon
<1>8. p.class \in {"Packet", "ARPPacket"} \/ IsIP(p)
  BY SMT DEF IsPacket
<1> QED BY <1>4, <1>5, <1>6, <1>7, <1>8

(* So does that of nativeSendPacketViaRawSocket.                           *)
LEMMA RawShows ==
  ASSUME NEW p, IsPacket(p), IsIP(p), p.version = 4, NEW j \in Words,
         NEW f, f = nativeSendPacketViaRawSocket(p, j)
  PROVE  Shows(f, p)
<1>1. PICK s : s = set_packet(p, j)
  OBVIOUS
<1>2. f.lt = RAW /\ f.caplen = s.caplen /\ f.body = s.body /\ SameHeaders(f, s)
  BY ONLY <1>1, f = nativeSendPacketViaRawSocket(p, j), RawExact, SMT
<1>3. nproto(f) = IP /\ datalink_hlen(f) = 0
  BY ONLY <1>2 DEF nproto, datalink_hlen, RAW, EN10MB, IEEE802
<1> QED BY <1>1, <1>2, <1>3, Shows4, Zenon

-----------------------------------------------------------------------------
(* The class of what is got from a frame that tells of an object.          *)

(* The protocol that get_packet detects in a datagram that is no fragment, *)
(* framed by Ethernet or not.                                              *)
LEMMA Detected4 ==
  ASSUME NEW f, Sound(f), nproto(f) = IP, f.off % 8192 = 0, NEW j \in Words
  PROVE  /\ f.p = TCP => tproto(f, j) = TCP
         /\ f.p = UDP => tproto(f, j) = UDP
         /\ f.p = ICMP /\ 4 <= Len(f.tr) => tproto(f, j) = ICMP
         /\ f.p \notin {TCP, UDP, ICMP} => tproto(f, j) \notin {TCP, UDP, ICMP}
<1>1. /\ f.tr \in Seq(Words) /\ f.body \in Seq(Bytes) /\ f.hl = 5
      /\ f.caplen = datalink_hlen(f) + NetworkHlen(f) + 2 * Len(f.tr) + Len(f.body)
      /\ Holds(f, TCP) => Len(f.tr) = 10
      /\ Holds(f, UDP) => Len(f.tr) = 4
  <2>1. nproto(f) # ARP
    BY DEF IP, ARP
  <2>2. f.hl = 5
    BY ONLY Sound(f), nproto(f) = IP, Zenon DEF Sound, Sound4
  <2> QED BY ONLY Sound(f), <2>1, <2>2, Zenon DEF Sound
<1>0. PICK h \in Int : h = datalink_hlen(f) /\ h \in {0, 14}
  BY SoundLengths
<1>2. PICK c \in Int : c = f.caplen /\ 0 <= c /\ c <= 1600
  BY SoundLengths
<1>3. PICK r \in Int, b \in Int : r = Len(f.tr) /\ b = Len(f.body) /\ 0 <= r /\ 0 <= b
  BY <1>1, LenProperties
<1>4. c = h + 20 + 2 * r + b
  <2>1. NetworkHlen(f) = 20
    BY SoundNetworkHlen
  <2> QED BY ONLY <1>0, <1>1, <1>2, <1>3, <2>1
<1>5. PICK l \in Int : l = LinkClen(f) /\ l = c - h
  <2>1. S16(c) = c /\ S16(c - h) = c - h
    BY ONLY <1>0, <1>2, <1>4, <1>3, ShortIsSame, h \in Int, c \in Int, r \in Int, b \in Int
  <2>2. LinkClen(f) = c - h
    BY ONLY <1>0, <1>2, <2>1, SMT DEF LinkClen
  <2>3. c - h \in Int
    BY ONLY h \in Int, c \in Int
  <2> QED BY ONLY <2>2, <2>3
<1>10. LinkClen(f) \in Int /\ 0 < LinkClen(f)
  <2>1. l = LinkClen(f)
    BY ONLY <1>5
  <2>2. 0 <= r /\ 0 <= b /\ l = c - h
    BY ONLY <1>3, <1>5, Zenon
  <2>3. 0 < l
    BY ONLY <1>4, <2>2, h \in Int, c \in Int, r \in Int, b \in Int, l \in Int
  <2> QED BY ONLY <2>1, <2>3, l \in Int, Zenon
<1>11. PICK k \in Int : k = 2 * r + b
  BY ONLY r \in Int, b \in Int
<1>6. NetworkClen(f) = k
  <2>1. ~(LinkClen(f) <= 0)
    BY ONLY <1>10
  <2>2. NetworkClen(f) = LinkClen(f) - 4 * f.hl
    BY ONLY nproto(f) = IP, <2>1, SMT DEF NetworkClen, IP, IPV6, ARP
  <2>3. NetworkClen(f) = (c - h) - 4 * 5
    BY ONLY <1>1, <1>5, <2>2, Zenon
  <2>4. (c - h) - 4 * 5 = k
    BY ONLY <1>4, <1>11, k \in Int, h \in Int, c \in Int, r \in Int, b \in Int
  <2> QED BY ONLY <2>3, <2>4, Zenon
<1>7. Detected(f, j) = IF k > 0 THEN f.p ELSE IP
  <2>1. ~(LinkClen(f) <= 0)
    BY ONLY <1>10
  <2>2. Detected(f, j) = DetectedIP(f)
    BY ONLY nproto(f) = IP, <2>1, SMT DEF Detected, IP, IPV6, ARP
  <2>3. ~IsFragment(f)
    BY ONLY f.off % 8192 = 0, SMT DEF IsFragment
  <2> QED BY ONLY <1>6, <2>2, <2>3, SMT DEF DetectedIP
<1>8. /\ f.p = TCP => r = 10
      /\ f.p = UDP => r = 4
  <2>1. ~IsFragment(f)
    BY ONLY f.off % 8192 = 0, SMT DEF IsFragment
  <2> QED BY ONLY <1>1, <1>3, <2>1, nproto(f) = IP, Zenon DEF Holds
<1>9. tproto(f, j) = IF Truncated(Detected(f, j), k) THEN UNKNOWN_PROTO ELSE Detected(f, j)
  BY ONLY <1>6, Zenon DEF tproto
<1>16. f.p = ICMP /\ 4 <= Len(f.tr) => 4 <= r
  BY ONLY <1>3, SMT
<1>12. /\ f.p = TCP => k >= 20
       /\ f.p = UDP => k >= 8
       /\ f.p = ICMP /\ 4 <= Len(f.tr) => k >= 8
  <2>1. 0 <= r /\ 0 <= b
    BY ONLY <1>3, Zenon
  <2>2. /\ r = 10 => k >= 20
        /\ 4 <= r => k >= 8
        /\ r = 4 => k >= 8
    BY ONLY <1>11, <2>1, k \in Int, r \in Int, b \in Int
  <2> QED BY ONLY <1>8, <1>16, <2>2, Zenon
<1>17. /\ f.p = TCP => Detected(f, j) = TCP
       /\ f.p = UDP => Detected(f, j) = UDP
       /\ f.p = ICMP /\ 4 <= Len(f.tr) => Detected(f, j) = ICMP
       /\ f.p \notin {TCP, UDP, ICMP} => Detected(f, j) \notin {TCP, UDP, ICMP}
  <2>1. /\ f.p = TCP => k > 0
        /\ f.p = UDP => k > 0
        /\ f.p = ICMP /\ 4 <= Len(f.tr) => k > 0
    BY ONLY <1>12, k \in Int
  <2>2. IP \notin {TCP, UDP, ICMP}
    BY DEF IP, TCP, UDP, ICMP
  <2> QED BY ONLY <1>7, <2>1, <2>2
<1>18. /\ k >= 20 => ~Truncated(TCP, k)
       /\ k >= 8 => ~Truncated(UDP, k) /\ ~Truncated(ICMP, k)
  BY ONLY k \in Int DEF Truncated, TCP, UDP, ICMP, TCPHDRLEN, UDPHDRLEN, ICMPHDRLEN
<1>19. UNKNOWN_PROTO \notin {TCP, UDP, ICMP}
  BY DEF UNKNOWN_PROTO, TCP, UDP, ICMP
<1> QED BY ONLY <1>9, <1>12, <1>17, <1>18, <1>19, Zenon

(* The class, once the protocol is detected.                               *)
LEMMA ClassIs ==
  ASSUME NEW f, nproto(f) \in {IP, IPV6}, NEW j
  PROVE  /\ tproto(f, j) = TCP  => Class(f, j) = "TCPPacket"
         /\ tproto(f, j) = UDP  => Class(f, j) = "UDPPacket"
         /\ tproto(f, j) = ICMP => Class(f, j) = "ICMPPacket"
         /\ tproto(f, j) \notin {TCP, UDP, ICMP} => Class(f, j) = "IPPacket"
  BY SMT DEF Class, TCP, UDP, ICMP, IP, IPV6, ARP, REVARP

(* A datagram of an object without a transport header.                     *)
LEMMA PlainProtocol ==
  ASSUME NEW p, IsPacket(p), Known(p), p.class = "IPPacket"
  PROVE  Protocol(p) \notin {TCP, UDP, ICMP}
<1>1. IsIP(p) /\ p.offset = 0
  BY Zenon DEF Known, IsIP
<1>2. Swap16(0) % 8192 = 0
  BY DEF Swap16
<1>3. U8(p.protocol) \notin {ICMP, TCP, UDP}
  <2>1. U8(p.protocol) \in {ICMP, TCP, UDP} => Swap16(p.offset) % 8192 # 0
    BY SMT DEF IsPacket
  <2> QED BY ONLY <1>1, <1>2, <2>1, SMT
<1>4. Protocol(p) = U8(p.protocol)
  BY Zenon DEF Protocol
<1> QED BY ONLY <1>3, <1>4, Zenon

(* get_packet gives the object its class again.                            *)
LEMMA ClassIsRead ==
  ASSUME NEW f, Sound(f), NEW p, IsPacket(p), Known(p), Tells(f, p), NEW j \in Words
  PROVE  Class(f, j) = p.class
<1>1. /\ p.class = "TCPPacket"  => Protocol(p) = TCP
      /\ p.class = "UDPPacket"  => Protocol(p) = UDP
      /\ p.class = "ICMPPacket" => Protocol(p) = ICMP /\ p.version = 4
      /\ p.class = "IPPacket"   => Protocol(p) \notin {TCP, UDP, ICMP}
  <2>1. p.class = "ICMPPacket" => p.version = 4
    BY SMT DEF IsPacket
  <2>2. /\ p.class = "TCPPacket"  => Protocol(p) = TCP
        /\ p.class = "UDPPacket"  => Protocol(p) = UDP
        /\ p.class = "ICMPPacket" => Protocol(p) = ICMP
    BY ONLY SMT DEF Protocol
  <2> QED BY ONLY <2>1, <2>2, IsPacket(p), Known(p), PlainProtocol, Zenon
<1>2. p.class \in {"Packet", "ARPPacket"} \/ IsIP(p)
  BY SMT DEF IsPacket
<1>3. CASE IsIP(p) /\ p.version = 4
  <2>1. nproto(f) = IP /\ f.off % 8192 = 0 /\ f.p = Protocol(p)
    <3>1. Tells4(f, p)
      BY ONLY <1>3, Tells(f, p), SMT DEF Tells
    <3> QED BY ONLY <3>1, SMT DEF Tells4
  <2>2. p.class = "ICMPPacket" => 4 <= Len(f.tr)
    <3>1. p.class = "ICMPPacket" => TellsICMP(f, p)
      BY ONLY Tells(f, p), SMT DEF Tells
    <3>2. TellsICMP(f, p) => 4 <= Len(f.tr)
      BY ONLY SMT DEF TellsICMP
    <3> QED BY ONLY <3>1, <3>2
  <2>3. /\ f.p = TCP => tproto(f, j) = TCP
        /\ f.p = UDP => tproto(f, j) = UDP
        /\ f.p = ICMP /\ 4 <= Len(f.tr) => tproto(f, j) = ICMP
        /\ f.p \notin {TCP, UDP, ICMP} => tproto(f, j) \notin {TCP, UDP, ICMP}
    BY ONLY <2>1, Sound(f), j \in Words, Detected4
  <2>4. nproto(f) \in {IP, IPV6}
    BY ONLY <2>1
  <2>5. /\ tproto(f, j) = TCP  => Class(f, j) = "TCPPacket"
        /\ tproto(f, j) = UDP  => Class(f, j) = "UDPPacket"
        /\ tproto(f, j) = ICMP => Class(f, j) = "ICMPPacket"
        /\ tproto(f, j) \notin {TCP, UDP, ICMP} => Class(f, j) = "IPPacket"
    BY ONLY <2>4, ClassIs
  <2> QED BY ONLY <1>1, <1>3, <2>1, <2>2, <2>3, <2>5, SMT DEF IsIP
<1>4. CASE IsIP(p) /\ p.version # 4
  <2>1. nproto(f) = IPV6 /\ f.nxt = Protocol(p)
    <3>1. Tells6(f, p)
      BY ONLY <1>4, Tells(f, p), SMT DEF Tells
    <3> QED BY ONLY <3>1, SMT DEF Tells6
  <2>2. f.lt = EN10MB
    <3>1. f.lt = RAW \/ f.lt = EN10MB
      BY Zenon DEF Sound
    <3> QED BY ONLY <2>1, <3>1 DEF nproto, RAW, EN10MB, IP, IPV6, IEEE802
  <2>3. tproto(f, j) = f.nxt
    BY <2>1, <2>2, EthernetDetected
  <2>4. nproto(f) \in {IP, IPV6}
    BY ONLY <2>1
  <2>5. /\ tproto(f, j) = TCP  => Class(f, j) = "TCPPacket"
        /\ tproto(f, j) = UDP  => Class(f, j) = "UDPPacket"
        /\ tproto(f, j) \notin {TCP, UDP, ICMP} => Class(f, j) = "IPPacket"
    BY ONLY <2>4, ClassIs
  <2> QED BY ONLY <1>1, <1>4, <2>1, <2>3, <2>5, SMT DEF IsIP
<1>5. CASE p.class = "ARPPacket"
  <2>1. nproto(f) = ARP
    <3>1. TellsARP(f, p)
      BY ONLY <1>5, Tells(f, p), SMT DEF Tells
    <3> QED BY ONLY <3>1, SMT DEF TellsARP
  <2>2. ARP \notin {IP, IPV6}
    BY DEF ARP, IP, IPV6
  <2> QED BY ONLY <1>5, <2>1, <2>2, Sound(f), j \in Words, ClassOfSound, Zenon
<1>6. CASE p.class = "Packet"
  <2>1. nproto(f) = U16(p.frametype)
    BY ONLY <1>6, Tells(f, p), SMT DEF Tells
  <2>2. U16(p.frametype) \notin {IP, IPV6, ARP}
    BY <1>6, SMT DEF IsPacket
  <2> QED BY ONLY <1>6, <2>1, <2>2, Sound(f), j \in Words, ClassOfSound, Zenon
<1> QED BY ONLY <1>2, <1>3, <1>4, <1>5, <1>6

-----------------------------------------------------------------------------
(* A frame tells of the object that get_packet makes of it.                *)

(* A word, or a byte, is what the casts make of it.                        *)
LEMMA WordsAgain ==
  ASSUME NEW w \in Words
  PROVE  U16(w) = w /\ U16(S16(w)) = w /\ 256 * U8(S8(w \div 256)) + U8(S8(w)) = w
<1>1. w \in Int /\ 0 <= w /\ w < 65536
  BY WordRange
<1>2. U16(w) = w /\ U16(S16(w)) = w
  BY <1>1 DEF U16, S16
<1>3. PICK a \in Int, b \in Int : /\ w = 256 * a + b /\ 0 <= a /\ a < 256 /\ 0 <= b /\ b < 256
                                  /\ a = w \div 256 /\ b = w % 256
  BY <1>1
<1>4. U8(S8(a)) = a /\ S8(w) = S8(b) /\ U8(S8(b)) = b
  <2>1. U8(a) = a /\ U8(b) = b /\ U8(w) = b
    BY <1>3 DEF U8
  <2>2. U8(S8(a)) = a /\ U8(S8(b)) = b
    BY <1>3 DEF S8, U8
  <2>3. S8(w) = S8(b)
    BY <2>1 DEF S8
  <2> QED BY <2>2, <2>3
<1> QED BY ONLY <1>2, <1>3, <1>4, a \in Int, b \in Int

(* A byte is the same when it is written to one.                            *)
LEMMA BytesAgain ==
  ASSUME NEW b \in Bytes
  PROVE  U8(b) = b
<1>1. b \in Int /\ 0 <= b /\ b < 256
  BY ByteRange
<1> QED BY <1>1 DEF U8

(* The header of IPv4,                                                     *)
LEMMA Again4 ==
  ASSUME NEW f, Sound(f), nproto(f) = IP, NEW j, NEW q, q = get_packet(f, j)
  PROVE  /\ f.tos = U8(TOSByte(q)) /\ f.id = U16(q.ident) /\ f.ttl = U8(q.hop_limit)
         /\ f.p = U8(q.protocol) /\ f.src = q.src /\ f.dst = q.dst /\ q.version = 4
         /\ q.offset = f.off % 8192
<1>1. f.tos \in Bytes /\ f.id \in Words /\ f.ttl \in Bytes /\ f.p \in Bytes
  <2>1. f.tos \in Bytes /\ f.id \in Words /\ f.ttl \in Bytes
    BY Zenon DEF Sound, Sound4
  <2>2. IsFrame(f)
    BY Zenon DEF Sound
  <2>3. f.p \in Bytes
    BY ONLY <2>2, SMT DEF IsFrame
  <2> QED BY <2>1, <2>3
<1>2. /\ q.version = 4 /\ q.priority = f.tos \div 32 /\ q.rsv_tos = f.tos % 4
      /\ q.tos = BitsOf(f.tos, TOS) /\ q.ident = S16(f.id) /\ q.hop_limit = f.ttl
      /\ q.protocol = f.p /\ q.src = f.src /\ q.dst = f.dst /\ q.offset = f.off % 8192
  BY GotIP
<1>3. f.tos = U8(TOSByte(q))
  <2>1. PICK t \in Int : t = f.tos /\ 0 <= t /\ t < 256
    BY ONLY <1>1, ByteRange
  <2>2. q.priority = t \div 32 /\ q.rsv_tos = t % 4 /\ q.tos = BitsOf(t, TOS)
    BY ONLY <1>2, <2>1
  <2>3. U8(TOSByte(q)) = t
    BY ONLY <2>1, <2>2, TOSIsWritten
  <2> QED BY ONLY <2>1, <2>3
<1>4. f.id = U16(q.ident)
  <2>1. U16(S16(f.id)) = f.id
    BY ONLY <1>1, WordsAgain
  <2> QED BY ONLY <1>2, <2>1, SMT
<1>5. f.ttl = U8(q.hop_limit) /\ f.p = U8(q.protocol)
  <2>1. U8(f.ttl) = f.ttl /\ U8(f.p) = f.p
    BY ONLY <1>1, BytesAgain
  <2> QED BY ONLY <1>2, <2>1, SMT
<1> QED BY ONLY <1>2, <1>3, <1>4, <1>5, SMT

(* of IPv6,                                                                *)
LEMMA Again6 ==
  ASSUME NEW f, Sound(f), nproto(f) = IPV6, NEW j, NEW q, q = get_packet(f, j),
         NEW x \in Int, 0 <= x, x < 4096, f.flow[1] = 24576 + x
  PROVE  /\ f.ttl = U8(q.hop_limit) /\ f.nxt = U8(q.protocol) /\ f.src = q.src /\ f.dst = q.dst
         /\ q.version = 6 /\ q.offset = 0 /\ f.flow[1] = FlowWord(q)
         /\ (f.flow[2] \div 256) % 16 = (q.flow_label[2] \div 256) % 16
<1>1. Sound6(f) /\ IsFrame(f)
  BY ONLY Sound(f), nproto(f) = IPV6, Zenon DEF Sound
<1>2. f.ttl \in Bytes /\ f.flow \in Pairs
  BY ONLY <1>1, Zenon DEF Sound6
<1>3. /\ q.version = 6 /\ q.priority = 0 /\ q.offset = 0
      /\ q.flow_label = <<f.flow[1], 256 * ((f.flow[2] \div 256) % 16)>>
      /\ q.hop_limit = f.ttl /\ q.src = f.src /\ q.dst = f.dst
  BY GotIPV6
<1>4. U8(q.protocol) = f.nxt
  BY ONLY <1>1, nproto(f) = IPV6, q = get_packet(f, j), GotHoldsIP6
<1>5. f.ttl = U8(q.hop_limit)
  <2>1. U8(f.ttl) = f.ttl
    BY ONLY <1>2, BytesAgain
  <2> QED BY ONLY <1>3, <2>1, SMT
<1>6. PICK w \in Int : w = f.flow[2]
  <2>1. f.flow[2] \in Words
    BY ONLY <1>2, PairIsRow
  <2> QED BY ONLY <2>1, WordRange
<1>7. PICK v \in Int : v = 256 * ((w \div 256) % 16)
  BY ONLY w \in Int
<1>8. q.flow_label[1] = 24576 + x /\ q.flow_label[2] = v
  <2>1. q.flow_label = <<f.flow[1], v>>
    BY ONLY <1>3, <1>6, <1>7
  <2> QED BY ONLY <2>1, f.flow[1] = 24576 + x
<1>9. FlowWord(q) = 24576 + x
  <2>1. (16 * 0 + (24576 + x)) % 4096 = x
    BY ONLY x \in Int, 0 <= x, x < 4096
  <2> QED BY ONLY <1>3, <1>8, <2>1, SMT DEF FlowWord
<1>10. (w \div 256) % 16 = (v \div 256) % 16
  BY ONLY <1>7, w \in Int, v \in Int
<1> QED BY ONLY <1>3, <1>4, <1>5, <1>6, <1>8, <1>9, <1>10, f.flow[1] = 24576 + x, SMT

(* of TCP,                                                                 *)
LEMMA AgainTCP ==
  ASSUME NEW f, nproto(f) \in {IP, IPV6}, Row(f.tr, 10), NEW j, Class(f, j) = "TCPPacket",
         NEW q, q = get_packet(f, j)
  PROVE  TellsTCP(f, q)
<1>1. /\ q.src_port = f.tr[1] /\ q.dst_port = f.tr[2] /\ q.sequence = <<f.tr[3], f.tr[4]>>
      /\ q.ack_num = <<f.tr[5], f.tr[6]>> /\ q.window = f.tr[8]
      /\ q.urgent_pointer = S16(f.tr[10]) /\ q.flags = BitsOf(f.tr[7], 0 .. 7)
  BY GotTCP
<1>2. f.tr[1] \in Words /\ f.tr[2] \in Words /\ f.tr[8] \in Words /\ f.tr[10] \in Words
  BY DEF Row
<1>3. /\ U16(f.tr[1]) = f.tr[1] /\ U16(f.tr[2]) = f.tr[2] /\ U16(f.tr[8]) = f.tr[8]
      /\ U16(S16(f.tr[10])) = f.tr[10]
  BY ONLY <1>2, WordsAgain
<1>4. BitsOf(f.tr[7], 0 .. 7) = BitsOf(f.tr[7], 0 .. 7) \cap (0 .. 7)
  BY ONLY Zenon DEF BitsOf
<1> QED BY ONLY <1>1, <1>3, <1>4, SMT DEF TellsTCP

(* of UDP,                                                                 *)
LEMMA AgainUDP ==
  ASSUME NEW f, nproto(f) \in {IP, IPV6}, Row(f.tr, 4), NEW j, Class(f, j) = "UDPPacket",
         NEW q, q = get_packet(f, j)
  PROVE  TellsUDP(f, q)
<1>1. q.src_port = f.tr[1] /\ q.dst_port = f.tr[2]
  BY GotUDP
<1>2. f.tr[1] \in Words /\ f.tr[2] \in Words
  BY DEF Row
<1>3. U16(f.tr[1]) = f.tr[1] /\ U16(f.tr[2]) = f.tr[2]
  BY ONLY <1>2, WordsAgain
<1> QED BY ONLY <1>1, <1>3, SMT DEF TellsUDP

(* of a message of ARP.                                                    *)
LEMMA AgainARP ==
  ASSUME NEW f, nproto(f) = ARP, Row(f.tr, 14), f.caplen = 60, NEW j,
         NEW q, q = get_packet(f, j)
  PROVE  TellsARP(f, q)
<1>1. /\ q.hardtype = S16(f.tr[1]) /\ q.prototype = S16(f.tr[2]) /\ q.operation = S16(f.tr[4])
      /\ q.sender_hardaddr = SubSeq(f.tr, 5, 7) /\ q.sender_protoaddr = SubSeq(f.tr, 8, 9)
      /\ q.target_hardaddr = SubSeq(f.tr, 10, 12) /\ q.target_protoaddr = SubSeq(f.tr, 13, 14)
  BY GotARP
<1>2. f.tr[1] \in Words /\ f.tr[2] \in Words /\ f.tr[4] \in Words
  BY DEF Row
<1>3. U16(S16(f.tr[1])) = f.tr[1] /\ U16(S16(f.tr[2])) = f.tr[2] /\ U16(S16(f.tr[4])) = f.tr[4]
  BY ONLY <1>2, WordsAgain
<1>4. f.tr[1] = U16(q.hardtype) /\ f.tr[2] = U16(q.prototype) /\ f.tr[4] = U16(q.operation)
  BY ONLY <1>1, <1>3, SMT
<1> QED BY ONLY <1>1, <1>4, nproto(f) = ARP, f.caplen = 60, Zenon DEF TellsARP

-----------------------------------------------------------------------------
(* The message of ICMP.                                                    *)

(* What is read of a message whose first words are those of the frame.     *)
LEMMA MessageBegins ==
  ASSUME NEW f, f.tr \in Seq(Words), f.body \in Seq(Bytes)
  PROVE  \A i \in 1 .. Len(f.tr) : Message(f)[i] = f.tr[i]
<1>1. PICK a, b : a = f.tr /\ b = WordsOf(f.body) /\ a \in Seq(Words) /\ b \in Seq(Words)
  <2>1. WordsOf(f.body) \in Seq(Words)
    BY WordsOfBytes
  <2> QED BY ONLY <2>1, f.tr \in Seq(Words), Zenon
<1>2. \A i \in 1 .. Len(a) : (a \o b)[i] = a[i]
  <2>1. a \in Seq(Words) /\ b \in Seq(Words)
    BY ONLY <1>1
  <2> QED BY ONLY <2>1, Begins, Zenon
<1>3. Message(f) = a \o b
  BY ONLY <1>1, Zenon DEF Message
<1>4. Len(a) = Len(f.tr) /\ \A i \in 1 .. Len(a) : a[i] = f.tr[i]
  BY ONLY <1>1, SMT
<1> QED BY ONLY <1>2, <1>3, <1>4, Zenon

(* The fields of an echo, and whether there is a datagram inside.          *)
LEMMA GotMessage ==
  ASSUME NEW f, nproto(f) \in {IP, IPV6}, NEW j, Class(f, j) = "ICMPPacket",
         NEW q, q = get_packet(f, j)
  PROVE  /\ Message(f)[1] \div 256 \in ECHO =>
              q.id = S8(Message(f)[3]) /\ q.seq = S8(Message(f)[4])
         /\ q.hasInner <=> Message(f)[1] \div 256 \in ERRORS /\ Cut(f, j) - NetworkHlen(f) >= 36
         /\ q.type = S8(Message(f)[1] \div 256) /\ q.code = S8(Message(f)[1])
<1> DEFINE t == analyze_icmp(f, Cut(f, j) - NetworkHlen(f), j)
           m == Message(f)
           F == {"id", "seq", "hasInner", "type", "code"}
<1>1. AnalyzedTransport(f, Class(f, j), j) = t
  BY TransportRead, Zenon
<1>2. t = ReadICMP(m, Cut(f, j) - NetworkHlen(f), j)
  BY ICMPRead, Zenon DEF Message
<1>3. \A x \in F : /\ x \notin DOMAIN Network(f)
                   /\ x \notin {"class", "frametype", "caplen", "header", "data"}
  BY ONLY nproto(f) \in {IP, IPV6}, TransportOnTop
<1> HIDE DEF t, m
<1>4. /\ F \subseteq DOMAIN t
      /\ m[1] \div 256 \in ECHO => t.id = S8(m[3]) /\ t.seq = S8(m[4])
      /\ t.hasInner <=> m[1] \div 256 \in ERRORS /\ Cut(f, j) - NetworkHlen(f) >= 36
      /\ t.type = S8(m[1] \div 256) /\ t.code = S8(m[1])
  <2>1. F \subseteq DOMAIN t
    BY ONLY <1>2, SMT DEF ReadICMP
  <2>2. m[1] \div 256 \in ECHO => t.id = S8(m[3]) /\ t.seq = S8(m[4])
    BY ONLY <1>2, SMT DEF ReadICMP
  <2>3. t.type = S8(m[1] \div 256) /\ t.code = S8(m[1])
    BY ONLY <1>2, SMT DEF ReadICMP
  <2>4. t.hasInner <=> m[1] \div 256 \in ERRORS /\ Cut(f, j) - NetworkHlen(f) >= 36
    <3>1. t.hasInner = (m[1] \div 256 \in ERRORS /\ Cut(f, j) - NetworkHlen(f) >= 36)
      BY ONLY <1>2, SMT DEF ReadICMP
    <3> QED BY ONLY <3>1
  <2> QED BY ONLY <2>1, <2>2, <2>3, <2>4
<1>5. \A x \in F : q[x] = t[x]
  BY ONLY q = get_packet(f, j), <1>1, <1>3, <1>4, GotBelow, SMT
<1>6. q.id = t.id /\ q.seq = t.seq /\ q.hasInner = t.hasInner /\ q.type = t.type /\ q.code = t.code
  BY ONLY <1>5
<1> QED BY ONLY <1>4, <1>6, Zenon DEF m

-----------------------------------------------------------------------------
(* What comes back: the frame that tells of an object tells of the one that *)
(* is read from it.                                                        *)

(* The type of a message of ICMP, in the byte it is written to.            *)
LEMMA TypeInByte ==
  ASSUME NEW t \in -(2^7) .. 2^7 - 1, NEW c \in Int, NEW w, w = 256 * U8(t) + U8(c)
  PROVE  /\ w \in Words /\ w \div 256 = U8(t) /\ S8(w \div 256) = t
         /\ S8(w) = S8(c)
         /\ t \in ECHO => w \div 256 \in ECHO
         /\ w \div 256 \in ECHO => t \in ECHO
         /\ t \in ERRORS <=> w \div 256 \in ERRORS
<1>1. t \in Int /\ -128 <= t /\ t < 128
  OBVIOUS
<1>2. PICK a \in Int, b \in Int : /\ a = U8(t) /\ b = U8(c)
                                  /\ 0 <= a /\ a < 256 /\ 0 <= b /\ b < 256
  BY <1>1 DEF U8
<1>3. w \in Int /\ 0 <= w /\ w < 65536 /\ w \div 256 = a /\ w % 256 = b
  BY <1>2
<1>4. S8(a) = t
  BY <1>1, <1>2 DEF S8, U8
<1>5. S8(w) = S8(c)
  <2>1. U8(w) = b /\ U8(c) = b
    BY <1>2, <1>3 DEF U8
  <2> QED BY ONLY <2>1, SMT DEF S8
<1>6. a = IF t < 0 THEN t + 256 ELSE t
  BY <1>1, <1>2 DEF U8
<1>7. /\ t \in ECHO => a \in ECHO
      /\ a \in ECHO => t \in ECHO
      /\ t \in ERRORS <=> a \in ERRORS
  BY <1>1, <1>6 DEF ECHO, ERRORS
<1>8. w \in Words
  BY <1>3, RangeIsWord
<1> QED BY ONLY <1>2, <1>3, <1>4, <1>5, <1>7, <1>8

(* What is read of a message of ICMP.                                      *)
LEMMA ReadsICMP ==
  ASSUME NEW f, Sound(f), nproto(f) = IP, NEW p, HoldsICMP(p), p.type \in Handled,
         TellsICMP(f, p), NEW j \in Words, Class(f, j) = "ICMPPacket",
         NEW q, q = get_packet(f, j)
  PROVE  /\ q.type = p.type /\ q.code = S8(p.code) /\ TellsICMP(f, q)
         /\ p.type \in ECHO => q.id = S8(p.id)
         /\ q.hasInner <=> p.type \in ERRORS /\ Cut(f, j) - NetworkHlen(f) >= 36
<1>1. f.tr \in Seq(Words) /\ f.body \in Seq(Bytes)
  BY Zenon DEF Sound
<1>2. p.type \in -(2^7) .. 2^7 - 1 /\ p.code \in Int /\ p.id \in Int /\ p.seq \in Int
  <2>1. p.type \in -(2^7) .. 2^7 - 1
    BY Zenon DEF HoldsICMP
  <2> QED BY <2>1, ICMPNumbers
<1>3. PICK r \in Int : r = Len(f.tr) /\ 4 <= r
  BY ONLY <1>1, TellsICMP(f, p), LenProperties DEF TellsICMP
<1>4. Message(f)[1] = f.tr[1] /\ (r = 4 => Message(f)[3] = f.tr[3] /\ Message(f)[4] = f.tr[4])
  <2>1. \A i \in 1 .. r : Message(f)[i] = f.tr[i]
    BY ONLY <1>1, <1>3, MessageBegins
  <2>2. 1 \in 1 .. r /\ (r = 4 => 3 \in 1 .. r /\ 4 \in 1 .. r)
    BY ONLY <1>3
  <2> QED BY ONLY <2>1, <2>2, Zenon
<1>5. PICK w : w = f.tr[1] /\ w = 256 * U8(p.type) + U8(p.code)
  BY ONLY TellsICMP(f, p), SMT DEF TellsICMP
<1>6. /\ w \in Words /\ S8(w \div 256) = p.type /\ S8(w) = S8(p.code)
      /\ p.type \in ECHO => w \div 256 \in ECHO
      /\ w \div 256 \in ECHO => p.type \in ECHO
      /\ p.type \in ERRORS <=> w \div 256 \in ERRORS
  BY ONLY <1>2, <1>5, TypeInByte
<1>7. /\ w \div 256 \in ECHO => q.id = S8(Message(f)[3]) /\ q.seq = S8(Message(f)[4])
      /\ q.hasInner <=> w \div 256 \in ERRORS /\ Cut(f, j) - NetworkHlen(f) >= 36
      /\ q.type = S8(w \div 256) /\ q.code = S8(w)
  <2>1. nproto(f) \in {IP, IPV6}
    OBVIOUS
  <2>2. /\ Message(f)[1] \div 256 \in ECHO =>
              q.id = S8(Message(f)[3]) /\ q.seq = S8(Message(f)[4])
        /\ q.hasInner <=> Message(f)[1] \div 256 \in ERRORS /\ Cut(f, j) - NetworkHlen(f) >= 36
        /\ q.type = S8(Message(f)[1] \div 256) /\ q.code = S8(Message(f)[1])
    BY ONLY <2>1, q = get_packet(f, j), Class(f, j) = "ICMPPacket", GotMessage
  <2>3. Message(f)[1] = w
    BY ONLY <1>4, <1>5
  <2> QED BY ONLY <2>2, <2>3, SMT
<1>8. q.type = p.type /\ q.code = S8(p.code)
  BY ONLY <1>6, <1>7
<1>9. f.tr[1] = 256 * U8(q.type) + U8(q.code)
  <2>1. 256 * U8(S8(w \div 256)) + U8(S8(w)) = w
    BY ONLY <1>6, WordsAgain
  <2> QED BY ONLY <1>5, <1>7, <2>1, SMT
<1>10. p.type \in ECHO =>
         /\ Len(f.tr) = 4 /\ S8(f.tr[3]) = S8(p.id) /\ S8(f.tr[4]) = S8(p.seq)
         /\ q.id = S8(f.tr[3]) /\ q.seq = S8(f.tr[4])
  <2> SUFFICES ASSUME p.type \in ECHO
               PROVE  /\ Len(f.tr) = 4 /\ S8(f.tr[3]) = S8(p.id) /\ S8(f.tr[4]) = S8(p.seq)
                      /\ q.id = S8(f.tr[3]) /\ q.seq = S8(f.tr[4])
    OBVIOUS
  <2>1. Len(f.tr) = 4 /\ S8(f.tr[3]) = S8(p.id) /\ S8(f.tr[4]) = S8(p.seq)
    BY ONLY TellsICMP(f, p), p.type \in ECHO, SMT DEF TellsICMP
  <2>2. Message(f)[3] = f.tr[3] /\ Message(f)[4] = f.tr[4]
    BY ONLY <1>3, <1>4, <2>1
  <2>3. q.id = S8(Message(f)[3]) /\ q.seq = S8(Message(f)[4])
    BY ONLY <1>6, <1>7, p.type \in ECHO
  <2> QED BY ONLY <2>1, <2>2, <2>3
<1>11. TellsICMP(f, q)
  <2>1. q.type \in ECHO =>
          Len(f.tr) = 4 /\ S8(f.tr[3]) = S8(q.id) /\ S8(f.tr[4]) = S8(q.seq)
    <3>1. S8(S8(p.id)) = S8(p.id) /\ S8(S8(p.seq)) = S8(p.seq)
      BY ONLY <1>2, CastsAgain
    <3>2. p.type \in ECHO =>
            Len(f.tr) = 4 /\ S8(f.tr[3]) = S8(q.id) /\ S8(f.tr[4]) = S8(q.seq)
      BY ONLY <1>10, <3>1
    <3> QED BY ONLY <1>8, <3>2
  <2>2. q.type \notin ECHO =>
          4 <= Len(f.tr) /\ Len(f.tr) <= 16 /\ f.len = 20 + 2 * Len(f.tr)
    <3>1. p.type \notin ECHO =>
            4 <= Len(f.tr) /\ Len(f.tr) <= 16 /\ f.len = 20 + 2 * Len(f.tr)
      BY ONLY TellsICMP(f, p), Zenon DEF TellsICMP
    <3> QED BY ONLY <1>8, <3>1
  <2> QED BY ONLY <1>9, <2>1, <2>2, SMT DEF TellsICMP
<1>12. p.type \in ECHO => q.id = S8(p.id)
  BY ONLY <1>10
<1>13. q.hasInner <=> p.type \in ERRORS /\ Cut(f, j) - NetworkHlen(f) >= 36
  BY ONLY <1>6, <1>7
<1> QED BY ONLY <1>8, <1>11, <1>12, <1>13

-----------------------------------------------------------------------------
(* The first word of a header of IPv6 begins with the version.             *)
LEMMA FlowBegins ==
  ASSUME NEW p, IsPacket(p), IsIP(p)
  PROVE  \E x \in Int : 0 <= x /\ x < 4096 /\ FlowWord(p) = 24576 + x
<1>1. HoldsIP(p)
  BY PacketIP, Zenon
<1>2. p.priority \in Int
  BY ONLY <1>1, SMT DEF HoldsIP
<1>3. p.flow_label[1] \in Int
  <2>1. p.flow_label \in Pairs
    BY ONLY <1>1, Zenon DEF HoldsIP
  <2> QED BY ONLY <2>1, PairIsRow, WordRange
<1>4. PICK a \in Int : a = 16 * p.priority + p.flow_label[1]
  BY ONLY <1>2, <1>3
<1>5. FlowWord(p) = 24576 + (a % 4096)
  BY ONLY <1>2, <1>3, <1>4, SMT DEF FlowWord
<1>6. PICK x \in Int : x = a % 4096 /\ 0 <= x /\ x < 4096
  BY ONLY a \in Int
<1>7. FlowWord(p) = 24576 + x
  BY ONLY <1>5, <1>6
<1> QED BY ONLY <1>6, <1>7, x \in Int

(* The header that is read is the one in the frame: over IPv4,             *)
LEMMA ReadsBack4 ==
  ASSUME NEW f, Sound(f), NEW p, IsPacket(p), IsIP(p), p.version = 4, Tells4(f, p),
         NEW j \in Words, NEW q, q = get_packet(f, j), q.class = p.class
  PROVE  q.version = 4 /\ q.offset = 0 /\ Tells4(f, q)
<1>1. nproto(f) = IP /\ f.off % 8192 = 0 /\ f.p = Protocol(p)
  BY ONLY Tells4(f, p), SMT DEF Tells4
<1>2. /\ f.tos = U8(TOSByte(q)) /\ f.id = U16(q.ident) /\ f.ttl = U8(q.hop_limit)
      /\ f.p = U8(q.protocol) /\ f.src = q.src /\ f.dst = q.dst /\ q.version = 4
      /\ q.offset = f.off % 8192
  BY ONLY <1>1, Sound(f), q = get_packet(f, j), Again4
<1>3. f.p = Protocol(q)
  <2>1. q.class \in {"TCPPacket", "UDPPacket", "ICMPPacket"} => Protocol(q) = Protocol(p)
    BY ONLY q.class = p.class DEF Protocol
  <2>2. q.class \notin {"TCPPacket", "UDPPacket", "ICMPPacket"} => Protocol(q) = U8(q.protocol)
    BY ONLY SMT DEF Protocol
  <2>3. f.p = Protocol(p) /\ f.p = U8(q.protocol)
    BY ONLY <1>1, <1>2
  <2> QED BY ONLY <2>1, <2>2, <2>3, Zenon
<1> QED BY ONLY <1>1, <1>2, <1>3, SMT DEF Tells4

(* and over IPv6.                                                          *)
LEMMA ReadsBack6 ==
  ASSUME NEW f, Sound(f), NEW p, IsPacket(p), IsIP(p), p.version # 4, Tells6(f, p),
         NEW j \in Words, NEW q, q = get_packet(f, j), q.class = p.class
  PROVE  q.version = 6 /\ q.offset = 0 /\ Tells6(f, q)
<1>1. nproto(f) = IPV6 /\ f.nxt = Protocol(p) /\ f.flow[1] = FlowWord(p)
  BY ONLY Tells6(f, p), SMT DEF Tells6
<1>2. PICK x \in Int : 0 <= x /\ x < 4096 /\ f.flow[1] = 24576 + x
  BY ONLY <1>1, IsPacket(p), IsIP(p), FlowBegins
<1>3. /\ f.ttl = U8(q.hop_limit) /\ f.nxt = U8(q.protocol) /\ f.src = q.src /\ f.dst = q.dst
      /\ q.version = 6 /\ q.offset = 0 /\ f.flow[1] = FlowWord(q)
      /\ (f.flow[2] \div 256) % 16 = (q.flow_label[2] \div 256) % 16
  BY ONLY <1>1, <1>2, Sound(f), q = get_packet(f, j), Again6
<1>4. f.nxt = Protocol(q)
  <2>1. q.class \in {"TCPPacket", "UDPPacket", "ICMPPacket"} => Protocol(q) = Protocol(p)
    BY ONLY q.class = p.class DEF Protocol
  <2>2. q.class \notin {"TCPPacket", "UDPPacket", "ICMPPacket"} => Protocol(q) = U8(q.protocol)
    BY ONLY SMT DEF Protocol
  <2>3. f.nxt = Protocol(p) /\ f.nxt = U8(q.protocol)
    BY ONLY <1>1, <1>3
  <2> QED BY ONLY <2>1, <2>2, <2>3, Zenon
<1> QED BY ONLY <1>1, <1>3, <1>4, SMT DEF Tells6

(* And so is the object as a whole.                                        *)
ReadBack(f, p, q) ==
  /\ q.class = p.class /\ Tells(f, q)
  /\ IsIP(p) => q.version = p.version /\ q.offset = 0
  /\ p.class = "ICMPPacket" => q.type = p.type

(* What is read of a frame that tells of an object is told by it, too.      *)
LEMMA ReadsBack ==
  ASSUME NEW f, Sound(f), NEW p, IsPacket(p), Known(p), Tells(f, p), NEW j \in Words,
         NEW q, q = get_packet(f, j)
  PROVE  ReadBack(f, p, q)
<1>1. Class(f, j) = p.class /\ q.class = p.class
  <2>1. Class(f, j) = p.class
    BY ClassIsRead
  <2> QED BY <2>1, GotDatalink, Zenon
<1>2. /\ IsIP(p) /\ p.version = 4 => Tells4(f, p)
      /\ IsIP(p) /\ p.version # 4 => Tells6(f, p)
      /\ p.class = "TCPPacket"  => TellsTCP(f, p)
      /\ p.class = "UDPPacket"  => TellsUDP(f, p)
      /\ p.class = "ICMPPacket" => TellsICMP(f, p)
      /\ p.class = "ARPPacket"  => TellsARP(f, p)
      /\ p.class = "Packet"     => nproto(f) = U16(p.frametype)
  BY ONLY Tells(f, p), Zenon DEF Tells
<1>3. /\ IsIP(p) /\ p.version = 4 => q.version = 4 /\ q.offset = 0 /\ Tells4(f, q)
      /\ IsIP(p) /\ p.version # 4 => q.version = 6 /\ q.offset = 0 /\ Tells6(f, q)
  BY ONLY <1>1, <1>2, Sound(f), IsPacket(p), j \in Words, q = get_packet(f, j),
     ReadsBack4, ReadsBack6
<1>4. IsIP(p) => p.version \in {4, 6} /\ (IsIP(q) /\ q.version = p.version)
  <2>1. IsIP(p) => p.version \in {4, 6}
    BY PacketIP, Zenon
  <2>2. IsIP(p) <=> IsIP(q)
    BY ONLY <1>1, Zenon DEF IsIP
  <2> QED BY ONLY <1>3, <2>1, <2>2, SMT
<1>5. IsIP(q) => IsIP(p)
  BY ONLY <1>1, Zenon DEF IsIP
<1>6. p.class \in {"TCPPacket", "UDPPacket", "ICMPPacket"} => nproto(f) \in {IP, IPV6}
  BY ONLY <1>1, Sound(f), j \in Words, ClassOfSound
<1>7. p.class = "TCPPacket" => TellsTCP(f, q)
  <2> SUFFICES ASSUME p.class = "TCPPacket"
               PROVE  TellsTCP(f, q)
    OBVIOUS
  <2>1. Class(f, j) = "TCPPacket" /\ nproto(f) \in {IP, IPV6}
    BY ONLY <1>1, <1>6, p.class = "TCPPacket"
  <2>2. Holds(f, TCP)
    BY ONLY <2>1, Sound(f), j \in Words, ClassOfSound
  <2>3. Row(f.tr, 10)
    BY ONLY <2>2, Sound(f), Zenon DEF Sound, Row
  <2> QED BY ONLY <2>1, <2>3, q = get_packet(f, j), AgainTCP
<1>8. p.class = "UDPPacket" => TellsUDP(f, q)
  <2> SUFFICES ASSUME p.class = "UDPPacket"
               PROVE  TellsUDP(f, q)
    OBVIOUS
  <2>1. Class(f, j) = "UDPPacket" /\ nproto(f) \in {IP, IPV6}
    BY ONLY <1>1, <1>6, p.class = "UDPPacket"
  <2>2. Holds(f, UDP)
    BY ONLY <2>1, Sound(f), j \in Words, ClassOfSound
  <2>3. Row(f.tr, 4)
    BY ONLY <2>2, Sound(f), Zenon DEF Sound, Row
  <2> QED BY ONLY <2>1, <2>3, q = get_packet(f, j), AgainUDP
<1>9. p.class = "ICMPPacket" => q.type = p.type /\ TellsICMP(f, q)
  <2> SUFFICES ASSUME p.class = "ICMPPacket"
               PROVE  q.type = p.type /\ TellsICMP(f, q)
    OBVIOUS
  <2>1. Class(f, j) = "ICMPPacket" /\ TellsICMP(f, p) /\ p.type \in Handled
    BY ONLY <1>1, <1>2, p.class = "ICMPPacket", Known(p), Zenon DEF Known
  <2>2. IsIP(p)
    BY ONLY p.class = "ICMPPacket", Zenon DEF IsIP
  <2>3. p.version = 4 /\ HoldsICMP(p)
    BY ONLY <2>2, p.class = "ICMPPacket", IsPacket(p), PacketIP, Zenon
  <2>4. nproto(f) = IP
    BY ONLY <1>2, <2>2, <2>3, SMT DEF Tells4
  <2> QED BY ONLY <2>1, <2>3, <2>4, Sound(f), j \in Words, q = get_packet(f, j), ReadsICMP
<1>10. p.class = "ARPPacket" => TellsARP(f, q)
  <2> SUFFICES ASSUME p.class = "ARPPacket"
               PROVE  TellsARP(f, q)
    OBVIOUS
  <2>1. nproto(f) = ARP /\ f.caplen = 60
    BY ONLY <1>2, p.class = "ARPPacket", SMT DEF TellsARP
  <2>2. Row(f.tr, 14)
    BY ONLY <2>1, Sound(f), Zenon DEF Sound, Row
  <2> QED BY ONLY <2>1, <2>2, q = get_packet(f, j), AgainARP
<1>11. p.class = "Packet" => nproto(f) = U16(q.frametype)
  <2> SUFFICES ASSUME p.class = "Packet"
               PROVE  nproto(f) = U16(q.frametype)
    OBVIOUS
  <2>1. nproto(f) \notin {IP, IPV6, ARP}
    BY ONLY <1>1, p.class = "Packet", Sound(f), j \in Words, ClassOfSound
  <2>2. f.lt = EN10MB
    <3>1. f.lt = RAW \/ f.lt = EN10MB
      BY ONLY Sound(f), Zenon DEF Sound
    <3>2. f.lt = RAW => nproto(f) = IP
      BY ONLY SMT DEF nproto, RAW, EN10MB, IEEE802
    <3> QED BY ONLY <2>1, <3>1, <3>2
  <2> QED BY ONLY <2>2, Sound(f), q = get_packet(f, j), GotType
<1>12. Tells(f, q)
  <2>1. IsIP(q) /\ q.version = 4 => Tells4(f, q)
    BY ONLY <1>3, <1>4, <1>5
  <2>2. IsIP(q) /\ q.version # 4 => Tells6(f, q)
    BY ONLY <1>3, <1>4, <1>5
  <2> QED BY ONLY <1>1, <1>7, <1>8, <1>9, <1>10, <1>11, <2>1, <2>2, Zenon DEF Tells
<1>13. IsIP(p) => q.version = p.version /\ q.offset = 0
  BY ONLY <1>3, <1>4
<1> QED BY ONLY <1>1, <1>9, <1>12, <1>13, Zenon DEF ReadBack

-----------------------------------------------------------------------------
(* The data that are read.                                                 *)

(* The length of the transport header is that of the class.                *)
LEMMA TransportLength ==
  ASSUME NEW f, Sound(f), NEW j \in Words, NEW p, p.class = Class(f, j)
  PROVE  TransportHlen(f, j) = HeaderOf(p)
<1> DEFINE c == Class(f, j)
<1>1. /\ c = "TCPPacket"  => Holds(f, TCP) /\ tproto(f, j) = TCP
      /\ c = "UDPPacket"  => tproto(f, j) = UDP
      /\ c = "ICMPPacket" => tproto(f, j) = ICMP
  BY ClassOfSound
<1>2. c \notin {"TCPPacket", "UDPPacket", "ICMPPacket"} => tproto(f, j) \notin {TCP, UDP, ICMP}
  BY ONLY SMT DEF Class, TCP, UDP, ICMP
<1>3. Holds(f, TCP) => f.doff = 5
  BY Zenon DEF Sound
<1>4. p.class = c
  OBVIOUS
<1> HIDE DEF c
<1>5. /\ c = "TCPPacket"  => TransportHlen(f, j) = 20
      /\ c = "UDPPacket"  => TransportHlen(f, j) = 8
      /\ c = "ICMPPacket" => TransportHlen(f, j) = 8
      /\ c \notin {"TCPPacket", "UDPPacket", "ICMPPacket"} => TransportHlen(f, j) = 0
  BY ONLY <1>1, <1>2, <1>3 DEF TransportHlen, TCP, UDP, ICMP
<1> QED BY ONLY <1>4, <1>5 DEF HeaderOf, TCPHDRLEN

(* What stands behind a sequence.                                          *)
LEMMA PartBehind ==
  ASSUME NEW S, NEW a, a \in Seq(S), NEW b, b \in Seq(S), NEW t \in Int, t = Len(a),
         NEW d \in Int, 0 <= d, d <= Len(b)
  PROVE  SubSeq(a \o b, t + 1, t + d) = SubSeq(b, 1, d)
<1>1. PICK l \in Nat : l = Len(b) /\ d <= l /\ t \in Nat
  BY LenProperties
<1>2. a \o b \in Seq(S) /\ Len(a \o b) = t + l
      /\ \A i \in 1 .. t + l : (a \o b)[i] = IF i <= t THEN a[i] ELSE b[i - t]
  BY <1>1, ConcatProperties
<1>3. PICK m \in Int, n \in Int : m = t + 1 /\ n = t + d
  OBVIOUS
<1>4. \A i \in m .. n : i \in 1 .. t + l /\ ~(i <= t) /\ i - t \in 1 .. l
  BY ONLY <1>1, <1>3, t \in Int, d \in Int, l \in Nat, 0 <= d
<1>5. PICK s : s = a \o b
  OBVIOUS
<1>6. \A i \in 1 .. l : b[i] \in S
  BY <1>1
<1>7. \A i \in m .. n : s[i] = b[i - t] /\ s[i] \in S
  BY ONLY <1>2, <1>4, <1>5, <1>6
<1>8. m <= n + 1 /\ n - m + 1 = d
  BY ONLY <1>3, t \in Int, d \in Int, 0 <= d
<1>9. PICK x : x = SubSeq(s, m, n) /\ x \in Seq(S) /\ Len(x) = d
               /\ \A i \in 1 .. d : x[i] = s[m + i - 1]
  <2>1. /\ SubSeq(s, m, n) \in Seq(S) /\ Len(SubSeq(s, m, n)) = n - m + 1
        /\ \A i \in 1 .. n - m + 1 : SubSeq(s, m, n)[i] = s[m + i - 1]
    BY ONLY <1>7, <1>8, m \in Int, n \in Int, SubSeqIs
  <2> QED BY ONLY <1>8, <2>1, Zenon
<1>10. PICK y : y = SubSeq(b, 1, d) /\ y \in Seq(S) /\ Len(y) = d /\ \A i \in 1 .. d : y[i] = b[i]
  <2>1. \A i \in 1 .. d : b[i] \in S
    BY ONLY <1>1, <1>6, d \in Int, l \in Nat
  <2>2. /\ SubSeq(b, 1, d) \in Seq(S) /\ Len(SubSeq(b, 1, d)) = d - 1 + 1
        /\ \A i \in 1 .. d - 1 + 1 : SubSeq(b, 1, d)[i] = b[1 + i - 1]
    BY ONLY <2>1, d \in Int, 0 <= d, SubSeqIs
  <2>3. d - 1 + 1 = d /\ \A i \in 1 .. d : 1 + i - 1 = i
    BY ONLY d \in Int
  <2> QED BY ONLY <2>2, <2>3, Zenon
<1>11. \A i \in 1 .. d : x[i] = y[i]
  <2>1. \A i \in 1 .. d : m + i - 1 \in m .. n /\ m + i - 1 - t = i
    BY ONLY <1>3, t \in Int, d \in Int, m \in Int, n \in Int
  <2>2. \A i \in 1 .. d : s[m + i - 1] = b[i]
    <3> TAKE i \in 1 .. d
    <3> DEFINE k == m + i - 1
    <3>1. k \in m .. n /\ k - t = i
      BY ONLY <1>3, i \in 1 .. d, t \in Int, d \in Int, m \in Int, n \in Int
    <3> HIDE DEF k
    <3>2. s[k] = b[k - t]
      BY ONLY <1>7, <3>1, Zenon
    <3>3. s[k] = b[i]
      BY ONLY <3>1, <3>2, Zenon
    <3> QED BY ONLY <3>3, Zenon DEF k
  <2> QED BY ONLY <1>9, <1>10, <2>2, Zenon
<1>12. x = y
  BY ONLY <1>9, <1>10, <1>11, SeqEqual, Zenon
<1> QED BY ONLY <1>3, <1>5, <1>9, <1>10, <1>12, Zenon

(* What the frame is cut to, the lengths of the headers and of the data.   *)
DataMeasures(f, j, c, n, t, d) ==
  /\ c = Cut(f, j) /\ c <= f.caplen - datalink_hlen(f)
  /\ n = NetworkHlen(f) /\ t = TransportHlen(f, j) /\ t = 2 * Len(f.tr)
  /\ d = c - n - t /\ 0 <= d

(* The data are the bytes behind the transport header, up to the end of    *)
(* what get_packet cuts the frame to.                                      *)
LEMMA DataBehind ==
  ASSUME NEW f, Sound(f), nproto(f) # ARP, NEW j \in Words, NEW q, q = get_packet(f, j),
         NEW c \in Int, NEW n \in Int, NEW t \in Int, NEW d \in Int,
         DataMeasures(f, j, c, n, t, d)
  PROVE  q.data = SubSeq(f.body, 1, d) /\ d <= Len(f.body)
<1> SUFFICES ASSUME c = Cut(f, j), c <= f.caplen - datalink_hlen(f),
                    n = NetworkHlen(f), t = TransportHlen(f, j), t = 2 * Len(f.tr),
                    d = c - n - t, 0 <= d
             PROVE  q.data = SubSeq(f.body, 1, d) /\ d <= Len(f.body)
  BY Zenon DEF DataMeasures
<1> DEFINE below == BytesOf(f.tr) \o f.body
<1>1. /\ IsFrame(f) /\ f.tr \in Seq(Words) /\ f.body \in Seq(Bytes)
      /\ f.caplen = datalink_hlen(f) + NetworkHlen(f) + 2 * Len(f.tr) + Len(f.body)
  BY Zenon DEF Sound
<1>2. PICK h \in Int : h = datalink_hlen(f) /\ Skipped(f) = h
                       /\ f.caplen \in Int /\ f.caplen <= 1600 /\ 0 <= h
  <2>1. /\ f.caplen \in Int /\ f.caplen <= 1600
        /\ datalink_hlen(f) \in {0, 14} /\ Skipped(f) = datalink_hlen(f)
    BY SoundLengths
  <2> QED BY ONLY <2>1
<1>3. BytesOf(f.tr) \in Seq(Bytes) /\ Len(BytesOf(f.tr)) = t
  BY <1>1, BytesOfWords
<1>4. PICK b \in Nat : b = Len(f.body)
  BY <1>1, LenProperties
<1> HIDE DEF below
<1>5. 0 <= t /\ t <= 60 /\ 0 <= n /\ n <= 40
  <2>1. 0 <= t /\ t <= 60
    BY <1>1, TransportHlenIs
  <2>2. 0 <= n /\ n <= 40
    BY ONLY Sound(f), n = NetworkHlen(f), n \in Int, SoundNetworkHlen
  <2> QED BY <2>1, <2>2
<1>6. f.caplen = h + n + t + b
  <2>1. f.caplen = datalink_hlen(f) + NetworkHlen(f) + 2 * Len(f.tr) + Len(f.body)
    BY ONLY <1>1, Zenon
  <2>2. h = datalink_hlen(f)
    BY ONLY <1>2, SMT
  <2>3. b = Len(f.body)
    BY ONLY <1>4, Zenon
  <2> QED BY ONLY <2>1, <2>2, <2>3, n = NetworkHlen(f), t = 2 * Len(f.tr), Zenon
<1>7. c <= f.caplen - h
  BY ONLY <1>2, c <= f.caplen - datalink_hlen(f)
<1>8. d <= b /\ 0 <= c - n /\ c - n <= 1600 /\ t <= c - n
  BY ONLY <1>2, <1>5, <1>6, <1>7, d = c - n - t, 0 <= d, h \in Int, n \in Int, t \in Int,
     c \in Int, d \in Int, b \in Nat
<1>9. S16(c - n) = c - n
  BY ONLY <1>8, c \in Int, n \in Int, ShortIsSame
<1>10. Parts(f, j).start = h + n + t /\ Parts(f, j).data = d
  BY ONLY <1>2, <1>8, <1>9, c = Cut(f, j), n = NetworkHlen(f), t = TransportHlen(f, j),
     d = c - n - t, c \in Int, n \in Int, t \in Int, d \in Int, h \in Int DEF Parts
<1>11. h + n + t - h - n = t
  BY ONLY h \in Int, n \in Int, t \in Int
<1>12. q.data = SubSeq(below, t + 1, t + d)
  <2>1. q.data = Datalink(f, j).data
    BY GotDatalink, Zenon
  <2>2. Datalink(f, j).data =
          SubSeq(below, Parts(f, j).start - Skipped(f) - NetworkHlen(f) + 1,
                 Parts(f, j).start - Skipped(f) - NetworkHlen(f) + Parts(f, j).data)
    BY Zenon DEF Datalink, below
  <2>3. Parts(f, j).start - Skipped(f) - NetworkHlen(f) = t
    <3>1. PICK s : s = Parts(f, j).start /\ s = h + n + t
      BY ONLY <1>10
    <3>2. s - h - n = t
      BY ONLY <3>1, h \in Int, n \in Int, t \in Int
    <3>3. Skipped(f) = h
      BY ONLY <1>2
    <3> QED BY ONLY <3>1, <3>2, <3>3, n = NetworkHlen(f), Zenon
  <2> QED BY ONLY <1>10, <2>1, <2>2, <2>3, Zenon
<1>13. SubSeq(below, t + 1, t + d) = SubSeq(f.body, 1, d)
  <2>1. PICK a : a = BytesOf(f.tr) /\ a \in Seq(Bytes) /\ t = Len(a)
    BY ONLY <1>3, Zenon
  <2>2. d <= Len(f.body)
    BY ONLY <1>4, <1>8
  <2>3. SubSeq(a \o f.body, t + 1, t + d) = SubSeq(f.body, 1, d)
    <3>1. a \in Seq(Bytes) /\ f.body \in Seq(Bytes) /\ t = Len(a)
      BY ONLY <1>1, <2>1, Zenon
    <3>2. PICK b1 : b1 = f.body /\ b1 \in Seq(Bytes) /\ d <= Len(b1)
      BY ONLY <2>2, <3>1, Zenon
    <3>3. SubSeq(a \o b1, t + 1, t + d) = SubSeq(b1, 1, d)
      BY ONLY <3>1, <3>2, t \in Int, d \in Int, 0 <= d, PartBehind
    <3> QED BY ONLY <3>2, <3>3, Zenon
  <2> QED BY ONLY <2>1, <2>3, Zenon DEF below
<1>14. d <= Len(f.body)
  BY ONLY <1>4, <1>8
<1> QED BY ONLY <1>12, <1>13, <1>14, Zenon

-----------------------------------------------------------------------------
(* The length of IPv6.                                                     *)

(* What get_packet makes of it, and whether that is enough.                *)
Seen(n)     == S16(Swap16(n)) + 40
Suffices(n) == Seen(n) < 0 \/ n <= Seen(n)

(* It is a number that a short and the header leave room for.               *)
LEMMA SeenIsInt ==
  ASSUME NEW n \in Int, 0 <= n, n < 65536
  PROVE  Seen(n) \in Int /\ -32728 <= Seen(n) /\ Seen(n) <= 32807
<1>1. n \in Words
  BY RangeIsWord
<1>2. Swap16(n) \in Int
  BY <1>1, SwapIsRotation
<1> QED BY <1>2, ShortRange DEF Seen

(* An object over IPv6 has data and a length in the header.                *)
LEMMA SizeOver6 ==
  ASSUME NEW p, IsPacket(p), IsIP(p), p.version # 4
  PROVE  /\ HasData(p) /\ p.class \in {"IPPacket", "TCPPacket", "UDPPacket"}
         /\ Size(p) \in Int /\ 40 <= Size(p) /\ Size(p) <= 1586
         /\ LengthSuffices(p) <=> Suffices(Size(p))
<1> DEFINE t == Transport(p, set_ipv6(p), 0)
<1>1. p.class \in {"IPPacket", "TCPPacket", "UDPPacket"}
  <2>1. p.class \in {"IPPacket", "TCPPacket", "UDPPacket", "ICMPPacket"}
        /\ (p.class = "ICMPPacket" => p.version = 4)
    BY ONLY IsPacket(p), IsIP(p), PacketIP
  <2> QED BY <2>1
<1>2. HasData(p)
  BY <1>1 DEF HasData
<1>3. PICK s : TransportIsSet(p, s, t)
  <2>1. 0 \in Words
    BY ZeroIsWord
  <2>2. Datagram6(set_packet(p, 0), p, t)
    BY <2>1, SetPacket6
  <2> QED BY ONLY <2>2, Zenon DEF Datagram6
<1>4. t.tr \in Seq(Words) /\ LengthOf(t) \in Int
  BY ONLY <1>3, Zenon DEF TransportIsSet
<1>5. t.body = p.data /\ 2 * Len(t.tr) = HeaderOf(p)
  BY ONLY <1>2, <1>3, IsPacket(p), IsIP(p), ZeroIsWord, TransportBrings
<1> HIDE DEF t
<1>6. /\ Size(p) = (IF p.version = 4 THEN 20 ELSE 40) + LengthOf(t)
      /\ Size(p) \in Int /\ Size(p) <= 1586
      /\ p.version # 4 => 40 <= Size(p)
  BY ONLY <1>4, <1>5, IsPacket(p), IsIP(p), SizeIs
<1>7. Size(p) = 40 + LengthOf(t)
  BY ONLY <1>6, p.version # 4
<1>8. LengthSuffices(p) <=> Suffices(40 + LengthOf(t))
  BY ONLY p.version # 4, Zenon DEF LengthSuffices, Suffices, Seen, t
<1>9. LengthSuffices(p) <=> Suffices(Size(p))
  BY ONLY <1>7, <1>8, Zenon
<1> QED BY ONLY <1>1, <1>2, <1>6, <1>9, p.version # 4

(* Whatever the padding makes of the length, it is seen as one that is not *)
(* too small.                                                              *)
LEMMA SeenIsEnough ==
  ASSUME NEW N \in Int, 40 <= N, N <= 1586, Suffices(N),
         NEW n \in Int, 40 <= n, n <= Room(N), Room(n) = Room(N)
  PROVE  Seen(n) < 0 \/ Room(N) <= Seen(n)
<1>1. CASE n <= 46
  <2>1. PICK r \in Int : r = Room(N) /\ r <= 46
    BY <1>1 DEF Room
  <2>2. Swap16(n) = 256 * n
    BY <1>1 DEF Swap16
  <2>3. S16(Swap16(n)) = 256 * n
    BY <1>1, <2>2, ShortIsSame
  <2> QED BY <1>1, <2>1, <2>3 DEF Seen
<1>2. CASE 46 < n
  <2>1. n = N /\ Room(N) = N
    BY <1>2 DEF Room
  <2> QED BY ONLY <2>1, Suffices(N) DEF Suffices
<1> QED BY <1>1, <1>2

(* A datagram of IPv6 from Ethernet is cut to the frame if its length is   *)
(* not seen as a smaller one, and else to that.                            *)
LEMMA Cut6 ==
  ASSUME NEW f, Sound(f), f.lt = EN10MB, nproto(f) = IPV6, NEW j \in Words,
         NEW n \in Int, 0 <= n, n < 65536, f.plen = Swap16(n), NEW room \in Int,
         f.caplen = 14 + room
  PROVE  /\ Seen(n) < 0 \/ room <= Seen(n) => Cut(f, j) = room
         /\ 0 <= Seen(n) /\ Seen(n) < room => Cut(f, j) = Seen(n)
<1>1. PICK s \in Int : s = Seen(n)
  BY SeenIsInt
<1>2. -32728 <= s /\ s <= 32807
  BY ONLY <1>1, n \in Int, 0 <= n, n < 65536, SeenIsInt
<1>3. 46 <= room /\ room <= 1586
  BY EthernetLengths
<1>4. f.caplen - datalink_hlen(f) = room
  BY EthernetLengths
<1>5. PICK a \in Int : a = Announced(f) /\ a = S16(s)
  <2>1. Announced(f) = S16(S16(f.plen) + 40)
    <3>1. IPV6 # IP /\ IPV6 # ARP /\ IPV6 # UNKNOWN_PROTO
      BY DEF IP, IPV6, ARP, UNKNOWN_PROTO
    <3> QED BY ONLY <3>1, nproto(f) = IPV6, SMT DEF Announced
  <2>2. S16(f.plen) + 40 = s
    BY ONLY <1>1, f.plen = Swap16(n), Zenon DEF Seen
  <2>3. S16(s) \in Int
    BY ONLY s \in Int, ShortRange
  <2> QED BY ONLY <2>1, <2>2, <2>3, Zenon
<1>6. a = IF s < 32768 THEN s ELSE s - 65536
  BY ONLY <1>2, <1>5, s \in Int DEF S16, U16
<1>7. MustCut(f, j) <=> UnsignedGreater(a, room)
  <2>1. UNKNOWN_PROTO # nproto(f) /\ UNKNOWN_PROTO # tproto(f, j)
    <3>1. nproto(f) # UNKNOWN_PROTO
      BY ONLY nproto(f) = IPV6 DEF IPV6, UNKNOWN_PROTO
    <3>2. tproto(f, j) # UNKNOWN_PROTO
      BY EthernetDetected
    <3> QED BY ONLY <3>1, <3>2
  <2>2. UnsignedGreater(Announced(f), f.caplen - datalink_hlen(f)) <=> UnsignedGreater(a, room)
    BY ONLY <1>4, <1>5, Zenon
  <2> QED BY ONLY <2>1, <2>2, Zenon DEF MustCut
<1>8. UnsignedGreater(a, room) <=> a < 0 \/ room < a
  BY ONLY <1>3, a \in Int, room \in Int DEF UnsignedGreater
<1>9. Cut(f, j) = IF a < 0 \/ room < a THEN room ELSE a
  <2>1. S16(room) = room
    BY ONLY <1>3, room \in Int, ShortIsSame
  <2>2. S16(f.caplen - datalink_hlen(f)) = room
    BY ONLY <1>4, <2>1, Zenon
  <2>3. Cut(f, j) = IF MustCut(f, j) THEN room ELSE a
    BY ONLY <1>5, <2>2, Zenon DEF Cut
  <2> QED BY ONLY <1>7, <1>8, <2>3, Zenon
<1>10. /\ s < 0 \/ room <= s => Cut(f, j) = room
       /\ 0 <= s /\ s < room => Cut(f, j) = s
  BY ONLY <1>2, <1>3, <1>6, <1>9, s \in Int, a \in Int, room \in Int
<1> QED BY ONLY <1>1, <1>10, Zenon

-----------------------------------------------------------------------------
(* The data that are read of a frame that brings them.                     *)

(* Only IPv4 goes without Ethernet.                                        *)
LEMMA OverEthernet ==
  ASSUME NEW f, Sound(f), nproto(f) # IP
  PROVE  f.lt = EN10MB
<1>1. f.lt = RAW \/ f.lt = EN10MB
  BY ONLY Sound(f), Zenon DEF Sound
<1>2. f.lt = RAW => nproto(f) = IP
  BY ONLY SMT DEF nproto, RAW, EN10MB, IEEE802
<1> QED BY ONLY <1>1, <1>2, nproto(f) # IP

(* Over IPv4 they are those of the object,                                 *)
LEMMA Data4 ==
  ASSUME NEW f, Sound(f), nproto(f) = IP, NEW p, p.data \in Seq(Bytes), p.version = 4,
         Brings4(f, p), NEW j \in Words, Class(f, j) = p.class, NEW q, q = get_packet(f, j)
  PROVE  q.data = p.data
<1>1. 2 * Len(f.tr) = HeaderOf(p) /\ f.len = Size(p) /\ SubSeq(f.body, 1, Len(p.data)) = p.data
  BY ONLY Brings4(f, p), Zenon DEF Brings4
<1>2. Cut(f, j) = f.len /\ f.len <= f.caplen - datalink_hlen(f)
  BY ONLY Sound(f), nproto(f) = IP, j \in Words, DatagramCut
<1>3. PICK h \in Int : h = HeaderOf(p)
  <2>1. HeaderOf(p) \in {0, 8, 20}
    BY ONLY DEF HeaderOf, TCPHDRLEN
  <2> QED BY ONLY <2>1
<1>4. PICK k \in Int : k = Len(p.data) /\ 0 <= k
  BY ONLY p.data \in Seq(Bytes), LenProperties
<1>5. Size(p) = 20 + h + k
  BY ONLY <1>3, <1>4, p.version = 4 DEF Size
<1>6. PICK c \in Int : c = 20 + h + k
  BY ONLY h \in Int, k \in Int
<1>7. k = c - 20 - h
  BY ONLY <1>6, h \in Int, k \in Int
<1>8. NetworkHlen(f) = 20
  BY ONLY Sound(f), nproto(f) = IP, SoundNetworkHlen
<1>9. TransportHlen(f, j) = h
  <2>1. p.class = Class(f, j)
    BY ONLY Class(f, j) = p.class
  <2> QED BY ONLY <1>3, <2>1, Sound(f), j \in Words, TransportLength
<1>10. c = Cut(f, j) /\ c <= f.caplen - datalink_hlen(f)
  BY ONLY <1>1, <1>2, <1>5, <1>6, Zenon
<1>11. h = 2 * Len(f.tr)
  BY ONLY <1>1, <1>3, Zenon
<1>12. nproto(f) # ARP
  BY ONLY nproto(f) = IP DEF IP, ARP
<1>13. q.data = SubSeq(f.body, 1, k)
  <2>1. PICK n \in Int : n = 20 /\ n = NetworkHlen(f) /\ k = c - n - h
    BY ONLY <1>7, <1>8
  <2>2. DataMeasures(f, j, c, n, h, k)
    BY ONLY <1>4, <1>9, <1>10, <1>11, <2>1 DEF DataMeasures
  <2> QED BY ONLY <1>12, <2>2, Sound(f), j \in Words, q = get_packet(f, j),
             c \in Int, h \in Int, k \in Int, n \in Int, DataBehind
<1> QED BY ONLY <1>1, <1>4, <1>13, Zenon

(* The padded data, which are all that is behind the header.               *)
LEMMA FilledLength ==
  ASSUME NEW data, data \in Seq(Bytes), NEW n \in Int, NEW body, body = Filled(data, n)
  PROVE  body \in Seq(Bytes) /\ Len(body) = Len(data) + (Room(n) - n)
<1>1. PICK z : z = Room(n) - n /\ z \in Nat
  BY ONLY n \in Int DEF Room
<1>2. Zeros(z) \in Seq(Bytes) /\ Len(Zeros(z)) = z
  BY ONLY <1>1, ZerosAreBytes
<1>3. data \o Zeros(z) \in Seq(Bytes) /\ Len(data \o Zeros(z)) = Len(data) + Len(Zeros(z))
  BY ONLY <1>2, data \in Seq(Bytes), Begins
<1>4. body = data \o Zeros(z)
  BY ONLY <1>1, body = Filled(data, n), Zenon DEF Filled
<1> QED BY ONLY <1>1, <1>2, <1>3, <1>4, Zenon

(* A frame that is read to its end gives all behind the header.            *)
LEMMA DataToTheEnd ==
  ASSUME NEW f, Sound(f), f.lt = EN10MB, nproto(f) # ARP, NEW j \in Words,
         NEW q, q = get_packet(f, j), NEW room \in Int, f.caplen = 14 + room,
         Cut(f, j) = room, TransportHlen(f, j) = 2 * Len(f.tr)
  PROVE  q.data = f.body
<1>1. f.body \in Seq(Bytes) /\ f.tr \in Seq(Words)
      /\ f.caplen = datalink_hlen(f) + NetworkHlen(f) + 2 * Len(f.tr) + Len(f.body)
  BY ONLY Sound(f), nproto(f) # ARP, Zenon DEF Sound
<1>2. PICK b \in Int : b = Len(f.body) /\ 0 <= b
  BY ONLY <1>1, LenProperties
<1>3. PICK t \in Int : t = TransportHlen(f, j)
  <2>1. IsFrame(f)
    BY ONLY Sound(f), Zenon DEF Sound
  <2> QED BY ONLY <2>1, TransportHlenIs
<1>4. PICK n \in Int : n = NetworkHlen(f)
  <2>1. nproto(f) = IP \/ nproto(f) = IPV6 \/ nproto(f) \notin {IP, IPV6, ARP}
    BY ONLY nproto(f) # ARP
  <2>2. NetworkHlen(f) \in {20, 40, 0}
    BY ONLY <2>1, Sound(f), SoundNetworkHlen
  <2> QED BY ONLY <2>2
<1>5. datalink_hlen(f) = 14
  BY ONLY Sound(f), f.lt = EN10MB, EthernetLengths
<1>6. 14 + room = 14 + n + t + b
  <2>1. PICK l : l = f.caplen
    OBVIOUS
  <2>2. l = 14 + n + t + b
    BY ONLY <1>1, <1>2, <1>3, <1>4, <1>5, <2>1, TransportHlen(f, j) = 2 * Len(f.tr), Zenon
  <2> QED BY ONLY <2>1, <2>2, f.caplen = 14 + room, Zenon
<1>7. b = room - n - t
  BY ONLY <1>6, room \in Int, n \in Int, t \in Int, b \in Int
<1>8. room <= f.caplen - datalink_hlen(f)
  BY ONLY <1>5, f.caplen = 14 + room, room \in Int
<1>9. room = Cut(f, j) /\ t = 2 * Len(f.tr)
  BY ONLY <1>3, Cut(f, j) = room, TransportHlen(f, j) = 2 * Len(f.tr)
<1>10. q.data = SubSeq(f.body, 1, b)
  <2>1. 0 <= b
    BY ONLY <1>2
  <2>2. t = TransportHlen(f, j) /\ n = NetworkHlen(f)
    BY ONLY <1>3, <1>4
  <2>3. DataMeasures(f, j, room, n, t, b)
    BY ONLY <1>7, <1>8, <1>9, <2>1, <2>2 DEF DataMeasures
  <2> QED BY ONLY <2>3, Sound(f), nproto(f) # ARP, j \in Words, q = get_packet(f, j),
             room \in Int, n \in Int, t \in Int, b \in Int, DataBehind
<1>11. SubSeq(f.body, 1, Len(f.body)) = f.body
  BY ONLY <1>1, SubSeqFull
<1> QED BY ONLY <1>2, <1>10, <1>11, Zenon

(* Over IPv6 they are all behind the header,                               *)
LEMMA Data6 ==
  ASSUME NEW f, Sound(f), nproto(f) = IPV6, NEW p, IsPacket(p), IsIP(p), p.version # 4,
         LengthSuffices(p), Brings6(f, p), NEW j \in Words, Class(f, j) = p.class,
         NEW q, q = get_packet(f, j)
  PROVE  q.data = f.body /\ f.caplen = 14 + Cut(f, j)
<1>1. 2 * Len(f.tr) = HeaderOf(p) /\ f.caplen = 14 + Room(Size(p))
      /\ \E n \in 40 .. Room(Size(p)) : f.plen = Swap16(n) /\ Room(n) = Room(Size(p))
  BY ONLY Brings6(f, p), Zenon DEF Brings6
<1>2. PICK N \in Int : N = Size(p) /\ 40 <= N /\ N <= 1586 /\ Suffices(N)
  BY ONLY IsPacket(p), IsIP(p), p.version # 4, LengthSuffices(p), SizeOver6
<1>3. PICK room \in Int : room = Room(N) /\ room <= 1586
  <2>1. N <= 1586
    BY ONLY <1>2
  <2> QED BY ONLY <2>1, N \in Int DEF Room
<1>4. PICK n \in 40 .. room : f.plen = Swap16(n) /\ Room(n) = room
  <2>1. Room(Size(p)) = room
    BY ONLY <1>2, <1>3
  <2>2. \E n \in 40 .. Room(Size(p)) : f.plen = Swap16(n) /\ Room(n) = Room(Size(p))
    BY ONLY <1>1
  <2> QED BY ONLY <2>1, <2>2
<1>5. n \in Int /\ 40 <= n /\ n <= room
  BY ONLY n \in 40 .. room, room \in Int
<1>6. Seen(n) < 0 \/ room <= Seen(n)
  <2>1. n <= Room(N) /\ Room(n) = Room(N)
    BY ONLY <1>3, <1>4, <1>5
  <2>2. Seen(n) < 0 \/ Room(N) <= Seen(n)
    BY ONLY <1>2, <1>5, <2>1, N \in Int, SeenIsEnough
  <2> QED BY ONLY <1>3, <2>2
<1>7. f.lt = EN10MB
  <2>1. nproto(f) # IP
    BY ONLY nproto(f) = IPV6 DEF IP, IPV6
  <2> QED BY ONLY <2>1, Sound(f), OverEthernet
<1>8. f.caplen = 14 + room
  BY ONLY <1>1, <1>2, <1>3
<1>9. Cut(f, j) = room
  <2>1. 0 <= n /\ n < 65536
    BY ONLY <1>3, <1>5, room \in Int
  <2> QED BY ONLY <1>4, <1>5, <1>6, <1>7, <1>8, <2>1, Sound(f), nproto(f) = IPV6, j \in Words,
             room \in Int, Cut6
<1>10. TransportHlen(f, j) = 2 * Len(f.tr)
  <2>1. p.class = Class(f, j)
    BY ONLY Class(f, j) = p.class
  <2>2. TransportHlen(f, j) = HeaderOf(p)
    BY ONLY <2>1, Sound(f), j \in Words, TransportLength
  <2> QED BY ONLY <1>1, <2>2
<1>11. nproto(f) # ARP
  BY ONLY nproto(f) = IPV6 DEF ARP, IPV6
<1>12. q.data = f.body
  BY ONLY <1>7, <1>8, <1>9, <1>10, <1>11, Sound(f), j \in Words, q = get_packet(f, j),
     room \in Int, DataToTheEnd
<1> QED BY ONLY <1>8, <1>9, <1>12, Zenon

(* as they are without IP.                                                 *)
LEMMA DataPlain ==
  ASSUME NEW f, Sound(f), NEW j \in Words, Class(f, j) = "Packet", NEW q, q = get_packet(f, j)
  PROVE  q.data = f.body /\ f.caplen = 14 + Cut(f, j)
<1>1. nproto(f) \notin {IP, IPV6, ARP}
  BY ONLY Sound(f), j \in Words, Class(f, j) = "Packet", ClassOfSound
<1>2. f.lt = EN10MB
  BY ONLY <1>1, Sound(f), OverEthernet
<1>3. PICK room \in Int : room = f.caplen - datalink_hlen(f) /\ f.caplen = 14 + room /\ room <= 1600
                          /\ 46 <= room
  <2>1. datalink_hlen(f) = 14 /\ f.caplen \in Int /\ 60 <= f.caplen /\ f.caplen <= 1600
    BY ONLY <1>2, Sound(f), EthernetLengths
  <2> QED BY ONLY <2>1
<1>4. S16(room) = room
  BY ONLY <1>3, room \in Int, ShortIsSame
<1>5. Announced(f) = room
  <2>1. nproto(f) # UNKNOWN_PROTO
    BY ONLY Sound(f), Zenon DEF Sound
  <2>2. Announced(f) = S16(f.caplen - datalink_hlen(f))
    BY ONLY <1>1, <2>1, SMT DEF Announced
  <2> QED BY ONLY <1>3, <1>4, <2>2, Zenon
<1>6. Cut(f, j) = room
  <2>1. S16(f.caplen - datalink_hlen(f)) = room
    BY ONLY <1>3, <1>4, Zenon
  <2> QED BY ONLY <1>5, <2>1, Zenon DEF Cut
<1>7. TransportHlen(f, j) = 2 * Len(f.tr)
  <2>1. f.tr = <<>>
    BY ONLY <1>1, Sound(f), Zenon DEF Sound
  <2>2. TransportHlen(f, j) = HeaderOf([class |-> "Packet"])
    BY ONLY Sound(f), j \in Words, Class(f, j) = "Packet", TransportLength
  <2>3. HeaderOf([class |-> "Packet"]) = 0
    BY ONLY DEF HeaderOf
  <2>4. 2 * Len(f.tr) = 0
    <3>1. 2 * Len(<<>>) = 0
      OBVIOUS
    <3> QED BY ONLY <2>1, <3>1, Zenon
  <2> QED BY ONLY <2>2, <2>3, <2>4
<1>8. nproto(f) # ARP /\ f.caplen = 14 + room
  BY ONLY <1>1, <1>3
<1>9. q.data = f.body
  BY ONLY <1>2, <1>6, <1>7, <1>8, Sound(f), j \in Words, q = get_packet(f, j),
     room \in Int, DataToTheEnd, Zenon
<1> QED BY ONLY <1>6, <1>8, <1>9, Zenon

-----------------------------------------------------------------------------
(* What is sent on: a frame that tells of the object that was read tells   *)
(* of the one it was read from, and brings its data.                       *)

(* The header of IPv4,                                                      *)
LEMMA TellsOn4 ==
  ASSUME NEW f, NEW g, NEW p, NEW q, Tells4(f, p), Tells4(f, q), Tells4(g, q)
  PROVE  Tells4(g, p)
<1>1. nproto(g) = IP /\ g.off % 8192 = 0
  BY ONLY Tells4(g, q), SMT DEF Tells4
<1>2. /\ f.tos = U8(TOSByte(p)) /\ f.id = U16(p.ident) /\ f.ttl = U8(p.hop_limit)
      /\ f.p = Protocol(p) /\ f.src = p.src /\ f.dst = p.dst
  BY ONLY Tells4(f, p), SMT DEF Tells4
<1>3. /\ f.tos = U8(TOSByte(q)) /\ f.id = U16(q.ident) /\ f.ttl = U8(q.hop_limit)
      /\ f.p = Protocol(q) /\ f.src = q.src /\ f.dst = q.dst
  BY ONLY Tells4(f, q), SMT DEF Tells4
<1>4. /\ g.tos = U8(TOSByte(q)) /\ g.id = U16(q.ident) /\ g.ttl = U8(q.hop_limit)
      /\ g.p = Protocol(q) /\ g.src = q.src /\ g.dst = q.dst
  BY ONLY Tells4(g, q), SMT DEF Tells4
<1>5. /\ g.tos = U8(TOSByte(p)) /\ g.id = U16(p.ident) /\ g.ttl = U8(p.hop_limit)
      /\ g.p = Protocol(p) /\ g.src = p.src /\ g.dst = p.dst
  BY ONLY <1>2, <1>3, <1>4
<1> QED BY ONLY <1>1, <1>5, SMT DEF Tells4

(* of IPv6,                                                                 *)
LEMMA TellsOn6 ==
  ASSUME NEW f, NEW g, NEW p, NEW q, Tells6(f, p), Tells6(f, q), Tells6(g, q)
  PROVE  Tells6(g, p)
<1>1. nproto(g) = IPV6
  BY ONLY Tells6(g, q), SMT DEF Tells6
<1>2. /\ f.ttl = U8(p.hop_limit) /\ f.nxt = Protocol(p) /\ f.src = p.src /\ f.dst = p.dst
      /\ f.flow[1] = FlowWord(p)
  BY ONLY Tells6(f, p), SMT DEF Tells6
<1>3. /\ f.ttl = U8(q.hop_limit) /\ f.nxt = Protocol(q) /\ f.src = q.src /\ f.dst = q.dst
      /\ f.flow[1] = FlowWord(q)
  BY ONLY Tells6(f, q), SMT DEF Tells6
<1>4. /\ g.ttl = U8(q.hop_limit) /\ g.nxt = Protocol(q) /\ g.src = q.src /\ g.dst = q.dst
      /\ g.flow[1] = FlowWord(q)
  BY ONLY Tells6(g, q), SMT DEF Tells6
<1>5. (g.flow[2] \div 256) % 16 = (p.flow_label[2] \div 256) % 16
  BY ONLY Tells6(f, p), Tells6(f, q), Tells6(g, q), SMT DEF Tells6
<1>6. /\ g.ttl = U8(p.hop_limit) /\ g.nxt = Protocol(p) /\ g.src = p.src /\ g.dst = p.dst
      /\ g.flow[1] = FlowWord(p)
  BY ONLY <1>2, <1>3, <1>4
<1> QED BY ONLY <1>1, <1>5, <1>6, SMT DEF Tells6

(* of TCP,                                                                  *)
LEMMA TellsOnTCP ==
  ASSUME NEW f, NEW g, NEW p, NEW q, TellsTCP(f, p), TellsTCP(f, q), TellsTCP(g, q)
  PROVE  TellsTCP(g, p)
  BY ONLY TellsTCP(f, p), TellsTCP(f, q), TellsTCP(g, q), Zenon DEF TellsTCP

(* of ICMP,                                                                 *)
LEMMA TellsOnICMP ==
  ASSUME NEW f, NEW g, NEW p, NEW q, TellsICMP(f, p), TellsICMP(f, q), TellsICMP(g, q),
         q.type = p.type
  PROVE  TellsICMP(g, p)
<1>1. g.tr[1] = 256 * U8(p.type) + U8(p.code)
  <2>1. f.tr[1] = 256 * U8(p.type) + U8(p.code)
    BY ONLY TellsICMP(f, p), Zenon DEF TellsICMP
  <2>2. f.tr[1] = 256 * U8(q.type) + U8(q.code)
    BY ONLY TellsICMP(f, q), Zenon DEF TellsICMP
  <2>3. g.tr[1] = 256 * U8(q.type) + U8(q.code)
    BY ONLY TellsICMP(g, q), Zenon DEF TellsICMP
  <2> QED BY ONLY <2>1, <2>2, <2>3, Zenon
<1>2. p.type \in ECHO =>
        Len(g.tr) = 4 /\ S8(g.tr[3]) = S8(p.id) /\ S8(g.tr[4]) = S8(p.seq)
  BY ONLY TellsICMP(f, p), TellsICMP(f, q), TellsICMP(g, q), q.type = p.type, Zenon
     DEF TellsICMP
<1>3. p.type \notin ECHO => 4 <= Len(g.tr) /\ Len(g.tr) <= 16 /\ g.len = 20 + 2 * Len(g.tr)
  BY ONLY TellsICMP(g, q), q.type = p.type, Zenon DEF TellsICMP
<1> QED BY ONLY <1>1, <1>2, <1>3, Zenon DEF TellsICMP

(* a message of ARP,                                                        *)
LEMMA TellsOnARP ==
  ASSUME NEW f, NEW g, NEW p, NEW q, TellsARP(f, p), TellsARP(f, q), TellsARP(g, q)
  PROVE  TellsARP(g, p)
<1>1. nproto(g) = ARP /\ g.caplen = 60
  BY ONLY TellsARP(g, q), Zenon DEF TellsARP
<1>2. g.tr[1] = U16(p.hardtype) /\ g.tr[2] = U16(p.prototype) /\ g.tr[4] = U16(p.operation)
  BY ONLY TellsARP(f, p), TellsARP(f, q), TellsARP(g, q), Zenon DEF TellsARP
<1>3. /\ p.sender_hardaddr = SubSeq(g.tr, 5, 7) /\ p.sender_protoaddr = SubSeq(g.tr, 8, 9)
      /\ p.target_hardaddr = SubSeq(g.tr, 10, 12) /\ p.target_protoaddr = SubSeq(g.tr, 13, 14)
  BY ONLY TellsARP(f, p), TellsARP(f, q), TellsARP(g, q), Zenon DEF TellsARP
<1> QED BY ONLY <1>1, <1>2, <1>3, Zenon DEF TellsARP

(* and so every frame.                                                      *)
LEMMA TellsOn ==
  ASSUME NEW f, NEW g, NEW p, NEW q, Tells(f, p), ReadBack(f, p, q), Tells(g, q)
  PROVE  Tells(g, p)
<1>1. /\ q.class = p.class /\ Tells(f, q)
      /\ IsIP(p) => q.version = p.version
      /\ p.class = "ICMPPacket" => q.type = p.type
  BY ONLY ReadBack(f, p, q), Zenon DEF ReadBack
<1>2. IsIP(p) => IsIP(q)
  BY ONLY <1>1, Zenon DEF IsIP
<1>3. IsIP(p) /\ p.version = 4 => Tells4(g, p)
  BY ONLY Tells(f, p), Tells(g, q), <1>1, <1>2, TellsOn4, Zenon DEF Tells
<1>4. IsIP(p) /\ p.version # 4 => Tells6(g, p)
  BY ONLY Tells(f, p), Tells(g, q), <1>1, <1>2, TellsOn6, Zenon DEF Tells
<1>5. p.class = "TCPPacket" => TellsTCP(g, p)
  BY ONLY Tells(f, p), Tells(g, q), <1>1, TellsOnTCP, Zenon DEF Tells
<1>6. p.class = "UDPPacket" => TellsUDP(g, p)
  BY ONLY Tells(f, p), Tells(g, q), <1>1, Zenon DEF Tells, TellsUDP
<1>7. p.class = "ICMPPacket" => TellsICMP(g, p)
  BY ONLY Tells(f, p), Tells(g, q), <1>1, TellsOnICMP, Zenon DEF Tells
<1>8. p.class = "ARPPacket" => TellsARP(g, p)
  BY ONLY Tells(f, p), Tells(g, q), <1>1, TellsOnARP, Zenon DEF Tells
<1>9. p.class = "Packet" => nproto(g) = U16(p.frametype)
  BY ONLY Tells(f, p), Tells(g, q), <1>1, Zenon DEF Tells
<1> QED BY ONLY <1>3, <1>4, <1>5, <1>6, <1>7, <1>8, <1>9, Zenon DEF Tells

-----------------------------------------------------------------------------
(* Data that fill the room are not filled any further.                     *)
LEMMA NotFilled ==
  ASSUME NEW body, body \in Seq(Bytes), NEW n \in Int
  PROVE  Filled(body, Room(n)) = body /\ Room(Room(n)) = Room(n) /\ Room(n) \in Int
<1>1. PICK r \in Int : r = Room(n) /\ Room(r) = r /\ r - r = 0
  BY ONLY n \in Int DEF Room
<1>2. Zeros(0) = <<>>
  <2>1. Zeros(0) \in Seq(Bytes) /\ Len(Zeros(0)) = 0
    BY ZerosAreBytes
  <2> QED BY ONLY <2>1, EmptySeq
<1>3. Filled(body, r) = body \o <<>>
  <2>1. Filled(body, r) = body \o Zeros(r - r)
    BY ONLY <1>1, Zenon DEF Filled
  <2> QED BY ONLY <1>1, <1>2, <2>1, Zenon
<1>4. body \o <<>> = body
  BY ONLY body \in Seq(Bytes), ConcatEmptySeq
<1> QED BY ONLY <1>1, <1>3, <1>4, Zenon

(* The headers of two objects of a class.                                  *)
LEMMA SameHeaderOf ==
  ASSUME NEW p, NEW q, q.class = p.class
  PROVE  HeaderOf(q) = HeaderOf(p) /\ HeaderOf(p) \in Int
  BY ONLY q.class = p.class DEF HeaderOf, TCPHDRLEN

(* The data over IPv4,                                                      *)
LEMMA BringsOn4 ==
  ASSUME NEW p, NEW q, q.class = p.class, q.version = p.version, q.data = p.data,
         NEW g, Brings4(g, q)
  PROVE  Brings4(g, p)
<1>1. HeaderOf(q) = HeaderOf(p)
  BY ONLY q.class = p.class, SameHeaderOf
<1>2. Size(q) = Size(p)
  BY ONLY <1>1, q.version = p.version, q.data = p.data, Zenon DEF Size
<1> QED BY ONLY <1>1, <1>2, q.data = p.data, Brings4(g, q), Zenon DEF Brings4

(* over IPv6, with what Ethernet filled them up,                            *)
LEMMA BringsOn6 ==
  ASSUME NEW p, p.data \in Seq(Bytes), p.version # 4, NEW f, Brings6(f, p),
         NEW q, q.class = p.class, q.version = p.version, q.data = f.body,
         NEW g, Brings6(g, q)
  PROVE  Brings6(g, p)
<1>1. HeaderOf(q) = HeaderOf(p)
  BY ONLY q.class = p.class, SameHeaderOf
<1>2. PICK h \in Int, k \in Int : h = HeaderOf(p) /\ k = Len(p.data)
  <2>1. HeaderOf(p) \in Int
    BY ONLY q.class = p.class, SameHeaderOf
  <2>2. Len(p.data) \in Int
    BY ONLY p.data \in Seq(Bytes), LenProperties
  <2> QED BY ONLY <2>1, <2>2, Zenon
<1>3. PICK N \in Int : N = Size(p) /\ N = 40 + h + k
  BY ONLY <1>2, p.version # 4 DEF Size
<1>4. f.body = Filled(p.data, N)
  BY ONLY <1>3, Brings6(f, p), Zenon DEF Brings6
<1>5. f.body \in Seq(Bytes) /\ Len(f.body) = k + (Room(N) - N)
  <2>1. f.body \in Seq(Bytes) /\ Len(f.body) = Len(p.data) + (Room(N) - N)
    BY ONLY <1>4, p.data \in Seq(Bytes), N \in Int, FilledLength
  <2> QED BY ONLY <1>2, <2>1, Zenon
<1>6. PICK r \in Int : r = Room(N) /\ Room(r) = r /\ Filled(f.body, r) = f.body
  BY ONLY <1>5, N \in Int, NotFilled
<1>7. Size(q) = r
  <2>1. PICK l \in Int : l = Len(q.data) /\ l = k + (r - N)
    <3>1. Len(q.data) = k + (r - N)
      BY ONLY <1>5, <1>6, q.data = f.body, Zenon
    <3>2. k + (r - N) \in Int
      BY ONLY k \in Int, r \in Int, N \in Int
    <3> QED BY ONLY <3>1, <3>2, Zenon
  <2>2. Size(q) = 40 + h + l
    BY ONLY <1>1, <1>2, <2>1, q.version = p.version, p.version # 4, Zenon DEF Size
  <2>3. 40 + h + l = r
    BY ONLY <1>3, <2>1, h \in Int, k \in Int, l \in Int, r \in Int, N \in Int
  <2> QED BY ONLY <2>2, <2>3, Zenon
<1>8. /\ 2 * Len(g.tr) = HeaderOf(q) /\ g.caplen = 14 + Room(r)
      /\ \E n \in 40 .. Room(r) : g.plen = Swap16(n) /\ Room(n) = Room(r)
      /\ g.body = Filled(q.data, r)
  BY ONLY <1>7, Brings6(g, q), Zenon DEF Brings6
<1>9. /\ 2 * Len(g.tr) = HeaderOf(p) /\ g.caplen = 14 + Room(Size(p))
      /\ g.body = Filled(p.data, Size(p))
  BY ONLY <1>1, <1>3, <1>4, <1>6, <1>8, q.data = f.body, Zenon
<1>10. Room(r) = Room(Size(p))
  BY ONLY <1>3, <1>6, Zenon
<1>11. \E n \in 40 .. Room(Size(p)) : g.plen = Swap16(n) /\ Room(n) = Room(Size(p))
  BY ONLY <1>8, <1>10
<1> QED BY ONLY <1>9, <1>11, Zenon DEF Brings6

(* and those of a frame that jpcap does not analyze.                        *)
LEMMA BringsOnPlain ==
  ASSUME NEW p, p.data \in Seq(Bytes), NEW f, BringsPlain(f, p),
         NEW q, q.data = f.body, NEW g, BringsPlain(g, q)
  PROVE  BringsPlain(g, p)
<1>1. PICK k \in Int : k = Len(p.data)
  BY ONLY p.data \in Seq(Bytes), LenProperties
<1>2. f.body = Filled(p.data, k)
  BY ONLY <1>1, BringsPlain(f, p), Zenon DEF BringsPlain
<1>3. f.body \in Seq(Bytes) /\ Len(f.body) = Len(p.data) + (Room(k) - k)
  BY ONLY <1>2, p.data \in Seq(Bytes), k \in Int, FilledLength
<1>4. PICK r \in Int : r = Room(k) /\ Room(r) = r /\ Filled(f.body, r) = f.body
  BY ONLY <1>3, k \in Int, NotFilled
<1>5. Len(q.data) = r
  <2>1. Len(f.body) = k + (r - k)
    BY ONLY <1>1, <1>3, <1>4, Zenon
  <2>2. k + (r - k) = r
    BY ONLY k \in Int, r \in Int
  <2> QED BY ONLY <2>1, <2>2, q.data = f.body, Zenon
<1>6. g.caplen = 14 + Room(r) /\ g.body = Filled(q.data, r)
  BY ONLY <1>5, BringsPlain(g, q), Zenon DEF BringsPlain
<1>7. g.caplen = 14 + Room(Len(p.data)) /\ g.body = Filled(p.data, Len(p.data))
  BY ONLY <1>1, <1>2, <1>4, <1>6, q.data = f.body, Zenon
<1> QED BY ONLY <1>7, Zenon DEF BringsPlain

-----------------------------------------------------------------------------
(* What is dumped tells and brings what the frame did.                     *)

(* As long as only the body is written again, the headers are the same.    *)
LEMMA DumpTells ==
  ASSUME NEW f, NEW g, SameButBody(g, f), NEW p
  PROVE  /\ Tells(f, p) => Tells(g, p)
         /\ nproto(g) = nproto(f) /\ datalink_hlen(g) = datalink_hlen(f)
         /\ SameKind(f, p) => SameKind(g, p)
<1>1. /\ g.tos = f.tos /\ g.len = f.len /\ g.id = f.id /\ g.off = f.off
      /\ g.ttl = f.ttl /\ g.p = f.p /\ g.src = f.src /\ g.dst = f.dst
      /\ g.flow = f.flow /\ g.nxt = f.nxt /\ g.tr = f.tr
      /\ g.lt = f.lt /\ g.type = f.type /\ g.caplen = f.caplen
  BY ONLY SameButBody(g, f), Zenon DEF SameButBody, SameHeaders
<1>2. nproto(g) = nproto(f) /\ datalink_hlen(g) = datalink_hlen(f)
  BY ONLY <1>1, Zenon DEF nproto, datalink_hlen
<1>3. Tells4(f, p) => Tells4(g, p)
  BY ONLY <1>1, <1>2, SMT DEF Tells4
<1>4. Tells6(f, p) => Tells6(g, p)
  BY ONLY <1>1, <1>2, SMT DEF Tells6
<1>5. TellsTCP(f, p) => TellsTCP(g, p)
  BY ONLY <1>1, Zenon DEF TellsTCP
<1>6. TellsUDP(f, p) => TellsUDP(g, p)
  BY ONLY <1>1, Zenon DEF TellsUDP
<1>7. TellsICMP(f, p) => TellsICMP(g, p)
  BY ONLY <1>1, SMT DEF TellsICMP
<1>8. TellsARP(f, p) => TellsARP(g, p)
  BY ONLY <1>1, <1>2, Zenon DEF TellsARP
<1>9. SameKind(f, p) => SameKind(g, p)
  BY ONLY <1>1, <1>2, SMT DEF SameKind
<1>10. Tells(f, p) => Tells(g, p)
  BY ONLY <1>2, <1>3, <1>4, <1>5, <1>6, <1>7, <1>8, Zenon DEF Tells
<1> QED BY ONLY <1>2, <1>9, <1>10

(* The same bytes at the beginning are the same part.                      *)
LEMMA SameBeginning ==
  ASSUME NEW a, NEW b, NEW k \in Int, 0 <= k,
         \A i \in 1 .. k : a[i] = b[i] /\ a[i] \in Bytes
  PROVE  SubSeq(a, 1, k) = SubSeq(b, 1, k)
<1>1. 1 <= k + 1 /\ k - 1 + 1 = k /\ \A i \in 1 .. k : 1 + i - 1 = i
  BY ONLY 0 <= k, k \in Int
<1>2. \A i \in 1 .. k : a[i] \in Bytes /\ b[i] \in Bytes
  BY ONLY \A i \in 1 .. k : a[i] = b[i] /\ a[i] \in Bytes, Zenon
<1>3. PICK x : /\ x = SubSeq(a, 1, k) /\ x \in Seq(Bytes) /\ Len(x) = k
               /\ \A i \in 1 .. k : x[i] = a[i]
  <2>1. /\ SubSeq(a, 1, k) \in Seq(Bytes) /\ Len(SubSeq(a, 1, k)) = k - 1 + 1
        /\ \A i \in 1 .. k - 1 + 1 : SubSeq(a, 1, k)[i] = a[1 + i - 1]
    BY ONLY <1>1, <1>2, k \in Int, SubSeqIs
  <2> QED BY ONLY <1>1, <2>1, Zenon
<1>4. PICK y : /\ y = SubSeq(b, 1, k) /\ y \in Seq(Bytes) /\ Len(y) = k
               /\ \A i \in 1 .. k : y[i] = b[i]
  <2>1. /\ SubSeq(b, 1, k) \in Seq(Bytes) /\ Len(SubSeq(b, 1, k)) = k - 1 + 1
        /\ \A i \in 1 .. k - 1 + 1 : SubSeq(b, 1, k)[i] = b[1 + i - 1]
    BY ONLY <1>1, <1>2, k \in Int, SubSeqIs
  <2> QED BY ONLY <1>1, <2>1, Zenon
<1>5. \A i \in 1 .. k : x[i] = y[i]
  BY ONLY <1>3, <1>4, \A i \in 1 .. k : a[i] = b[i] /\ a[i] \in Bytes, Zenon
<1>6. Len(x) = Len(y) /\ \A i \in 1 .. Len(x) : x[i] = y[i]
  BY ONLY <1>3, <1>4, <1>5, Zenon
<1>7. x = y
  BY ONLY <1>3, <1>4, <1>6, SeqEqual, Zenon
<1> QED BY ONLY <1>3, <1>4, <1>7, Zenon

(* writePacket keeps the bytes that the object holds.                      *)
WrittenAs(g, f, kept) ==
  /\ SameButBody(g, f) /\ f.body \in Seq(Bytes)
  /\ \A i \in 1 .. Len(f.body) :
       f.caplen - Len(f.body) + i <= kept => g.body[i] = f.body[i]

(* All of them are the whole body;                                         *)
LEMMA DumpBringsAll ==
  ASSUME NEW f, f.caplen \in Int, NEW g, WrittenAs(g, f, f.caplen)
  PROVE  g.body = f.body
<1>1. PICK b \in Int : b = Len(f.body) /\ 0 <= b
  BY ONLY WrittenAs(g, f, f.caplen), LenProperties DEF WrittenAs
<1>2. PICK c \in Int : c = f.caplen
  BY ONLY f.caplen \in Int
<1>3. \A i \in 1 .. b : c - b + i <= c
  BY ONLY b \in Int, c \in Int
<1>4. \A i \in 1 .. b : g.body[i] = f.body[i]
  BY ONLY <1>1, <1>2, <1>3, WrittenAs(g, f, f.caplen), SMT DEF WrittenAs
<1>5. g.body \in Seq(Bytes) /\ f.body \in Seq(Bytes) /\ Len(g.body) = Len(f.body)
  BY ONLY WrittenAs(g, f, f.caplen), Zenon DEF WrittenAs, SameButBody
<1>6. \A i \in 1 .. Len(g.body) : g.body[i] = f.body[i]
  BY ONLY <1>1, <1>4, <1>5, Zenon
<1> QED BY ONLY <1>5, <1>6, SeqEqual, Zenon

(* those of a datagram are its data.                                       *)
LEMMA DumpBrings4 ==
  ASSUME NEW f, Sound(f), nproto(f) = IP, NEW p, p.data \in Seq(Bytes), p.version = 4,
         Brings4(f, p), NEW g, WrittenAs(g, f, datalink_hlen(f) + f.len)
  PROVE  Brings4(g, p)
<1>1. /\ 2 * Len(f.tr) = HeaderOf(p) /\ f.len = Size(p)
      /\ SubSeq(f.body, 1, Len(p.data)) = p.data
  BY ONLY Brings4(f, p), Zenon DEF Brings4
<1>2. PICK h \in Int : h = HeaderOf(p)
  <2>1. HeaderOf(p) \in {0, 8, 20}
    BY ONLY DEF HeaderOf, TCPHDRLEN
  <2> QED BY ONLY <2>1
<1>3. PICK k \in Int : k = Len(p.data) /\ 0 <= k
  BY ONLY p.data \in Seq(Bytes), LenProperties
<1>4. Size(p) = 20 + h + k
  BY ONLY <1>2, <1>3, p.version = 4 DEF Size
<1>5. /\ f.caplen = datalink_hlen(f) + NetworkHlen(f) + 2 * Len(f.tr) + Len(f.body)
      /\ f.len <= f.caplen - datalink_hlen(f)
  <2>1. nproto(f) # ARP
    BY ONLY nproto(f) = IP DEF IP, ARP
  <2> QED BY ONLY <2>1, Sound(f), nproto(f) = IP, Zenon DEF Sound, Sound4
<1>6. NetworkHlen(f) = 20
  BY ONLY Sound(f), nproto(f) = IP, SoundNetworkHlen
<1>7. PICK l \in Int : l = datalink_hlen(f) /\ f.caplen \in Int
  BY ONLY Sound(f), SoundLengths
<1>8. PICK b \in Int : b = Len(f.body) /\ f.body \in Seq(Bytes)
  BY ONLY WrittenAs(g, f, datalink_hlen(f) + f.len), LenProperties DEF WrittenAs
<1>9. PICK c \in Int : c = f.caplen /\ c = l + 20 + h + b /\ 20 + h + k <= c - l
  <2>1. PICK c \in Int : c = f.caplen
    BY ONLY <1>7
  <2>2. c = l + 20 + h + b
    BY ONLY <1>1, <1>2, <1>5, <1>6, <1>7, <1>8, <2>1, Zenon
  <2>3. 20 + h + k <= c - l
    BY ONLY <1>1, <1>4, <1>5, <1>7, <2>1
  <2> QED BY ONLY <2>1, <2>2, <2>3
<1>10. k <= b
  BY ONLY <1>9, k \in Int, b \in Int, l \in Int, h \in Int
<1>11. \A i \in 1 .. k : i \in 1 .. b /\ c - b + i <= l + (20 + h + k)
  BY ONLY <1>9, <1>10, k \in Int, b \in Int, l \in Int, h \in Int, c \in Int
<1>12. \A i \in 1 .. k : g.body[i] = f.body[i] /\ g.body[i] \in Bytes
  <2>1. PICK kept : kept = datalink_hlen(f) + f.len
    OBVIOUS
  <2>2. kept = l + (20 + h + k)
    BY ONLY <1>1, <1>4, <1>7, <2>1, Zenon
  <2>3. \A i \in 1 .. b : c - b + i <= kept => g.body[i] = f.body[i]
    BY ONLY <1>8, <1>9, <2>1, WrittenAs(g, f, datalink_hlen(f) + f.len), SMT DEF WrittenAs
  <2>4. \A i \in 1 .. k : g.body[i] = f.body[i] /\ i \in 1 .. b
    BY ONLY <1>11, <2>2, <2>3, SMT
  <2>5. \A i \in 1 .. b : f.body[i] \in Bytes
    BY ONLY <1>8, LenProperties
  <2> QED BY ONLY <2>4, <2>5, Zenon
<1>13. SubSeq(g.body, 1, k) = SubSeq(f.body, 1, k)
  BY ONLY <1>3, <1>12, SameBeginning
<1>14. SameButBody(g, f) /\ datalink_hlen(g) = datalink_hlen(f)
  <2>1. SameButBody(g, f)
    BY ONLY WrittenAs(g, f, datalink_hlen(f) + f.len), Zenon DEF WrittenAs
  <2> QED BY ONLY <2>1, DumpTells
<1>15. g.tr = f.tr /\ g.len = f.len /\ g.lt = f.lt /\ g.caplen = f.caplen
  BY ONLY <1>14, Zenon DEF SameButBody, SameHeaders
<1>16. SubSeq(g.body, 1, Len(p.data)) = p.data
  BY ONLY <1>1, <1>3, <1>13, Zenon
<1> QED BY ONLY <1>14, <1>15, <1>16, Brings4(f, p), SMT DEF Brings4

-----------------------------------------------------------------------------
(* What arrives tells and brings what was sent.                            *)

(* The data of the object arrive.                                          *)
Carried(p) == HasData(p) /\ (IsIP(p) => LengthSuffices(p))

Arrived(f, p) ==
  /\ SameKind(f, p)
  /\ Known(p) => Tells(f, p)
  /\ Known(p) /\ Carried(p) => Brings(f, p)

(* What is told says which protocol it is.                                 *)
LEMMA ToldNetwork ==
  ASSUME NEW f, NEW p, IsPacket(p), Tells(f, p)
  PROVE  /\ IsIP(p) /\ p.version = 4 => nproto(f) = IP
         /\ IsIP(p) /\ p.version # 4 => nproto(f) = IPV6
         /\ p.class = "Packet" => nproto(f) \notin {IP, IPV6, ARP}
<1>1. IsIP(p) /\ p.version = 4 => nproto(f) = IP
  BY ONLY Tells(f, p), SMT DEF Tells, Tells4
<1>2. IsIP(p) /\ p.version # 4 => nproto(f) = IPV6
  BY ONLY Tells(f, p), Zenon DEF Tells, Tells6
<1>3. ASSUME p.class = "Packet"
      PROVE  nproto(f) \notin {IP, IPV6, ARP}
  <2>1. U16(p.frametype) \notin {IP, IPV6, ARP, REVARP, ICMP, TCP, UDP, UNKNOWN_PROTO}
    BY ONLY <1>3, IsPacket(p), Zenon DEF IsPacket
  <2>2. nproto(f) = U16(p.frametype)
    BY ONLY <1>3, Tells(f, p), Zenon DEF Tells
  <2>3. U16(p.frametype) \notin {IP, IPV6, ARP}
    BY ONLY <2>1, Zenon
  <2> QED BY ONLY <2>2, <2>3, Zenon
<1> QED BY ONLY <1>1, <1>2, <1>3

(* What an object of IP holds.                                             *)
LEMMA DataOfPacket ==
  ASSUME NEW p, IsPacket(p)
  PROVE  /\ IsIP(p) => p.data \in Seq(Bytes) /\ p.version \in {4, 6}
         /\ p.class = "Packet" => p.data \in Seq(Bytes) /\ ~IsIP(p)
<1>1. IsIP(p) => p.data \in Seq(Bytes) /\ p.version \in {4, 6}
  BY ONLY IsPacket(p), Zenon DEF IsPacket, HoldsIP
<1>2. p.class = "Packet" => p.data \in Seq(Bytes)
  BY ONLY IsPacket(p), Zenon DEF IsPacket
<1>3. p.class = "Packet" => ~IsIP(p)
  BY ONLY SMT DEF IsIP
<1> QED BY ONLY <1>1, <1>2, <1>3

(* What is read of data that arrive.                                       *)
DataRead(f, p, j, q) ==
  /\ IsIP(p) /\ p.version = 4 => q.data = p.data
  /\ IsIP(p) /\ p.version # 4 => q.data = f.body /\ f.caplen = 14 + Cut(f, j)
  /\ p.class = "Packet"       => q.data = f.body /\ f.caplen = 14 + Cut(f, j)

(* Data that were brought are read.                                         *)
LEMMA DataIsRead ==
  ASSUME NEW f, Sound(f), NEW p, IsPacket(p), Known(p), Carried(p), Tells(f, p), Brings(f, p),
         NEW j \in Words, NEW q, q = get_packet(f, j)
  PROVE  DataRead(f, p, j, q)
<1>1. Class(f, j) = p.class
  BY ONLY Sound(f), IsPacket(p), Known(p), Tells(f, p), j \in Words, ClassIsRead
<1>2. /\ IsIP(p) /\ p.version = 4 => nproto(f) = IP
      /\ IsIP(p) /\ p.version # 4 => nproto(f) = IPV6
  BY ONLY IsPacket(p), Tells(f, p), ToldNetwork
<1>3. IsIP(p) => p.data \in Seq(Bytes)
  BY ONLY IsPacket(p), DataOfPacket
<1>4. ASSUME IsIP(p), p.version = 4
      PROVE  q.data = p.data
  <2>1. Brings4(f, p)
    BY ONLY <1>4, Brings(f, p), Zenon DEF Brings
  <2>2. nproto(f) = IP /\ p.data \in Seq(Bytes) /\ p.version = 4
    BY ONLY <1>2, <1>3, <1>4
  <2> QED BY ONLY <1>1, <2>1, <2>2, Sound(f), j \in Words, q = get_packet(f, j), Data4
<1>5. ASSUME IsIP(p), p.version # 4
      PROVE  q.data = f.body /\ f.caplen = 14 + Cut(f, j)
  <2>1. Brings6(f, p)
    BY ONLY <1>5, Brings(f, p), Zenon DEF Brings
  <2>2. nproto(f) = IPV6
    BY ONLY <1>2, <1>5
  <2>3. LengthSuffices(p)
    BY ONLY <1>5, Carried(p), Zenon DEF Carried
  <2> QED BY ONLY <1>1, <1>5, <2>1, <2>2, <2>3, Sound(f), IsPacket(p), j \in Words,
             q = get_packet(f, j), Data6
<1>6. ASSUME p.class = "Packet"
      PROVE  q.data = f.body /\ f.caplen = 14 + Cut(f, j)
  <2>1. Class(f, j) = "Packet"
    BY ONLY <1>1, <1>6
  <2> QED BY ONLY <2>1, Sound(f), j \in Words, q = get_packet(f, j), DataPlain
<1> QED BY ONLY <1>4, <1>5, <1>6, Zenon DEF DataRead

-----------------------------------------------------------------------------
(* The object that was read is sent on.                                    *)

(* It is of the same kind, whatever it was,                                *)
LEMMA ForwardsKind ==
  ASSUME NEW f, Sound(f), f.lt = EN10MB, NEW p, IsPacket(p), SameKind(f, p), NEW i \in Words,
         NEW q, q = get_packet(f, i), NEW j \in Words, NEW g, g = nativeSendPacket(q, j)
  PROVE  SameKind(g, p)
<1>1. Shows(g, q)
  <2>1. IsPacket(q)
    BY ONLY Sound(f), f.lt = EN10MB, i \in Words, q = get_packet(f, i), GotIsPacket
  <2> QED BY ONLY <2>1, j \in Words, g = nativeSendPacket(q, j), NativeShows
<1>2. ASSUME IsIP(p)
      PROVE  /\ nproto(g) = IF p.version = 4 THEN IP ELSE IPV6
             /\ p.version = 4 /\ p.offset = 0 => g.off % 8192 = 0
  <2>1. nproto(f) = IF p.version = 4 THEN IP ELSE IPV6
    BY ONLY <1>2, SameKind(f, p), Zenon DEF SameKind
  <2>2. IsIP(q)
    <3>1. q.class = Class(f, i)
      BY ONLY q = get_packet(f, i), GotDatalink, Zenon
    <3>2. nproto(f) \in {IP, IPV6}
      BY ONLY <2>1
    <3>3. Class(f, i) \in {"TCPPacket", "UDPPacket", "ICMPPacket", "IPPacket"}
      BY ONLY <3>2, ClassIs
    <3> QED BY ONLY <3>1, <3>3, Zenon DEF IsIP
  <2>3. CASE p.version = 4
    <3>1. nproto(f) = IP
      BY ONLY <2>1, <2>3
    <3>2. q.version = 4 /\ q.offset = f.off % 8192
      BY ONLY <3>1, Sound(f), q = get_packet(f, i), Again4
    <3>3. nproto(g) = IP
      <4>1. nproto(g) = IF q.version = 4 THEN IP ELSE IPV6
        BY ONLY <1>1, <2>2, Zenon DEF Shows, SameKind
      <4> QED BY ONLY <3>2, <4>1
    <3>4. ASSUME p.offset = 0
          PROVE  g.off % 8192 = 0
      <4>1. f.off % 8192 = 0
        BY ONLY <1>2, <2>3, <3>4, SameKind(f, p), SMT DEF SameKind
      <4>2. q.version = 4 /\ q.offset = 0
        BY ONLY <3>2, <4>1
      <4> QED BY ONLY <1>1, <2>2, <4>2, SMT DEF Shows, SameKind
    <3> QED BY ONLY <2>3, <3>3, <3>4
  <2>4. CASE p.version # 4
    <3>1. nproto(f) = IPV6
      BY ONLY <2>1, <2>4
    <3>2. q.version = 6
      BY ONLY <3>1, q = get_packet(f, i), GotIPV6
    <3>3. nproto(g) = IF q.version = 4 THEN IP ELSE IPV6
      BY ONLY <1>1, <2>2, Zenon DEF Shows, SameKind
    <3> QED BY ONLY <2>4, <3>2, <3>3
  <2> QED BY ONLY <2>3, <2>4
<1> QED BY ONLY <1>2, SMT DEF SameKind

(* it has the same header, and, where they arrived, the same data.         *)
LEMMA ForwardsData ==
  ASSUME NEW f, Sound(f), f.lt = EN10MB, NEW p, IsPacket(p), Known(p), Tells(f, p),
         NEW i \in Words, NEW q, q = get_packet(f, i),
         NEW j \in Words, NEW g, g = nativeSendPacket(q, j)
  PROVE  Tells(g, p) /\ (Carried(p) /\ Brings(f, p) => Brings(g, p))
<1>1. IsPacket(q)
  BY ONLY Sound(f), f.lt = EN10MB, i \in Words, q = get_packet(f, i), GotIsPacket
<1>2. ReadBack(f, p, q)
  BY ONLY Sound(f), IsPacket(p), Known(p), Tells(f, p), i \in Words, q = get_packet(f, i), ReadsBack
<1>3. /\ q.class = p.class
      /\ IsIP(p) => q.version = p.version /\ q.offset = 0
      /\ p.class = "ICMPPacket" => q.type = p.type
  BY ONLY <1>2, Zenon DEF ReadBack
<1>4. IsIP(q) <=> IsIP(p)
  BY ONLY <1>3, Zenon DEF IsIP
<1>5. Known(q)
  BY ONLY <1>3, <1>4, Known(p), Zenon DEF Known
<1>6. Shows(g, q)
  BY ONLY <1>1, j \in Words, g = nativeSendPacket(q, j), NativeShows
<1>7. Tells(g, q) /\ (HasData(q) => Brings(g, q))
  BY ONLY <1>5, <1>6, Zenon DEF Shows
<1>8. Tells(g, p)
  BY ONLY <1>2, <1>7, Tells(f, p), TellsOn
<1>9. ASSUME Carried(p), Brings(f, p)
      PROVE  Brings(g, p)
  <2>1. HasData(q)
    BY ONLY <1>3, <1>9, Zenon DEF Carried, HasData
  <2>2. Brings(g, q)
    BY ONLY <1>7, <2>1
  <2>3. DataRead(f, p, i, q)
    BY ONLY <1>9, Sound(f), IsPacket(p), Known(p), Tells(f, p), i \in Words,
       q = get_packet(f, i), DataIsRead
  <2>4. ASSUME IsIP(p), p.version = 4
        PROVE  Brings4(g, p)
    <3>1. Brings4(g, q)
      BY ONLY <1>3, <1>4, <2>2, <2>4, Zenon DEF Brings
    <3>2. q.data = p.data
      BY ONLY <2>3, <2>4, Zenon DEF DataRead
    <3>3. q.class = p.class /\ q.version = p.version
      BY ONLY <1>3, <2>4
    <3> QED BY ONLY <3>1, <3>2, <3>3, BringsOn4
  <2>5. ASSUME IsIP(p), p.version # 4
        PROVE  Brings6(g, p)
    <3>1. Brings6(g, q)
      BY ONLY <1>3, <1>4, <2>2, <2>5, Zenon DEF Brings
    <3>2. q.data = f.body
      BY ONLY <2>3, <2>5, Zenon DEF DataRead
    <3>3. q.class = p.class /\ q.version = p.version
      BY ONLY <1>3, <2>5
    <3>4. Brings6(f, p)
      BY ONLY <1>9, <2>5, Zenon DEF Brings
    <3>5. p.data \in Seq(Bytes)
      BY ONLY <2>5, IsPacket(p), DataOfPacket
    <3> QED BY ONLY <2>5, <3>1, <3>2, <3>3, <3>4, <3>5, BringsOn6
  <2>6. ASSUME p.class = "Packet"
        PROVE  BringsPlain(g, p)
    <3>1. BringsPlain(g, q)
      BY ONLY <1>3, <2>2, <2>6, Zenon DEF Brings
    <3>2. q.data = f.body
      BY ONLY <2>3, <2>6, Zenon DEF DataRead
    <3>3. BringsPlain(f, p)
      BY ONLY <1>9, <2>6, Zenon DEF Brings
    <3>4. p.data \in Seq(Bytes)
      BY ONLY <2>6, IsPacket(p), DataOfPacket
    <3> QED BY ONLY <3>1, <3>2, <3>3, <3>4, BringsOnPlain
  <2> QED BY ONLY <2>4, <2>5, <2>6, Zenon DEF Brings
<1> QED BY ONLY <1>8, <1>9

(* The same of an object that is dumped.                                   *)
LEMMA DumpBrings ==
  ASSUME NEW f, Sound(f), DOMAIN f = Fields, NEW p, IsPacket(p), Known(p), Carried(p),
         Tells(f, p), Brings(f, p), NEW i \in Words, NEW q, q = get_packet(f, i),
         NEW j \in Words, NEW g, g = writePacket(f, q, j)
  PROVE  Brings(g, p)
<1>1. f.body \in Seq(Bytes)
  BY ONLY Sound(f), Zenon DEF Sound
<1>2. WrittenAs(g, f, q.header + Len(q.data))
  BY ONLY <1>1, DOMAIN f = Fields, j \in Words, g = writePacket(f, q, j), WrittenBody, Zenon
     DEF WrittenAs
<1>3. DataRead(f, p, i, q)
  BY ONLY Carried(p), Brings(f, p), Sound(f), IsPacket(p), Known(p), Tells(f, p), i \in Words,
     q = get_packet(f, i), DataIsRead
<1>4. /\ IsIP(p) /\ p.version = 4 => nproto(f) = IP
      /\ IsIP(p) /\ p.version # 4 => nproto(f) = IPV6
      /\ p.class = "Packet" => nproto(f) \notin {IP, IPV6, ARP}
  BY ONLY IsPacket(p), Tells(f, p), ToldNetwork
<1>5. ASSUME IsIP(p), p.version = 4
      PROVE  Brings4(g, p)
  <2>1. nproto(f) = IP
    BY ONLY <1>4, <1>5
  <2>2. q.header + Len(q.data) = datalink_hlen(f) + f.len
    BY ONLY <2>1, Sound(f), i \in Words, q = get_packet(f, i), DatagramIsKept
  <2>3. WrittenAs(g, f, datalink_hlen(f) + f.len)
    BY ONLY <1>2, <2>2, Zenon
  <2>4. Brings4(f, p)
    BY ONLY <1>5, Brings(f, p), Zenon DEF Brings
  <2>5. p.data \in Seq(Bytes)
    BY ONLY <1>5, IsPacket(p), DataOfPacket
  <2> QED BY ONLY <1>5, <2>1, <2>3, <2>4, <2>5, Sound(f), DumpBrings4
<1>6. ASSUME nproto(f) \notin {IP, ARP}, f.caplen = 14 + Cut(f, i)
      PROVE  g.body = f.body /\ g.caplen = f.caplen /\ g.tr = f.tr /\ g.plen = f.plen
  <2>1. f.lt = EN10MB
    BY ONLY <1>6, Sound(f), OverEthernet
  <2>2. datalink_hlen(f) = 14 /\ f.caplen \in Int
    BY ONLY <2>1, Sound(f), EthernetLengths
  <2>3. Cut(f, i) \in Int /\ 0 <= Cut(f, i) /\ Cut(f, i) <= f.caplen - 14
    BY ONLY <1>6, <2>1, Sound(f), i \in Words, EthernetCut
  <2>4. q.header + Len(q.data) = datalink_hlen(f) + Cut(f, i)
    <3>1. Cut(f, i) <= f.caplen - datalink_hlen(f)
      BY ONLY <2>2, <2>3
    <3> QED BY ONLY <1>6, <2>3, <3>1, Sound(f), i \in Words, q = get_packet(f, i), DataOfCut
  <2>5. q.header + Len(q.data) = f.caplen
    BY ONLY <1>6, <2>2, <2>4, Zenon
  <2>6. WrittenAs(g, f, f.caplen)
    BY ONLY <1>2, <2>5, Zenon
  <2>7. g.body = f.body
    BY ONLY <2>2, <2>6, DumpBringsAll
  <2> QED BY ONLY <1>2, <2>7, Zenon DEF WrittenAs, SameButBody, SameHeaders
<1>7. ASSUME IsIP(p), p.version # 4
      PROVE  Brings6(g, p)
  <2>1. nproto(f) \notin {IP, ARP}
    BY ONLY <1>4, <1>7 DEF IP, IPV6, ARP
  <2>2. f.caplen = 14 + Cut(f, i)
    BY ONLY <1>3, <1>7, Zenon DEF DataRead
  <2>3. g.body = f.body /\ g.caplen = f.caplen /\ g.tr = f.tr /\ g.plen = f.plen
    BY ONLY <1>6, <2>1, <2>2
  <2>4. Brings6(f, p)
    BY ONLY <1>7, Brings(f, p), Zenon DEF Brings
  <2> QED BY ONLY <2>3, <2>4, SMT DEF Brings6
<1>8. ASSUME p.class = "Packet"
      PROVE  BringsPlain(g, p)
  <2>1. nproto(f) \notin {IP, ARP}
    BY ONLY <1>4, <1>8
  <2>2. f.caplen = 14 + Cut(f, i)
    BY ONLY <1>3, <1>8, Zenon DEF DataRead
  <2>3. g.body = f.body /\ g.caplen = f.caplen
    BY ONLY <1>6, <2>1, <2>2
  <2>4. BringsPlain(f, p)
    BY ONLY <1>8, Brings(f, p), Zenon DEF Brings
  <2> QED BY ONLY <2>3, <2>4, SMT DEF BringsPlain
<1> QED BY ONLY <1>5, <1>7, <1>8, Zenon DEF Brings

-----------------------------------------------------------------------------
(* The second inductive invariant: on the wire, and when it was received,  *)
(* the frame tells and brings what the first program sent.                 *)

(* It is the frame that was sent, as long as nobody has sent it on.        *)
AsSent(f, p) ==
  \E j \in Junk : \/ f = nativeSendPacket(p, j)
                  \/ IsIP(p) /\ p.version = 4 /\ f = nativeSendPacketViaRawSocket(p, j)

ArrivalInv ==
  /\ hops \in Nat
  /\ at \in {"wire", "received"} =>
       /\ sent \in Packets /\ (hops = 0 => AsSent(frame, sent))
       /\ Arrived(frame, sent)
  /\ at = "received" => first # None

(* An object that was received is one.                                     *)
LEMMA GotIsNotNone ==
  ASSUME NEW f, Sound(f), NEW j \in Words, NEW p, p = get_packet(f, j)
  PROVE  p # None
<1>1. p.class = Class(f, j)
  BY ONLY p = get_packet(f, j), GotDatalink, Zenon
<1>2. p.class \in {"TCPPacket", "UDPPacket", "ICMPPacket", "IPPacket", "ARPPacket", "Packet"}
  BY ONLY <1>1, Sound(f), j \in Words, ClassOfSound
<1>3. None.class = "none"
  BY ONLY DEF None
<1> QED BY ONLY <1>2, <1>3

(* The invariant holds at the start,                                       *)
LEMMA ArrivalInit == Init => ArrivalInv
  BY SMT DEF Init, ArrivalInv

(* a program that sends keeps it,                                          *)
LEMMA SendArrives ==
  ASSUME ArrivalInv, NEW p \in Packets, Send(p)
  PROVE  ArrivalInv'
<1>1. IsPacket(p)
  BY PacketsAssumption
<1>2. PICK j \in Junk :
        \/ frame' = nativeSendPacket(p, j)
        \/ /\ IsIP(p) /\ p.version = 4
           /\ frame' = nativeSendPacketViaRawSocket(p, j)
  BY Zenon DEF Send
<1>3. j \in Words
  BY JunkAssumption
<1>4. Shows(frame', p)
  <2>1. frame' = nativeSendPacket(p, j) => Shows(frame', p)
    BY ONLY <1>1, <1>3, NativeShows
  <2>2. IsIP(p) /\ p.version = 4 /\ frame' = nativeSendPacketViaRawSocket(p, j) => Shows(frame', p)
    BY ONLY <1>1, <1>3, RawShows
  <2> QED BY ONLY <1>2, <2>1, <2>2
<1>5. Arrived(frame', p) /\ AsSent(frame', p)
  BY ONLY <1>2, <1>4, Zenon DEF Arrived, Shows, Carried, AsSent
<1>6. at' = "wire" /\ sent' = p /\ hops' = hops
  BY Zenon DEF Send
<1> QED BY ONLY <1>5, <1>6, ArrivalInv, p \in Packets, SMT DEF ArrivalInv

(* one that receives,                                                      *)
LEMMA ReceiveArrives ==
  ASSUME WireInv, ArrivalInv, Receive
  PROVE  ArrivalInv'
<1>1. /\ at = "wire" /\ at' = "received" /\ frame' = frame /\ hops' = hops /\ sent' = sent
      /\ \E j \in Junk : packet' = get_packet(frame, j)
      /\ first' = IF first = None THEN packet' ELSE first
  BY Zenon DEF Receive
<1>2. Sound(frame)
  BY <1>1, Zenon DEF WireInv
<1>3. packet' # None
  BY ONLY <1>1, <1>2, JunkAssumption, GotIsNotNone
<1>4. first' # None
  BY ONLY <1>1, <1>3
<1> QED BY ONLY <1>1, <1>4, ArrivalInv, SMT DEF ArrivalInv

(* one that sends on what it received,                                     *)
LEMMA ForwardArrives ==
  ASSUME WireInv, ArrivalInv, Forward
  PROVE  ArrivalInv'
<1>1. /\ at = "received" /\ frame.lt = EN10MB /\ at' = "wire" /\ sent' = sent
      /\ hops' = hops + 1 /\ first' = first
      /\ \E j \in Junk : frame' = nativeSendPacket(packet, j)
  BY Zenon DEF Forward
<1>2. Sound(frame) /\ \E i \in Junk : packet = get_packet(frame, i)
  BY <1>1, Zenon DEF WireInv
<1>3. PICK i \in Words : packet = get_packet(frame, i)
  BY <1>2, JunkAssumption
<1>4. PICK j \in Words : frame' = nativeSendPacket(packet, j)
  BY <1>1, JunkAssumption
<1>5. sent \in Packets /\ Arrived(frame, sent) /\ hops \in Nat
  BY <1>1, Zenon DEF ArrivalInv
<1>6. IsPacket(sent)
  BY ONLY <1>5, PacketsAssumption
<1>7. SameKind(frame', sent)
  <2>1. SameKind(frame, sent)
    BY ONLY <1>5, Zenon DEF Arrived
  <2> QED BY ONLY <1>1, <1>2, <1>3, <1>4, <1>6, <2>1, ForwardsKind
<1>8. ASSUME Known(sent)
      PROVE  Tells(frame', sent) /\ (Carried(sent) => Brings(frame', sent))
  <2>1. Tells(frame, sent) /\ (Carried(sent) => Brings(frame, sent))
    BY ONLY <1>5, <1>8, Zenon DEF Arrived
  <2>2. Tells(frame', sent) /\ (Carried(sent) /\ Brings(frame, sent) => Brings(frame', sent))
    BY ONLY <1>1, <1>2, <1>3, <1>4, <1>6, <1>8, <2>1, ForwardsData
  <2> QED BY ONLY <2>1, <2>2
<1>9. Arrived(frame', sent)
  BY ONLY <1>7, <1>8, Zenon DEF Arrived
<1>10. hops' \in Nat /\ hops' # 0
  BY ONLY <1>1, <1>5
<1> QED BY ONLY <1>1, <1>5, <1>9, <1>10, SMT DEF ArrivalInv

(* and one that dumps it.                                                  *)
LEMMA DumpArrives ==
  ASSUME WireInv, ArrivalInv, Dump
  PROVE  ArrivalInv'
<1>1. /\ at = "received" /\ at' = "wire" /\ sent' = sent
      /\ hops' = hops + 1 /\ first' = first
      /\ \E j \in Junk : frame' = writePacket(frame, packet, j)
  BY Zenon DEF Dump
<1>2. Sound(frame) /\ DOMAIN frame = Fields /\ \E i \in Junk : packet = get_packet(frame, i)
  BY <1>1, Zenon DEF WireInv
<1>3. PICK i \in Words : packet = get_packet(frame, i)
  BY <1>2, JunkAssumption
<1>4. PICK j \in Words : frame' = writePacket(frame, packet, j)
  BY <1>1, JunkAssumption
<1>5. sent \in Packets /\ Arrived(frame, sent) /\ hops \in Nat
  BY <1>1, Zenon DEF ArrivalInv
<1>6. IsPacket(sent)
  BY ONLY <1>5, PacketsAssumption
<1>7. SameButBody(frame', frame)
  <2>1. frame.body \in Seq(Bytes)
    BY ONLY <1>2, Zenon DEF Sound
  <2> QED BY ONLY <1>2, <1>4, <2>1, WrittenBody, Zenon
<1>8. SameKind(frame', sent) /\ (Known(sent) => Tells(frame', sent))
  <2>1. SameKind(frame, sent) /\ (Known(sent) => Tells(frame, sent))
    BY ONLY <1>5, Zenon DEF Arrived
  <2> QED BY ONLY <1>7, <2>1, DumpTells
<1>9. ASSUME Known(sent), Carried(sent)
      PROVE  Brings(frame', sent)
  <2>1. Tells(frame, sent) /\ Brings(frame, sent)
    BY ONLY <1>5, <1>9, Zenon DEF Arrived
  <2> QED BY ONLY <1>2, <1>3, <1>4, <1>6, <1>9, <2>1, DumpBrings
<1>10. Arrived(frame', sent)
  BY ONLY <1>8, <1>9, Zenon DEF Arrived
<1>11. hops' \in Nat /\ hops' # 0
  BY ONLY <1>1, <1>5
<1> QED BY ONLY <1>1, <1>5, <1>10, <1>11, SMT DEF ArrivalInv

(* So every step keeps it.                                                 *)
LEMMA ArrivalNext == WireInv /\ ArrivalInv /\ [Next]_vars => ArrivalInv'
<1> SUFFICES ASSUME WireInv, ArrivalInv, [Next]_vars
             PROVE  ArrivalInv'
  OBVIOUS
<1>1. ASSUME NEW f \in Strange, Overhear(f)
      PROVE  ArrivalInv'
  BY <1>1, SMT DEF Overhear, ArrivalInv
<1>2. ASSUME NEW p \in Packets, Send(p)
      PROVE  ArrivalInv'
  BY <1>2, SendArrives
<1>3. CASE Receive
  BY <1>3, ReceiveArrives
<1>4. CASE Forward
  BY <1>4, ForwardArrives
<1>5. CASE Dump
  BY <1>5, DumpArrives
<1>6. CASE UNCHANGED vars
  BY <1>6, Zenon DEF vars, ArrivalInv
<1> QED BY <1>1, <1>2, <1>3, <1>4, <1>5, <1>6 DEF Next

(* However often an object that was sent is received, sent on or dumped,   *)
(* the frame has its header, field by field, and its data: set_packet and  *)
(* get_packet undo each other, and writePacket keeps what get_packet reads *)
(* but for the exceptions that Known and Carried name.                     *)
THEOREM ArrivalInvariance == Spec => []ArrivalInv
<1>1. Init => ArrivalInv
  BY ArrivalInit
<1>2. WireInv /\ ArrivalInv /\ [Next]_vars => ArrivalInv'
  BY ArrivalNext
<1> QED BY <1>1, <1>2, WireInvariance, PTL DEF Spec

-----------------------------------------------------------------------------
(* What is lost.                                                           *)

(* The flags of a datagram without an offset.                              *)
LEMMA FlagsAreLost ==
  ASSUME NEW f, Sound(f), NEW p, IsPacket(p), IsIP(p), p.offset = 0, SameKind(f, p),
         NEW j \in Words, NEW q, q = get_packet(f, j)
  PROVE  q.frag = {}
<1>1. CASE p.version = 4
  <2>1. nproto(f) = IP /\ f.off % 8192 = 0
    <3>1. nproto(f) = IP
      BY ONLY <1>1, IsIP(p), SameKind(f, p), SMT DEF SameKind
    <3>2. f.off % 8192 = 0
      BY ONLY <1>1, IsIP(p), p.offset = 0, SameKind(f, p), SMT DEF SameKind
    <3> QED BY ONLY <3>1, <3>2
  <2>2. f.off \in Words
    <3>1. IsFrame(f)
      BY ONLY Sound(f), Zenon DEF Sound
    <3> QED BY ONLY <3>1, SMT DEF IsFrame
  <2>3. BitsOf(Swap16(f.off), FRAG) = {}
    BY ONLY <2>1, <2>2, NoFragment
  <2>4. q.frag = BitsOf(Swap16(f.off), FRAG)
    BY ONLY <2>1, q = get_packet(f, j), GotIP
  <2> QED BY ONLY <2>3, <2>4, Zenon
<1>2. CASE p.version # 4
  <2>1. nproto(f) = IPV6
    BY ONLY <1>2, IsIP(p), SameKind(f, p), SMT DEF SameKind
  <2> QED BY ONLY <2>1, q = get_packet(f, j), GotIPV6
<1> QED BY ONLY <1>1, <1>2

(* The order of the bytes of an offset.                                    *)
LEMMA OffsetIsLost ==
  ASSUME NEW p, IsPacket(p), IsIP(p), p.version = 4, NEW f, AsSent(f, p), nproto(f) = IP,
         NEW j, NEW q, q = get_packet(f, j)
  PROVE  q.offset = Swap16(p.offset) % 8192
<1>1. PICK i \in Junk : f = nativeSendPacket(p, i) \/ f = nativeSendPacketViaRawSocket(p, i)
  BY ONLY AsSent(f, p), Zenon DEF AsSent
<1>2. i \in Words
  BY ONLY i \in Junk, JunkAssumption
<1>3. PICK s : /\ s = set_packet(p, i) /\ s.caplen \in Int
               /\ s.off % 8192 = Swap16(p.offset) % 8192
  <2>1. Datagram4(set_packet(p, i), p, Transport(p, set_ip(p), i))
    BY ONLY <1>2, IsPacket(p), IsIP(p), p.version = 4, SetPacket4
  <2>2. PICK s, t : s = set_packet(p, i) /\ Datagram4(s, p, t)
    BY ONLY <2>1, Zenon
  <2>3. Offset(s.off) = Offset(Swap16(p.offset)) /\ s.caplen = 20 + LengthOf(t)
    BY ONLY <2>2, Zenon DEF Datagram4
  <2>4. LengthOf(t) \in Int
    BY ONLY <2>2, Zenon DEF Datagram4, TransportIsSet
  <2>5. s.caplen \in Int
    BY ONLY <2>3, <2>4
  <2>6. s.off % 8192 = Swap16(p.offset) % 8192
    BY ONLY <2>3, SMT DEF Offset
  <2> QED BY ONLY <2>2, <2>5, <2>6, SMT
<1>4. f.off = s.off
  <2>0. s = set_packet(p, i) /\ s.caplen \in Int
    BY ONLY <1>3
  <2>1. f = nativeSendPacket(p, i) => SameHeaders(f, s)
    BY ONLY <2>0, NativeExact, Zenon DEF NativeIs
  <2>2. f = nativeSendPacketViaRawSocket(p, i) => SameHeaders(f, s)
    BY ONLY <2>0, RawExact
  <2>3. SameHeaders(f, s)
    BY ONLY <1>1, <2>1, <2>2
  <2> QED BY ONLY <2>3, Zenon DEF SameHeaders
<1>5. q.offset = f.off % 8192
  BY ONLY nproto(f) = IP, q = get_packet(f, j), GotIP
<1> QED BY ONLY <1>3, <1>4, <1>5, SMT

(* The identifier of an echo but for a byte, and the datagram in an error. *)
LEMMA MessageIsLost ==
  ASSUME NEW f, Sound(f), NEW p, IsPacket(p), p.class = "ICMPPacket", Known(p), Tells(f, p),
         NEW j \in Words, NEW q, q = get_packet(f, j)
  PROVE  /\ p.type \in ECHO => q.id = S8(p.id)
         /\ p.type \in ERRORS => ~q.hasInner
<1>1. IsIP(p) /\ p.version = 4 /\ HoldsICMP(p) /\ p.type \in Handled
  <2>1. IsIP(p)
    BY ONLY p.class = "ICMPPacket", Zenon DEF IsIP
  <2>2. p.version = 4 /\ HoldsICMP(p)
    BY ONLY <2>1, IsPacket(p), p.class = "ICMPPacket", PacketIP
  <2>3. p.type \in Handled
    BY ONLY p.class = "ICMPPacket", Known(p), Zenon DEF Known
  <2> QED BY ONLY <2>1, <2>2, <2>3
<1>2. nproto(f) = IP /\ TellsICMP(f, p)
  <2>1. nproto(f) = IP
    BY ONLY <1>1, IsPacket(p), Tells(f, p), ToldNetwork
  <2>2. TellsICMP(f, p)
    BY ONLY p.class = "ICMPPacket", Tells(f, p), Zenon DEF Tells
  <2> QED BY ONLY <2>1, <2>2
<1>3. Class(f, j) = "ICMPPacket"
  <2>1. Class(f, j) = p.class
    BY ONLY Sound(f), IsPacket(p), Known(p), Tells(f, p), j \in Words, ClassIsRead
  <2> QED BY ONLY <2>1, p.class = "ICMPPacket"
<1>4. /\ p.type \in ECHO => q.id = S8(p.id)
      /\ q.hasInner <=> p.type \in ERRORS /\ Cut(f, j) - NetworkHlen(f) >= 36
  BY ONLY <1>1, <1>2, <1>3, Sound(f), j \in Words, q = get_packet(f, j), ReadsICMP
<1>5. ASSUME p.type \in ERRORS
      PROVE  ~q.hasInner
  <2>1. p.type \notin ECHO
    BY ONLY <1>5 DEF ECHO, ERRORS
  <2>2. Len(f.tr) <= 16 /\ f.len = 20 + 2 * Len(f.tr) /\ f.tr \in Seq(Words)
    <3>1. Len(f.tr) <= 16 /\ f.len = 20 + 2 * Len(f.tr)
      BY ONLY <1>2, <2>1, SMT DEF TellsICMP
    <3>2. f.tr \in Seq(Words)
      BY ONLY Sound(f), Zenon DEF Sound
    <3> QED BY ONLY <3>1, <3>2
  <2>3. PICK r \in Int : r = Len(f.tr) /\ r <= 16
    BY ONLY <2>2, LenProperties
  <2>4. Cut(f, j) = 20 + 2 * r
    <3>1. Cut(f, j) = f.len
      BY ONLY <1>2, Sound(f), j \in Words, DatagramCut
    <3> QED BY ONLY <2>2, <2>3, <3>1, Zenon
  <2>5. NetworkHlen(f) = 20
    BY ONLY <1>2, Sound(f), SoundNetworkHlen
  <2>6. ~(Cut(f, j) - NetworkHlen(f) >= 36)
    BY ONLY <2>3, <2>4, <2>5, r \in Int
  <2> QED BY ONLY <1>4, <2>6
<1> QED BY ONLY <1>4, <1>5

(* A length that is seen as a smaller one is not a short one.              *)
LEMMA TooSmall ==
  ASSUME NEW n \in Int, 40 <= n, n <= 1586, ~Suffices(n)
  PROVE  128 <= n /\ 0 <= Seen(n) /\ Seen(n) < n
<1>1. Seen(n) \in Int
  BY SeenIsInt
<1>2. 0 <= Seen(n) /\ Seen(n) < n
  BY ONLY <1>1, ~Suffices(n), n \in Int DEF Suffices
<1>3. ASSUME n < 128
      PROVE  FALSE
  <2>1. Swap16(n) = 256 * n
    BY ONLY <1>3, 40 <= n, n \in Int DEF Swap16
  <2>2. S16(256 * n) = 256 * n
    <3>1. 0 <= 256 * n /\ 256 * n < 32768 /\ 256 * n \in Int
      BY ONLY <1>3, 40 <= n, n \in Int
    <3> QED BY ONLY <3>1, ShortIsSame
  <2>3. Seen(n) = 256 * n + 40
    BY ONLY <2>1, <2>2, Zenon DEF Seen
  <2> QED BY ONLY <1>2, <2>3, 40 <= n, n \in Int
<1> QED BY ONLY <1>2, <1>3, n \in Int

(* The class over IPv6, whatever the offset of the object.                 *)
LEMMA ClassOver6 ==
  ASSUME NEW p, IsPacket(p), IsIP(p), p.version # 4, NEW i \in Words,
         NEW f, f = nativeSendPacket(p, i), Sound(f), nproto(f) = IPV6, NEW j \in Words
  PROVE  Class(f, j) = p.class
<1>1. f.nxt = Protocol(p)
  <2>1. Datagram6(set_packet(p, i), p, Transport(p, set_ipv6(p), i))
    BY ONLY IsPacket(p), IsIP(p), p.version # 4, i \in Words, SetPacket6
  <2>2. PICK s, t : s = set_packet(p, i) /\ Datagram6(s, p, t)
    BY ONLY <2>1, Zenon
  <2>3. s.nxt = Protocol(p) /\ s.caplen = 40 + LengthOf(t) /\ TransportIsSet(p, s, t)
    BY ONLY <2>2, Zenon DEF Datagram6
  <2>4. s.caplen \in Int
    <3>1. LengthOf(t) \in Int
      BY ONLY <2>3, Zenon DEF TransportIsSet
    <3> QED BY ONLY <2>3, <3>1
  <2>5. SameHeaders(f, s)
    BY ONLY <2>2, <2>4, f = nativeSendPacket(p, i), NativeExact, Zenon DEF NativeIs
  <2> QED BY ONLY <2>3, <2>5, Zenon DEF SameHeaders
<1>2. tproto(f, j) = Protocol(p)
  <2>1. nproto(f) # IP
    BY ONLY nproto(f) = IPV6 DEF IP, IPV6
  <2>2. f.lt = EN10MB
    BY ONLY <2>1, Sound(f), OverEthernet
  <2>3. tproto(f, j) = f.nxt
    BY ONLY <2>2, Sound(f), nproto(f) = IPV6, j \in Words, EthernetDetected
  <2> QED BY ONLY <1>1, <2>3
<1>3. /\ tproto(f, j) = TCP  => Class(f, j) = "TCPPacket"
      /\ tproto(f, j) = UDP  => Class(f, j) = "UDPPacket"
      /\ tproto(f, j) = ICMP => Class(f, j) = "ICMPPacket"
      /\ tproto(f, j) \notin {TCP, UDP, ICMP} => Class(f, j) = "IPPacket"
  <2>1. nproto(f) \in {IP, IPV6}
    BY ONLY nproto(f) = IPV6
  <2> QED BY ONLY <2>1, ClassIs
<1>4. p.class \in {"IPPacket", "TCPPacket", "UDPPacket"}
  BY ONLY IsPacket(p), IsIP(p), p.version # 4, SizeOver6
<1>5. ASSUME p.class = "IPPacket"
      PROVE  Protocol(p) \notin {TCP, UDP, ICMP}
  <2>1. U8(p.protocol) \notin {ICMP, TCP, UDP}
    BY ONLY <1>5, IsPacket(p), p.version # 4, SMT DEF IsPacket
  <2>2. Protocol(p) = U8(p.protocol)
    BY ONLY <1>5 DEF Protocol
  <2> QED BY ONLY <2>1, <2>2, Zenon
<1>6. p.class = "TCPPacket" => Protocol(p) = TCP
  BY ONLY DEF Protocol
<1>7. p.class = "UDPPacket" => Protocol(p) = UDP
  BY ONLY DEF Protocol
<1>8. CASE p.class = "TCPPacket"
  BY ONLY <1>2, <1>3, <1>6, <1>8, Zenon
<1>9. CASE p.class = "UDPPacket"
  BY ONLY <1>2, <1>3, <1>7, <1>9, Zenon
<1>10. CASE p.class = "IPPacket"
  BY ONLY <1>2, <1>3, <1>5, <1>10, Zenon
<1> QED BY ONLY <1>4, <1>8, <1>9, <1>10

(* A header that does not fit what the frame is cut to leaves no data.     *)
LEMMA NoRoomNoData ==
  ASSUME NEW f, Sound(f), nproto(f) = IPV6, NEW j \in Words, NEW q, q = get_packet(f, j),
         NEW c \in Int, c = Cut(f, j), 0 <= c, c <= 1600,
         NEW h \in Int, h = TransportHlen(f, j), c - 40 - h < 0
  PROVE  Len(q.data) = 0
<1>1. nproto(f) # ARP /\ NetworkHlen(f) = 40
  <2>1. nproto(f) # ARP
    BY ONLY nproto(f) = IPV6 DEF ARP, IPV6
  <2> QED BY ONLY <2>1, Sound(f), nproto(f) = IPV6, SoundNetworkHlen
<1>2. PICK l \in Int : l = Skipped(f)
  <2>1. datalink_hlen(f) \in {0, 14} /\ Skipped(f) = datalink_hlen(f)
    BY ONLY Sound(f), SoundLengths
  <2> QED BY ONLY <2>1
<1>3. PICK k \in Int : k = c - 40
  OBVIOUS
<1>4. S16(k) = k
  BY ONLY <1>3, 0 <= c, c <= 1600, c \in Int, k \in Int, ShortIsSame
<1>5. h > k
  BY ONLY <1>3, c - 40 - h < 0, c \in Int, h \in Int
<1>6. Parts(f, j).data = 0 /\ Parts(f, j).start = l + 40 + k
  <2>1. S16(Cut(f, j) - NetworkHlen(f)) = k
    BY ONLY <1>1, <1>3, <1>4, c = Cut(f, j), SMT
  <2> QED BY ONLY <1>1, <1>2, <1>5, <2>1, h = TransportHlen(f, j), h \in Int, k \in Int,
             l \in Int, SMT DEF Parts
<1>7. PICK b, m : /\ q.data = SubSeq(b, m + 1, m + Parts(f, j).data)
                  /\ m = Parts(f, j).start - Skipped(f) - NetworkHlen(f)
  <2>1. q.data = Datalink(f, j).data
    BY ONLY q = get_packet(f, j), GotDatalink, Zenon
  <2>2. Datalink(f, j).data =
          SubSeq(BytesOf(f.tr) \o f.body, Parts(f, j).start - Skipped(f) - NetworkHlen(f) + 1,
                 Parts(f, j).start - Skipped(f) - NetworkHlen(f) + Parts(f, j).data)
    BY ONLY <1>1, Zenon DEF Datalink
  <2> QED BY ONLY <2>1, <2>2, Zenon
<1>8. m \in Int
  BY ONLY <1>1, <1>2, <1>6, <1>7, l \in Int, k \in Int
<1>9. q.data = SubSeq(b, m + 1, m + 0)
  BY ONLY <1>6, <1>7, Zenon
<1>10. SubSeq(b, m + 1, m + 0) = <<>>
  BY ONLY <1>8, SubSeqEmpty
<1> QED BY ONLY <1>9, <1>10, EmptySeq, Zenon

(* The end of the data over IPv6.                                          *)
LEMMA EndIsLost ==
  ASSUME NEW p, IsPacket(p), IsIP(p), ~LengthSuffices(p), NEW f, Sound(f), AsSent(f, p),
         SameKind(f, p), NEW j \in Words, NEW q, q = get_packet(f, j)
  PROVE  Len(q.data) < Len(p.data)
<1>1. p.version # 4
  BY ONLY ~LengthSuffices(p), Zenon DEF LengthSuffices
<1>2. nproto(f) = IPV6
  BY ONLY <1>1, IsIP(p), SameKind(f, p), SMT DEF SameKind
<1>3. PICK i \in Words : f = nativeSendPacket(p, i)
  BY ONLY <1>1, AsSent(f, p), JunkAssumption DEF AsSent
<1>4. PICK N \in Int : N = Size(p) /\ 40 <= N /\ N <= 1586 /\ ~Suffices(N)
  BY ONLY IsPacket(p), IsIP(p), <1>1, ~LengthSuffices(p), SizeOver6
<1>5. Brings6(f, p)
  <2>1. Shows(f, p)
    BY ONLY <1>3, IsPacket(p), NativeShows
  <2>2. HasData(p)
    BY ONLY IsPacket(p), IsIP(p), <1>1, SizeOver6
  <2>3. Brings(f, p)
    BY ONLY <2>1, <2>2, Zenon DEF Shows
  <2> QED BY ONLY <1>1, <2>3, IsIP(p), Zenon DEF Brings
<1>6. 128 <= N /\ 0 <= Seen(N) /\ Seen(N) < N
  BY ONLY <1>4, N \in Int, TooSmall
<1>7. PICK c \in Int : c = Seen(N)
  BY ONLY <1>4, N \in Int, SeenIsInt
<1>8. Room(N) = N
  BY ONLY <1>6, N \in Int DEF Room
<1>9. f.plen = Swap16(N) /\ f.caplen = 14 + N /\ 2 * Len(f.tr) = HeaderOf(p)
  <2>1. /\ f.caplen = 14 + Room(Size(p)) /\ 2 * Len(f.tr) = HeaderOf(p)
        /\ \E n \in 40 .. Room(Size(p)) : f.plen = Swap16(n) /\ Room(n) = Room(Size(p))
    BY ONLY <1>5, Zenon DEF Brings6
  <2>2. Room(Size(p)) = N
    BY ONLY <1>4, <1>8
  <2>3. PICK n \in 40 .. N : f.plen = Swap16(n) /\ Room(n) = N
    BY ONLY <2>1, <2>2
  <2>4. n = N
    BY ONLY <1>6, <2>3, N \in Int DEF Room
  <2> QED BY ONLY <2>1, <2>2, <2>3, <2>4
<1>10. f.lt = EN10MB
  <2>1. nproto(f) # IP
    BY ONLY <1>2 DEF IP, IPV6
  <2> QED BY ONLY <2>1, Sound(f), OverEthernet
<1>11. Cut(f, j) = c
  <2>1. 0 <= N /\ N < 65536 /\ 0 <= Seen(N) /\ Seen(N) < N
    BY ONLY <1>4, <1>6, N \in Int
  <2>2. Cut(f, j) = Seen(N)
    BY ONLY <1>2, <1>9, <1>10, <2>1, Sound(f), j \in Words, N \in Int, Cut6
  <2> QED BY ONLY <1>7, <2>2
<1>12. PICK h \in Int : h = HeaderOf(p)
  <2>1. HeaderOf(p) \in {0, 8, 20}
    BY ONLY DEF HeaderOf, TCPHDRLEN
  <2> QED BY ONLY <2>1
<1>13. PICK k \in Int : k = Len(p.data) /\ N = 40 + h + k
  <2>1. p.data \in Seq(Bytes)
    BY ONLY IsPacket(p), IsIP(p), PacketIP
  <2>2. PICK k \in Int : k = Len(p.data)
    BY ONLY <2>1, LenProperties
  <2> QED BY ONLY <1>1, <1>4, <1>12, <2>2 DEF Size
<1>14. TransportHlen(f, j) = h
  <2>1. p.class = Class(f, j)
    BY ONLY <1>1, <1>2, <1>3, Sound(f), IsPacket(p), IsIP(p), j \in Words, ClassOver6
  <2>2. TransportHlen(f, j) = HeaderOf(p)
    BY ONLY <2>1, Sound(f), j \in Words, TransportLength
  <2> QED BY ONLY <1>12, <2>2
<1>15. /\ 0 <= c /\ c < N /\ c <= 1600 /\ N = 40 + h + k /\ 128 <= N
       /\ c - 40 - h < k
  <2>1. 0 <= c /\ c < N
    BY ONLY <1>6, <1>7, Zenon
  <2>2. N <= 1586 /\ N = 40 + h + k /\ 128 <= N
    <3>1. N <= 1586
      BY ONLY <1>4
    <3>2. 128 <= N
      BY ONLY <1>6
    <3>3. N = 40 + h + k
      BY ONLY <1>13
    <3> QED BY ONLY <3>1, <3>2, <3>3
  <2> QED BY ONLY <2>1, <2>2, c \in Int, N \in Int, h \in Int, k \in Int
<1>16. NetworkHlen(f) = 40
  BY ONLY <1>2, Sound(f), SoundNetworkHlen
<1>17. CASE c - 40 - h < 0
  <2>1. Len(q.data) = 0
    BY ONLY <1>2, <1>11, <1>14, <1>15, <1>17, Sound(f), j \in Words, q = get_packet(f, j),
       c \in Int, h \in Int, NoRoomNoData
  <2>2. 0 < k
    <3>1. h <= 20
      BY ONLY <1>12 DEF HeaderOf, TCPHDRLEN
    <3> QED BY ONLY <1>15, <3>1, N \in Int, h \in Int, k \in Int
  <2> QED BY ONLY <1>13, <2>1, <2>2, Zenon
<1>18. CASE 0 <= c - 40 - h
  <2>1. PICK d \in Int, n \in Int : d = c - n - h /\ n = 40 /\ 0 <= d /\ d < k
    <3>1. 0 <= c - 40 - h /\ c - 40 - h < k /\ c - 40 - h \in Int /\ 40 \in Int
      BY ONLY <1>15, <1>18, c \in Int, h \in Int
    <3> QED BY ONLY <3>1
  <2>2. nproto(f) # ARP
    BY ONLY <1>2 DEF ARP, IPV6
  <2>3. c <= f.caplen - datalink_hlen(f)
    <3>1. datalink_hlen(f) = 14
      BY ONLY <1>10, Sound(f), EthernetLengths
    <3> QED BY ONLY <1>9, <1>15, <3>1, c \in Int, N \in Int
  <2>4. DataMeasures(f, j, c, n, h, d)
    <3>1. c = Cut(f, j) /\ n = NetworkHlen(f) /\ h = TransportHlen(f, j) /\ h = 2 * Len(f.tr)
      BY ONLY <1>9, <1>11, <1>12, <1>14, <1>16, <2>1, Zenon
    <3> QED BY ONLY <2>1, <2>3, <3>1 DEF DataMeasures
  <2>5. q.data = SubSeq(f.body, 1, d) /\ d <= Len(f.body)
    BY ONLY <2>2, <2>4, Sound(f), j \in Words, q = get_packet(f, j),
       c \in Int, h \in Int, d \in Int, n \in Int, DataBehind
  <2>6. Len(q.data) = d
    <3>1. Len(SubSeq(f.body, 1, d)) = d
      <4>1. f.body \in Seq(Bytes)
        BY ONLY Sound(f), Zenon DEF Sound
      <4>2. PICK b : b = f.body /\ b \in Seq(Bytes) /\ d <= Len(b)
        BY ONLY <2>5, <4>1, Zenon
      <4>3. Len(SubSeq(b, 1, d)) = d
        <5>1. d = 0 \/ (0 <= 0 /\ 0 + d <= Len(b))
          BY ONLY <4>2, d \in Int
        <5>2. Len(SubSeq(b, 0 + 1, 0 + d)) = d
          BY ONLY <2>1, <4>2, <5>1, d \in Int, PartOfBytes
        <5>3. 0 + 1 = 1 /\ 0 + d = d
          BY ONLY d \in Int
        <5> QED BY ONLY <5>2, <5>3, Zenon
      <4> QED BY ONLY <4>2, <4>3, Zenon
    <3> QED BY ONLY <2>5, <3>1, Zenon
  <2> QED BY ONLY <1>13, <2>1, <2>6
<1> QED BY ONLY <1>17, <1>18, c \in Int, h \in Int

(* What is lost is lost for every object and every way it takes: the flags *)
(* and the order of the offset to set_ip, the class of IPv6 to             *)
(* analyze_ipv6, the identifier and the datagram of an error to the byte   *)
(* and the length that analyze_icmp and set_icmp take, the end of the data *)
(* to the payload length that set_ipv6 leaves as it lies in memory.        *)
THEOREM WhatIsAlwaysLost == Spec => []WhatIsLost
<1>1. WireInv /\ ArrivalInv => WhatIsLost
  <2> SUFFICES ASSUME WireInv, ArrivalInv, at = "received"
               PROVE  /\ IsIP(sent) /\ sent.offset = 0 => packet.frag = {}
                      /\ IsIP(sent) /\ sent.version = 4 /\ hops = 0 =>
                           packet.offset = Swap16(sent.offset) % 8192
                      /\ IsIP(sent) /\ sent.version = 6 => packet.priority = 0
                      /\ sent.class = "ICMPPacket" /\ Known(sent) =>
                           /\ sent.type \in ECHO   => packet.id = S8(sent.id)
                           /\ sent.type \in ERRORS => ~packet.hasInner
                      /\ IsIP(sent) /\ ~LengthSuffices(sent) /\ hops = 0 =>
                           Len(packet.data) < Len(sent.data)
    BY DEF WhatIsLost
  <2>1. Sound(frame) /\ \E j \in Junk : packet = get_packet(frame, j)
    BY Zenon DEF WireInv
  <2>2. PICK j \in Words : packet = get_packet(frame, j)
    BY <2>1, JunkAssumption
  <2>3. sent \in Packets /\ (hops = 0 => AsSent(frame, sent)) /\ Arrived(frame, sent)
    BY Zenon DEF ArrivalInv
  <2>4. IsPacket(sent)
    BY ONLY <2>3, PacketsAssumption
  <2>5. SameKind(frame, sent) /\ (Known(sent) => Tells(frame, sent))
    BY ONLY <2>3, Zenon DEF Arrived
  <2>6. ASSUME IsIP(sent), sent.offset = 0
        PROVE  packet.frag = {}
    BY ONLY <2>1, <2>2, <2>4, <2>5, <2>6, FlagsAreLost
  <2>7. ASSUME IsIP(sent), sent.version = 4, hops = 0
        PROVE  packet.offset = Swap16(sent.offset) % 8192
    <3>1. AsSent(frame, sent)
      BY ONLY <2>3, <2>7
    <3>2. nproto(frame) = IP
      BY ONLY <2>5, <2>7, SMT DEF SameKind
    <3> QED BY ONLY <2>2, <2>4, <2>7, <3>1, <3>2, OffsetIsLost
  <2>8. ASSUME IsIP(sent), sent.version = 6
        PROVE  packet.priority = 0
    <3>1. nproto(frame) = IPV6
      BY ONLY <2>5, <2>8, SMT DEF SameKind
    <3> QED BY ONLY <2>2, <3>1, GotIPV6
  <2>9. ASSUME sent.class = "ICMPPacket", Known(sent)
        PROVE  /\ sent.type \in ECHO   => packet.id = S8(sent.id)
               /\ sent.type \in ERRORS => ~packet.hasInner
    <3>1. Tells(frame, sent)
      BY ONLY <2>5, <2>9
    <3> QED BY ONLY <2>1, <2>2, <2>4, <2>9, <3>1, MessageIsLost
  <2>10. ASSUME IsIP(sent), ~LengthSuffices(sent), hops = 0
         PROVE  Len(packet.data) < Len(sent.data)
    <3>1. AsSent(frame, sent)
      BY ONLY <2>3, <2>10
    <3> QED BY ONLY <2>1, <2>2, <2>4, <2>5, <2>10, <3>1, EndIsLost
  <2> QED BY ONLY <2>6, <2>7, <2>8, <2>9, <2>10, SMT
<1> QED BY <1>1, WireInvariance, ArrivalInvariance, PTL

-----------------------------------------------------------------------------
(* What arrives is what was sent.                                          *)

(* A number that fits the header is the same when it is read.              *)
LEMMA NumbersFit ==
  ASSUME NEW n
  PROVE  /\ n \in Words  => U16(n) = n
         /\ n \in Shorts => S16(U16(n)) = n
         /\ n \in Bytes  => U8(n) = n
         /\ n \in -(2^7) .. 2^7 - 1 => S8(n) = n
<1>1. n \in Words => U16(n) = n
  BY ONLY WordsAgain
<1>2. ASSUME n \in Shorts
      PROVE  S16(U16(n)) = n
  <2>1. n \in Int /\ -32768 <= n /\ n < 32768
    BY ONLY <1>2 DEF Shorts
  <2> QED BY ONLY <2>1 DEF S16, U16
<1>3. n \in Bytes => U8(n) = n
  BY ONLY BytesAgain
<1>4. ASSUME n \in -(2^7) .. 2^7 - 1
      PROVE  S8(n) = n
  <2>1. n \in Int /\ -128 <= n /\ n < 128
    BY ONLY <1>4
  <2> QED BY ONLY <2>1 DEF S8, U8
<1> QED BY ONLY <1>1, <1>2, <1>3, <1>4

(* The header of IPv4,                                                     *)
LEMMA Arrives4 ==
  ASSUME NEW f, NEW p, p.version = 4, IsIP(p), FitsHeader(p), Tells4(f, p),
         NEW j, NEW q, q = get_packet(f, j)
  PROVE  /\ q.version = p.version /\ q.hop_limit = p.hop_limit /\ q.src = p.src /\ q.dst = p.dst
         /\ q.protocol = ProtocolRead(p)
         /\ q.priority = p.priority /\ q.tos = p.tos /\ q.rsv_tos = p.rsv_tos
         /\ q.ident = p.ident
<1>1. /\ nproto(f) = IP /\ f.tos = U8(TOSByte(p)) /\ f.id = U16(p.ident)
      /\ f.ttl = U8(p.hop_limit) /\ f.p = Protocol(p) /\ f.src = p.src /\ f.dst = p.dst
  BY ONLY Tells4(f, p), SMT DEF Tells4
<1>2. /\ q.version = 4 /\ q.ident = S16(f.id) /\ q.hop_limit = f.ttl
      /\ q.protocol = f.p /\ q.src = f.src /\ q.dst = f.dst
  BY ONLY <1>1, q = get_packet(f, j), GotIP
<1>3. q.priority = f.tos \div 32 /\ q.rsv_tos = f.tos % 4 /\ q.tos = BitsOf(f.tos, TOS)
  BY ONLY <1>1, q = get_packet(f, j), GotIP
<1>4. /\ p.hop_limit \in Bytes /\ p.ident \in Shorts
      /\ p.priority \in 0 .. 7 /\ p.tos \subseteq TOS /\ p.rsv_tos \in 0 .. 3
  BY ONLY p.version = 4, IsIP(p), FitsHeader(p), SMT DEF FitsHeader
<1>5. U8(p.hop_limit) = p.hop_limit /\ S16(U16(p.ident)) = p.ident
  BY ONLY <1>4, NumbersFit
<1>6. f.tos \div 32 = p.priority /\ BitsOf(f.tos, TOS) = p.tos /\ f.tos % 4 = p.rsv_tos
  <2>1. PICK t : t = f.tos /\ t = U8(TOSByte(p))
    BY ONLY <1>1
  <2>2. t \div 32 = p.priority /\ BitsOf(t, TOS) = p.tos /\ t % 4 = p.rsv_tos
    BY ONLY <1>4, <2>1, TOSIsRead
  <2> QED BY ONLY <2>1, <2>2, SMT
<1>7. q.priority = p.priority /\ q.tos = p.tos /\ q.rsv_tos = p.rsv_tos
  BY ONLY <1>3, <1>6, SMT
<1>8. ProtocolRead(p) = Protocol(p)
  BY ONLY p.version = 4 DEF ProtocolRead
<1>9. q.hop_limit = p.hop_limit
  BY ONLY <1>1, <1>2, <1>5, Zenon
<1>10. q.ident = p.ident
  BY ONLY <1>1, <1>2, <1>5, Zenon
<1> QED BY ONLY <1>1, <1>2, <1>7, <1>8, <1>9, <1>10, p.version = 4, Zenon

(* of IPv6,                                                                *)
LEMMA Arrives6 ==
  ASSUME NEW f, NEW p, p.version = 6, IsIP(p), FitsHeader(p), Tells6(f, p),
         NEW j, NEW q, q = get_packet(f, j)
  PROVE  /\ q.version = p.version /\ q.hop_limit = p.hop_limit /\ q.src = p.src /\ q.dst = p.dst
         /\ q.protocol = ProtocolRead(p)
<1>1. /\ nproto(f) = IPV6 /\ f.ttl = U8(p.hop_limit) /\ f.nxt = Protocol(p)
      /\ f.src = p.src /\ f.dst = p.dst
  BY ONLY Tells6(f, p), SMT DEF Tells6
<1>2. /\ q.version = 6 /\ q.hop_limit = f.ttl /\ q.protocol = S8(f.nxt)
      /\ q.src = f.src /\ q.dst = f.dst
  BY ONLY <1>1, q = get_packet(f, j), GotIPV6
<1>3. p.hop_limit \in Bytes
  BY ONLY IsIP(p), FitsHeader(p), SMT DEF FitsHeader
<1>4. U8(p.hop_limit) = p.hop_limit
  BY ONLY <1>3, NumbersFit
<1>5. ProtocolRead(p) = S8(Protocol(p))
  BY ONLY p.version = 6 DEF ProtocolRead
<1>6. q.protocol = ProtocolRead(p)
  BY ONLY <1>1, <1>2, <1>5, Zenon
<1>7. q.hop_limit = p.hop_limit
  BY ONLY <1>1, <1>2, <1>4, Zenon
<1> QED BY ONLY <1>1, <1>2, <1>6, <1>7, p.version = 6, Zenon

(* of TCP,                                                                 *)
LEMMA ArrivesTCP ==
  ASSUME NEW f, nproto(f) \in {IP, IPV6}, NEW p, p.class = "TCPPacket", FitsHeader(p),
         TellsTCP(f, p), NEW j, Class(f, j) = "TCPPacket", NEW q, q = get_packet(f, j)
  PROVE  \A x \in TCPFields : q[x] = p[x]
<1>1. /\ q.src_port = f.tr[1] /\ q.dst_port = f.tr[2] /\ q.sequence = <<f.tr[3], f.tr[4]>>
      /\ q.ack_num = <<f.tr[5], f.tr[6]>> /\ q.window = f.tr[8]
      /\ q.urgent_pointer = S16(f.tr[10]) /\ q.flags = BitsOf(f.tr[7], 0 .. 7)
  BY GotTCP
<1>2. /\ f.tr[1] = U16(p.src_port) /\ f.tr[2] = U16(p.dst_port)
      /\ p.sequence = <<f.tr[3], f.tr[4]>> /\ p.ack_num = <<f.tr[5], f.tr[6]>>
      /\ BitsOf(f.tr[7], 0 .. 7) = p.flags \cap (0 .. 7)
      /\ f.tr[8] = U16(p.window) /\ f.tr[10] = U16(p.urgent_pointer)
  BY ONLY TellsTCP(f, p), Zenon DEF TellsTCP
<1>3. /\ p.src_port \in Words /\ p.dst_port \in Words /\ p.window \in Words
      /\ p.urgent_pointer \in Shorts /\ p.flags \subseteq 0 .. 7
  BY ONLY p.class = "TCPPacket", FitsHeader(p), SMT DEF FitsHeader
<1>4. /\ U16(p.src_port) = p.src_port /\ U16(p.dst_port) = p.dst_port
      /\ U16(p.window) = p.window /\ S16(U16(p.urgent_pointer)) = p.urgent_pointer
  BY ONLY <1>3, NumbersFit
<1>5. p.flags \cap (0 .. 7) = p.flags
  BY ONLY <1>3
<1>6. /\ q.src_port = p.src_port /\ q.dst_port = p.dst_port /\ q.window = p.window
      /\ q.urgent_pointer = p.urgent_pointer
  BY ONLY <1>1, <1>2, <1>4, Zenon
<1>7. q.flags = p.flags /\ q.sequence = p.sequence /\ q.ack_num = p.ack_num
  BY ONLY <1>1, <1>2, <1>5, Zenon
<1> QED BY ONLY <1>6, <1>7 DEF TCPFields

(* of UDP,                                                                 *)
LEMMA ArrivesUDP ==
  ASSUME NEW f, nproto(f) \in {IP, IPV6}, NEW p, p.class = "UDPPacket", FitsHeader(p),
         TellsUDP(f, p), NEW j, Class(f, j) = "UDPPacket", NEW q, q = get_packet(f, j)
  PROVE  \A x \in UDPFields : q[x] = p[x]
<1>1. q.src_port = f.tr[1] /\ q.dst_port = f.tr[2]
  BY GotUDP
<1>2. f.tr[1] = U16(p.src_port) /\ f.tr[2] = U16(p.dst_port)
  BY ONLY TellsUDP(f, p), Zenon DEF TellsUDP
<1>3. p.src_port \in Words /\ p.dst_port \in Words
  BY ONLY p.class = "UDPPacket", FitsHeader(p), SMT DEF FitsHeader
<1>4. U16(p.src_port) = p.src_port /\ U16(p.dst_port) = p.dst_port
  BY ONLY <1>3, NumbersFit
<1>5. q.src_port = p.src_port /\ q.dst_port = p.dst_port
  BY ONLY <1>1, <1>2, <1>4, Zenon
<1> QED BY ONLY <1>5 DEF UDPFields

(* of ICMP,                                                                *)
LEMMA ArrivesICMP ==
  ASSUME NEW f, Sound(f), nproto(f) = IP, NEW p, HoldsICMP(p), p.type \in Handled,
         TellsICMP(f, p), NEW j \in Words, Class(f, j) = "ICMPPacket",
         NEW q, q = get_packet(f, j)
  PROVE  \A x \in ICMPFields : q[x] = p[x]
<1>1. q.type = p.type /\ q.code = S8(p.code)
  BY ONLY Sound(f), nproto(f) = IP, HoldsICMP(p), p.type \in Handled, TellsICMP(f, p),
     j \in Words, Class(f, j) = "ICMPPacket", q = get_packet(f, j), ReadsICMP
<1>2. p.code \in -(2^7) .. 2^7 - 1
  <2> DEFINE S == -(2^7) .. 2^7 - 1
  <2>1. p.code \in S
    BY ONLY HoldsICMP(p), Zenon DEF HoldsICMP
  <2> QED BY ONLY <2>1
<1>3. S8(p.code) = p.code
  BY ONLY <1>2, NumbersFit
<1> QED BY ONLY <1>1, <1>3 DEF ICMPFields

(* and a message of ARP with its EtherType.                                *)
LEMMA ArrivesARP ==
  ASSUME NEW f, Sound(f), NEW p, IsPacket(p), p.class = "ARPPacket", FitsHeader(p),
         TellsARP(f, p), NEW j, NEW q, q = get_packet(f, j)
  PROVE  \A x \in ARPFields \cup {"frametype"} : q[x] = p[x]
<1>1. /\ nproto(f) = ARP /\ f.tr[1] = U16(p.hardtype) /\ f.tr[2] = U16(p.prototype)
      /\ f.tr[4] = U16(p.operation)
      /\ p.sender_hardaddr = SubSeq(f.tr, 5, 7) /\ p.sender_protoaddr = SubSeq(f.tr, 8, 9)
      /\ p.target_hardaddr = SubSeq(f.tr, 10, 12) /\ p.target_protoaddr = SubSeq(f.tr, 13, 14)
  BY ONLY TellsARP(f, p), Zenon DEF TellsARP
<1>2. /\ q.hardtype = S16(f.tr[1]) /\ q.prototype = S16(f.tr[2]) /\ q.operation = S16(f.tr[4])
      /\ q.sender_hardaddr = SubSeq(f.tr, 5, 7) /\ q.sender_protoaddr = SubSeq(f.tr, 8, 9)
      /\ q.target_hardaddr = SubSeq(f.tr, 10, 12) /\ q.target_protoaddr = SubSeq(f.tr, 13, 14)
  BY ONLY <1>1, q = get_packet(f, j), GotARP
<1>3. q.hlen = f.tr[3] \div 256 /\ q.plen = f.tr[3] % 256
  BY ONLY <1>1, q = get_packet(f, j), GotARP
<1>4. /\ p.frametype \in Shorts /\ p.hardtype \in Shorts /\ p.prototype \in Shorts
      /\ p.operation \in Shorts
  BY ONLY p.class = "ARPPacket", FitsHeader(p), SMT DEF FitsHeader
<1>5. /\ S16(U16(p.hardtype)) = p.hardtype /\ S16(U16(p.prototype)) = p.prototype
      /\ S16(U16(p.operation)) = p.operation /\ S16(U16(p.frametype)) = p.frametype
  BY ONLY <1>4, NumbersFit
<1>6. /\ q.hardtype = p.hardtype /\ q.prototype = p.prototype /\ q.operation = p.operation
      /\ q.sender_hardaddr = p.sender_hardaddr /\ q.sender_protoaddr = p.sender_protoaddr
      /\ q.target_hardaddr = p.target_hardaddr /\ q.target_protoaddr = p.target_protoaddr
  BY ONLY <1>1, <1>2, <1>5, Zenon
<1>7. U16(p.frametype) = ARP /\ p.hlen = 6 /\ p.plen = 4
  BY ONLY IsPacket(p), p.class = "ARPPacket", SMT DEF IsPacket, HoldsARP
<1>8. q.hlen = 6 /\ q.plen = 4
  <2>1. f.tr[3] = ARPLengths
    BY ONLY <1>1, Sound(f), Zenon DEF Sound
  <2>2. ARPLengths \div 256 = 6 /\ ARPLengths % 256 = 4
    BY ONLY DEF ARPLengths
  <2> QED BY ONLY <1>3, <2>1, <2>2, SMT
<1>9. q.frametype = p.frametype
  <2>1. nproto(f) # IP
    BY ONLY <1>1 DEF IP, ARP
  <2>2. f.lt = EN10MB
    BY ONLY <2>1, Sound(f), OverEthernet
  <2>3. nproto(f) = f.type
    BY ONLY <2>2, Sound(f), EthernetLengths
  <2>4. q.frametype = S16(f.type)
    <3>1. q.frametype = analyze_datalink(f)
      BY ONLY q = get_packet(f, j), GotDatalink, Zenon
    <3> QED BY ONLY <2>2, <3>1, Zenon DEF analyze_datalink
  <2> QED BY ONLY <1>1, <1>5, <1>7, <2>3, <2>4, Zenon
<1> QED BY ONLY <1>6, <1>7, <1>8, <1>9 DEF ARPFields

(* The data: all of them, or with what Ethernet filled them up.            *)
LEMMA DataArrive ==
  ASSUME NEW f, Sound(f), NEW p, IsPacket(p), IsIP(p), Known(p), Carried(p), Tells(f, p),
         Brings(f, p), NEW j \in Words, NEW q, q = get_packet(f, j)
  PROVE  IF p.version = 4 \/ f.caplen > 60 THEN q.data = p.data ELSE IsPrefix(p.data, q.data)
<1>1. DataRead(f, p, j, q)
  BY ONLY Sound(f), IsPacket(p), Known(p), Carried(p), Tells(f, p), Brings(f, p), j \in Words,
     q = get_packet(f, j), DataIsRead
<1>2. CASE p.version = 4
  BY ONLY <1>1, <1>2, IsIP(p), SMT DEF DataRead
<1>3. CASE p.version # 4
  <2>1. q.data = f.body
    BY ONLY <1>1, <1>3, IsIP(p), SMT DEF DataRead
  <2>2. Brings6(f, p)
    BY ONLY <1>3, IsIP(p), Brings(f, p), Zenon DEF Brings
  <2>3. f.body = Filled(p.data, Size(p)) /\ f.caplen = 14 + Room(Size(p))
    BY ONLY <2>2, Zenon DEF Brings6
  <2>4. PICK N \in Int : N = Size(p)
    BY ONLY <1>3, IsPacket(p), IsIP(p), SizeOver6
  <2>5. p.data \in Seq(Bytes)
    BY ONLY IsPacket(p), IsIP(p), DataOfPacket
  <2>6. PICK z \in Nat : z = Room(N) - N /\ (z = 0 \/ Room(N) = 46)
    BY ONLY N \in Int DEF Room
  <2>7. q.data = p.data \o Zeros(z)
    BY ONLY <2>1, <2>3, <2>4, <2>6, Zenon DEF Filled
  <2>8. CASE z = 0
    <3>1. Zeros(z) = <<>>
      <4>1. Zeros(z) \in Seq(Bytes) /\ Len(Zeros(z)) = z
        BY ONLY z \in Nat, ZerosAreBytes
      <4> QED BY ONLY <2>8, <4>1, EmptySeq
    <3>2. q.data = p.data
      <4>1. p.data \o <<>> = p.data
        BY ONLY <2>5, ConcatEmptySeq
      <4> QED BY ONLY <2>7, <3>1, <4>1, Zenon
    <3>3. IsPrefix(p.data, q.data)
      <4>1. Len(p.data) <= Len(p.data)
        BY ONLY <2>5, LenProperties
      <4> QED BY ONLY <3>2, <4>1, SMT DEF IsPrefix
    <3> QED BY ONLY <3>2, <3>3
  <2>9. CASE Room(N) = 46
    <3>1. ~(f.caplen > 60)
      <4>1. f.caplen = 14 + 46
        BY ONLY <2>3, <2>4, <2>9, Zenon
      <4> QED BY ONLY <4>1
    <3>2. SubSeq(q.data, 1, Len(p.data)) = p.data
      <4>1. SubSeq(p.data \o Zeros(z), 1, Len(p.data)) = p.data
        BY ONLY <2>5, z \in Nat, Padded
      <4> QED BY ONLY <2>7, <4>1, Zenon
    <3>3. SubSeq(p.data, 1, Len(p.data)) = p.data
      BY ONLY <2>5, SubSeqFull
    <3>4. Len(p.data) <= Len(q.data)
      <4>1. PICK y : y = Zeros(z) /\ y \in Seq(Bytes) /\ Len(y) = z
        BY ONLY z \in Nat, ZerosAreBytes
      <4>2. PICK a : a = p.data /\ a \in Seq(Bytes)
        BY ONLY <2>5
      <4>3. Len(a \o y) = Len(a) + Len(y)
        BY ONLY <4>1, <4>2, Begins
      <4>4. Len(a) <= Len(a \o y)
        <5>1. Len(a) \in Int
          BY ONLY <4>2, LenProperties
        <5> QED BY ONLY <4>1, <4>3, <5>1, z \in Nat
      <4>5. q.data = a \o y
        BY ONLY <2>7, <4>1, <4>2, Zenon
      <4> QED BY ONLY <4>2, <4>4, <4>5, SMT
    <3>5. IsPrefix(p.data, q.data)
      <4>1. SubSeq(p.data, 1, Len(p.data)) = SubSeq(q.data, 1, Len(p.data))
        BY ONLY <3>2, <3>3, Zenon
      <4> QED BY ONLY <3>4, <4>1, Zenon DEF IsPrefix
    <3> QED BY ONLY <1>3, <3>1, <3>5
  <2> QED BY ONLY <2>6, <2>8, <2>9
<1> QED BY ONLY <1>2, <1>3

-----------------------------------------------------------------------------
(* The object as it is received has every field that its class has.        *)
LEMMA WhatArrives ==
  ASSUME NEW f, Sound(f), NEW p, IsPacket(p), Known(p), FitsHeader(p), Tells(f, p),
         NEW j \in Words, NEW q, q = get_packet(f, j)
  PROVE  /\ q.class = p.class
         /\ IsIP(p) => /\ \A x \in IPFields : q[x] = p[x]
                       /\ q.protocol = ProtocolRead(p)
         /\ IsIP(p) /\ p.version = 4 => \A x \in IP4Fields : q[x] = p[x]
         /\ p.class = "TCPPacket"  => \A x \in TCPFields : q[x] = p[x]
         /\ p.class = "UDPPacket"  => \A x \in UDPFields : q[x] = p[x]
         /\ p.class = "ICMPPacket" => \A x \in ICMPFields : q[x] = p[x]
         /\ p.class = "ARPPacket"  => \A x \in ARPFields \cup {"frametype"} : q[x] = p[x]
<1>1. Class(f, j) = p.class
  BY ONLY Sound(f), IsPacket(p), Known(p), Tells(f, p), j \in Words, ClassIsRead
<1>2. q.class = p.class
  <2>1. q.class = Class(f, j)
    BY ONLY q = get_packet(f, j), GotDatalink, Zenon
  <2> QED BY ONLY <1>1, <2>1
<1>3. /\ IsIP(p) /\ p.version = 4 => nproto(f) = IP
      /\ IsIP(p) /\ p.version # 4 => nproto(f) = IPV6
  BY ONLY IsPacket(p), Tells(f, p), ToldNetwork
<1>4. IsIP(p) => p.version \in {4, 6}
  BY ONLY IsPacket(p), DataOfPacket
<1>5. ASSUME IsIP(p), p.version = 4
      PROVE  /\ \A x \in IPFields : q[x] = p[x]
             /\ \A x \in IP4Fields : q[x] = p[x]
             /\ q.protocol = ProtocolRead(p)
  <2>1. Tells4(f, p)
    BY ONLY <1>5, Tells(f, p), Zenon DEF Tells
  <2>2. /\ q.version = p.version /\ q.hop_limit = p.hop_limit /\ q.src = p.src /\ q.dst = p.dst
        /\ q.protocol = ProtocolRead(p)
        /\ q.priority = p.priority /\ q.tos = p.tos /\ q.rsv_tos = p.rsv_tos
        /\ q.ident = p.ident
    BY ONLY <1>5, <2>1, FitsHeader(p), q = get_packet(f, j), Arrives4
  <2> QED BY ONLY <2>2 DEF IPFields, IP4Fields
<1>6. ASSUME IsIP(p), p.version # 4
      PROVE  (\A x \in IPFields : q[x] = p[x]) /\ q.protocol = ProtocolRead(p)
  <2>1. Tells6(f, p)
    BY ONLY <1>6, Tells(f, p), Zenon DEF Tells
  <2>2. p.version = 6
    BY ONLY <1>4, <1>6
  <2>3. /\ q.version = p.version /\ q.hop_limit = p.hop_limit /\ q.src = p.src /\ q.dst = p.dst
        /\ q.protocol = ProtocolRead(p)
    BY ONLY <1>6, <2>1, <2>2, FitsHeader(p), q = get_packet(f, j), Arrives6
  <2> QED BY ONLY <2>3 DEF IPFields
<1>7. ASSUME p.class = "TCPPacket"
      PROVE  \A x \in TCPFields : q[x] = p[x]
  <2>1. IsIP(p)
    BY ONLY <1>7 DEF IsIP
  <2>2. TellsTCP(f, p) /\ nproto(f) \in {IP, IPV6}
    BY ONLY <1>3, <1>7, <2>1, Tells(f, p), Zenon DEF Tells
  <2>3. Class(f, j) = "TCPPacket"
    BY ONLY <1>1, <1>7
  <2> QED BY ONLY <1>7, <2>2, <2>3, FitsHeader(p), q = get_packet(f, j), ArrivesTCP
<1>8. ASSUME p.class = "UDPPacket"
      PROVE  \A x \in UDPFields : q[x] = p[x]
  <2>1. IsIP(p)
    BY ONLY <1>8 DEF IsIP
  <2>2. TellsUDP(f, p) /\ nproto(f) \in {IP, IPV6}
    BY ONLY <1>3, <1>8, <2>1, Tells(f, p), Zenon DEF Tells
  <2>3. Class(f, j) = "UDPPacket"
    BY ONLY <1>1, <1>8
  <2> QED BY ONLY <1>8, <2>2, <2>3, FitsHeader(p), q = get_packet(f, j), ArrivesUDP
<1>9. ASSUME p.class = "ICMPPacket"
      PROVE  \A x \in ICMPFields : q[x] = p[x]
  <2>1. IsIP(p)
    BY ONLY <1>9 DEF IsIP
  <2>2. p.version = 4 /\ HoldsICMP(p)
    BY ONLY <1>9, IsPacket(p), SMT DEF IsPacket
  <2>3. nproto(f) = IP /\ TellsICMP(f, p)
    BY ONLY <1>3, <1>9, <2>1, <2>2, Tells(f, p), Zenon DEF Tells
  <2>4. p.type \in Handled
    BY ONLY <1>9, Known(p), Zenon DEF Known
  <2>5. Class(f, j) = "ICMPPacket"
    BY ONLY <1>1, <1>9
  <2> QED BY ONLY <2>2, <2>3, <2>4, <2>5, Sound(f), j \in Words, q = get_packet(f, j), ArrivesICMP
<1>10. ASSUME p.class = "ARPPacket"
       PROVE  \A x \in ARPFields \cup {"frametype"} : q[x] = p[x]
  <2>1. TellsARP(f, p)
    BY ONLY <1>10, Tells(f, p), Zenon DEF Tells
  <2> QED
    BY ONLY <1>10, <2>1, Sound(f), IsPacket(p), FitsHeader(p), q = get_packet(f, j), ArrivesARP
<1> QED BY ONLY <1>2, <1>5, <1>6, <1>7, <1>8, <1>9, <1>10, Zenon

(* What is sent arrives, for every object whose numbers fit the header and *)
(* however often it is sent on or dumped in between: get_packet reads from *)
(* the frame what set_packet wrote to it.                                  *)
THEOREM WhatIsSentArrives == Spec => []RoundTrip
<1>1. WireInv /\ ArrivalInv => RoundTrip
  <2> SUFFICES ASSUME WireInv, ArrivalInv, at = "received", Known(sent), FitsHeader(sent)
               PROVE  /\ packet.class = sent.class
                      /\ IsIP(sent) => Kept(IPFields) /\ packet.protocol = ProtocolRead(sent)
                      /\ IsIP(sent) /\ sent.version = 4 => Kept(IP4Fields)
                      /\ IsIP(sent) /\ (sent.class = "ICMPPacket" => sent.type \in ECHO)
                           /\ LengthSuffices(sent) => DataArrives
                      /\ sent.class = "TCPPacket"  => Kept(TCPFields)
                      /\ sent.class = "UDPPacket"  => Kept(UDPFields)
                      /\ sent.class = "ICMPPacket" => Kept(ICMPFields)
                      /\ sent.class = "ARPPacket"  => Kept(ARPFields \cup {"frametype"})
    BY DEF RoundTrip
  <2>1. Sound(frame) /\ \E j \in Junk : packet = get_packet(frame, j)
    BY Zenon DEF WireInv
  <2>2. PICK j \in Words : packet = get_packet(frame, j)
    BY <2>1, JunkAssumption
  <2>3. sent \in Packets /\ Arrived(frame, sent)
    BY Zenon DEF ArrivalInv
  <2>4. IsPacket(sent)
    BY ONLY <2>3, PacketsAssumption
  <2>5. Tells(frame, sent) /\ (Carried(sent) => Brings(frame, sent))
    BY ONLY <2>3, Known(sent), Zenon DEF Arrived
  <2>6. /\ packet.class = sent.class
        /\ IsIP(sent) => /\ \A x \in IPFields : packet[x] = sent[x]
                         /\ packet.protocol = ProtocolRead(sent)
        /\ IsIP(sent) /\ sent.version = 4 => \A x \in IP4Fields : packet[x] = sent[x]
        /\ sent.class = "TCPPacket"  => \A x \in TCPFields : packet[x] = sent[x]
        /\ sent.class = "UDPPacket"  => \A x \in UDPFields : packet[x] = sent[x]
        /\ sent.class = "ICMPPacket" => \A x \in ICMPFields : packet[x] = sent[x]
        /\ sent.class = "ARPPacket"  => \A x \in ARPFields \cup {"frametype"} : packet[x] = sent[x]
    BY ONLY <2>1, <2>2, <2>4, <2>5, Known(sent), FitsHeader(sent), WhatArrives
  <2>7. ASSUME IsIP(sent), sent.class = "ICMPPacket" => sent.type \in ECHO, LengthSuffices(sent)
        PROVE  DataArrives
    <3>1. Carried(sent) /\ Brings(frame, sent)
      BY ONLY <2>5, <2>7, Zenon DEF Carried, HasData
    <3>2. IF sent.version = 4 \/ frame.caplen > 60
            THEN packet.data = sent.data
            ELSE IsPrefix(sent.data, packet.data)
      BY ONLY <2>1, <2>2, <2>4, <2>5, <2>7, <3>1, Known(sent), DataArrive
    <3> QED BY ONLY <3>2 DEF DataArrives
  <2> QED BY ONLY <2>6, <2>7 DEF Kept
<1> QED BY <1>1, WireInvariance, ArrivalInvariance, PTL

-----------------------------------------------------------------------------
(* Two frames that tell and bring the same object, over the same link, are *)
(* read alike: the first that was received, and any that came of it.       *)

(* The same object but for a checksum.                                     *)
Alike(a, b) ==
  DOMAIN a = DOMAIN b /\ \A x \in DOMAIN a \ {"checksum"} : a[x] = b[x]

(* An object is like itself and like what those are like that it is like.  *)
LEMMA AlikeIsTransitive ==
  ASSUME NEW a, NEW b, NEW c, Alike(a, b), Alike(b, c)
  PROVE  Alike(a, a) /\ Alike(a, c)
  BY Zenon DEF Alike

(* Objects are alike when one part is the same and the other alike.        *)
LEMMA MergeAlike ==
  ASSUME NEW a, NEW b, NEW c, Alike(b, c)
  PROVE  Alike(Merge(a, b), Merge(a, c))
<1>1. DOMAIN b = DOMAIN c /\ \A x \in DOMAIN b : x # "checksum" => b[x] = c[x]
  BY Zenon DEF Alike
<1>2. PICK y, z : y = Merge(a, b) /\ z = Merge(a, c)
  OBVIOUS
<1>3. /\ DOMAIN y = DOMAIN a \cup DOMAIN b
      /\ \A x \in DOMAIN a \cup DOMAIN b : y[x] = IF x \in DOMAIN a THEN a[x] ELSE b[x]
  BY ONLY <1>2, SMT DEF Merge
<1>4. /\ DOMAIN z = DOMAIN a \cup DOMAIN c
      /\ \A x \in DOMAIN a \cup DOMAIN c : z[x] = IF x \in DOMAIN a THEN a[x] ELSE c[x]
  BY ONLY <1>2, SMT DEF Merge
<1>5. DOMAIN y = DOMAIN z
  BY ONLY <1>1, <1>3, <1>4
<1>6. ASSUME NEW x \in DOMAIN y, x # "checksum"
      PROVE  y[x] = z[x]
  <2>1. CASE x \in DOMAIN a
    BY ONLY <1>3, <1>4, <1>5, <1>6, <2>1
  <2>2. CASE x \notin DOMAIN a
    <3>1. x \in DOMAIN b
      BY ONLY <1>3, <1>6, <2>2
    <3>2. y[x] = b[x] /\ z[x] = c[x]
      BY ONLY <1>1, <1>3, <1>4, <2>2, <3>1
    <3> QED BY ONLY <1>1, <1>6, <3>1, <3>2
  <2> QED BY ONLY <2>1, <2>2
<1>7. Alike(y, z)
  BY ONLY <1>5, <1>6, Zenon DEF Alike
<1> QED BY ONLY <1>2, <1>7, Zenon

(* The network header is read alike,                                       *)
LEMMA SameNetwork4 ==
  ASSUME NEW f, NEW g, NEW p, Tells4(f, p), Tells4(g, p), f.off \in Words, g.off \in Words
  PROVE  analyze_ip(f) = analyze_ip(g)
<1>1. /\ f.tos = U8(TOSByte(p)) /\ f.id = U16(p.ident) /\ f.ttl = U8(p.hop_limit)
      /\ f.p = Protocol(p) /\ f.src = p.src /\ f.dst = p.dst /\ f.off % 8192 = 0
  BY ONLY Tells4(f, p), SMT DEF Tells4
<1>2. /\ g.tos = U8(TOSByte(p)) /\ g.id = U16(p.ident) /\ g.ttl = U8(p.hop_limit)
      /\ g.p = Protocol(p) /\ g.src = p.src /\ g.dst = p.dst /\ g.off % 8192 = 0
  BY ONLY Tells4(g, p), SMT DEF Tells4
<1>3. BitsOf(Swap16(f.off), FRAG) = {} /\ BitsOf(Swap16(g.off), FRAG) = {}
  BY ONLY <1>1, <1>2, f.off \in Words, g.off \in Words, NoFragment
<1> DEFINE Read(tos, id, ttl, proto, src, dst, frag, offset) ==
             [version |-> 4, priority |-> tos \div 32, tos |-> BitsOf(tos, TOS),
              rsv_tos |-> tos % 4, frag |-> frag, offset |-> offset, ident |-> S16(id),
              hop_limit |-> ttl, protocol |-> proto, flow_label |-> <<0, 0>>,
              src |-> src, dst |-> dst]
<1>4. /\ analyze_ip(f) = Read(f.tos, f.id, f.ttl, f.p, f.src, f.dst,
                              BitsOf(Swap16(f.off), FRAG), f.off % 8192)
      /\ analyze_ip(g) = Read(g.tos, g.id, g.ttl, g.p, g.src, g.dst,
                              BitsOf(Swap16(g.off), FRAG), g.off % 8192)
  BY ONLY DEF analyze_ip
<1> HIDE DEF Read
<1>5. PICK a, b : a = f.off % 8192 /\ b = g.off % 8192 /\ a = b
  BY ONLY <1>1, <1>2, SMT
<1> QED BY ONLY <1>1, <1>2, <1>3, <1>4, <1>5, SMT

(* that of IPv6,                                                           *)
LEMMA SameNetwork6 ==
  ASSUME NEW f, NEW g, NEW p, Tells6(f, p), Tells6(g, p)
  PROVE  analyze_ipv6(f) = analyze_ipv6(g)
<1>1. /\ f.ttl = g.ttl /\ f.nxt = g.nxt /\ f.src = g.src /\ f.dst = g.dst
      /\ f.flow[1] = g.flow[1]
      /\ (f.flow[2] \div 256) % 16 = (g.flow[2] \div 256) % 16
  BY ONLY Tells6(f, p), Tells6(g, p), SMT DEF Tells6
<1>2. PICK a, b : a = (f.flow[2] \div 256) % 16 /\ b = (g.flow[2] \div 256) % 16 /\ a = b
  BY ONLY <1>1, SMT
<1> DEFINE Read(flow, low, ttl, nxt, src, dst) ==
             [version |-> 6, priority |-> 0, tos |-> {}, rsv_tos |-> 0, frag |-> {},
              offset |-> 0, ident |-> 0, flow_label |-> <<flow, 256 * low>>,
              hop_limit |-> ttl, protocol |-> S8(nxt), src |-> src, dst |-> dst]
<1>3. /\ analyze_ipv6(f) = Read(f.flow[1], a, f.ttl, f.nxt, f.src, f.dst)
      /\ analyze_ipv6(g) = Read(g.flow[1], b, g.ttl, g.nxt, g.src, g.dst)
  BY ONLY <1>2, SMT DEF analyze_ipv6
<1> HIDE DEF Read
<1> QED BY ONLY <1>1, <1>2, <1>3, SMT

(* a message of ARP,                                                       *)
LEMMA SameNetworkARP ==
  ASSUME NEW f, NEW g, NEW p, TellsARP(f, p), TellsARP(g, p), f.tr[3] = g.tr[3]
  PROVE  analyze_arp(f) = analyze_arp(g)
<1>1. /\ f.tr[1] = g.tr[1] /\ f.tr[2] = g.tr[2] /\ f.tr[4] = g.tr[4]
      /\ SubSeq(f.tr, 5, 7) = SubSeq(g.tr, 5, 7) /\ SubSeq(f.tr, 8, 9) = SubSeq(g.tr, 8, 9)
      /\ SubSeq(f.tr, 10, 12) = SubSeq(g.tr, 10, 12)
      /\ SubSeq(f.tr, 13, 14) = SubSeq(g.tr, 13, 14)
  BY ONLY TellsARP(f, p), TellsARP(g, p), Zenon DEF TellsARP
<1> DEFINE Read(a, b, c, d, sha, spa, tha, tpa) ==
             [hardtype |-> S16(a), prototype |-> S16(b), hlen |-> c \div 256, plen |-> c % 256,
              operation |-> S16(d), sender_hardaddr |-> sha, sender_protoaddr |-> spa,
              target_hardaddr |-> tha, target_protoaddr |-> tpa]
<1>2. /\ analyze_arp(f) = Read(f.tr[1], f.tr[2], f.tr[3], f.tr[4], SubSeq(f.tr, 5, 7),
                               SubSeq(f.tr, 8, 9), SubSeq(f.tr, 10, 12), SubSeq(f.tr, 13, 14))
      /\ analyze_arp(g) = Read(g.tr[1], g.tr[2], g.tr[3], g.tr[4], SubSeq(g.tr, 5, 7),
                               SubSeq(g.tr, 8, 9), SubSeq(g.tr, 10, 12), SubSeq(g.tr, 13, 14))
  BY ONLY DEF analyze_arp
<1> HIDE DEF Read
<1> QED BY ONLY <1>1, <1>2, f.tr[3] = g.tr[3], Zenon

(* whichever it is.                                                        *)
LEMMA SameNetwork ==
  ASSUME NEW p, IsPacket(p), Known(p), NEW f, Sound(f), Tells(f, p), NEW g, Sound(g), Tells(g, p)
  PROVE  Network(f) = Network(g) /\ nproto(f) = nproto(g)
<1>1. CASE IsIP(p) /\ p.version = 4
  <2>1. Tells4(f, p) /\ Tells4(g, p) /\ nproto(f) = IP /\ nproto(g) = IP
    BY ONLY <1>1, IsPacket(p), Tells(f, p), Tells(g, p), ToldNetwork, Zenon DEF Tells
  <2>2. f.off \in Words /\ g.off \in Words
    <3>1. IsFrame(f) /\ IsFrame(g)
      BY ONLY Sound(f), Sound(g), Zenon DEF Sound
    <3> QED BY ONLY <3>1, SMT DEF IsFrame
  <2>3. analyze_ip(f) = analyze_ip(g)
    BY ONLY <2>1, <2>2, SameNetwork4
  <2> QED BY ONLY <2>1, <2>3, NetworkIs, Zenon
<1>2. CASE IsIP(p) /\ p.version # 4
  <2>1. Tells6(f, p) /\ Tells6(g, p) /\ nproto(f) = IPV6 /\ nproto(g) = IPV6
    BY ONLY <1>2, IsPacket(p), Tells(f, p), Tells(g, p), ToldNetwork, Zenon DEF Tells
  <2>2. analyze_ipv6(f) = analyze_ipv6(g)
    BY ONLY <2>1, SameNetwork6
  <2> QED BY ONLY <2>1, <2>2, NetworkIs, Zenon
<1>3. CASE p.class = "ARPPacket"
  <2>1. TellsARP(f, p) /\ TellsARP(g, p)
    BY ONLY <1>3, Tells(f, p), Tells(g, p), Zenon DEF Tells
  <2>2. nproto(f) = ARP /\ nproto(g) = ARP
    BY ONLY <2>1, Zenon DEF TellsARP
  <2>3. f.tr[3] = ARPLengths /\ g.tr[3] = ARPLengths
    BY ONLY <2>2, Sound(f), Sound(g), Zenon DEF Sound
  <2>4. analyze_arp(f) = analyze_arp(g)
    BY ONLY <2>1, <2>3, SameNetworkARP
  <2> QED BY ONLY <2>2, <2>4, NetworkIs, Zenon
<1>4. CASE p.class = "Packet"
  <2>1. nproto(f) = U16(p.frametype) /\ nproto(g) = U16(p.frametype)
    BY ONLY <1>4, Tells(f, p), Tells(g, p), Zenon DEF Tells
  <2>2. nproto(f) \notin {IP, IPV6, ARP} /\ nproto(g) \notin {IP, IPV6, ARP}
    BY ONLY <1>4, IsPacket(p), Tells(f, p), Tells(g, p), ToldNetwork
  <2>3. Network(f) = <<>> /\ Network(g) = <<>>
    BY ONLY <2>2, NetworkIs, Zenon
  <2> QED BY ONLY <2>1, <2>3
<1>5. p.class \in {"Packet", "ARPPacket"} \/ IsIP(p)
  BY ONLY IsPacket(p), SMT DEF IsPacket
<1> QED BY ONLY <1>1, <1>2, <1>3, <1>4, <1>5

-----------------------------------------------------------------------------
(* The transport header is read alike.                                     *)

(* That of TCP,                                                            *)
LEMMA SameTCP ==
  ASSUME NEW f, NEW g, NEW p, TellsTCP(f, p), TellsTCP(g, p)
  PROVE  analyze_tcp(f) = analyze_tcp(g)
<1>1. /\ f.tr[1] = g.tr[1] /\ f.tr[2] = g.tr[2] /\ f.tr[8] = g.tr[8] /\ f.tr[10] = g.tr[10]
      /\ <<f.tr[3], f.tr[4]>> = <<g.tr[3], g.tr[4]>>
      /\ <<f.tr[5], f.tr[6]>> = <<g.tr[5], g.tr[6]>>
      /\ BitsOf(f.tr[7], 0 .. 7) = BitsOf(g.tr[7], 0 .. 7)
  BY ONLY TellsTCP(f, p), TellsTCP(g, p), Zenon DEF TellsTCP
<1> QED BY ONLY <1>1, Zenon DEF analyze_tcp

(* of UDP,                                                                 *)
LEMMA SameUDP ==
  ASSUME NEW f, NEW g, NEW p, TellsUDP(f, p), TellsUDP(g, p)
  PROVE  analyze_udp(f) = analyze_udp(g)
<1>1. f.tr[1] = g.tr[1] /\ f.tr[2] = g.tr[2]
  BY ONLY TellsUDP(f, p), TellsUDP(g, p), Zenon DEF TellsUDP
<1> QED BY ONLY <1>1, Zenon DEF analyze_udp

(* An echo, of which four words are read:                                  *)
EchoRead(type, code, id, seq, sum) ==
  [type |-> type, code |-> code, checksum |-> sum, id |-> id, seq |-> seq,
   redir_ip |-> <<>>, mtu |-> 0, hasInner |-> FALSE, ippacket |-> <<>>,
   subnetmask |-> <<0, 0>>, orig_timestamp |-> <<0, 0>>,
   recv_timestamp |-> <<0, 0>>, trans_timestamp |-> <<0, 0>>]

(* nothing of it depends on what was not written.                          *)
LEMMA EchoIsRead ==
  ASSUME NEW m, NEW clen, NEW j, m[1] \div 256 \in ECHO
  PROVE  ReadICMP(m, clen, j) =
           EchoRead(S8(m[1] \div 256), S8(m[1]), S8(m[3]), S8(m[4]), S16(Swap16(m[2])))
<1>1. PICK t : t = m[1] \div 256
  OBVIOUS
<1>2. /\ t \in ECHO /\ t # REDIRECT /\ t \notin {REDIRECT, 3} /\ t \notin ERRORS
      /\ t \notin MASK /\ t \notin TIMESTAMP
  BY ONLY <1>1, m[1] \div 256 \in ECHO DEF ECHO, REDIRECT, ERRORS, MASK, TIMESTAMP
<1> DEFINE hasID == t \in ECHO \/ t > 12
           inner == t \in ERRORS /\ clen >= 36
           Time(i) == IF t \in TIMESTAMP THEN Swap32(<<m[i], m[i + 1]>>) ELSE <<0, 0>>
           Read(id, seq, redir, mtu, has, mask, orig, recv, trans) ==
             [type |-> S8(t), code |-> S8(m[1]), checksum |-> S16(Swap16(m[2])),
              id  |-> id, seq |-> seq, redir_ip |-> redir, mtu |-> mtu, hasInner |-> has,
              ippacket |-> <<>>, subnetmask |-> mask, orig_timestamp |-> orig,
              recv_timestamp |-> recv, trans_timestamp |-> trans]
<1>3. ReadICMP(m, clen, j) =
        Read(IF hasID THEN S8(m[3]) ELSE S16(j), IF hasID THEN S8(m[4]) ELSE S16(j),
             IF t = REDIRECT THEN <<m[3], m[4]>> ELSE <<>>,
             IF t \in {REDIRECT, 3} THEN S16(Swap16(m[4])) ELSE 0,
             inner, IF t \in MASK THEN Swap32(<<m[5], m[6]>>) ELSE <<0, 0>>,
             Time(5), Time(7), Time(9))
  BY ONLY <1>1, SMT DEF ReadICMP
<1>4. /\ (IF hasID THEN S8(m[3]) ELSE S16(j)) = S8(m[3])
      /\ (IF hasID THEN S8(m[4]) ELSE S16(j)) = S8(m[4])
      /\ (IF t = REDIRECT THEN <<m[3], m[4]>> ELSE <<>>) = <<>>
      /\ (IF t \in {REDIRECT, 3} THEN S16(Swap16(m[4])) ELSE 0) = 0
      /\ inner = FALSE
      /\ (IF t \in MASK THEN Swap32(<<m[5], m[6]>>) ELSE <<0, 0>>) = <<0, 0>>
      /\ Time(5) = <<0, 0>> /\ Time(7) = <<0, 0>> /\ Time(9) = <<0, 0>>
  BY ONLY <1>2, SMT
<1>5. ReadICMP(m, clen, j) =
        Read(S8(m[3]), S8(m[4]), <<>>, 0, FALSE, <<0, 0>>, <<0, 0>>, <<0, 0>>, <<0, 0>>)
  <2> HIDE DEF Read, Time, hasID, inner
  <2> QED BY ONLY <1>3, <1>4, Zenon
<1>6. ReadICMP(m, clen, j) = EchoRead(S8(t), S8(m[1]), S8(m[3]), S8(m[4]), S16(Swap16(m[2])))
  BY ONLY <1>5, Zenon DEF EchoRead
<1> QED BY ONLY <1>1, <1>6, SMT

(* of ICMP, but for the checksum.                                          *)
LEMMA SameEcho ==
  ASSUME NEW f, f.tr \in Seq(Words), f.body \in Seq(Bytes), NEW g, g.tr \in Seq(Words),
         g.body \in Seq(Bytes), NEW p, HoldsICMP(p), p.type \in ECHO,
         TellsICMP(f, p), TellsICMP(g, p), NEW i, NEW j, NEW c, NEW d
  PROVE  Alike(analyze_icmp(f, c, i), analyze_icmp(g, d, j))
<1>1. p.type \in -(2^7) .. 2^7 - 1 /\ p.code \in Int /\ p.id \in Int /\ p.seq \in Int
  <2>1. p.type \in -(2^7) .. 2^7 - 1
    BY Zenon DEF HoldsICMP
  <2> QED BY <2>1, ICMPNumbers
<1>2. ASSUME NEW h, h.tr \in Seq(Words), h.body \in Seq(Bytes), TellsICMP(h, p), NEW e, NEW k
      PROVE  \E sum : analyze_icmp(h, e, k) =
                        EchoRead(p.type, S8(p.code), S8(p.id), S8(p.seq), sum)
  <2>1. Len(h.tr) = 4 /\ S8(h.tr[3]) = S8(p.id) /\ S8(h.tr[4]) = S8(p.seq)
    BY ONLY <1>2, p.type \in ECHO, SMT DEF TellsICMP
  <2>2. PICK w : w = h.tr[1] /\ w = 256 * U8(p.type) + U8(p.code)
    BY ONLY <1>2, SMT DEF TellsICMP
  <2>3. S8(w \div 256) = p.type /\ S8(w) = S8(p.code) /\ w \div 256 \in ECHO
    BY ONLY <1>1, <2>2, p.type \in ECHO, TypeInByte
  <2>4. PICK r \in Int : r = Len(h.tr) /\ r = 4
    BY ONLY <2>1
  <2>5. Message(h)[1] = w /\ Message(h)[3] = h.tr[3] /\ Message(h)[4] = h.tr[4]
    <3>1. \A n \in 1 .. r : Message(h)[n] = h.tr[n]
      BY ONLY <1>2, <2>4, MessageBegins
    <3>2. 1 \in 1 .. r /\ 3 \in 1 .. r /\ 4 \in 1 .. r
      BY ONLY <2>4
    <3> QED BY ONLY <2>2, <3>1, <3>2, Zenon
  <2>6. PICK m : m = Message(h)
    OBVIOUS
  <2>7. m[1] \div 256 \in ECHO /\ S8(m[1] \div 256) = p.type /\ S8(m[1]) = S8(p.code)
    BY ONLY <2>3, <2>5, <2>6, SMT
  <2>8. S8(m[3]) = S8(p.id) /\ S8(m[4]) = S8(p.seq)
    BY ONLY <2>1, <2>5, <2>6, Zenon
  <2>9. ReadICMP(m, e, k) =
          EchoRead(S8(m[1] \div 256), S8(m[1]), S8(m[3]), S8(m[4]), S16(Swap16(m[2])))
    BY ONLY <2>7, EchoIsRead
  <2>10. PICK x : x = S8(m[1] \div 256) /\ x = p.type
    BY ONLY <2>7, SMT
  <2>11. ReadICMP(m, e, k) = EchoRead(x, S8(m[1]), S8(m[3]), S8(m[4]), S16(Swap16(m[2])))
    BY ONLY <2>9, <2>10, SMT
  <2>12. analyze_icmp(h, e, k) = ReadICMP(m, e, k)
    BY ONLY <2>6, ICMPRead, Zenon DEF Message
  <2>13. S8(m[1]) = S8(p.code)
    BY ONLY <2>7, SMT
  <2>14. x = p.type
    BY ONLY <2>10, SMT
  <2>15. analyze_icmp(h, e, k) =
           EchoRead(p.type, S8(p.code), S8(p.id), S8(p.seq), S16(Swap16(m[2])))
    BY ONLY <2>8, <2>11, <2>12, <2>13, <2>14, Zenon
  <2> QED BY ONLY <2>15, Zenon
<1>3. PICK s : analyze_icmp(f, c, i) = EchoRead(p.type, S8(p.code), S8(p.id), S8(p.seq), s)
  BY <1>2
<1>4. PICK t : analyze_icmp(g, d, j) = EchoRead(p.type, S8(p.code), S8(p.id), S8(p.seq), t)
  BY <1>2
<1>5. ASSUME NEW a, NEW b, NEW x, NEW y
      PROVE  Alike(EchoRead(a, b, x, y, s), EchoRead(a, b, x, y, t))
  <2>1. PICK v, w : v = EchoRead(a, b, x, y, s) /\ w = EchoRead(a, b, x, y, t)
    OBVIOUS
  <2>2. /\ DOMAIN v = DOMAIN w
        /\ DOMAIN v \subseteq
             {"type", "code", "checksum", "id", "seq", "redir_ip", "mtu", "hasInner", "ippacket",
              "subnetmask", "orig_timestamp", "recv_timestamp", "trans_timestamp"}
    BY ONLY <2>1, SMT DEF EchoRead
  <2>3. /\ v.type = w.type /\ v.code = w.code /\ v.id = w.id /\ v.seq = w.seq
        /\ v.redir_ip = w.redir_ip /\ v.mtu = w.mtu /\ v.hasInner = w.hasInner
        /\ v.ippacket = w.ippacket /\ v.subnetmask = w.subnetmask
        /\ v.orig_timestamp = w.orig_timestamp /\ v.recv_timestamp = w.recv_timestamp
        /\ v.trans_timestamp = w.trans_timestamp
    BY ONLY <2>1, Zenon DEF EchoRead
  <2>4. ASSUME NEW z \in DOMAIN v \ {"checksum"}
        PROVE  v[z] = w[z]
    <3>1. \/ z = "type" \/ z = "code" \/ z = "id" \/ z = "seq" \/ z = "redir_ip"
          \/ z = "mtu" \/ z = "hasInner" \/ z = "ippacket" \/ z = "subnetmask"
          \/ z = "orig_timestamp" \/ z = "recv_timestamp" \/ z = "trans_timestamp"
      BY ONLY <2>2, z \in DOMAIN v \ {"checksum"}, Zenon
    <3> QED BY ONLY <2>3, <3>1, Zenon
  <2>5. Alike(v, w)
    BY ONLY <2>2, <2>4, Zenon DEF Alike
  <2> QED BY ONLY <2>1, <2>5, Zenon
<1> QED BY ONLY <1>3, <1>4, <1>5, Zenon

(* So an object of each class.                                             *)
LEMMA SameTransportRead ==
  ASSUME NEW p, IsPacket(p), Known(p), HasData(p), NEW f, Sound(f), Tells(f, p),
         NEW g, Sound(g), Tells(g, p), NEW i, NEW j
  PROVE  Alike(AnalyzedTransport(f, p.class, i), AnalyzedTransport(g, p.class, j))
<1>1. CASE p.class = "TCPPacket"
  <2>1. analyze_tcp(f) = analyze_tcp(g)
    BY ONLY <1>1, Tells(f, p), Tells(g, p), SameTCP, Zenon DEF Tells
  <2>2. AnalyzedTransport(f, p.class, i) = AnalyzedTransport(g, p.class, j)
    BY ONLY <1>1, <2>1, TransportRead, Zenon
  <2> QED BY ONLY <2>2, Zenon DEF Alike
<1>2. CASE p.class = "UDPPacket"
  <2>1. analyze_udp(f) = analyze_udp(g)
    BY ONLY <1>2, Tells(f, p), Tells(g, p), SameUDP, Zenon DEF Tells
  <2>2. AnalyzedTransport(f, p.class, i) = AnalyzedTransport(g, p.class, j)
    BY ONLY <1>2, <2>1, TransportRead, Zenon
  <2> QED BY ONLY <2>2, Zenon DEF Alike
<1>3. CASE p.class = "ICMPPacket"
  <2>1. HoldsICMP(p) /\ p.type \in ECHO
    <3>1. HoldsICMP(p)
      BY ONLY <1>3, IsPacket(p), SMT DEF IsPacket
    <3> QED BY ONLY <1>3, <3>1, HasData(p), Zenon DEF HasData
  <2>2. TellsICMP(f, p) /\ TellsICMP(g, p)
    BY ONLY <1>3, Tells(f, p), Tells(g, p), Zenon DEF Tells
  <2>3. /\ f.tr \in Seq(Words) /\ f.body \in Seq(Bytes)
        /\ g.tr \in Seq(Words) /\ g.body \in Seq(Bytes)
    BY ONLY Sound(f), Sound(g), Zenon DEF Sound
  <2>4. Alike(analyze_icmp(f, Cut(f, i) - NetworkHlen(f), i),
              analyze_icmp(g, Cut(g, j) - NetworkHlen(g), j))
    BY ONLY <2>1, <2>2, <2>3, SameEcho
  <2> QED BY ONLY <1>3, <2>4, TransportRead, Zenon
<1>4. CASE p.class \notin {"TCPPacket", "UDPPacket", "ICMPPacket"}
  <2>1. AnalyzedTransport(f, p.class, i) = <<>> /\ AnalyzedTransport(g, p.class, j) = <<>>
    BY ONLY <1>4, SMT DEF AnalyzedTransport
  <2> QED BY ONLY <2>1, Zenon DEF Alike
<1> QED BY ONLY <1>1, <1>2, <1>3, <1>4

-----------------------------------------------------------------------------
(* The length that get_packet takes, of a message of ARP,                  *)
LEMMA CutARP ==
  ASSUME NEW f, Sound(f), nproto(f) = ARP, f.caplen = 60, NEW j
  PROVE  Cut(f, j) = 28
<1>1. f.hln = 6 /\ f.pln = 4
  BY ONLY Sound(f), nproto(f) = ARP, Zenon DEF Sound
<1>2. Announced(f) = 28
  BY ONLY <1>1, nproto(f) = ARP DEF Announced, ARP, IP, IPV6, UNKNOWN_PROTO
<1>3. f.caplen - datalink_hlen(f) = 46
  <2>1. nproto(f) # IP
    BY ONLY nproto(f) = ARP DEF ARP, IP
  <2>2. f.lt = EN10MB
    BY ONLY <2>1, Sound(f), OverEthernet
  <2>3. datalink_hlen(f) = 14
    BY ONLY <2>2, Sound(f), EthernetLengths
  <2> QED BY ONLY <2>3, f.caplen = 60
<1>4. ~UnsignedGreater(28, 46)
  BY ONLY DEF UnsignedGreater
<1>5. ~MustCut(f, j)
  BY ONLY <1>2, <1>3, <1>4, Zenon DEF MustCut
<1> QED BY ONLY <1>2, <1>5, Zenon DEF Cut

(* Both frames have as many bytes, of which as many are taken, and the     *)
(* same data.                                                              *)
LEMMA SameLengths ==
  ASSUME NEW p, IsPacket(p), Known(p), Carried(p),
         NEW f, Sound(f), Tells(f, p), Brings(f, p), NEW i \in Words,
         NEW g, Sound(g), Tells(g, p), Brings(g, p), NEW j \in Words, f.lt = g.lt
  PROVE  /\ f.caplen = g.caplen /\ Cut(f, i) = Cut(g, j)
         /\ Datalink(f, i).data = Datalink(g, j).data
<1>1. PICK q, r : q = get_packet(f, i) /\ r = get_packet(g, j)
  OBVIOUS
<1>2. DataRead(f, p, i, q) /\ DataRead(g, p, j, r)
  BY ONLY <1>1, IsPacket(p), Known(p), Carried(p), Sound(f), Tells(f, p), Brings(f, p),
     i \in Words, Sound(g), Tells(g, p), Brings(g, p), j \in Words, DataIsRead
<1>3. Datalink(f, i).data = q.data /\ Datalink(g, j).data = r.data
  BY ONLY <1>1, GotDatalink, Zenon
<1>4. datalink_hlen(f) = datalink_hlen(g)
  BY ONLY f.lt = g.lt, SMT DEF datalink_hlen
<1>5. ASSUME nproto(f) # IP, nproto(g) # IP, f.caplen = 14 + Cut(f, i), g.caplen = 14 + Cut(g, j),
             f.caplen = g.caplen
      PROVE  Cut(f, i) = Cut(g, j)
  <2>1. f.lt = EN10MB /\ g.lt = EN10MB
    BY ONLY <1>5, Sound(f), Sound(g), OverEthernet
  <2>2. PICK m \in Int, n \in Int : m = Cut(f, i) /\ n = Cut(g, j)
    BY ONLY <2>1, Sound(f), Sound(g), i \in Words, j \in Words, EthernetCut
  <2>3. 14 + m = 14 + n
    BY ONLY <1>5, <2>2, Zenon
  <2>4. m = n
    BY ONLY <2>3, m \in Int, n \in Int
  <2> QED BY ONLY <2>2, <2>4, Zenon
<1>6. CASE IsIP(p) /\ p.version = 4
  <2>1. nproto(f) = IP /\ nproto(g) = IP
    BY ONLY <1>6, IsPacket(p), Tells(f, p), Tells(g, p), ToldNetwork
  <2>2. Brings4(f, p) /\ Brings4(g, p)
    BY ONLY <1>6, Brings(f, p), Brings(g, p), Zenon DEF Brings
  <2>3. f.len = Size(p) /\ g.len = Size(p)
    BY ONLY <2>2, Zenon DEF Brings4
  <2>4. f.caplen = g.caplen
    <3>1. PICK R : R = (IF f.lt = RAW THEN Size(p) ELSE Room(Size(p)))
      OBVIOUS
    <3>2. f.caplen = datalink_hlen(f) + R
      BY ONLY <2>2, <3>1, Zenon DEF Brings4
    <3>3. g.caplen = datalink_hlen(g) + R
      BY ONLY <2>2, <3>1, f.lt = g.lt, Zenon DEF Brings4
    <3> QED BY ONLY <1>4, <3>2, <3>3, Zenon
  <2>5. Cut(f, i) = f.len /\ Cut(g, j) = g.len
    BY ONLY <2>1, Sound(f), Sound(g), i \in Words, j \in Words, DatagramCut
  <2>6. q.data = p.data /\ r.data = p.data
    BY ONLY <1>2, <1>6, Zenon DEF DataRead
  <2> QED BY ONLY <1>3, <2>3, <2>4, <2>5, <2>6, Zenon
<1>7. CASE IsIP(p) /\ p.version # 4
  <2>1. nproto(f) = IPV6 /\ nproto(g) = IPV6
    BY ONLY <1>7, IsPacket(p), Tells(f, p), Tells(g, p), ToldNetwork
  <2>2. nproto(f) # IP /\ nproto(g) # IP
    BY ONLY <2>1 DEF IP, IPV6
  <2>3. Brings6(f, p) /\ Brings6(g, p)
    BY ONLY <1>7, Brings(f, p), Brings(g, p), Zenon DEF Brings
  <2>4. f.caplen = g.caplen /\ f.body = g.body
    BY ONLY <2>3, Zenon DEF Brings6
  <2>5. /\ q.data = f.body /\ f.caplen = 14 + Cut(f, i)
        /\ r.data = g.body /\ g.caplen = 14 + Cut(g, j)
    BY ONLY <1>2, <1>7, Zenon DEF DataRead
  <2> QED BY ONLY <1>3, <1>5, <2>2, <2>4, <2>5, Zenon
<1>8. CASE p.class = "Packet"
  <2>1. nproto(f) # IP /\ nproto(g) # IP
    BY ONLY <1>8, IsPacket(p), Tells(f, p), Tells(g, p), ToldNetwork
  <2>2. BringsPlain(f, p) /\ BringsPlain(g, p)
    BY ONLY <1>8, Brings(f, p), Brings(g, p), Zenon DEF Brings
  <2>3. f.caplen = g.caplen /\ f.body = g.body
    BY ONLY <2>2, Zenon DEF BringsPlain
  <2>4. /\ q.data = f.body /\ f.caplen = 14 + Cut(f, i)
        /\ r.data = g.body /\ g.caplen = 14 + Cut(g, j)
    BY ONLY <1>2, <1>8, Zenon DEF DataRead
  <2> QED BY ONLY <1>3, <1>5, <2>1, <2>3, <2>4, Zenon
<1>9. CASE p.class = "ARPPacket"
  <2>1. TellsARP(f, p) /\ TellsARP(g, p)
    BY ONLY <1>9, Tells(f, p), Tells(g, p), Zenon DEF Tells
  <2>2. nproto(f) = ARP /\ nproto(g) = ARP /\ f.caplen = 60 /\ g.caplen = 60
    BY ONLY <2>1, Zenon DEF TellsARP
  <2>3. Cut(f, i) = 28 /\ Cut(g, j) = 28
    BY ONLY <2>2, Sound(f), Sound(g), CutARP
  <2>4. Datalink(f, i).data = <<>> /\ Datalink(g, j).data = <<>>
    BY ONLY <2>2, SMT DEF Datalink
  <2> QED BY ONLY <2>2, <2>3, <2>4
<1>10. p.class \in {"Packet", "ARPPacket"} \/ IsIP(p)
  BY ONLY IsPacket(p), SMT DEF IsPacket
<1> QED BY ONLY <1>6, <1>7, <1>8, <1>9, <1>10

(* get_packet sets the same fields itself.                                 *)
LEMMA SameDatalink ==
  ASSUME NEW p, IsPacket(p), Known(p), Carried(p),
         NEW f, Sound(f), Tells(f, p), Brings(f, p), NEW i \in Words,
         NEW g, Sound(g), Tells(g, p), Brings(g, p), NEW j \in Words, f.lt = g.lt
  PROVE  Datalink(f, i) = Datalink(g, j)
<1>1. /\ f.caplen = g.caplen /\ Cut(f, i) = Cut(g, j)
      /\ Datalink(f, i).data = Datalink(g, j).data
  BY SameLengths
<1>2. Class(f, i) = p.class /\ Class(g, j) = p.class
  BY ONLY Sound(f), Sound(g), IsPacket(p), Known(p), Tells(f, p), Tells(g, p), i \in Words,
     j \in Words, ClassIsRead
<1>3. nproto(f) = nproto(g)
  BY ONLY IsPacket(p), Known(p), Sound(f), Tells(f, p), Sound(g), Tells(g, p), SameNetwork
<1>4. Skipped(f) = Skipped(g)
  <2>1. Skipped(f) = datalink_hlen(f) /\ Skipped(g) = datalink_hlen(g)
    BY ONLY Sound(f), Sound(g), SoundLengths
  <2>2. datalink_hlen(f) = datalink_hlen(g)
    BY ONLY f.lt = g.lt, SMT DEF datalink_hlen
  <2> QED BY ONLY <2>1, <2>2, Zenon
<1>5. NetworkHlen(f) = NetworkHlen(g)
  <2>1. CASE nproto(f) = IP
    BY ONLY <1>3, <2>1, Sound(f), Sound(g), SoundNetworkHlen
  <2>2. CASE nproto(f) = IPV6
    BY ONLY <1>3, <2>2, Sound(f), Sound(g), SoundNetworkHlen
  <2>3. CASE nproto(f) = ARP
    BY ONLY <1>3, <2>3, Sound(f), Sound(g), SoundNetworkHlen
  <2>4. CASE nproto(f) \notin {IP, IPV6, ARP}
    BY ONLY <1>3, <2>4, Sound(f), Sound(g), SoundNetworkHlen
  <2> QED BY ONLY <2>1, <2>2, <2>3, <2>4
<1>6. TransportHlen(f, i) = TransportHlen(g, j)
  <2>1. TransportHlen(f, i) = HeaderOf(p) /\ TransportHlen(g, j) = HeaderOf(p)
    BY ONLY <1>2, Sound(f), Sound(g), i \in Words, j \in Words, TransportLength
  <2> QED BY ONLY <2>1, Zenon
<1>7. Parts(f, i) = Parts(g, j)
  BY ONLY <1>1, <1>4, <1>5, <1>6, Zenon DEF Parts
<1>8. analyze_datalink(f) = analyze_datalink(g)
  <2>1. CASE f.lt = EN10MB
    <3>1. nproto(f) = f.type /\ nproto(g) = g.type
      BY ONLY <2>1, f.lt = g.lt, Sound(f), Sound(g), EthernetLengths
    <3>2. f.type = g.type
      BY ONLY <1>3, <3>1
    <3> QED BY ONLY <3>2, f.lt = g.lt, Zenon DEF analyze_datalink
  <2>2. CASE f.lt # EN10MB
    BY ONLY <2>2, f.lt = g.lt, Zenon DEF analyze_datalink
  <2> QED BY ONLY <2>1, <2>2
<1> DEFINE D(class, type, caplen, header, data) ==
             [class |-> class, frametype |-> type, caplen |-> caplen, header |-> header,
              data |-> data]
<1>9. ASSUME NEW h, NEW k
      PROVE  Datalink(h, k) = D(Class(h, k), analyze_datalink(h), h.caplen, Parts(h, k).header,
                                Datalink(h, k).data)
  BY ONLY SMT DEF Datalink
<1> HIDE DEF D
<1>10. /\ Datalink(f, i) = D(Class(f, i), analyze_datalink(f), f.caplen, Parts(f, i).header,
                             Datalink(f, i).data)
       /\ Datalink(g, j) = D(Class(g, j), analyze_datalink(g), g.caplen, Parts(g, j).header,
                             Datalink(g, j).data)
  BY ONLY <1>9, Zenon
<1> QED BY ONLY <1>1, <1>2, <1>7, <1>8, <1>10, Zenon

(* So they are read alike, whatever the memory held.                       *)
LEMMA ReadAlike ==
  ASSUME NEW p, IsPacket(p), Known(p), Carried(p),
         NEW f, Sound(f), Tells(f, p), Brings(f, p), NEW i \in Words,
         NEW g, Sound(g), Tells(g, p), Brings(g, p), NEW j \in Words, f.lt = g.lt
  PROVE  Alike(get_packet(f, i), get_packet(g, j))
<1>1. Datalink(f, i) = Datalink(g, j)
  BY SameDatalink
<1>2. Network(f) = Network(g)
  BY ONLY IsPacket(p), Known(p), Sound(f), Tells(f, p), Sound(g), Tells(g, p), SameNetwork
<1>3. Class(f, i) = p.class /\ Class(g, j) = p.class
  BY ONLY Sound(f), Sound(g), IsPacket(p), Known(p), Tells(f, p), Tells(g, p), i \in Words,
     j \in Words, ClassIsRead
<1>4. PICK s, t : /\ s = AnalyzedTransport(f, Class(f, i), i)
                  /\ t = AnalyzedTransport(g, Class(g, j), j) /\ Alike(s, t)
  <2>1. HasData(p)
    BY ONLY Carried(p), Zenon DEF Carried
  <2>2. Alike(AnalyzedTransport(f, p.class, i), AnalyzedTransport(g, p.class, j))
    BY ONLY <2>1, IsPacket(p), Known(p), Sound(f), Tells(f, p), Sound(g), Tells(g, p),
       SameTransportRead
  <2> QED BY ONLY <1>3, <2>2, Zenon
<1>5. Alike(Merge(Datalink(f, i), Merge(Network(f), s)),
            Merge(Datalink(f, i), Merge(Network(f), t)))
  BY ONLY <1>4, MergeAlike
<1>6. /\ get_packet(f, i) = Merge(Datalink(f, i), Merge(Network(f), s))
      /\ get_packet(g, j) = Merge(Datalink(g, j), Merge(Network(g), t))
  BY ONLY <1>4, Got, Zenon
<1> QED BY ONLY <1>1, <1>2, <1>5, <1>6, Zenon

-----------------------------------------------------------------------------
(* The third inductive invariant: whatever is read of the frame is like    *)
(* what was first received.                                                *)
StableInv ==
  /\ at = "start" => first = None
  /\ at \in {"wire", "received"} /\ first # None /\ Settles(sent) =>
       \A j \in Words : Alike(get_packet(frame, j), first)

(* What settles is known, and its data are carried.                        *)
LEMMA SettlesIsCarried ==
  ASSUME NEW p, Settles(p)
  PROVE  Known(p) /\ Carried(p)
<1>1. /\ p.class = "ICMPPacket" => p.type \in ECHO
      /\ IsIP(p) => p.offset = 0 /\ LengthSuffices(p)
  BY ONLY Settles(p), Zenon DEF Settles
<1>2. ECHO \subseteq Handled
  BY ONLY Zenon DEF Handled
<1> QED BY ONLY <1>1, <1>2, Zenon DEF Known, Carried, HasData

(* What is sent goes over Ethernet.                                        *)
LEMMA NativeLink ==
  ASSUME NEW p, NEW j
  PROVE  nativeSendPacket(p, j).lt = EN10MB
<1>1. PICK s : s = set_packet(p, j)
  OBVIOUS
<1>2. DOMAIN s = Fields
  BY ONLY <1>1, SetPacketFields, Zenon
<1> DEFINE pad == IF 14 + s.caplen < 60 THEN 46 - s.caplen ELSE 0
<1>3. nativeSendPacket(p, j) = [s EXCEPT !.lt = EN10MB, !.type = U16(p.frametype),
                                         !.caplen = 14 + s.caplen + pad,
                                         !.body = s.body \o Zeros(pad)]
  BY ONLY <1>1, SMT DEF nativeSendPacket
<1> HIDE DEF pad
<1>4. "lt" \in DOMAIN s
  BY ONLY <1>2 DEF Fields
<1> QED BY ONLY <1>3, <1>4, SMT

(* Two frames that the invariants are true of are read alike.              *)
LEMMA ArrivedAlike ==
  ASSUME NEW p \in Packets, Settles(p), NEW f, Sound(f), Arrived(f, p), NEW i \in Words,
         NEW g, Sound(g), Arrived(g, p), NEW j \in Words, f.lt = g.lt
  PROVE  Alike(get_packet(f, i), get_packet(g, j))
<1>1. IsPacket(p)
  BY ONLY p \in Packets, PacketsAssumption
<1>2. Known(p) /\ Carried(p)
  BY ONLY Settles(p), SettlesIsCarried
<1>3. Tells(f, p) /\ Brings(f, p) /\ Tells(g, p) /\ Brings(g, p)
  BY ONLY <1>2, Arrived(f, p), Arrived(g, p), Zenon DEF Arrived
<1> QED BY ONLY <1>1, <1>2, <1>3, Sound(f), Sound(g), i \in Words, j \in Words, f.lt = g.lt,
           ReadAlike

(* The first reception establishes it,                                     *)
LEMMA ReceiveStable ==
  ASSUME WireInv, ArrivalInv, StableInv, Receive
  PROVE  StableInv'
<1>1. /\ at = "wire" /\ at' = "received" /\ frame' = frame /\ sent' = sent
      /\ \E i \in Junk : packet' = get_packet(frame, i)
      /\ first' = IF first = None THEN packet' ELSE first
  BY Zenon DEF Receive
<1>2. Sound(frame) /\ sent \in Packets /\ Arrived(frame, sent)
  BY <1>1, Zenon DEF WireInv, ArrivalInv
<1>3. ASSUME Settles(sent), NEW j \in Words
      PROVE  Alike(get_packet(frame, j), first')
  <2>1. CASE first = None
    <3>1. PICK i \in Words : first' = get_packet(frame, i)
      BY <1>1, <2>1, JunkAssumption
    <3>2. Alike(get_packet(frame, j), get_packet(frame, i))
      BY ONLY <1>2, <1>3, i \in Words, ArrivedAlike
    <3> QED BY ONLY <3>1, <3>2, Zenon
  <2>2. CASE first # None
    <3>1. Alike(get_packet(frame, j), first)
      BY <1>1, <1>3, <2>2, Zenon DEF StableInv
    <3> QED BY ONLY <1>1, <2>2, <3>1, Zenon
  <2> QED BY ONLY <2>1, <2>2
<1> QED BY ONLY <1>1, <1>3, Zenon DEF StableInv

(* and a frame over the same link, from which the same is read, keeps it.  *)
LEMMA AgainStable ==
  ASSUME WireInv, ArrivalInv, StableInv, WireInv', ArrivalInv', at = "received", at' = "wire",
         sent' = sent, first' = first, frame'.lt = frame.lt
  PROVE  StableInv'
<1>1. Sound(frame) /\ sent \in Packets /\ Arrived(frame, sent) /\ first # None
  BY Zenon DEF WireInv, ArrivalInv
<1>2. Sound(frame') /\ Arrived(frame', sent)
  BY Zenon DEF WireInv, ArrivalInv
<1>3. 0 \in Words
  BY ONLY ZeroIsWord
<1>4. ASSUME Settles(sent), NEW j \in Words
      PROVE  Alike(get_packet(frame', j), first')
  <2>1. Alike(get_packet(frame', j), get_packet(frame, 0))
    BY ONLY <1>1, <1>2, <1>3, <1>4, frame'.lt = frame.lt, ArrivedAlike
  <2>2. Alike(get_packet(frame, 0), first)
    BY <1>1, <1>3, <1>4, Zenon DEF StableInv
  <2>3. Alike(get_packet(frame', j), first)
    BY ONLY <2>1, <2>2, AlikeIsTransitive
  <2> QED BY ONLY <2>3, first' = first, Zenon
<1> QED BY ONLY <1>4, at' = "wire", sent' = sent, Zenon DEF StableInv

(* So every step keeps it.                                                 *)
LEMMA StableNext ==
  WireInv /\ ArrivalInv /\ StableInv /\ WireInv' /\ ArrivalInv' /\ [Next]_vars => StableInv'
<1> SUFFICES ASSUME WireInv, ArrivalInv, StableInv, WireInv', ArrivalInv', [Next]_vars
             PROVE  StableInv'
  OBVIOUS
<1>1. ASSUME NEW f \in Strange, Overhear(f)
      PROVE  StableInv'
  BY ONLY <1>1, SMT DEF Overhear, StableInv
<1>2. ASSUME NEW p \in Packets, Send(p)
      PROVE  StableInv'
  <2>1. at = "start" /\ at' = "wire" /\ first' = first
    BY ONLY <1>2, Zenon DEF Send
  <2>2. first' = None
    BY <2>1, Zenon DEF StableInv
  <2> QED BY ONLY <2>1, <2>2, Zenon DEF StableInv
<1>3. CASE Receive
  BY <1>3, ReceiveStable
<1>4. CASE Forward
  <2>1. /\ at = "received" /\ at' = "wire" /\ sent' = sent /\ first' = first
        /\ frame.lt = EN10MB /\ \E j \in Junk : frame' = nativeSendPacket(packet, j)
    BY ONLY <1>4, Zenon DEF Forward
  <2>2. frame'.lt = frame.lt
    BY ONLY <2>1, NativeLink, Zenon
  <2> QED BY <2>1, <2>2, AgainStable
<1>5. CASE Dump
  <2>1. /\ at = "received" /\ at' = "wire" /\ sent' = sent /\ first' = first
        /\ \E j \in Junk : frame' = writePacket(frame, packet, j)
    BY ONLY <1>5, Zenon DEF Dump
  <2>2. frame'.lt = frame.lt
    <3>1. DOMAIN frame = Fields /\ frame.body \in Seq(Bytes)
      <4>1. Sound(frame) /\ DOMAIN frame = Fields
        BY <2>1, Zenon DEF WireInv
      <4> QED BY ONLY <4>1, Zenon DEF Sound
    <3>2. PICK j \in Words : frame' = writePacket(frame, packet, j)
      BY <2>1, JunkAssumption
    <3>3. SameButBody(writePacket(frame, packet, j), frame)
      BY ONLY <3>1, j \in Words, WrittenBody
    <3> QED BY ONLY <3>2, <3>3, Zenon DEF SameButBody
  <2> QED BY <2>1, <2>2, AgainStable
<1>6. CASE UNCHANGED vars
  BY <1>6, Zenon DEF vars, StableInv
<1> QED BY <1>1, <1>2, <1>3, <1>4, <1>5, <1>6 DEF Next

(* Sending on what was received, or dumping it, any number of times and in *)
(* any order, changes nothing of the object any more: what set_packet and  *)
(* writePacket leave to the memory is nowhere read.                        *)
THEOREM ForwardingIsStable == Spec => []ForwardIsStable
<1>1. Init => StableInv
  BY SMT DEF Init, StableInv
<1>2. WireInv /\ ArrivalInv /\ StableInv /\ WireInv' /\ ArrivalInv' /\ [Next]_vars => StableInv'
  BY StableNext
<1>3. WireInv /\ ArrivalInv /\ StableInv => ForwardIsStable
  <2> SUFFICES ASSUME WireInv, ArrivalInv, StableInv, at = "received", Settles(sent)
               PROVE  /\ DOMAIN packet = DOMAIN first
                      /\ \A x \in DOMAIN first \ {"checksum"} : packet[x] = first[x]
    BY DEF ForwardIsStable
  <2>1. first # None /\ \E j \in Junk : packet = get_packet(frame, j)
    BY Zenon DEF WireInv, ArrivalInv
  <2>2. PICK j \in Words : packet = get_packet(frame, j)
    BY <2>1, JunkAssumption
  <2>3. Alike(get_packet(frame, j), first)
    BY <2>1, Zenon DEF StableInv
  <2>4. Alike(packet, first)
    BY ONLY <2>2, <2>3, Zenon
  <2> QED BY ONLY <2>4, Zenon DEF Alike
<1> QED BY <1>1, <1>2, <1>3, WireInvariance, ArrivalInvariance, PTL DEF Spec

==============================================================================
