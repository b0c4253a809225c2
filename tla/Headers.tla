------------------------------- MODULE Headers -------------------------------
(***************************************************************************)
(* The set functions, which write the fields of a Packet object into a     *)
(* buffer, and the analyze functions, which read them out of a frame.  An  *)
(* object is a record of its fields, with sets of bit numbers for its      *)
(* boolean fields; a frame is a record as in GetPacket, with the fields of *)
(* the IP header, the words of what follows it (tr) and the bytes behind   *)
(* (body).  junk is a word of the buffer that nobody has written.          *)
(***************************************************************************)
EXTENDS GetPacket, Checksum

Flag(i, bits) == IF i \in bits THEN 2^i ELSE 0
BitsOf(w, bits) == {i \in bits : Bit(w, i)}

TOS  == 2 .. 4     \* r_flag, t_flag, d_flag
FRAG == 13 .. 15   \* more_frag, dont_frag, rsv_frag

(* The fields of one record and those of another that the first has not.   *)
Merge(a, b) == [x \in DOMAIN a \cup DOMAIN b |-> IF x \in DOMAIN a THEN a[x] ELSE b[x]]

(* The buffer, before anything is written to it.                           *)
Blank ==
  [lt |-> EN10MB, type |-> 0, caplen |-> 0, hl |-> 0, tos |-> 0, len |-> 0, id |-> 0,
   off |-> 0, ttl |-> 0, p |-> 0, sum |-> 0, src |-> <<>>, dst |-> <<>>, flow |-> <<0, 0>>,
   nxt |-> 0, plen |-> 0, xlen |-> 0, walk |-> <<>>, hln |-> 0, pln |-> 0, doff |-> 0,
   tr |-> <<>>, body |-> <<>>]

-----------------------------------------------------------------------------
(* IPv4.  off is what is in memory: the offset in network order, the flags *)
(* not; set_packet turns the whole word once more.                         *)
TOSByte(p) == 32 * p.priority + p.rsv_tos + Flag(4, p.tos) + Flag(3, p.tos) + Flag(2, p.tos)
OffWord(p) ==
  Flag(15, p.frag) + Flag(14, p.frag) + Flag(13, p.frag) + Swap16(U16(p.offset))

set_ip(p) ==
  [Blank EXCEPT !.hl = 5, !.tos = U8(TOSByte(p)), !.id = U16(p.ident),
                !.off = U16(OffWord(p)), !.ttl = U8(p.hop_limit), !.src = p.src, !.dst = p.dst]

analyze_ip(f) ==
  [version |-> 4, priority |-> f.tos \div 32, tos |-> BitsOf(f.tos, TOS),
   rsv_tos |-> f.tos % 4, frag |-> BitsOf(Swap16(f.off), FRAG),
   offset |-> f.off % 8192, ident |-> S16(f.id), hop_limit |-> f.ttl,
   protocol |-> f.p, flow_label |-> <<0, 0>>, src |-> f.src, dst |-> f.dst]

IPWords(f) ==
  <<17664 + f.tos, f.len, f.id, f.off, 256 * f.ttl + f.p>> \o f.src \o f.dst

(* IPv6: the class goes out above the flow label, and comes back as 0; the *)
(* mask of analyze_ipv6 is meant for the other byte order.  set_ipv6 joins *)
(* the two with |, their sum if the label has 20 bits or the class is 0.   *)
FlowWord(p) == 24576 + ((16 * p.priority + p.flow_label[1]) % 4096)
set_ipv6(p) ==
  [Blank EXCEPT !.flow = <<FlowWord(p), p.flow_label[2]>>,
                !.nxt = U8(p.protocol), !.ttl = U8(p.hop_limit), !.src = p.src, !.dst = p.dst]

analyze_ipv6(f) ==
  [version |-> 6, priority |-> 0, tos |-> {}, rsv_tos |-> 0, frag |-> {}, offset |-> 0,
   ident |-> 0, flow_label |-> <<f.flow[1], 256 * ((f.flow[2] \div 256) % 16)>>,
   hop_limit |-> f.ttl, protocol |-> S8(f.nxt), src |-> f.src, dst |-> f.dst]

(* What in_cksum2 takes for the pseudo header: the bytes at the places they *)
(* have in IPv4, whatever the version.                                     *)
PseudoHeader(p, f, proto, length) ==
  IF p.version = 4
  THEN f.src \o f.dst \o <<proto, U16(length)>>
  ELSE SubSeq(f.src, 3, 6) \o <<f.src[1] % 256, U16(length)>>

-----------------------------------------------------------------------------
(* TCP.  The four bits behind the offset are not written.                  *)
TCPFlags(bits) ==
  Flag(0, bits) + Flag(1, bits) + Flag(2, bits) + Flag(3, bits)
  + Flag(4, bits) + Flag(5, bits) + Flag(6, bits) + Flag(7, bits)

set_tcp(p, f, junk) ==
  LET length == Len(p.data) + TCPHDRLEN
      words(sum) ==
        <<U16(p.src_port), U16(p.dst_port)>> \o p.sequence \o p.ack_num
        \o <<20480 + 256 * (junk % 16) + TCPFlags(p.flags), U16(p.window), sum,
             U16(p.urgent_pointer)>>
  IN  words(in_cksum2(PseudoHeader(p, f, TCP, length), words(0), p.data))

analyze_tcp(f) ==
  [src_port |-> f.tr[1], dst_port |-> f.tr[2], sequence |-> <<f.tr[3], f.tr[4]>>,
   ack_num |-> <<f.tr[5], f.tr[6]>>, flags |-> BitsOf(f.tr[7], 0 .. 7),
   window |-> f.tr[8], urgent_pointer |-> S16(f.tr[10])]

(* UDP: a checksum of zero would mean none.                                *)
NonZero(sum) == IF sum = 0 THEN 65535 ELSE sum
set_udp(p, f) ==
  LET length == Len(p.data) + UDPHDRLEN
      words(sum) == <<U16(p.src_port), U16(p.dst_port), U16(length), sum>>
  IN  words(NonZero(in_cksum2(PseudoHeader(p, f, UDP, length), words(0), p.data)))

analyze_udpShort(f) ==   \* mutant: without the cast to u_short
  [src_port |-> S16(f.tr[1]), dst_port |-> S16(f.tr[2])]
analyze_udp(f) == [src_port |-> f.tr[1], dst_port |-> f.tr[2]]

-----------------------------------------------------------------------------
(* ICMP.                                                                   *)
ECHO      == {0, 8}
ERRORS    == {3, 4, 5, 11, 12}
REDIRECT  == 5
TIMESTAMP == {13, 14}
MASK      == {17, 18}

(* The datagram inside an error: its length, protocol and checksum are not *)
(* written, and four bytes behind it are counted with it.                  *)
Embedded(p, junk) ==
  LET inner == set_ip(p)
      f     == [inner EXCEPT !.off = Swap16(inner.off), !.len = junk, !.p = junk % 256]
  IN  SubSeq(IPWords(f), 1, 5) \o <<junk>> \o f.src \o f.dst \o <<junk, junk>>

(* The words behind the checksum.  The data follow those of an echo only.  *)
ICMPWords(p, junk) ==
  CASE p.type \in ECHO      -> <<U16(p.id), U16(p.seq)>>
    [] p.type \in TIMESTAMP -> <<U16(p.id), U16(p.seq)>> \o p.orig_timestamp
                               \o p.recv_timestamp \o p.trans_timestamp
    [] p.type \in MASK      -> <<U16(p.id), U16(p.seq)>> \o p.subnetmask
    [] p.type \in ERRORS    -> (IF p.type = REDIRECT THEN p.redir_ip ELSE <<junk, junk>>)
                               \o IF p.ippacket = <<>> THEN <<junk, junk>>
                                  ELSE Embedded(p.ippacket[1], junk)

(* Any other type gets two bytes, if there are that many data.             *)
Handled == ECHO \cup ERRORS \cup TIMESTAMP \cup MASK
set_icmp(p, junk) ==
  LET words(sum) == <<256 * U8(p.type) + U8(p.code), sum>> \o ICMPWords(p, junk)
      data == IF p.type \in ECHO THEN p.data ELSE <<>>
  IN  IF p.type \in Handled
      THEN [tr |-> words(in_cksum(words(0), data, junk % 256)), body |-> data]
      ELSE [tr |-> <<>>,
            body |-> [i \in DOMAIN p.data |->
                        CASE i = 1 -> U8(p.type) [] i = 2 -> U8(p.code)
                          [] OTHER -> junk % 256]]

(* Of identifier and sequence number one byte each is read, as a signed    *)
(* number, or neither; times and masks are read as they lie in memory; the *)
(* datagram inside an error only if 36 bytes have come.                    *)
analyze_icmp(f, clen, junk) ==
  LET m     == f.tr \o WordsOf(f.body)
      type  == m[1] \div 256
      hasID == type \in ECHO \/ type > 12
      Time(i) == IF type \in TIMESTAMP THEN Swap32(<<m[i], m[i + 1]>>) ELSE <<0, 0>>
  IN  [type |-> S8(type), code |-> S8(m[1]), checksum |-> S16(Swap16(m[2])),
       id  |-> IF hasID THEN S8(m[3]) ELSE S16(junk),
       seq |-> IF hasID THEN S8(m[4]) ELSE S16(junk),
       redir_ip |-> IF type = REDIRECT THEN <<m[3], m[4]>> ELSE <<>>,
       mtu |-> IF type \in {REDIRECT, 3} THEN S16(Swap16(m[4])) ELSE 0,
       hasInner |-> type \in ERRORS /\ clen >= 36,
       ippacket |-> <<>>,
       subnetmask |-> IF type \in MASK THEN Swap32(<<m[5], m[6]>>) ELSE <<0, 0>>,
       orig_timestamp |-> Time(5), recv_timestamp |-> Time(7), trans_timestamp |-> Time(9)]

-----------------------------------------------------------------------------
(* ARP, for Ethernet and IPv4: addresses of three and two words.           *)
set_arp(p) ==
  <<U16(p.hardtype), U16(p.prototype), 256 * U8(p.hlen) + U8(p.plen), U16(p.operation)>>
  \o p.sender_hardaddr \o p.sender_protoaddr \o p.target_hardaddr \o p.target_protoaddr

analyze_arp(f) ==
  [hardtype |-> S16(f.tr[1]), prototype |-> S16(f.tr[2]), hlen |-> f.tr[3] \div 256,
   plen |-> f.tr[3] % 256, operation |-> S16(f.tr[4]),
   sender_hardaddr |-> SubSeq(f.tr, 5, 7), sender_protoaddr |-> SubSeq(f.tr, 8, 9),
   target_hardaddr |-> SubSeq(f.tr, 10, 12), target_protoaddr |-> SubSeq(f.tr, 13, 14)]
=============================================================================
