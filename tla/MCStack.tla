------------------------------ MODULE MCStack -------------------------------
EXTENDS Stack

MCItems ==
  ({"L1", "ARP"} \X (1 .. MaxFrames)) \cup ({"MAIN"} \X (1 .. MaxRequests))

Message(dst, arpOp, sha, spa, tha) ==
  [src |-> sha, dst |-> dst, type |-> "ARP", op |-> arpOp,
   sha |-> sha, spa |-> spa, tha |-> tha, tpa |-> OwnIP]

(* A host answers us; later another one answers for the same address.      *)
ReplyB  == Message(OwnMac, "reply", "macB", "ipB", OwnMac)
ReplyC  == Message(OwnMac, "reply", "macC", "ipB", OwnMac)
(* A host asks for our address.                                            *)
AskUs   == Message(Broadcast, "request", "macB", "ipB", ZeroMac)
(* Our own broadcast, seen again by the device.                            *)
Echo    == Message(Broadcast, "request", OwnMac, OwnIP, ZeroMac)
Datagram == [ReplyB EXCEPT !.type = "IP", !.op = "none"]
Foreign  == [ReplyB EXCEPT !.dst = "macC"]
Unknown  == [ReplyB EXCEPT !.type = "other", !.op = "none"]

MixedFrames == {ReplyB, AskUs, Echo, Datagram, Foreign, Unknown}
TwoReplies  == {ReplyB, ReplyC}
OneReply    == {ReplyB}
=============================================================================
