------------------------------- MODULE Network -------------------------------
(***************************************************************************)
(* Network.run, layer 3: it hands a new packet to the protocol of its      *)
(* type, and sends down the packets the protocols give it.                 *)
(***************************************************************************)
EXTENDS Layer

PollNetwork ==
  /\ At("L3", "loop") /\ ~finish["L3"]
  /\ PollOwn("L3")
  /\ Goto("L3", "handle")
  /\ UNCHANGED <<finish, pkts, made, protoVars, out>>

(* Neither IP nor ARP: the packet is dropped.                              *)
Dispatch(x) ==
  /\ ~pkts[x].scanned
  /\ pkts' = [pkts EXCEPT ![x].scanned = TRUE]
  /\ IF pkts[x].type \in {"IP", "ARP"}
     THEN SendTo("L3", pkts[x].type, x)
     ELSE Discard("L3")

PassDown(x) ==
  /\ pkts[x].scanned
  /\ pkts' = [pkts EXCEPT ![x].up = FALSE]
  /\ SendTo("L3", "L2", x)

HandleNetwork ==
  /\ At("L3", "handle") /\ Result("L3") # NULL
  /\ Dispatch(Result("L3")) \/ PassDown(Result("L3"))
  /\ Goto("L3", "loop")
  /\ UNCHANGED <<finish, made, protoVars, out>>

(* run catches InterruptedException only: the NullPointerException of      *)
(* s_packet.getScanned_type() ends the thread, and the protocols are never *)
(* told to finish.                                                         *)
NetworkDies ==
  /\ At("L3", "handle") /\ Result("L3") = NULL
  /\ Goto("L3", "dead")
  /\ UNCHANGED <<listVars, finish, pkts, made, protoVars, out>>

NetworkFinishIp ==   \* mutant: ARP is not told
  /\ At("L3", "loop") /\ finish["L3"]
  /\ Stop({"IP"})
  /\ Goto("L3", "done")
  /\ UNCHANGED <<listVars, pkts, made, protoVars, out>>

NetworkFinish ==
  /\ At("L3", "loop") /\ finish["L3"]
  /\ Stop({"IP", "ARP"})
  /\ Goto("L3", "done")
  /\ UNCHANGED <<listVars, pkts, made, protoVars, out>>

NetworkNext ==
  PollNetwork \/ HandleNetwork \/ NetworkDies \/ NetworkFinish \/ InCall("L3")
=============================================================================
