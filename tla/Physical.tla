------------------------------ MODULE Physical -------------------------------
(***************************************************************************)
(* Physical.run, layer 1: it alternates between the device and the packets *)
(* that come down, and passes the order to finish on to layer 2.           *)
(***************************************************************************)
EXTENDS Layer

(* captor.getPacket() returns a frame, which goes up to layer 2.           *)
Capture ==
  /\ At("L1", "receive") /\ ~finish["L1"]
  /\ made["L1"] < MaxFrames /\ Begun < MaxPackets
  /\ \E f \in Frames : Make("L1", Captured(f))
  /\ SendTo("L1", "L2", Latest("L1"))
  /\ Goto("L1", "send")
  /\ UNCHANGED <<finish, protoVars, out>>

(* It returns null (timeout, error), or a frame that is not Ethernet, for  *)
(* which the cast in SelfPacket throws; run catches the exception.         *)
CaptureNothing ==
  /\ At("L1", "receive") /\ ~finish["L1"]
  /\ Goto("L1", "send")
  /\ UNCHANGED <<listVars, finish, pkts, made, protoVars, out>>

PollDown ==
  /\ At("L1", "send")
  /\ IF isEmpty("L1")
     THEN Goto("L1", "receive") /\ UNCHANGED listVars
     ELSE PollOwn("L1") /\ Goto("L1", "transmit")
  /\ UNCHANGED <<finish, pkts, made, protoVars, out>>

(* sendPackage: the packet leaves, or openDevice or the send throws and    *)
(* the packet is gone; a null result throws as well.                       *)
Transmit ==
  /\ At("L1", "transmit")
  /\ \/ Result("L1") # NULL /\ Record("wire", Result("L1"))
     \/ UNCHANGED out
  /\ Discard("L1")
  /\ Goto("L1", "receive")
  /\ UNCHANGED <<finish, pkts, made, protoVars>>

PhysicalFinishAll ==   \* mutant: tells layers 2 and 3 at once
  /\ At("L1", "receive") /\ finish["L1"]
  /\ Stop({"L2", "L3"})
  /\ Goto("L1", "done")
  /\ UNCHANGED <<listVars, pkts, made, protoVars, out>>

PhysicalFinish ==
  /\ At("L1", "receive") /\ finish["L1"]
  /\ Stop({"L2"})
  /\ Goto("L1", "done")
  /\ UNCHANGED <<listVars, pkts, made, protoVars, out>>

PhysicalNext ==
  Capture \/ CaptureNothing \/ PollDown \/ Transmit \/ PhysicalFinish \/ InCall("L1")
=============================================================================
