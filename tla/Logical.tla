------------------------------- MODULE Logical -------------------------------
(***************************************************************************)
(* Logical.run, layer 2: it filters what comes up and stamps what goes     *)
(* down.                                                                   *)
(***************************************************************************)
EXTENDS Layer

FilterWithoutSource(p) == p.dst \in {OwnMac, Broadcast}   \* mutant: check 1
FilterBroadcast(p) == p.src # OwnMac /\ p.dst = Broadcast \* mutant: check 2

(* macAddressesFilter: not sent by this host, and sent to it or to all     *)
macAddressesFilter(p) == p.src # OwnMac /\ p.dst \in {OwnMac, Broadcast}

(* The header of a packet that goes down.  A fake type other than IP and   *)
(* ARP leaves the type alone.                                              *)
StampedMacs(p) == [p EXCEPT !.src = OwnMac, !.dst = Broadcast]   \* mutant: no type
Stamped(p) ==
  [p EXCEPT !.src = OwnMac, !.dst = Broadcast,
            !.type = IF p.fakeType \in {"IP", "ARP"} THEN p.fakeType ELSE @]

PollLogical ==
  /\ At("L2", "loop") /\ ~finish["L2"]
  /\ PollOwn("L2")
  /\ Goto("L2", "handle")
  /\ UNCHANGED <<finish, pkts, made, protoVars, out>>

SendUp(x) ==
  /\ pkts[x].up /\ macAddressesFilter(pkts[x])
  /\ pkts' = [pkts EXCEPT ![x].fakeMac = OwnMac]
  /\ SendTo("L2", "L3", x)

SendDown(x) ==
  /\ ~pkts[x].up
  /\ pkts' = [pkts EXCEPT ![x] = Stamped(@)]
  /\ SendTo("L2", "L1", x)

Filtered(x) ==
  /\ pkts[x].up /\ ~macAddressesFilter(pkts[x])
  /\ Discard("L2")
  /\ UNCHANGED pkts

HandleLogical ==
  /\ At("L2", "handle") /\ Result("L2") # NULL
  /\ \/ SendUp(Result("L2"))
     \/ SendDown(Result("L2"))
     \/ Filtered(Result("L2"))
  /\ Goto("L2", "loop")
  /\ UNCHANGED <<finish, made, protoVars, out>>

(* A null result is ignored: layer 2 is the one that survives it.          *)
SkipNull ==
  /\ At("L2", "handle") /\ Result("L2") = NULL
  /\ Goto("L2", "loop")
  /\ UNCHANGED <<listVars, finish, pkts, made, protoVars, out>>

LogicalFinish ==
  /\ At("L2", "loop") /\ finish["L2"]
  /\ Stop({"L3"})
  /\ Goto("L2", "done")
  /\ UNCHANGED <<listVars, pkts, made, protoVars, out>>

LogicalNext == PollLogical \/ HandleLogical \/ SkipNull \/ LogicalFinish \/ InCall("L2")
=============================================================================
