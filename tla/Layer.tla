-------------------------------- MODULE Layer --------------------------------
(***************************************************************************)
(* The state shared by the threads of the stack and the operations that    *)
(* Layer, SelfProtocol and SelfPacket give them.  The threads:             *)
(*   L1, L2, L3   Physical, Logical, Network (class Layer)                 *)
(*   ARP, IP      the protocols of layer 3 (class SelfProtocol)            *)
(*   MAIN         Main.main: the menu and Arp.requestIP, which it calls    *)
(* Each module that extends this one holds the run method of one of them.  *)
(*                                                                         *)
(* The layers' own semaphores are left out: L1, L2 and L3 acquire only     *)
(* their own, IP only its own, so no acquire ever waits and no acquire     *)
(* excludes another thread.  The semaphore of ARP is taken by two threads  *)
(* and is modelled.                                                        *)
(***************************************************************************)
EXTENDS PacketList, Sequences

CONSTANTS
  Frames,      (* what the device may capture: see Frame                   *)
  IPs, MACs,   (* addresses                                                *)
  OwnMac,      (* Logical.srcMac: the address typed at start-up            *)
  OwnIP,       (* Network.ip_address                                       *)
  Broadcast,   (* Logical.broadcast, also Logical.dstMac                   *)
  ZeroMac,     (* 00:00:00:00:00:00                                        *)
  MaxFrames,   (* bound: the frames the device captures                    *)
  MaxRequests, (* bound: the ARP requests the user has sent                *)
  MaxPackets   (* bound: both together                                     *)

Types  == {"IP", "ARP", "other", "unset"}
ArpOps == {"request", "reply", "none"}

(* An Ethernet frame with the fields of an ARP message; op is "none" and   *)
(* the fields are arbitrary when it carries something else.                *)
Frame == [src: MACs, dst: MACs, type: Types \ {"unset"}, op: ArpOps,
          sha: MACs, spa: IPs, tha: MACs, tpa: IPs]

Origins == {"L1", "MAIN", "ARP"}

ASSUME LayerAssumption ==
  /\ Threads = {"L1", "L2", "L3", "ARP", "IP", "MAIN"}
  /\ Lists = {"L1", "L2", "L3", "ARP", "IP"}
  /\ {OwnMac, Broadcast, ZeroMac} \subseteq MACs
  /\ OwnMac # Broadcast
  /\ OwnIP \in IPs
  /\ Frames \subseteq Frame
  /\ MaxFrames \in Nat /\ MaxRequests \in Nat /\ MaxPackets \in Nat
  /\ Items = ({"L1", "ARP"} \X (1 .. MaxFrames)) \cup ({"MAIN"} \X (1 .. MaxRequests))
  /\ NULL \notin MACs \cup IPs

VARIABLES
  pc,          (* where each thread is in its run method                   *)
  finish,      (* the finish flag of each thread                           *)
  pkts,        (* the SelfPacket objects, NULL before they are created     *)
  made,        (* how many of them each origin has created                 *)
  lockQ,       (* the fair semaphore of ARP: its holder, then the waiters  *)
  directions,  (* the ARP table                                            *)
  asked,       (* the address the user has typed into requestIP            *)
  out          (* history: what ARP and IP polled and what L1 transmitted  *)

protoVars == <<lockQ, directions, asked>>
vars == <<listVars, pc, finish, pkts, made, lockQ, directions, asked, out>>

Ends == {"ARP", "IP", "wire"}

(* A SelfPacket: the frame, the direction and the marks of its way.        *)
SelfPacket ==
  [src: MACs \cup {NULL}, dst: MACs \cup {NULL}, type: Types, op: ArpOps,
   sha: MACs, spa: IPs, tha: MACs, tpa: IPs,
   up: BOOLEAN, scanned: BOOLEAN, fakeMac: MACs, fakeType: Types]

ASSUME NullIsNoPacket == NULL \notin SelfPacket

(* new SelfPacket(p) for a captured frame f                                *)
Captured(f) ==
  [src |-> f.src, dst |-> f.dst, type |-> f.type, op |-> f.op,
   sha |-> f.sha, spa |-> f.spa, tha |-> f.tha, tpa |-> f.tpa,
   up |-> TRUE, scanned |-> FALSE, fakeMac |-> ZeroMac, fakeType |-> "IP"]

(* new SelfPacket(a) for an ARPPacket made here, which has no datalink     *)
(* yet, marked as scanned and as ARP by the caller                         *)
Built(arpOp, sha, spa, tha, tpa) ==
  [src |-> NULL, dst |-> NULL, type |-> "unset", op |-> arpOp,
   sha |-> sha, spa |-> spa, tha |-> tha, tpa |-> tpa,
   up |-> TRUE, scanned |-> TRUE, fakeMac |-> ZeroMac, fakeType |-> "ARP"]

(* Main starts the layers and Network its protocols before either does     *)
(* anything else; a thread not yet started is one not yet scheduled.       *)
Init ==
  /\ ListInit
  /\ pc = [t \in Threads |-> CASE t = "L1" -> "receive"
                               [] t = "MAIN" -> "menu"
                               [] OTHER -> "loop"]
  /\ finish = [t \in Lists |-> FALSE]
  /\ pkts = [x \in Items |-> NULL]
  /\ made = [o \in Origins |-> 0]
  /\ lockQ = <<>>
  /\ directions = [ip \in IPs |-> NULL]
  /\ asked = NULL
  /\ out = [e \in Ends |-> <<>>]

-----------------------------------------------------------------------------
Goto(t, place) == pc' = [pc EXCEPT ![t] = place]
At(t, place)   == pc[t] = place /\ Ready(t)

(* while (!finish) ... if (!list.isEmpty()) p = list.poll(): the flag only *)
(* ever rises and only the owner can empty its list, so that the checks    *)
(* and the first access of poll may be one step.                           *)
PollOwnUnguarded(t) == CallPoll(t, t)   \* mutant: no isEmpty() before poll()
PollOwn(t) == ~isEmpty(t) /\ CallPoll(t, t)

(* sendToUpperLayer, sendToBottomLayer and appendPacket                    *)
SendTo(t, q, x) == CallAdd(t, q, x)

Make(o, packet) ==
  /\ made' = [made EXCEPT ![o] = @ + 1]
  /\ pkts' = [pkts EXCEPT ![<<o, made[o] + 1>>] = packet]
Latest(o) == <<o, made[o] + 1>>

(* What the bound MaxPackets counts: frames, requests and the request that *)
(* is being made.                                                          *)
Begun == made["L1"] + made["MAIN"]
           + IF pc["MAIN"] \in {"acquire", "ask", "request"} THEN 1 ELSE 0

Record(e, x) == out' = [out EXCEPT ![e] = Append(@, x)]

(* setFinish(true)                                                         *)
Stop(T) == finish' = [t \in Lists |-> t \in T \/ finish[t]]

(* One access of the list call thread t is in.                             *)
InCall(t) ==
  /\ ListStep(t)
  /\ UNCHANGED <<pc, finish, pkts, made, lockQ, directions, asked, out>>

-----------------------------------------------------------------------------
Places == {"receive", "send", "transmit", "loop", "acquire", "handle", "release",
           "menu", "ask", "request", "done", "dead", "aborted"}

StateTypeOK ==
  /\ pc \in [Threads -> Places]
  /\ finish \in [Lists -> BOOLEAN]
  /\ pkts \in [Items -> SelfPacket \cup {NULL}]
  /\ made \in [Origins -> Nat]
  /\ lockQ \in Seq({"ARP", "MAIN"})
  /\ directions \in [IPs -> MACs \cup {NULL}]
  /\ asked \in IPs \cup {NULL}
  /\ out \in [Ends -> Seq(Items)]

TypeOK == ListTypeOK /\ StateTypeOK

=============================================================================
