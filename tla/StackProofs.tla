----------------------------- MODULE StackProofs -----------------------------
(***************************************************************************)
(* Theorems about the whole program, for any set of frames and addresses,  *)
(* any number of captured frames and of requests, and every interleaving:  *)
(* the lists, the requests and the shutdown; then the packets on their     *)
(* way: what reaches ARP and IP is theirs, what is sent carries its        *)
(* header, the table keeps the first answer, a thread dies only of calls   *)
(* that have overlapped, and each path implements LossyLink.               *)
(***************************************************************************)
EXTENDS Stack, PacketListProofs

USE ListAssumption, LayerAssumption, NullIsNoPacket

(* Nothing has been created, no one has the lock, no one has stopped.      *)
LEMMA InitInv == Init => IInv
<1> SUFFICES ASSUME Init PROVE IInv
  OBVIOUS
<1>1. ListTypeOK /\ HoldOnly(Created)
  <2>1. Returned(NULL) \in Call /\ Returned(NULL).at = "idle"
        /\ Returned(NULL).x = NULL /\ Returned(NULL).l = NULL
    BY ReturnedIsCall DEF Refs, Returned
  <2> QED
    BY <2>1 DEF Init, ListInit, ListTypeOK, HoldOnly, Refs
<1>2. \A t \in Threads : pc[t] \in {"receive", "menu", "loop"}
  BY DEF Init
<1>3. TypeOK
  BY <1>1 DEF Init, TypeOK, StateTypeOK, Places, Origins, Ends
<1>4. LockInv /\ RequestInv
  BY <1>2 DEF LockInv, RequestInv
<1>5. ShutdownInv
  BY <1>2 DEF Init, ShutdownInv, Upward
<1> QED
  BY <1>1, <1>3, <1>4, <1>5 DEF IInv, PointersMade

-----------------------------------------------------------------------------
(* Types                                                                   *)

(* What an At(t, ...) leaves in op[t] is the result of a poll.             *)
LEMMA ResultIsPacket ==
  ASSUME TypeOK, PointersMade, NEW t \in Threads, Result(t) # NULL
  PROVE  /\ Result(t) \in Items /\ Result(t) \in Created
         /\ pkts[Result(t)] \in SelfPacket
<1>1. Result(t) \in Created
  BY DEF PointersMade, HoldOnly, Result
<1> QED
  BY <1>1 DEF Created, TypeOK, StateTypeOK

(* What SelfPacket, Arp, Logical and Network make of a packet is one.      *)
LEMMA PacketTypes ==
  /\ \A f \in Frames : Captured(f) \in SelfPacket
  /\ \A ip \in IPs : arpRequest(ip) \in SelfPacket
  /\ \A p \in SelfPacket : /\ Stamped(p) \in SelfPacket
                           /\ [p EXCEPT !.fakeMac = OwnMac] \in SelfPacket
                           /\ [p EXCEPT !.scanned = TRUE] \in SelfPacket
                           /\ [p EXCEPT !.up = FALSE] \in SelfPacket
                           /\ p.type \in Types /\ p.spa \in IPs /\ p.sha \in MACs
<1>1. \A f \in Frames : Captured(f) \in SelfPacket
  BY DEF Captured, SelfPacket, Frame, Types, ArpOps
<1>2. \A ip \in IPs : arpRequest(ip) \in SelfPacket
  BY DEF arpRequest, Built, SelfPacket, Types, ArpOps
<1>3. ASSUME NEW p \in SelfPacket
      PROVE  /\ [p EXCEPT !.fakeMac = OwnMac] \in SelfPacket
             /\ [p EXCEPT !.scanned = TRUE] \in SelfPacket
             /\ [p EXCEPT !.up = FALSE] \in SelfPacket
             /\ p.type \in Types /\ p.spa \in IPs /\ p.sha \in MACs
  BY DEF SelfPacket
<1>4. ASSUME NEW p \in SelfPacket PROVE Stamped(p) \in SelfPacket
  BY DEF Stamped, SelfPacket, Types
<1> QED
  BY <1>1, <1>2, <1>3, <1>4

(* The type of pc after a Goto.                                            *)
LEMMA GotoType ==
  ASSUME StateTypeOK, NEW t \in Threads, NEW p \in Places, Goto(t, p)
  PROVE  pc' \in [Threads -> Places]
BY DEF StateTypeOK, Goto

(* The type of the finish flags after a setFinish.                         *)
LEMMA StopType ==
  ASSUME NEW T, Stop(T)
  PROVE  finish' \in [Lists -> BOOLEAN]
BY DEF Stop

(* The type of the history after a packet has reached an end.              *)
LEMMA RecordType ==
  ASSUME StateTypeOK, NEW e \in Ends, NEW x \in Items, Record(e, x)
  PROVE  out' \in [Ends -> Seq(Items)]
BY DEF StateTypeOK, Record

(* A created packet is there from then on, and so are the older ones.      *)
LEMMA MakeType ==
  ASSUME StateTypeOK, NEW o \in Origins, NEW p \in SelfPacket, Latest(o) \in Items, Make(o, p)
  PROVE  /\ made' \in [Origins -> Nat]
         /\ pkts' \in [Items -> SelfPacket \cup {NULL}]
         /\ pkts'[Latest(o)] # NULL
         /\ \A x \in Items : pkts[x] # NULL => pkts'[x] # NULL
<1>1. p # NULL
  OBVIOUS
<1> QED
  BY <1>1 DEF StateTypeOK, Make, Latest

(* A step that makes a call on a list and no packet.                       *)
LEMMA SameCreated ==
  ASSUME NEW S, S = Created, HoldOnly(S)', \A x \in Items : pkts[x] # NULL => pkts'[x] # NULL
  PROVE  PointersMade'
<1>1. S \subseteq Created'
  BY DEF Created
<1> HIDE DEF Created
<1> QED
  BY <1>1 DEF HoldOnly, PointersMade

(* The lists, when a thread goes on with its call.                         *)
LEMMA ListsInCall ==
  ASSUME ListTypeOK, PointersMade, NEW t \in Threads, ListStep(t), UNCHANGED pkts
  PROVE  ListTypeOK' /\ PointersMade'
<1>1. PICK S : S = Created
  OBVIOUS
<1>2. HoldOnly(S)
  BY <1>1 DEF PointersMade
<1>3. HoldOnly(S)'
  BY <1>2, ListStepHolds
<1> QED
  BY <1>1, <1>3, ListStepType, SameCreated

(* The lists, when a thread begins to poll its own.                        *)
LEMMA ListsPoll ==
  ASSUME ListTypeOK, PointersMade, NEW t \in Lists, CallPoll(t, t), UNCHANGED pkts
  PROVE  ListTypeOK' /\ PointersMade'
<1>1. PICK S : S = Created
  OBVIOUS
<1>2. HoldOnly(S)
  BY <1>1 DEF PointersMade
<1>3. HoldOnly(S)'
  BY <1>2, CallPollHolds
<1> QED
  BY <1>1, <1>3, CallPollType, SameCreated

(* The lists, when a thread is through with a packet.                      *)
LEMMA ListsDiscard ==
  ASSUME ListTypeOK, PointersMade, NEW t \in Threads, Discard(t),
         \A x \in Items : pkts[x] # NULL => pkts'[x] # NULL
  PROVE  ListTypeOK' /\ PointersMade'
<1>1. PICK S : S = Created
  OBVIOUS
<1>2. HoldOnly(S)
  BY <1>1 DEF PointersMade
<1>3. HoldOnly(S)'
  BY <1>2, DiscardHolds
<1> QED
  BY <1>1, <1>3, DiscardType, SameCreated

(* The packet sent may be the one that this step creates.                  *)
LEMMA ListsSend ==
  ASSUME ListTypeOK, PointersMade, NEW t \in Threads, NEW q \in Lists, NEW x \in Items,
         SendTo(t, q, x), pkts'[x] # NULL,
         \A y \in Items : pkts[y] # NULL => pkts'[y] # NULL
  PROVE  ListTypeOK' /\ PointersMade'
<1>1. PICK S : S = Created \cup {x}
  OBVIOUS
<1>2. HoldOnly(S)
  BY <1>1 DEF PointersMade, HoldOnly
<1>3. HoldOnly(S)'
  BY <1>1, <1>2, CallAddHolds DEF SendTo
<1>4. S \subseteq Created'
  BY <1>1 DEF Created
<1>5. PointersMade'
  BY <1>3, <1>4 DEF HoldOnly, PointersMade
<1> QED
  BY <1>5, CallAddType DEF SendTo

-----------------------------------------------------------------------------
(* Types: the steps of each thread                                         *)

(* A thread inside a call changes the lists and nothing else.              *)
LEMMA InCallTypes ==
  ASSUME IInv, NEW t \in Threads, InCall(t)
  PROVE  TypeOK' /\ PointersMade'
<1>1. ListTypeOK' /\ PointersMade'
  BY ListsInCall DEF IInv, TypeOK, InCall
<1> QED
  BY <1>1 DEF IInv, TypeOK, StateTypeOK, InCall

(* A step between two calls that leaves lists and packets alone.           *)
LEMMA QuietTypes ==
  ASSUME IInv, UNCHANGED <<listVars, pkts>>
  PROVE  ListTypeOK' /\ PointersMade'
BY DEF IInv, TypeOK, ListTypeOK, PointersMade, HoldOnly, Created, listVars

(* A setter of SelfPacket.                                                 *)
LEMMA SetterTypes ==
  ASSUME StateTypeOK, NEW x \in Items, NEW p \in SelfPacket,
         pkts' = [pkts EXCEPT ![x] = p]
  PROVE  /\ pkts' \in [Items -> SelfPacket \cup {NULL}] /\ pkts'[x] # NULL
         /\ \A y \in Items : pkts[y] # NULL => pkts'[y] # NULL
BY DEF StateTypeOK

(* Layer 1 keeps the types and sends only packets that exist.              *)
LEMMA PhysicalTypes ==
  ASSUME IInv, PhysicalNext
  PROVE  TypeOK' /\ PointersMade'
<1> USE DEF IInv, TypeOK
<1>1. CASE Capture
  <2>1. PICK f \in Frames : Make("L1", Captured(f))
    BY <1>1 DEF Capture
  <2>2. Latest("L1") \in Items
    BY <1>1 DEF Capture, Latest, StateTypeOK, Origins
  <2>3. /\ made' \in [Origins -> Nat]
        /\ pkts' \in [Items -> SelfPacket \cup {NULL}]
        /\ pkts'[Latest("L1")] # NULL
        /\ \A x \in Items : pkts[x] # NULL => pkts'[x] # NULL
    BY <2>1, <2>2, MakeType, PacketTypes DEF Origins
  <2>4. ListTypeOK' /\ PointersMade'
    BY <1>1, <2>2, <2>3, ListsSend DEF Capture
  <2>5. pc' \in [Threads -> Places]
    BY <1>1, GotoType DEF Capture, Places
  <2> QED
    BY <1>1, <2>3, <2>4, <2>5 DEF Capture, StateTypeOK, protoVars
<1>2. CASE CaptureNothing
  <2>1. pc' \in [Threads -> Places]
    BY <1>2, GotoType DEF CaptureNothing, Places
  <2> QED
    BY <1>2, <2>1, QuietTypes DEF CaptureNothing, StateTypeOK, protoVars
<1>3. CASE PollDown
  <2>1. pc' \in [Threads -> Places]
    BY <1>3, GotoType DEF PollDown, Places
  <2>2. ListTypeOK' /\ PointersMade'
    BY <1>3, QuietTypes, ListsPoll DEF PollDown, PollOwn
  <2> QED
    BY <1>3, <2>1, <2>2 DEF PollDown, StateTypeOK, protoVars
<1>4. CASE Transmit
  <2>1. pc' \in [Threads -> Places]
    BY <1>4, GotoType DEF Transmit, Places
  <2>2. ListTypeOK' /\ PointersMade'
    BY <1>4, ListsDiscard DEF Transmit
  <2>3. out' \in [Ends -> Seq(Items)]
    BY <1>4, ResultIsPacket, RecordType DEF Transmit, StateTypeOK, Ends
  <2> QED
    BY <1>4, <2>1, <2>2, <2>3 DEF Transmit, StateTypeOK, protoVars
<1>5. CASE PhysicalFinish
  <2>1. pc' \in [Threads -> Places]
    BY <1>5, GotoType DEF PhysicalFinish, Places
  <2> QED
    BY <1>5, <2>1, StopType, QuietTypes DEF PhysicalFinish, StateTypeOK, protoVars
<1>6. CASE InCall("L1")
  BY <1>6, InCallTypes
<1> QED
  BY <1>1, <1>2, <1>3, <1>4, <1>5, <1>6 DEF PhysicalNext

(* So does layer 2, which changes the headers,                             *)
LEMMA LogicalTypes ==
  ASSUME IInv, LogicalNext
  PROVE  TypeOK' /\ PointersMade'
<1> USE DEF IInv, TypeOK
<1>1. CASE PollLogical
  <2>1. pc' \in [Threads -> Places]
    BY <1>1, GotoType DEF PollLogical, Places
  <2>2. ListTypeOK' /\ PointersMade'
    BY <1>1, ListsPoll DEF PollLogical, PollOwn
  <2> QED
    BY <1>1, <2>1, <2>2 DEF PollLogical, StateTypeOK, protoVars
<1>2. CASE HandleLogical
  <2> DEFINE x == Result("L2")
  <2>1. x \in Items /\ pkts[x] \in SelfPacket
    BY <1>2, ResultIsPacket DEF HandleLogical
  <2>2. pc' \in [Threads -> Places]
    BY <1>2, GotoType DEF HandleLogical, Places
  <2>3. /\ pkts' \in [Items -> SelfPacket \cup {NULL}] /\ pkts'[x] # NULL
        /\ \A y \in Items : pkts[y] # NULL => pkts'[y] # NULL
    <3> DEFINE p == pkts[x]
    <3>1. CASE SendUp(x)
      <4>1. pkts' = [pkts EXCEPT ![x] = [p EXCEPT !.fakeMac = OwnMac]]
        BY <3>1 DEF SendUp
      <4>2. [p EXCEPT !.fakeMac = OwnMac] \in SelfPacket
        BY <2>1, PacketTypes
      <4> HIDE DEF p, x
      <4> QED
        BY <2>1, <4>1, <4>2, SetterTypes
    <3>2. CASE SendDown(x)
      <4>1. pkts' = [pkts EXCEPT ![x] = Stamped(p)] /\ Stamped(p) \in SelfPacket
        BY <2>1, <3>2, PacketTypes DEF SendDown
      <4> HIDE DEF p, x
      <4> QED
        BY <2>1, <4>1, SetterTypes
    <3>3. CASE Filtered(x)
      BY <2>1, <3>3 DEF Filtered, StateTypeOK
    <3> QED
      BY <1>2, <3>1, <3>2, <3>3 DEF HandleLogical
  <2> HIDE DEF x
  <2>4. ListTypeOK' /\ PointersMade'
    BY <1>2, <2>1, <2>3, ListsSend, ListsDiscard
       DEF HandleLogical, SendUp, SendDown, Filtered, x
  <2> QED
    BY <1>2, <2>2, <2>3, <2>4 DEF HandleLogical, StateTypeOK, protoVars
<1>3. CASE SkipNull
  <2>1. pc' \in [Threads -> Places]
    BY <1>3, GotoType DEF SkipNull, Places
  <2> QED
    BY <1>3, <2>1, QuietTypes DEF SkipNull, StateTypeOK, protoVars
<1>4. CASE LogicalFinish
  <2>1. pc' \in [Threads -> Places]
    BY <1>4, GotoType DEF LogicalFinish, Places
  <2> QED
    BY <1>4, <2>1, StopType, QuietTypes DEF LogicalFinish, StateTypeOK, protoVars
<1>5. CASE InCall("L2")
  BY <1>5, InCallTypes
<1> QED
  BY <1>1, <1>2, <1>3, <1>4, <1>5 DEF LogicalNext

(* layer 3, which changes the marks,                                       *)
LEMMA NetworkTypes ==
  ASSUME IInv, NetworkNext
  PROVE  TypeOK' /\ PointersMade'
<1> USE DEF IInv, TypeOK
<1>1. CASE PollNetwork
  <2>1. pc' \in [Threads -> Places]
    BY <1>1, GotoType DEF PollNetwork, Places
  <2>2. ListTypeOK' /\ PointersMade'
    BY <1>1, ListsPoll DEF PollNetwork, PollOwn
  <2> QED
    BY <1>1, <2>1, <2>2 DEF PollNetwork, StateTypeOK, protoVars
<1>2. CASE HandleNetwork
  <2> DEFINE x == Result("L3")
  <2>1. x \in Items /\ pkts[x] \in SelfPacket
    BY <1>2, ResultIsPacket DEF HandleNetwork
  <2>2. pc' \in [Threads -> Places]
    BY <1>2, GotoType DEF HandleNetwork, Places
  <2>3. /\ pkts' \in [Items -> SelfPacket \cup {NULL}] /\ pkts'[x] # NULL
        /\ \A y \in Items : pkts[y] # NULL => pkts'[y] # NULL
    <3> DEFINE p == pkts[x]
    <3>1. CASE Dispatch(x)
      <4>1. pkts' = [pkts EXCEPT ![x] = [p EXCEPT !.scanned = TRUE]]
        BY <3>1 DEF Dispatch
      <4>2. [p EXCEPT !.scanned = TRUE] \in SelfPacket
        BY <2>1, PacketTypes
      <4> HIDE DEF p, x
      <4> QED
        BY <2>1, <4>1, <4>2, SetterTypes
    <3>2. CASE PassDown(x)
      <4>1. pkts' = [pkts EXCEPT ![x] = [p EXCEPT !.up = FALSE]]
        BY <3>2 DEF PassDown
      <4>2. [p EXCEPT !.up = FALSE] \in SelfPacket
        BY <2>1, PacketTypes
      <4> HIDE DEF p, x
      <4> QED
        BY <2>1, <4>1, <4>2, SetterTypes
    <3> QED
      BY <1>2, <3>1, <3>2 DEF HandleNetwork
  <2> HIDE DEF x
  <2>4. ListTypeOK' /\ PointersMade'
    BY <1>2, <2>1, <2>3, ListsSend, ListsDiscard DEF HandleNetwork, Dispatch, PassDown, x
  <2> QED
    BY <1>2, <2>2, <2>3, <2>4 DEF HandleNetwork, StateTypeOK, protoVars
<1>3. CASE NetworkDies
  <2>1. pc' \in [Threads -> Places]
    BY <1>3, GotoType DEF NetworkDies, Places
  <2> QED
    BY <1>3, <2>1, QuietTypes DEF NetworkDies, StateTypeOK, protoVars
<1>4. CASE NetworkFinish
  <2>1. pc' \in [Threads -> Places]
    BY <1>4, GotoType DEF NetworkFinish, Places
  <2> QED
    BY <1>4, <2>1, StopType, QuietTypes DEF NetworkFinish, StateTypeOK, protoVars
<1>5. CASE InCall("L3")
  BY <1>5, InCallTypes
<1> QED
  BY <1>1, <1>2, <1>3, <1>4, <1>5 DEF NetworkNext

(* ARP, which changes the table,                                           *)
LEMMA ArpTypes ==
  ASSUME IInv, ArpNext
  PROVE  TypeOK' /\ PointersMade'
<1> USE DEF IInv, TypeOK
<1>1. CASE ArpAcquire
  <2>1. pc' \in [Threads -> Places]
    BY <1>1, GotoType DEF ArpAcquire, Places
  <2>2. lockQ' \in Seq({"ARP", "MAIN"})
    BY <1>1 DEF ArpAcquire, Acquire, StateTypeOK
  <2> QED
    BY <1>1, <2>1, <2>2, QuietTypes DEF ArpAcquire, StateTypeOK
<1>2. CASE PollArp
  <2>1. pc' \in [Threads -> Places]
    BY <1>2, GotoType DEF PollArp, Places
  <2>2. ListTypeOK' /\ PointersMade'
    BY <1>2, ListsPoll DEF PollArp
  <2> QED
    BY <1>2, <2>1, <2>2 DEF PollArp, StateTypeOK, protoVars
<1>3. CASE HandleArp
  <2> DEFINE p == pkts[Result("ARP")]
  <2>1. Result("ARP") \in Items /\ p \in SelfPacket
    BY <1>3, ResultIsPacket DEF HandleArp
  <2>2. Learn(p) \/ Ignore(p)
    BY <1>3 DEF HandleArp, Reply, SameReferenceAsNew
  <2>3. pc' \in [Threads -> Places]
    BY <1>3, GotoType DEF HandleArp, Places
  <2>4. out' \in [Ends -> Seq(Items)]
    BY <1>3, <2>1, RecordType DEF HandleArp, Ends
  <2>5. p.spa \in IPs /\ p.sha \in MACs
    BY <2>1, PacketTypes
  <2> HIDE DEF p
  <2>6. Discard("ARP") /\ UNCHANGED <<pkts, made>>
    BY <2>2 DEF Learn, Ignore
  <2>7. directions' \in [IPs -> MACs \cup {NULL}]
    BY <2>2, <2>5 DEF Learn, Ignore, StateTypeOK
  <2>8. ListTypeOK' /\ PointersMade'
    BY <2>6, ListsDiscard
  <2> QED
    BY <1>3, <2>3, <2>4, <2>6, <2>7, <2>8 DEF HandleArp, StateTypeOK
<1>4. CASE ArpDies
  <2>1. pc' \in [Threads -> Places]
    BY <1>4, GotoType DEF ArpDies, Places
  <2> QED
    BY <1>4, <2>1, QuietTypes DEF ArpDies, StateTypeOK, protoVars
<1>5. CASE ArpRelease
  <2>1. pc' \in [Threads -> Places]
    BY <1>5, GotoType DEF ArpRelease, Places
  <2>2. lockQ # <<>>
    BY <1>5 DEF ArpRelease, At, LockInv, Holds
  <2>3. lockQ' \in Seq({"ARP", "MAIN"})
    BY <1>5, <2>2 DEF ArpRelease, Release, StateTypeOK
  <2> QED
    BY <1>5, <2>1, <2>3, QuietTypes DEF ArpRelease, StateTypeOK
<1>6. CASE ArpFinish
  <2>1. pc' \in [Threads -> Places]
    BY <1>6, GotoType DEF ArpFinish, Places
  <2> QED
    BY <1>6, <2>1, QuietTypes DEF ArpFinish, StateTypeOK, protoVars
<1>7. CASE InCall("ARP")
  BY <1>7, InCallTypes
<1> QED
  BY <1>1, <1>2, <1>3, <1>4, <1>5, <1>6, <1>7 DEF ArpNext

(* IP, which changes nothing,                                              *)
LEMMA IpTypes ==
  ASSUME IInv, IpNext
  PROVE  TypeOK' /\ PointersMade'
<1> USE DEF IInv, TypeOK
<1>1. CASE PollIp
  <2>1. pc' \in [Threads -> Places]
    BY <1>1, GotoType DEF PollIp, Places
  <2>2. ListTypeOK' /\ PointersMade'
    BY <1>1, ListsPoll DEF PollIp, PollOwn
  <2> QED
    BY <1>1, <2>1, <2>2 DEF PollIp, StateTypeOK, protoVars
<1>2. CASE HandleIp
  <2>1. pc' \in [Threads -> Places]
    BY <1>2, GotoType DEF HandleIp, Places
  <2>2. ListTypeOK' /\ PointersMade'
    BY <1>2, ListsDiscard DEF HandleIp
  <2>3. out' \in [Ends -> Seq(Items)]
    BY <1>2, ResultIsPacket, RecordType DEF HandleIp, Ends
  <2> QED
    BY <1>2, <2>1, <2>2, <2>3 DEF HandleIp, StateTypeOK, protoVars
<1>3. CASE IpDies
  <2>1. pc' \in [Threads -> Places]
    BY <1>3, GotoType DEF IpDies, Places
  <2> QED
    BY <1>3, <2>1, QuietTypes DEF IpDies, StateTypeOK, protoVars
<1>4. CASE IpFinish
  <2>1. pc' \in [Threads -> Places]
    BY <1>4, GotoType DEF IpFinish, Places
  <2> QED
    BY <1>4, <2>1, QuietTypes DEF IpFinish, StateTypeOK, protoVars
<1>5. CASE InCall("IP")
  BY <1>5, InCallTypes
<1> QED
  BY <1>1, <1>2, <1>3, <1>4, <1>5 DEF IpNext

(* the menu, which takes any address of the type,                          *)
LEMMA UserTypes ==
  ASSUME IInv, UserNext
  PROVE  TypeOK' /\ PointersMade'
<1> USE DEF IInv, TypeOK
<1>1. CASE ChooseCheck
  <2>1. pc' \in [Threads -> Places]
    BY <1>1, GotoType DEF ChooseCheck, Places
  <2>2. lockQ' \in Seq({"ARP", "MAIN"})
    BY <1>1 DEF ChooseCheck, Acquire, StateTypeOK
  <2> QED
    BY <1>1, <2>1, <2>2, QuietTypes DEF ChooseCheck, StateTypeOK
<1>2. ASSUME NEW ip \in IPs, TypeIP(ip) PROVE TypeOK' /\ PointersMade'
  <2>1. pc' \in [Threads -> Places]
    BY <1>2, GotoType DEF TypeIP, Places
  <2> QED
    BY <1>2, <2>1, QuietTypes DEF TypeIP, StateTypeOK
<1>3. CASE Exit
  <2>1. pc' \in [Threads -> Places]
    BY <1>3, GotoType DEF Exit, Places
  <2> QED
    BY <1>3, <2>1, StopType, QuietTypes DEF Exit, StateTypeOK, protoVars
<1>4. CASE InputFails
  <2>1. pc' \in [Threads -> Places]
    BY <1>4, GotoType DEF InputFails, Places
  <2> QED
    BY <1>4, <2>1, QuietTypes DEF InputFails, StateTypeOK, protoVars
<1> QED
  BY <1>1, <1>2, <1>3, <1>4 DEF UserNext

(* and the request that Main creates.                                      *)
LEMMA MainTypes ==
  ASSUME IInv, MainNext
  PROVE  TypeOK' /\ PointersMade'
<1> USE DEF IInv, TypeOK
<1>1. CASE BeginRequest
  <2>1. pc' \in [Threads -> Places]
    BY <1>1, GotoType DEF BeginRequest, Places
  <2> QED
    BY <1>1, <2>1, QuietTypes DEF BeginRequest, StateTypeOK, protoVars
<1>2. CASE SendRequest
  <2>1. made["MAIN"] < MaxRequests /\ asked \in IPs
    BY <1>2 DEF SendRequest, At, RequestInv
  <2>2. Latest("MAIN") \in Items
    BY <2>1 DEF Latest, StateTypeOK, Origins
  <2>3. /\ made' \in [Origins -> Nat]
        /\ pkts' \in [Items -> SelfPacket \cup {NULL}]
        /\ pkts'[Latest("MAIN")] # NULL
        /\ \A x \in Items : pkts[x] # NULL => pkts'[x] # NULL
    BY <1>2, <2>1, <2>2, MakeType, PacketTypes DEF SendRequest, Origins
  <2>4. ListTypeOK' /\ PointersMade'
    BY <1>2, <2>2, <2>3, ListsSend DEF SendRequest
  <2>5. pc' \in [Threads -> Places]
    BY <1>2, GotoType DEF SendRequest, Places
  <2> QED
    BY <1>2, <2>3, <2>4, <2>5 DEF SendRequest, StateTypeOK, protoVars
<1>3. CASE EndRequest
  <2>1. pc' \in [Threads -> Places]
    BY <1>3, GotoType DEF EndRequest, Places
  <2>2. lockQ # <<>>
    BY <1>3 DEF EndRequest, At, LockInv, Holds
  <2>3. lockQ' \in Seq({"ARP", "MAIN"})
    BY <1>3, <2>2 DEF EndRequest, Release, StateTypeOK
  <2> QED
    BY <1>3, <2>1, <2>3, QuietTypes DEF EndRequest, StateTypeOK
<1>4. CASE InCall("MAIN")
  BY <1>4, InCallTypes
<1> QED
  BY <1>1, <1>2, <1>3, <1>4 DEF MainNext

(* All threads together.                                                   *)
LEMMA NextTypes ==
  ASSUME IInv, [Next]_vars
  PROVE  TypeOK' /\ PointersMade'
<1>1. CASE UNCHANGED vars
  BY <1>1, QuietTypes DEF vars, IInv, TypeOK, StateTypeOK
<1> QED
  BY <1>1, PhysicalTypes, LogicalTypes, NetworkTypes, ArpTypes, IpTypes, UserTypes, MainTypes
     DEF Next

-----------------------------------------------------------------------------
(* The semaphore of ARP and what Main found in the table                   *)

(* The layers and IP have no part in either.                               *)
LEMMA OthersKeepOut ==
  ASSUME IInv, PhysicalNext \/ LogicalNext \/ NetworkNext \/ IpNext \/ UNCHANGED vars
  PROVE  /\ pc'["MAIN"] = pc["MAIN"] /\ pc'["ARP"] = pc["ARP"]
         /\ made'["MAIN"] = made["MAIN"]
         /\ UNCHANGED <<lockQ, directions, asked>>
<1> USE DEF IInv, TypeOK, StateTypeOK, protoVars, Goto, InCall
<1>1. CASE PhysicalNext
  BY <1>1 DEF PhysicalNext, Capture, CaptureNothing, PollDown, Transmit, PhysicalFinish,
              Make, Origins
<1>2. CASE LogicalNext
  BY <1>2 DEF LogicalNext, PollLogical, HandleLogical, SkipNull, LogicalFinish
<1>3. CASE NetworkNext
  BY <1>3 DEF NetworkNext, PollNetwork, HandleNetwork, NetworkDies, NetworkFinish
<1>4. CASE IpNext
  BY <1>4 DEF IpNext, PollIp, HandleIp, IpDies, IpFinish
<1>5. CASE UNCHANGED vars
  BY <1>5 DEF vars
<1> QED
  BY <1>1, <1>2, <1>3, <1>4, <1>5

(* Appending to the queue of the semaphore keeps its head.                 *)
LEMMA AcquireKeepsHolder ==
  ASSUME StateTypeOK, NEW t \in {"ARP", "MAIN"}, NEW u \in {"ARP", "MAIN"}, Acquire(u), Holds(t)
  PROVE  Holds(t)'
BY DEF StateTypeOK, Acquire, Holds

(* Whoever enters the section of ARP is first in the queue, and stays so.  *)
LEMMA NextLock ==
  ASSUME IInv, [Next]_vars
  PROVE  LockInv'
<1> USE DEF IInv, TypeOK, StateTypeOK, LockInv, At
<1>1. CASE PhysicalNext \/ LogicalNext \/ NetworkNext \/ IpNext \/ UNCHANGED vars
  BY <1>1, OthersKeepOut DEF Holds
<1>2. CASE ArpAcquire
  BY <1>2, AcquireKeepsHolder DEF ArpAcquire, Goto
<1>3. CASE PollArp
  BY <1>3 DEF PollArp, Goto, protoVars, Holds
<1>4. CASE HandleArp
  BY <1>4 DEF HandleArp, Goto, Holds
<1>5. CASE ArpDies
  BY <1>5 DEF ArpDies, Goto, protoVars, Holds
<1>6. CASE ArpRelease
  <2>1. Holds("ARP")
    BY <1>6 DEF ArpRelease
  <2>2. ~ pc["MAIN"] \in {"ask", "request", "release"}
    BY <2>1 DEF Holds
  <2> QED
    BY <1>6, <2>2 DEF ArpRelease, Goto
<1>7. CASE ArpFinish
  BY <1>7 DEF ArpFinish, Goto, protoVars, Holds
<1>8. CASE InCall("ARP") \/ InCall("MAIN")
  BY <1>8 DEF InCall, Holds
<1>9. CASE ChooseCheck
  BY <1>9, AcquireKeepsHolder DEF ChooseCheck, Goto
<1>10. CASE BeginRequest
  BY <1>10 DEF BeginRequest, Goto, protoVars, Holds
<1>11. ASSUME NEW ip \in IPs, TypeIP(ip) PROVE LockInv'
  BY <1>11 DEF TypeIP, Goto, Holds
<1>12. CASE SendRequest
  BY <1>12 DEF SendRequest, Goto, protoVars, Holds
<1>13. CASE EndRequest
  <2>1. Holds("MAIN")
    BY <1>13 DEF EndRequest
  <2>2. ~ pc["ARP"] \in {"handle", "release", "dead"}
    BY <2>1 DEF Holds
  <2> QED
    BY <1>13, <2>2 DEF EndRequest, Goto
<1>14. CASE Exit
  BY <1>14 DEF Exit, Goto, protoVars, Holds
<1>15. CASE InputFails
  BY <1>15 DEF InputFails, Goto, protoVars, Holds
<1> QED
  BY <1>1, <1>2, <1>3, <1>4, <1>5, <1>6, <1>7, <1>8, <1>9, <1>10, <1>11, <1>12, <1>13,
     <1>14, <1>15 DEF Next, ArpNext, UserNext, MainNext

(* Two threads cannot both be first.                                       *)
LEMMA LockExcludes == LockInv => OneInSection
BY DEF LockInv, OneInSection, Holds

(* From the lookup to the request the table does not change.               *)
LEMMA NextRequest ==
  ASSUME IInv, [Next]_vars
  PROVE  RequestInv'
<1> USE DEF IInv, TypeOK, StateTypeOK, RequestInv, At
<1>1. CASE PhysicalNext \/ LogicalNext \/ NetworkNext \/ IpNext \/ UNCHANGED vars
  BY <1>1, OthersKeepOut
<1>2. CASE ArpAcquire \/ ArpRelease
  BY <1>2 DEF ArpAcquire, ArpRelease, Goto
<1>3. CASE PollArp \/ ArpDies \/ ArpFinish
  BY <1>3 DEF PollArp, ArpDies, ArpFinish, Goto, protoVars
<1>4. CASE HandleArp
  <2>1. pc["MAIN"] # "request"
    BY <1>4, LockExcludes DEF HandleArp, OneInSection
  <2>2. made' = made
    BY <1>4 DEF HandleArp, Reply, SameReferenceAsNew, Learn, Ignore
  <2> QED
    BY <1>4, <2>1, <2>2 DEF HandleArp, Goto
<1>5. CASE InCall("ARP") \/ InCall("MAIN")
  BY <1>5 DEF InCall
<1>6. CASE ChooseCheck
  BY <1>6 DEF ChooseCheck, Goto
<1>7. CASE BeginRequest
  BY <1>7 DEF BeginRequest, Goto
<1>8. ASSUME NEW ip \in IPs, TypeIP(ip) PROVE RequestInv'
  BY <1>8 DEF TypeIP, Goto
<1>9. CASE SendRequest \/ EndRequest
  BY <1>9 DEF SendRequest, EndRequest, Goto
<1>10. CASE Exit \/ InputFails
  BY <1>10 DEF Exit, InputFails, Goto
<1> QED
  BY <1>1, <1>2, <1>3, <1>4, <1>5, <1>6, <1>7, <1>8, <1>9, <1>10
     DEF Next, ArpNext, UserNext, MainNext

-----------------------------------------------------------------------------
(* The shutdown                                                            *)

(* A step of thread t inside a call leaves the other calls alone, and t is *)
(* not one that has finished.                                              *)
LEMMA InCallIsBusy ==
  ASSUME IInv, NEW t \in Threads, InCall(t)
  PROVE  ~Ready(t) /\ \A u \in Threads \ {t} : op'[u] = op[u]
<1>1. ListStep(t) /\ ListTypeOK
  BY DEF InCall, IInv, TypeOK
<1>2. \A u \in Threads \ {t} : op'[u] = op[u]
  BY <1>1 DEF ListTypeOK, ListStep, Advance, AddSetLast, AddLink, AddReadSize, AddWriteSize,
              PollUnlink, PollSetFirst, PollClearLast, PollReadSize, PollWriteSize
<1>3. ~Ready(t)
  BY <1>1 DEF Ready, ListStep, AddSetLast, AddLink, AddReadSize, AddWriteSize,
              PollUnlink, PollSetFirst, PollClearLast, PollReadSize, PollWriteSize
<1> QED
  BY <1>2, <1>3

(* A thread that begins a call leaves the calls of the others alone.       *)
LEMMA CallIsOwn ==
  ASSUME ListTypeOK, NEW t \in Threads, NEW q, NEW x,
         SendTo(t, q, x) \/ CallPoll(t, q) \/ Discard(t) \/ UNCHANGED listVars
  PROVE  \A u \in Threads \ {t} : op'[u] = op[u]
BY DEF ListTypeOK, SendTo, CallAdd, CallPoll, Discard, listVars

(* A step of thread t that neither stops it nor tells another to stop.     *)
LEMMA KeepsRunning ==
  ASSUME IInv, NEW t \in Threads, pc[t] # "done", pc'[t] # "done",
         \A u \in Threads \ {t} : pc'[u] = pc[u] /\ op'[u] = op[u],
         UNCHANGED finish
  PROVE  ShutdownInv'
BY DEF IInv, ShutdownInv, Upward, Ready

(* The order in which the threads stop.                                    *)
LEMMA NextShutdown ==
  ASSUME IInv, [Next]_vars
  PROVE  ShutdownInv'
<1> USE DEF IInv, TypeOK, StateTypeOK, At
<1>1. ASSUME NEW t \in Threads, InCall(t) PROVE ShutdownInv'
  <2>1. \A u \in Threads \ {t} : op'[u] = op[u]
    BY <1>1, InCallIsBusy
  <2>2. t \in {"L1", "L2", "L3"} => pc[t] # "done"
    BY <1>1, InCallIsBusy DEF ShutdownInv
  <2> QED
    BY <1>1, <2>1, <2>2 DEF InCall, ShutdownInv, Upward, Ready
<1>2. CASE Capture \/ CaptureNothing \/ PollDown \/ Transmit
  <2>1. \A u \in Threads \ {"L1"} : op'[u] = op[u]
    BY <1>2, CallIsOwn DEF Capture, CaptureNothing, PollDown, PollOwn, Transmit
  <2> QED
    BY <1>2, <2>1, KeepsRunning DEF Capture, CaptureNothing, PollDown, Transmit, Goto
<1>3. CASE PhysicalFinish
  BY <1>3 DEF PhysicalFinish, Stop, Goto, listVars, ShutdownInv, Upward, Ready
<1>4. CASE PollLogical \/ HandleLogical \/ SkipNull
  <2>1. \A u \in Threads \ {"L2"} : op'[u] = op[u]
    BY <1>4, CallIsOwn
       DEF PollLogical, PollOwn, HandleLogical, SendUp, SendDown, Filtered, SkipNull
  <2> QED
    BY <1>4, <2>1, KeepsRunning DEF PollLogical, HandleLogical, SkipNull, Goto
<1>5. CASE LogicalFinish
  BY <1>5 DEF LogicalFinish, Stop, Goto, listVars, ShutdownInv, Upward, Ready
<1>6. CASE PollNetwork \/ HandleNetwork \/ NetworkDies
  <2>1. \A u \in Threads \ {"L3"} : op'[u] = op[u]
    BY <1>6, CallIsOwn
       DEF PollNetwork, PollOwn, HandleNetwork, Dispatch, PassDown, NetworkDies
  <2> QED
    BY <1>6, <2>1, KeepsRunning DEF PollNetwork, HandleNetwork, NetworkDies, Goto
<1>7. CASE NetworkFinish
  BY <1>7 DEF NetworkFinish, Stop, Goto, listVars, ShutdownInv, Upward, Ready
<1>8. CASE ArpAcquire \/ PollArp \/ HandleArp \/ ArpDies \/ ArpRelease
  <2>1. \A u \in Threads \ {"ARP"} : op'[u] = op[u]
    BY <1>8, CallIsOwn
       DEF ArpAcquire, PollArp, HandleArp, Reply, Learn, Ignore, ArpDies, ArpRelease
  <2> QED
    BY <1>8, <2>1, KeepsRunning DEF ArpAcquire, PollArp, HandleArp, ArpDies, ArpRelease, Goto
<1>9. CASE ArpFinish
  BY <1>9 DEF ArpFinish, Goto, listVars, ShutdownInv, Upward, Ready
<1>10. CASE PollIp \/ HandleIp \/ IpDies
  <2>1. \A u \in Threads \ {"IP"} : op'[u] = op[u]
    BY <1>10, CallIsOwn DEF PollIp, PollOwn, HandleIp, IpDies
  <2> QED
    BY <1>10, <2>1, KeepsRunning DEF PollIp, HandleIp, IpDies, Goto
<1>11. CASE IpFinish
  BY <1>11 DEF IpFinish, Goto, listVars, ShutdownInv, Upward, Ready
<1>12. CASE ChooseCheck \/ BeginRequest \/ SendRequest \/ EndRequest \/ InputFails
            \/ \E ip \in IPs : TypeIP(ip)
  <2>1. \A u \in Threads \ {"MAIN"} : op'[u] = op[u]
    BY <1>12, CallIsOwn
       DEF ChooseCheck, BeginRequest, SendRequest, EndRequest, InputFails, TypeIP
  <2> QED
    BY <1>12, <2>1, KeepsRunning
       DEF ChooseCheck, BeginRequest, SendRequest, EndRequest, InputFails, TypeIP, Goto
<1>13. CASE Exit
  BY <1>13 DEF Exit, Stop, Goto, listVars, ShutdownInv, Upward, Ready
<1>14. CASE UNCHANGED vars
  BY <1>14 DEF vars, listVars, ShutdownInv, Upward, Ready
<1> QED
  BY <1>1, <1>2, <1>3, <1>4, <1>5, <1>6, <1>7, <1>8, <1>9, <1>10, <1>11, <1>12, <1>13, <1>14
     DEF Next, PhysicalNext, LogicalNext, NetworkNext, ArpNext, IpNext, UserNext, MainNext

-----------------------------------------------------------------------------
(* IInv is inductive.                                                      *)
THEOREM Invariance == Spec => []IInv
<1>1. IInv /\ [Next]_vars => IInv'
  BY NextTypes, NextLock, NextRequest, NextShutdown DEF IInv
<1> QED
  BY <1>1, InitInv, PTL DEF Spec

(* The types of all variables.                                             *)
THEOREM TypeCorrect == Spec => []TypeOK
<1>1. IInv => TypeOK
  BY DEF IInv
<1> QED
  BY <1>1, Invariance, PTL

(* Arp.lock: Arp.run and Arp.requestIP exclude each other, and an ARP      *)
(* thread that died inside keeps Main out for good.                        *)
THEOREM TableIsLocked == Spec => []OneInSection
<1>1. IInv => OneInSection
  BY LockExcludes DEF IInv
<1> QED
  BY <1>1, Invariance, PTL

(* Arp.requestIP: what containsKey found still holds when the request goes *)
(* out.                                                                    *)
THEOREM RequestsAreNeeded == Spec => RequestedIsUnknown
<1>1. ASSUME IInv, [Next]_vars, made'["MAIN"] # made["MAIN"]
      PROVE  directions[asked] = NULL
  <2> USE <1>1 DEF IInv, TypeOK, StateTypeOK
  <2>1. ~ (PhysicalNext \/ LogicalNext \/ NetworkNext \/ IpNext \/ UNCHANGED vars)
    BY OthersKeepOut
  <2>2. ~ ArpNext
    BY DEF ArpNext, ArpAcquire, PollArp, HandleArp, Reply, SameReferenceAsNew, Learn, Ignore,
           ArpDies, ArpRelease, ArpFinish, InCall
  <2>3. ~ UserNext
    BY DEF UserNext, ChooseCheck, TypeIP, Exit, InputFails
  <2>4. SendRequest
    BY <2>1, <2>2, <2>3 DEF Next, MainNext, BeginRequest, EndRequest, InCall
  <2> QED
    BY <2>4 DEF SendRequest, At, RequestInv
<1>2. IInv /\ [Next]_vars => [made'["MAIN"] # made["MAIN"] => directions[asked] = NULL]_vars
  BY <1>1
<1> QED
  BY <1>2, Invariance, PTL DEF Spec, RequestedIsUnknown

(* The finish flags stop the threads from the bottom up, so that no thread *)
(* that has finished is still given packets from below.                    *)
THEOREM StopsFromBelow == Spec => []NoAddToFinished
<1>1. IInv => NoAddToFinished
  BY DEF IInv, ShutdownInv, NoAddToFinished, Upward
<1> QED
  BY <1>1, Invariance, PTL

-----------------------------------------------------------------------------
(* The packets on their way through the program.                           *)
(* The first half rests on these silently; here they are cited.            *)
HIDE ListAssumption
HIDE LayerAssumption
HIDE NullIsNoPacket

(* The lists are named by their owners.                                    *)
LEMMA OwnersAreThreads == Lists \subseteq Threads
BY LayerAssumption

(* The places, when nothing has been taken or put.                         *)
LEMMA SamePlaces ==
  ASSUME OnePlace,
         \A q \in Lists : Top(q)' \in {Top(q), NULL} /\ Rest(q)' \in {Rest(q), NULL},
         \A q \in Lists, x \in Items : next'[q][x] \in {next[q][x], NULL},
         \A t \in Threads : InHand(t)' \in {InHand(t), NULL}
  PROVE  OnePlace'
BY DEF OnePlace

(* A packet that no other place had is now in the hand of t.               *)
LEMMA IntoHand ==
  ASSUME OnePlace, NEW t \in Threads, NEW x \in Items,
         \A q \in Lists : Top(q)' \in {Top(q), NULL} \ {x} /\ Rest(q)' \in {Rest(q), NULL} \ {x},
         \A q \in Lists, y \in Items : next'[q][y] \in {next[q][y], NULL} \ {x},
         InHand(t)' = x,
         \A u \in Threads \ {t} : InHand(u)' \in {InHand(u), NULL} \ {x}
  PROVE  OnePlace'
BY DEF OnePlace

(* It is now the head of r,                                                *)
LEMMA IntoTop ==
  ASSUME OnePlace, NEW r \in Lists, NEW x \in Items,
         \A q \in Lists \ {r} : Top(q)' \in {Top(q), NULL} \ {x},
         Top(r)' = x,
         \A q \in Lists : Rest(q)' \in {Rest(q), NULL} \ {x},
         \A q \in Lists, y \in Items : next'[q][y] \in {next[q][y], NULL} \ {x},
         \A u \in Threads : InHand(u)' \in {InHand(u), NULL} \ {x}
  PROVE  OnePlace'
BY DEF OnePlace

(* what the owner of r will make its head,                                 *)
LEMMA IntoRest ==
  ASSUME OnePlace, NEW r \in Lists, NEW x \in Items,
         \A q \in Lists : Top(q)' \in {Top(q), NULL} \ {x},
         \A q \in Lists \ {r} : Rest(q)' \in {Rest(q), NULL} \ {x},
         Rest(r)' = x,
         \A q \in Lists, y \in Items : next'[q][y] \in {next[q][y], NULL} \ {x},
         \A u \in Threads : InHand(u)' \in {InHand(u), NULL} \ {x}
  PROVE  OnePlace'
BY DEF OnePlace

(* or the successor of z.                                                  *)
LEMMA IntoNode ==
  ASSUME OnePlace, NEW r \in Lists, NEW z \in Items, NEW x \in Items,
         \A q \in Lists : Top(q)' \in {Top(q), NULL} \ {x} /\ Rest(q)' \in {Rest(q), NULL} \ {x},
         \A q \in Lists, y \in Items :
            q # r \/ y # z => next'[q][y] \in {next[q][y], NULL} \ {x},
         next'[r][z] = x,
         \A u \in Threads : InHand(u)' \in {InHand(u), NULL} \ {x}
  PROVE  OnePlace'
BY DEF OnePlace


(* Each access of a call moves at most one packet to another place.        *)
LEMMA ListStepPlaces ==
  ASSUME ListTypeOK, OwnersPoll, OnePlace, NEW fit, InPlace(fit),
         NEW t \in Threads, ListStep(t)
  PROVE  OwnersPoll' /\ OnePlace' /\ InPlace(fit)'
<1> DEFINE o == op[t]
<1>t. /\ o \in Call /\ op \in [Threads -> Call] /\ first \in [Lists -> Refs]
      /\ next \in [Lists -> [Items -> Refs]]
  BY DEF ListTypeOK
<1>q. o.q \in Lists /\ o.x \in Items
  BY DEF ListTypeOK, ListStep, AddSetLast, AddLink, AddReadSize, AddWriteSize,
         PollUnlink, PollSetFirst, PollClearLast, PollReadSize, PollWriteSize
<1>u. \A u \in Threads \ {t} : op'[u] = op[u]
  BY <1>t DEF ListStep, Advance, AddSetLast, AddLink, AddReadSize, AddWriteSize,
              PollUnlink, PollSetFirst, PollClearLast, PollReadSize, PollWriteSize
<1>i. \A u \in Threads \ {t} : InHand(u)' = InHand(u)
  BY <1>u DEF InHand
<1>r. \A q \in Lists \ {t} : Rest(q)' = Rest(q)
  BY <1>u, OwnersAreThreads DEF Rest
<1>s. \A q \in Lists \ {t} : first'[q] = first[q] => Top(q)' = Top(q)
  BY <1>u, OwnersAreThreads DEF Top
<1>1. ASSUME /\ UNCHANGED <<first, next>>
             /\ \/ o.at = "setLast" /\ op' = [op EXCEPT ![t].at = "link"]
                \/ o.at = "readInc" /\ op' = [op EXCEPT ![t].at = "writeInc", ![t].s = size[o.q]]
                \/ o.at = "writeInc" /\ op' = [op EXCEPT ![t] = Returned(NULL)]
                \/ o.at = "clearLast" /\ op' = [op EXCEPT ![t].at = "readDec"]
                \/ o.at = "readDec" /\ op' = [op EXCEPT ![t].at = "writeDec", ![t].s = size[o.q]]
                \/ o.at = "writeDec" /\ op' = [op EXCEPT ![t] = Returned(o.x)]
      PROVE  OwnersPoll' /\ OnePlace' /\ InPlace(fit)'
  <2>1. \/ o.at = "setLast" /\ op'[t].at = "link" /\ op'[t].x = o.x /\ op'[t].q = o.q
        \/ o.at = "readInc" /\ op'[t].at = "writeInc"
        \/ o.at = "writeInc" /\ op'[t].at = "idle" /\ op'[t].x = NULL
        \/ o.at = "clearLast" /\ op'[t].at = "readDec" /\ op'[t].x = o.x /\ op'[t].q = o.q
        \/ o.at = "readDec" /\ op'[t].at = "writeDec" /\ op'[t].x = o.x /\ op'[t].q = o.q
        \/ o.at = "writeDec" /\ op'[t].at = "idle" /\ op'[t].x = o.x
    BY <1>1, <1>t DEF Call, Returned
  <2>2. \A q \in Lists : Top(q)' = Top(q) /\ Rest(q)' = Rest(q)
    BY <1>1, <1>r, <1>s, <2>1 DEF Top, Rest
  <2>3. \A u \in Threads : InHand(u)' = InHand(u)
    BY <1>i, <2>1 DEF InHand
  <2>4. OnePlace'
    BY <1>1, <2>2, <2>3, SamePlaces
  <2>5. InPlace(fit)'
    BY <1>1, <1>u, <2>1, <2>2, <2>3 DEF InPlace, Adds, InHand
  <2>6. OwnersPoll'
    BY <1>u, <2>1 DEF OwnersPoll, Adds
  <2> QED
    BY <2>4, <2>5, <2>6
<1>2. CASE AddLink(t)
  <2>0. PICK r \in Lists : r = o.q
    BY <1>q
  <2>x. PICK x \in Items : x = o.x
    BY <1>q
  <2>1. /\ o.at = "link" /\ op'[t].at = "readInc"
        /\ InHand(t)' = NULL /\ InHand(t) = x
    BY <1>2, <1>t, <2>x DEF AddLink, Advance, Call, InHand
  <2>2. \A q \in Lists : Rest(q)' = Rest(q)
    BY <1>r, <2>1 DEF Rest
  <2>3. x \in fit[r]
    BY <2>0, <2>1, ListAssumption DEF InPlace, Adds
  <2>4. OwnersPoll'
    BY <1>u, <2>1 DEF OwnersPoll, Adds
  <2>5. CASE o.l = NULL
    <3>1. /\ \A q \in Lists \ {r} : Top(q)' = Top(q)
          /\ Top(r)' = x \/ Top(r)' = NULL
          /\ next' = next
      BY <1>2, <1>s, <1>t, <1>u, <2>0, <2>x, <2>1, <2>5 DEF AddLink, Top
    <3>2. OnePlace'
      BY <1>i, <2>1, <2>2, <3>1, IntoTop, SamePlaces, ListAssumption DEF OnePlace
    <3> QED
      BY <1>i, <1>u, <2>1, <2>2, <2>3, <2>4, <3>1, <3>2 DEF InPlace
  <2>6. CASE o.l # NULL
    <3>1. PICK y \in Items : y = o.l
      BY <1>t, <2>6 DEF Call, Refs
    <3>2. /\ \A q \in Lists : Top(q)' = Top(q)
          /\ next'[r][y] = x
          /\ \A q \in Lists, z \in Items : q # r \/ z # y => next'[q][z] = next[q][z]
      BY <1>2, <1>s, <1>t, <2>0, <2>x, <2>1, <2>6, <3>1 DEF AddLink, Top
    <3>3. OnePlace'
      BY <1>i, <2>1, <2>2, <3>2, IntoNode, ListAssumption DEF OnePlace
    <3> QED
      BY <1>i, <1>u, <2>1, <2>2, <2>3, <2>4, <3>2, <3>3 DEF InPlace
  <2> QED
    BY <2>5, <2>6
<1>3. CASE PollUnlink(t)
  <2>1. o.at = "unlink" /\ t \in Lists /\ o.q = t
    BY <1>3 DEF PollUnlink, OwnersPoll, Adds
  <2>2. /\ op'[t].at = "setFirst" /\ op'[t].x = o.x /\ op'[t].l = next[t][o.x] /\ op'[t].q = t
        /\ Rest(t)' = next[t][o.x] /\ Rest(t) = NULL
    BY <1>3, <1>t, <2>1 DEF PollUnlink, Call, Rest
  <2>3. /\ \A q \in Lists : Top(q)' = Top(q)
        /\ \A u \in Threads : InHand(u)' = InHand(u)
    BY <1>3, <1>i, <1>s, <2>1, <2>2 DEF PollUnlink, Top, InHand
  <2>4. /\ next'[t][o.x] = NULL
        /\ \A q \in Lists, y \in Items : q # t \/ y # o.x => next'[q][y] = next[q][y]
    BY <1>3, <1>q, <1>t, <2>1 DEF PollUnlink
  <2>5. OnePlace'
    <3>1. CASE next[t][o.x] = NULL
      BY <1>r, <2>1, <2>2, <2>3, <2>4, <3>1, SamePlaces
    <3>2. CASE next[t][o.x] # NULL
      <4>1. next[t][o.x] \in Items
        BY <1>q, <1>t, <2>1, <3>2 DEF Refs
      <4> QED
        BY <1>q, <1>r, <2>1, <2>2, <2>3, <2>4, <3>2, <4>1, IntoRest DEF OnePlace
    <3> QED
      BY <3>1, <3>2
  <2> QED
    BY <1>q, <1>r, <1>u, <2>1, <2>2, <2>3, <2>4, <2>5 DEF InPlace, OwnersPoll, Adds
<1>4. CASE PollSetFirst(t)
  <2>1. o.at = "setFirst" /\ t \in Lists /\ o.q = t
    BY <1>4 DEF PollSetFirst, OwnersPoll, Adds
  <2>2. /\ op'[t].at \in {"clearLast", "readDec"} /\ op'[t].x = o.x /\ op'[t].q = t
    BY <1>4, <1>t, <2>1 DEF PollSetFirst, Advance, Call
  <2>3. /\ Top(t)' = o.l /\ Rest(t) = o.l /\ Rest(t)' = NULL
        /\ \A q \in Lists \ {t} : Top(q)' = Top(q)
        /\ \A u \in Threads : InHand(u)' = InHand(u)
        /\ next' = next
    BY <1>4, <1>i, <1>s, <1>t, <2>1, <2>2 DEF PollSetFirst, Top, Rest, InHand
  <2>4. OnePlace'
    <3>1. CASE o.l = NULL
      BY <1>r, <2>1, <2>3, <3>1, SamePlaces
    <3>2. CASE o.l # NULL
      <4>1. o.l \in Items
        BY <1>t, <3>2 DEF Call, Refs
      <4> QED
        BY <1>r, <2>1, <2>3, <3>2, <4>1, IntoTop DEF OnePlace
    <3> QED
      BY <3>1, <3>2
  <2> QED
    BY <1>r, <1>u, <2>1, <2>2, <2>3, <2>4 DEF InPlace, OwnersPoll, Adds
<1> QED
  BY <1>1, <1>2, <1>3, <1>4
     DEF ListStep, Advance, AddSetLast, AddReadSize, AddWriteSize, PollClearLast,
         PollReadSize, PollWriteSize

(* No place has packet x, except perhaps the hand of t.                    *)
Alone(t, x) ==
  /\ \A q \in Lists : Top(q) # x /\ Rest(q) # x /\ \A y \in Items : next[q][y] # x
  /\ \A u \in Threads \ {t} : InHand(u) # x

(* So it is with the packet a thread has polled,                           *)
LEMMA PolledAlone ==
  ASSUME OnePlace, NEW t \in Threads, Ready(t), Result(t) # NULL
  PROVE  Alone(t, Result(t)) /\ InHand(t) = Result(t)
<1>1. InHand(t) = Result(t)
  BY DEF Ready, Result, InHand
<1> QED
  BY <1>1 DEF OnePlace, Alone

(* and with one that has not been created.                                 *)
LEMMA NewAlone ==
  ASSUME PointersMade, NEW t, NEW x \in Items, pkts[x] = NULL
  PROVE  Alone(t, x)
<1>1. x \notin Created \cup {NULL}
  BY ListAssumption DEF Created
<1> QED
  BY <1>1, OwnersAreThreads DEF PointersMade, HoldOnly, Alone, Top, Rest, InHand

(* The places when a thread begins to add a packet that was nowhere else.  *)
LEMMA AddPlaces ==
  ASSUME ListTypeOK, OwnersPoll, OnePlace, NEW fit, NEW fitNow, InPlace(fit),
         NEW t \in Threads, NEW q \in Lists, NEW x \in Items,
         Ready(t), Alone(t, x), CallAdd(t, q, x),
         \A r \in Lists : fit[r] \ {x} \subseteq fitNow[r], x \in fitNow[q]
  PROVE  OwnersPoll' /\ OnePlace' /\ InPlace(fitNow)'
<1>1. /\ op'[t].at = "setLast" /\ op'[t].q = q /\ op'[t].x = x
      /\ \A u \in Threads \ {t} : op'[u] = op[u]
      /\ first' = first /\ next' = next
  BY DEF ListTypeOK, CallAdd
<1>2. \A r \in Lists : Top(r)' = Top(r) /\ Rest(r)' = Rest(r)
  BY <1>1, OwnersAreThreads DEF Top, Rest, Ready
<1>3. InHand(t)' = x /\ \A u \in Threads \ {t} : InHand(u)' = InHand(u)
  BY <1>1 DEF InHand
<1>4. OnePlace'
  BY <1>1, <1>2, <1>3, IntoHand DEF Alone
<1>5. OwnersPoll'
  BY <1>1 DEF OwnersPoll, Adds
<1>6. \A u \in Threads : op[u].at \in {"setLast", "link"} => op[u].q \in Lists
  BY DEF ListTypeOK
<1>7. InPlace(fitNow)'
  BY <1>1, <1>2, <1>3, <1>6 DEF InPlace, Alone
<1> QED
  BY <1>4, <1>5, <1>7

(* The places when a thread begins to poll its list.                       *)
LEMMA PollPlaces ==
  ASSUME ListTypeOK, OwnersPoll, OnePlace, NEW fit, InPlace(fit),
         NEW t \in Lists, Ready(t), CallPoll(t, t)
  PROVE  OwnersPoll' /\ OnePlace' /\ InPlace(fit)'
<1>0. t \in Threads
  BY OwnersAreThreads
<1>1. /\ \A u \in Threads \ {t} : op'[u] = op[u]
      /\ first' = first /\ next' = next
  BY <1>0 DEF ListTypeOK, CallPoll
<1>2. /\ \A r \in Lists \ {t} : Top(r)' = Top(r)
      /\ \A r \in Lists \ {t} : Rest(r)' = Rest(r)
      /\ \A u \in Threads \ {t} : InHand(u)' = InHand(u)
  BY <1>1, OwnersAreThreads DEF Top, Rest, InHand
<1>3. Rest(t) = NULL /\ Top(t) = first[t]
  BY DEF Rest, Top, Ready
<1>4. CASE first[t] = NULL
  <2>1. op'[t].at = "idle" /\ op'[t].x = NULL
    BY <1>0, <1>4 DEF ListTypeOK, CallPoll, Returned
  <2>2. Top(t)' = NULL /\ Rest(t)' = NULL /\ InHand(t)' = NULL
    BY <1>1, <1>4, <2>1 DEF Top, Rest, InHand
  <2>3. OnePlace'
    BY <1>1, <1>2, <2>2, SamePlaces
  <2> QED
    BY <1>1, <1>2, <2>1, <2>2, <2>3 DEF InPlace, OwnersPoll, Adds
<1>5. CASE first[t] # NULL
  <2>1. PICK x \in Items : x = first[t]
    BY <1>5 DEF ListTypeOK, Refs
  <2>2. op'[t].at = "unlink" /\ op'[t].x = x /\ op'[t].q = t
    BY <1>0, <1>5, <2>1 DEF ListTypeOK, CallPoll
  <2>3. Top(t)' = NULL /\ Rest(t)' = NULL /\ InHand(t)' = x
    BY <2>2 DEF Top, Rest, InHand
  <2>4. OnePlace'
    BY <1>0, <1>1, <1>2, <1>3, <1>5, <2>1, <2>3, IntoHand DEF OnePlace
  <2> QED
    BY <1>1, <1>2, <1>3, <2>1, <2>2, <2>3, <2>4 DEF InPlace, OwnersPoll, Adds
<1> QED
  BY <1>4, <1>5

(* The places when a thread is through with the result of its poll.        *)
LEMMA DiscardPlaces ==
  ASSUME ListTypeOK, OwnersPoll, OnePlace, NEW fit, NEW fitNow, InPlace(fit),
         NEW t \in Threads, Ready(t), Discard(t),
         \A r \in Lists : fit[r] \ {Result(t)} \subseteq fitNow[r]
  PROVE  OwnersPoll' /\ OnePlace' /\ InPlace(fitNow)'
<1>0. PICK x : x = Result(t)
  OBVIOUS
<1>1. /\ op'[t].at = "idle" /\ op'[t].x = NULL
      /\ \A u \in Threads \ {t} : op'[u] = op[u]
      /\ first' = first /\ next' = next
  BY DEF ListTypeOK, Discard, Returned
<1>2. \A r \in Lists : Top(r)' = Top(r) /\ Rest(r)' = Rest(r)
  BY <1>1, OwnersAreThreads DEF Top, Rest, Ready
<1>3. InHand(t)' = NULL /\ \A u \in Threads \ {t} : InHand(u)' = InHand(u)
  BY <1>1 DEF InHand
<1>4. OnePlace'
  BY <1>1, <1>2, <1>3, SamePlaces
<1>5. x # NULL => Alone(t, x)
  BY <1>0, PolledAlone
<1>6. OwnersPoll'
  BY <1>1 DEF OwnersPoll, Adds
<1>7. \A u \in Threads : op[u].at \in {"setLast", "link"} => op[u].q \in Lists
  BY DEF ListTypeOK
<1>8. InPlace(fitNow)'
  BY <1>0, <1>1, <1>2, <1>3, <1>5, <1>7 DEF InPlace, Alone
<1> QED
  BY <1>4, <1>6, <1>8

-----------------------------------------------------------------------------
(* The packets                                                             *)

(* A step that changes, or brings to an end, no other packet than x.       *)
LEMMA FitsKept ==
  ASSUME NEW x, \A y \in Created \ {x} : pkts'[y] = pkts[y], Gone' \subseteq Gone \cup {x}
  PROVE  \A r \in Lists : Fits[r] \ {x} \subseteq Fits'[r]
BY DEF Fits, Rising, Falling, Created

(* What has reached an end is not changed any more.                        *)
LEMMA EndsKept ==
  ASSUME UNCHANGED out, \A y \in Gone : pkts'[y] = pkts[y]
  PROVE  /\ DeliveredIsOurs => DeliveredIsOurs'
         /\ SentIsStamped => SentIsStamped'
         /\ Gone' = Gone
<1>1. \A e \in Ends : Reached(e)' = Reached(e) /\ Reached(e) \subseteq Gone
  BY DEF Reached, Gone, Ends
<1>2. Gone' = Gone
  BY <1>1 DEF Gone, Ends
<1>3. DeliveredIsOurs => DeliveredIsOurs'
  BY <1>1 DEF DeliveredIsOurs, Ends
<1>4. SentIsStamped => SentIsStamped'
  BY <1>1 DEF SentIsStamped, Ends
<1> QED
  BY <1>2, <1>3, <1>4

(* The history after packet x has reached end e.                           *)
LEMMA ReachedAfter ==
  ASSUME StateTypeOK, NEW e \in Ends, NEW x \in Items, Record(e, x)
  PROVE  /\ Reached(e)' = Reached(e) \cup {x}
         /\ \A d \in Ends \ {e} : Reached(d)' = Reached(d)
         /\ Gone' = Gone \cup {x}
<1>1. out'[e] = Append(out[e], x) /\ out[e] \in Seq(Items)
      /\ \A d \in Ends \ {e} : out'[d] = out[d]
  BY DEF StateTypeOK, Record
<1>2. Reached(e)' = Reached(e) \cup {x}
  <2> PICK s \in Seq(Items) : s = out[e]
    BY <1>1
  <2>1. /\ DOMAIN Append(s, x) = 1 .. Len(s) + 1 /\ DOMAIN s = 1 .. Len(s) /\ Len(s) \in Nat
        /\ \A i \in 1 .. Len(s) : Append(s, x)[i] = s[i]
        /\ Append(s, x)[Len(s) + 1] = x
    OBVIOUS
  <2>2. {Append(s, x)[i] : i \in DOMAIN Append(s, x)} = {s[i] : i \in DOMAIN s} \cup {x}
    BY <2>1
  <2> QED
    BY <1>1, <2>2 DEF Reached
<1>3. \A d \in Ends \ {e} : Reached(d)' = Reached(d)
  BY <1>1 DEF Reached
<1> QED
  BY <1>2, <1>3 DEF Gone, Ends

(* The part of PathInv that is about packets alone.                        *)
Known == Gone \subseteq Created /\ \A x \in Created : x[2] <= made[x[1]]

(* Packets are only ever created.                                          *)
LEMMA KnownKept ==
  ASSUME StateTypeOK, made' \in [Origins -> Nat], Known, NEW x \in Items,
         Gone' \subseteq Gone \cup {x}, pkts[x] # NULL \/ x[2] <= made'[x[1]],
         \A y \in Items \ {x} : pkts'[y] = pkts[y], pkts'[x] # NULL,
         \A o \in Origins : made[o] <= made'[o]
  PROVE  Known'
<1>1. \A y \in Items : y[1] \in Origins /\ y[2] \in Int
  BY LayerAssumption DEF Origins
<1>2. Created' \subseteq Created \cup {x} /\ Created \cup {x} \subseteq Created'
  BY DEF Created
<1>3. \A y \in Created : y[2] <= made'[y[1]]
  <2> SUFFICES ASSUME NEW y \in Created PROVE y[2] <= made'[y[1]]
    OBVIOUS
  <2>1. y \in Items
    BY DEF Created
  <2>2. y[2] <= made[y[1]] /\ made[y[1]] <= made'[y[1]]
    BY <1>1, <2>1 DEF Known
  <2>3. made[y[1]] \in Int /\ made'[y[1]] \in Int
    BY <1>1, <2>1 DEF StateTypeOK
  <2> QED
    BY <1>1, <2>1, <2>2, <2>3
<1>4. Gone' \subseteq Created'
  BY <1>2 DEF Known
<1>5. pkts[x] # NULL => x \in Created
  BY DEF Created
<1> QED
  BY <1>2, <1>3, <1>4, <1>5 DEF Known

(* A step of t that sends packet x, and changes or creates it before.      *)
LEMMA SendKeepsPath ==
  ASSUME IInv, PathInv, made' \in [Origins -> Nat],
         NEW t \in Threads, NEW q \in Lists, NEW x \in Items,
         Ready(t), Alone(t, x), SendTo(t, q, x), UNCHANGED out,
         \A y \in Items \ {x} : pkts'[y] = pkts[y], pkts'[x] # NULL, x \in Fits'[q],
         pkts[x] # NULL \/ x[2] <= made'[x[1]],
         \A o \in Origins : made[o] <= made'[o]
  PROVE  PathInv'
<1>1. \A y \in Gone : pkts'[y] = pkts[y]
  <2>1. x \notin Gone'
    BY DEF Fits
  <2>2. Gone' = Gone /\ Gone \subseteq Items
    BY DEF Gone, Reached, IInv, TypeOK, StateTypeOK, Ends, PathInv, Created
  <2> QED
    BY <2>1, <2>2
<1>2. DeliveredIsOurs' /\ SentIsStamped' /\ Gone' = Gone
  BY <1>1, EndsKept DEF PathInv
<1>3. PICK fit : fit = Fits
  OBVIOUS
<1>4. PICK fitNow : fitNow = Fits'
  OBVIOUS
<1>5. \A r \in Lists : fit[r] \ {x} \subseteq fitNow[r]
  BY <1>2, <1>3, <1>4, FitsKept DEF Created
<1>6. OwnersPoll' /\ OnePlace' /\ InPlace(fitNow)'
  BY <1>3, <1>4, <1>5, AddPlaces DEF PathInv, IInv, TypeOK, SendTo
<1>7. InPlace(Fits)'
  BY <1>4, <1>6
<1>8. Known'
  BY <1>2, KnownKept DEF PathInv, Known, IInv, TypeOK
<1> QED
  BY <1>2, <1>6, <1>7, <1>8 DEF PathInv, Known

(* A step that moves packets and leaves them as they are.                  *)
LEMMA SamePackets ==
  ASSUME PathInv, UNCHANGED <<pkts, made, out>>,
         OwnersPoll' /\ OnePlace' /\ \A fit : fit = Fits => InPlace(fit)'
  PROVE  PathInv'
<1>1. PICK fit : fit = Fits
  OBVIOUS
<1>2. Gone' = Gone /\ Created' = Created /\ Fits' = fit
  BY <1>1 DEF Gone, Reached, Created, Fits, Rising, Falling
<1>3. InPlace(fit)'
  BY <1>1
<1>4. InPlace(Fits)'
  BY <1>2, <1>3
<1>5. DeliveredIsOurs' /\ SentIsStamped'
  BY DEF PathInv, DeliveredIsOurs, SentIsStamped, Reached
<1> QED
  BY <1>2, <1>4, <1>5 DEF PathInv

(* A thread goes on with its call,                                         *)
LEMMA InCallKeepsPath ==
  ASSUME IInv, PathInv, NEW t \in Threads, InCall(t)
  PROVE  PathInv'
<1>1. OwnersPoll' /\ OnePlace' /\ \A fit : fit = Fits => InPlace(fit)'
  BY ListStepPlaces DEF IInv, TypeOK, PathInv, InCall
<1> QED
  BY <1>1, SamePackets DEF InCall

(* begins to poll,                                                         *)
LEMMA PollKeepsPath ==
  ASSUME IInv, PathInv, NEW t \in Lists, Ready(t), CallPoll(t, t), UNCHANGED <<pkts, made, out>>
  PROVE  PathInv'
<1>1. OwnersPoll' /\ OnePlace' /\ \A fit : fit = Fits => InPlace(fit)'
  BY PollPlaces DEF IInv, TypeOK, PathInv
<1> QED
  BY <1>1, SamePackets

(* does nothing to lists and packets,                                      *)
LEMMA QuietKeepsPath ==
  ASSUME PathInv, UNCHANGED <<listVars, pkts, made, out>>
  PROVE  PathInv'
<1>1. OwnersPoll' /\ OnePlace' /\ \A fit : fit = Fits => InPlace(fit)'
  BY DEF PathInv, OwnersPoll, OnePlace, InPlace, Top, Rest, InHand, listVars
<1> QED
  BY <1>1, SamePackets

(* or is through with the packet it has polled, which it may have changed  *)
(* and which may have reached an end.                                      *)
LEMMA DropKeepsPath ==
  ASSUME IInv, PathInv, NEW t \in Threads, NEW x, x = Result(t), Ready(t), Discard(t),
         UNCHANGED made, pkts' \in [Items -> SelfPacket \cup {NULL}],
         \A y \in Items \ {x} : pkts'[y] = pkts[y], x # NULL => pkts'[x] # NULL,
         \/ UNCHANGED out
         \/ \E e \in Ends : /\ x # NULL /\ Record(e, x) /\ UNCHANGED pkts
                            /\ e \in {"ARP", "IP"} => Rising(e, x)
                            /\ e = "wire" => Falling("L1", x)
  PROVE  PathInv'
<1>0. x # NULL => x \in Items /\ x \in Created /\ x \notin Gone
  <2>1. x # NULL => x \in Created
    BY DEF IInv, PointersMade, HoldOnly, Result
  <2>2. x # NULL => \E r \in Lists : x \in Fits[r]
    BY DEF PathInv, InPlace, InHand, Result, Ready, Adds
  <2> QED
    BY <2>1, <2>2 DEF Created, Fits
<1>1. /\ Gone' \subseteq Gone \cup {x} /\ (x = NULL => Gone' = Gone)
      /\ DeliveredIsOurs' /\ SentIsStamped'
  <2>1. CASE UNCHANGED out
    <3>1. \A y \in Gone : pkts'[y] = pkts[y]
      BY <1>0, ListAssumption DEF PathInv, Created
    <3> QED
      BY <2>1, <3>1, EndsKept DEF PathInv
  <2>2. ASSUME NEW e \in Ends, x # NULL, Record(e, x), UNCHANGED pkts,
               e \in {"ARP", "IP"} => Rising(e, x),
               e = "wire" => Falling("L1", x)
        PROVE  /\ Gone' \subseteq Gone \cup {x} /\ (x = NULL => Gone' = Gone)
               /\ DeliveredIsOurs' /\ SentIsStamped'
    <3>1. /\ Reached(e)' = Reached(e) \cup {x}
          /\ \A d \in Ends \ {e} : Reached(d)' = Reached(d)
          /\ Gone' = Gone \cup {x}
      BY <1>0, <2>2, ReachedAfter DEF IInv, TypeOK
    <3>2. DeliveredIsOurs'
      BY <2>2, <3>1 DEF PathInv, DeliveredIsOurs, Rising, macAddressesFilter, Ends
    <3>3. SentIsStamped'
      <4>1. e = "wire" => /\ x[1] # "L1" /\ pkts[x].src = OwnMac /\ pkts[x].dst = Broadcast
                          /\ pkts[x].type = "ARP"
        <5>1. pkts[x] \in SelfPacket
          BY <1>0, <2>2 DEF IInv, TypeOK, StateTypeOK, Created
        <5> QED
          BY <2>2, <5>1 DEF Falling, Stamped, SelfPacket
      <4> QED
        BY <2>2, <3>1, <4>1 DEF PathInv, SentIsStamped, Ends
    <3> QED
      BY <2>2, <3>1, <3>2, <3>3
  <2> QED
    BY <2>1, <2>2
<1>2. Created' = Created
  BY <1>0, ListAssumption DEF Created
<1>3. PICK fit : fit = Fits
  OBVIOUS
<1>4. PICK fitNow : fitNow = Fits'
  OBVIOUS
<1>5. \A r \in Lists : fit[r] \ {x} \subseteq fitNow[r]
  BY <1>1, <1>3, <1>4, FitsKept DEF Created
<1>6. OwnersPoll' /\ OnePlace' /\ InPlace(fitNow)'
  BY <1>3, <1>4, <1>5, DiscardPlaces DEF PathInv, IInv, TypeOK
<1>7. InPlace(Fits)'
  BY <1>4, <1>6
<1>8. Gone' \subseteq Created' /\ \A y \in Created' : y[2] <= made'[y[1]]
  BY <1>0, <1>1, <1>2 DEF PathInv
<1> QED
  BY <1>1, <1>6, <1>7, <1>8 DEF PathInv

(* What the owner of a list has polled fits the list.                      *)
LEMMA PolledFits ==
  ASSUME IInv, PathInv, NEW t \in Lists, At(t, pc[t]), Result(t) # NULL
  PROVE  /\ Result(t) \in Items /\ Result(t) \in Fits[t] /\ Result(t) \notin Gone
         /\ pkts[Result(t)] \in SelfPacket /\ pkts[Result(t)] # NULL
         /\ Alone(t, Result(t))
<1>1. t \in Threads /\ Ready(t)
  BY OwnersAreThreads DEF At
<1>2. Result(t) \in Fits[t]
  BY <1>1 DEF PathInv, InPlace, InHand, Result, Ready, Adds
<1>3. Result(t) \in Created /\ Result(t) \notin Gone
  BY <1>2 DEF Fits
<1> QED
  BY <1>1, <1>2, <1>3, ResultIsPacket, PolledAlone DEF IInv, PathInv, Created

(* What Make creates was not there before.                                 *)
LEMMA MadeIsNew ==
  ASSUME IInv, PathInv, NEW o \in Origins, NEW p \in SelfPacket, Latest(o) \in Items, Make(o, p),
         UNCHANGED out, NEW t
  PROVE  /\ pkts[Latest(o)] = NULL /\ pkts'[Latest(o)] = p /\ Latest(o) \in Created' \ Gone'
         /\ \A y \in Items \ {Latest(o)} : pkts'[y] = pkts[y]
         /\ Latest(o)[2] <= made'[Latest(o)[1]]
         /\ made' \in [Origins -> Nat] /\ \A d \in Origins : made[d] <= made'[d]
         /\ Alone(t, Latest(o))
<1> USE DEF IInv, TypeOK, StateTypeOK
<1>1. made[o] \in Nat /\ made' = [made EXCEPT ![o] = made[o] + 1]
  BY DEF Make
<1>2. \A d \in Origins : made[d] <= made'[d] /\ made'[d] \in Nat
  BY <1>1
<1>3. Latest(o) \notin Created
  <2>1. Latest(o)[1] = o /\ Latest(o)[2] = made[o] + 1
    BY DEF Latest
  <2> QED
    BY <1>1, <2>1 DEF PathInv
<1>4. pkts' = [pkts EXCEPT ![Latest(o)] = p] /\ p # NULL
  BY NullIsNoPacket DEF Make, Latest
<1>5. Gone' = Gone
  BY DEF Gone, Reached
<1>6. Latest(o) \in Created' \ Gone'
  BY <1>3, <1>4, <1>5 DEF Created, PathInv
<1>7. Alone(t, Latest(o))
  BY <1>3, NewAlone DEF Created
<1>8. Latest(o)[2] <= made'[Latest(o)[1]]
  BY <1>1 DEF Latest
<1> QED
  BY <1>1, <1>2, <1>3, <1>4, <1>6, <1>7, <1>8 DEF Created

-----------------------------------------------------------------------------
(* The steps of each thread                                                *)

(* Layer 1 sends up only what is new and transmits only what fell to it.   *)
LEMMA PhysicalPath ==
  ASSUME IInv, PathInv, PhysicalNext
  PROVE  PathInv'
<1> USE OwnersAreThreads, LayerAssumption
<1>1. CASE Capture
  <2>1. PICK f \in Frames : Make("L1", Captured(f))
    BY <1>1 DEF Capture
  <2>0. Latest("L1") \in Items
    BY <1>1 DEF Capture, Latest, IInv, TypeOK, StateTypeOK, Origins
  <2>2. PICK x \in Items : x = Latest("L1")
    BY <2>0
  <2>3. Captured(f) \in SelfPacket
    BY PacketTypes
  <2>4. /\ pkts[x] = NULL /\ pkts'[x] = Captured(f) /\ x \in Created' \ Gone'
        /\ \A y \in Items \ {x} : pkts'[y] = pkts[y]
        /\ x[2] <= made'[x[1]]
        /\ made' \in [Origins -> Nat] /\ \A d \in Origins : made[d] <= made'[d]
        /\ Alone("L1", x)
    BY <1>1, <2>1, <2>2, <2>3, MadeIsNew DEF Capture, Origins
  <2>5. x[1] = "L1"
    BY <2>2 DEF Latest
  <2>6. Rising("L2", x)'
    BY <2>4, <2>5 DEF Rising, Captured
  <2>7. x \in Fits'["L2"]
    BY <2>4, <2>6 DEF Fits
  <2> QED
    BY <1>1, <2>2, <2>4, <2>7, SendKeepsPath DEF Capture, At, Created
<1>2. CASE CaptureNothing \/ PhysicalFinish
  BY <1>2, QuietKeepsPath DEF CaptureNothing, PhysicalFinish
<1>3. CASE PollDown
  BY <1>3, PollKeepsPath, QuietKeepsPath DEF PollDown, PollOwn, At
<1>4. CASE Transmit
  <2>1. PICK x : x = Result("L1")
    OBVIOUS
  <2>2. x # NULL => Falling("L1", x)
    BY <1>4, <2>1, PolledFits DEF Transmit, At, Fits
  <2>3. /\ Ready("L1") /\ Discard("L1") /\ UNCHANGED <<pkts, made>>
        /\ pkts' \in [Items -> SelfPacket \cup {NULL}]
        /\ x # NULL => pkts[x] # NULL
    BY <1>4, <2>1, ResultIsPacket DEF Transmit, At, IInv, TypeOK, StateTypeOK, Created
  <2>4. UNCHANGED out \/ (x # NULL /\ Record("wire", x))
    BY <1>4, <2>1 DEF Transmit
  <2> QED
    BY <2>1, <2>2, <2>3, <2>4, DropKeepsPath DEF Ends
<1>5. CASE InCall("L1")
  BY <1>5, InCallKeepsPath
<1> QED
  BY <1>1, <1>2, <1>3, <1>4, <1>5 DEF PhysicalNext

(* Layer 2 sends up what passes the filter and stamps what it sends down.  *)
LEMMA LogicalPath ==
  ASSUME IInv, PathInv, LogicalNext
  PROVE  PathInv'
<1> USE OwnersAreThreads, LayerAssumption
<1>1. CASE PollLogical
  BY <1>1, PollKeepsPath DEF PollLogical, PollOwn, At
<1>2. CASE HandleLogical
  <2>1. PICK x : x = Result("L2")
    OBVIOUS
  <2>2. /\ x \in Items /\ x \in Fits["L2"] /\ x \notin Gone
        /\ pkts[x] \in SelfPacket /\ pkts[x] # NULL /\ Alone("L2", x)
    BY <1>2, <2>1, PolledFits DEF HandleLogical, At
  <2>3. PICK p \in SelfPacket : p = pkts[x]
    BY <2>2
  <2>4. /\ UNCHANGED <<made, out>> /\ Ready("L2") /\ made' \in [Origins -> Nat]
        /\ pkts \in [Items -> SelfPacket \cup {NULL}]
        /\ \A o \in Origins : made[o] <= made'[o]
    BY <1>2 DEF HandleLogical, At, IInv, TypeOK, StateTypeOK
  <2>5. Gone' = Gone
    BY <2>4 DEF Gone, Reached
  <2>6. CASE SendUp(x)
    <3>1. /\ p.up /\ macAddressesFilter(p)
          /\ pkts' = [pkts EXCEPT ![x] = [p EXCEPT !.fakeMac = OwnMac]]
      BY <2>3, <2>6 DEF SendUp
    <3>2. PICK n \in SelfPacket : n = [p EXCEPT !.fakeMac = OwnMac]
      BY PacketTypes
    <3>3. /\ n.up = p.up /\ n.scanned = p.scanned /\ n.src = p.src /\ n.dst = p.dst
          /\ n # NULL
      BY <3>2, NullIsNoPacket DEF SelfPacket
    <3>4. pkts'[x] = n /\ \A y \in Items \ {x} : pkts'[y] = pkts[y]
      BY <2>2, <2>4, <3>1, <3>2
    <3>5. Rising("L2", x)
      BY <2>2, <2>3, <3>1 DEF Fits, Falling
    <3>6. Rising("L3", x)'
      BY <2>3, <3>1, <3>3, <3>4, <3>5 DEF Rising, macAddressesFilter
    <3>7. x \in Fits'["L3"]
      BY <2>2, <2>5, <3>3, <3>4, <3>6 DEF Fits, Created
    <3>8. SendTo("L2", "L3", x)
      BY <2>6 DEF SendUp
    <3> QED
      BY <2>2, <2>4, <3>3, <3>4, <3>7, <3>8, SendKeepsPath
  <2>7. CASE SendDown(x)
    <3>1. ~p.up /\ pkts' = [pkts EXCEPT ![x] = Stamped(p)]
      BY <2>3, <2>7 DEF SendDown
    <3>2. PICK n \in SelfPacket : n = Stamped(p)
      BY PacketTypes
    <3>3. /\ n.scanned = p.scanned /\ n.fakeType = p.fakeType /\ n = Stamped(n)
          /\ n # NULL
      BY <3>2, NullIsNoPacket DEF SelfPacket, Stamped
    <3>4. pkts'[x] = n /\ \A y \in Items \ {x} : pkts'[y] = pkts[y]
      BY <2>2, <2>4, <3>1, <3>2
    <3>5. Falling("L2", x)
      BY <2>2, <2>3, <3>1 DEF Fits, Rising
    <3>6. Falling("L1", x)'
      BY <2>3, <3>3, <3>4, <3>5 DEF Falling
    <3>7. x \in Fits'["L1"]
      BY <2>2, <2>5, <3>3, <3>4, <3>6 DEF Fits, Created
    <3>8. SendTo("L2", "L1", x)
      BY <2>7 DEF SendDown
    <3> QED
      BY <2>2, <2>4, <3>3, <3>4, <3>7, <3>8, SendKeepsPath
  <2>8. CASE Filtered(x)
    BY <2>1, <2>2, <2>4, <2>8, DropKeepsPath DEF Filtered
  <2> QED
    BY <1>2, <2>1, <2>6, <2>7, <2>8 DEF HandleLogical
<1>3. CASE SkipNull \/ LogicalFinish
  BY <1>3, QuietKeepsPath DEF SkipNull, LogicalFinish
<1>4. CASE InCall("L2")
  BY <1>4, InCallKeepsPath
<1> QED
  BY <1>1, <1>2, <1>3, <1>4 DEF LogicalNext

(* Layer 3 hands up what is new and sends down what it has scanned.        *)
LEMMA NetworkPath ==
  ASSUME IInv, PathInv, NetworkNext
  PROVE  PathInv'
<1> USE OwnersAreThreads, LayerAssumption
<1>1. CASE PollNetwork
  BY <1>1, PollKeepsPath DEF PollNetwork, PollOwn, At
<1>2. CASE HandleNetwork
  <2>1. PICK x : x = Result("L3")
    OBVIOUS
  <2>2. /\ x \in Items /\ x \in Fits["L3"] /\ x \notin Gone
        /\ pkts[x] \in SelfPacket /\ pkts[x] # NULL /\ Alone("L3", x)
    BY <1>2, <2>1, PolledFits DEF HandleNetwork, At
  <2>3. PICK p \in SelfPacket : p = pkts[x]
    BY <2>2
  <2>4. /\ UNCHANGED <<made, out>> /\ Ready("L3") /\ made' \in [Origins -> Nat]
        /\ pkts \in [Items -> SelfPacket \cup {NULL}]
        /\ \A o \in Origins : made[o] <= made'[o]
    BY <1>2 DEF HandleNetwork, At, IInv, TypeOK, StateTypeOK
  <2>5. Gone' = Gone
    BY <2>4 DEF Gone, Reached
  <2>6. CASE Dispatch(x)
    <3>1. ~p.scanned /\ pkts' = [pkts EXCEPT ![x] = [p EXCEPT !.scanned = TRUE]]
      BY <2>3, <2>6 DEF Dispatch
    <3>2. PICK n \in SelfPacket : n = [p EXCEPT !.scanned = TRUE]
      BY PacketTypes
    <3>3. n.type = p.type /\ n.src = p.src /\ n.dst = p.dst /\ n # NULL
      BY <3>2, NullIsNoPacket DEF SelfPacket
    <3>4. pkts'[x] = n /\ \A y \in Items \ {x} : pkts'[y] = pkts[y]
      BY <2>2, <2>4, <3>1, <3>2
    <3>5. CASE p.type \in {"IP", "ARP"}
      <4>1. Rising("L3", x)
        BY <2>2, <2>3, <3>1 DEF Fits, Falling
      <4>2. Rising(p.type, x)'
        BY <2>3, <3>3, <3>4, <3>5, <4>1 DEF Rising, macAddressesFilter
      <4>3. x \in Fits'[p.type]
        BY <2>2, <2>5, <3>3, <3>4, <3>5, <4>2 DEF Fits, Created
      <4>4. SendTo("L3", p.type, x)
        BY <2>3, <2>6, <3>5 DEF Dispatch
      <4> QED
        BY <2>2, <2>4, <3>3, <3>4, <3>5, <4>3, <4>4, SendKeepsPath
    <3>6. CASE p.type \notin {"IP", "ARP"}
      <4>1. Discard("L3")
        BY <2>3, <2>6, <3>6 DEF Dispatch
      <4>2. pkts' \in [Items -> SelfPacket \cup {NULL}]
        BY <2>4, <3>1, <3>2
      <4> QED
        BY <2>1, <2>2, <2>4, <3>3, <3>4, <4>1, <4>2, DropKeepsPath
    <3> QED
      BY <3>5, <3>6
  <2>7. CASE PassDown(x)
    <3>1. p.scanned /\ pkts' = [pkts EXCEPT ![x] = [p EXCEPT !.up = FALSE]]
      BY <2>3, <2>7 DEF PassDown
    <3>2. PICK n \in SelfPacket : n = [p EXCEPT !.up = FALSE]
      BY PacketTypes
    <3>3. n.scanned = p.scanned /\ n.fakeType = p.fakeType /\ n.up = FALSE /\ n # NULL
      BY <3>2, NullIsNoPacket DEF SelfPacket
    <3>4. pkts'[x] = n /\ \A y \in Items \ {x} : pkts'[y] = pkts[y]
      BY <2>2, <2>4, <3>1, <3>2
    <3>5. Falling("L3", x)
      BY <2>2, <2>3, <3>1 DEF Fits, Rising
    <3>6. Falling("L2", x)'
      BY <2>3, <3>3, <3>4, <3>5 DEF Falling
    <3>7. x \in Fits'["L2"]
      BY <2>2, <2>5, <3>3, <3>4, <3>6 DEF Fits, Created
    <3>8. SendTo("L3", "L2", x)
      BY <2>7 DEF PassDown
    <3> QED
      BY <2>2, <2>4, <3>3, <3>4, <3>7, <3>8, SendKeepsPath
  <2> QED
    BY <1>2, <2>1, <2>6, <2>7 DEF HandleNetwork
<1>3. CASE NetworkDies \/ NetworkFinish
  BY <1>3, QuietKeepsPath DEF NetworkDies, NetworkFinish
<1>4. CASE InCall("L3")
  BY <1>4, InCallKeepsPath
<1> QED
  BY <1>1, <1>2, <1>3, <1>4 DEF NetworkNext

(* ARP and IP are where the way up ends.                                   *)
LEMMA ProtocolPath ==
  ASSUME IInv, PathInv, ArpNext \/ IpNext
  PROVE  PathInv'
<1> USE OwnersAreThreads, LayerAssumption
<1>1. CASE PollArp \/ PollIp
  BY <1>1, PollKeepsPath DEF PollArp, PollIp, PollOwn, At
<1>2. ASSUME NEW t \in {"ARP", "IP"}, NEW x, x = Result(t), x # NULL, At(t, pc[t]),
             Discard(t), UNCHANGED <<pkts, made>>, Record(t, x)
      PROVE  PathInv'
  <2>1. x \in Fits[t] /\ pkts[x] # NULL
    BY <1>2, PolledFits
  <2>2. Rising(t, x)
    BY <2>1 DEF Fits
  <2>3. pkts' \in [Items -> SelfPacket \cup {NULL}]
    BY <1>2 DEF IInv, TypeOK, StateTypeOK
  <2> QED
    BY <1>2, <2>1, <2>2, <2>3, DropKeepsPath DEF At, Ends
<1>3. CASE HandleArp
  <2>1. Discard("ARP") /\ UNCHANGED <<pkts, made>>
    BY <1>3 DEF HandleArp, Reply, SameReferenceAsNew, Learn, Ignore
  <2> QED
    BY <1>2, <1>3, <2>1 DEF HandleArp, At
<1>4. CASE HandleIp
  BY <1>2, <1>4 DEF HandleIp, At
<1>5. CASE ArpAcquire \/ ArpDies \/ ArpRelease \/ ArpFinish \/ IpDies \/ IpFinish
  BY <1>5, QuietKeepsPath DEF ArpAcquire, ArpDies, ArpRelease, ArpFinish, IpDies, IpFinish
<1>6. CASE InCall("ARP") \/ InCall("IP")
  BY <1>6, InCallKeepsPath
<1> QED
  BY <1>1, <1>3, <1>4, <1>5, <1>6 DEF ArpNext, IpNext

(* Main starts the way down.                                               *)
LEMMA MainPath ==
  ASSUME IInv, PathInv, UserNext \/ MainNext
  PROVE  PathInv'
<1> USE OwnersAreThreads, LayerAssumption
<1>1. CASE SendRequest
  <2>1. made["MAIN"] < MaxRequests /\ asked \in IPs
    BY <1>1 DEF SendRequest, At, IInv, RequestInv
  <2>2. Latest("MAIN") \in Items
    BY <2>1 DEF Latest, IInv, TypeOK, StateTypeOK, Origins
  <2>3. PICK x \in Items : x = Latest("MAIN")
    BY <2>2
  <2>4. arpRequest(asked) \in SelfPacket /\ Make("MAIN", arpRequest(asked))
    BY <1>1, <2>1, PacketTypes DEF SendRequest
  <2>5. /\ pkts[x] = NULL /\ pkts'[x] = arpRequest(asked) /\ x \in Created' \ Gone'
        /\ \A y \in Items \ {x} : pkts'[y] = pkts[y]
        /\ x[2] <= made'[x[1]]
        /\ made' \in [Origins -> Nat] /\ \A d \in Origins : made[d] <= made'[d]
        /\ Alone("MAIN", x)
    BY <1>1, <2>3, <2>4, MadeIsNew DEF SendRequest, Origins
  <2>6. Falling("L3", x)'
    BY <2>3, <2>5 DEF Falling, Latest, arpRequest, Built
  <2>7. x \in Fits'["L3"]
    BY <2>5, <2>6 DEF Fits
  <2> QED
    BY <1>1, <2>3, <2>5, <2>7, SendKeepsPath DEF SendRequest, At, Created
<1>2. CASE BeginRequest \/ EndRequest \/ ChooseCheck \/ Exit \/ InputFails
           \/ \E ip \in IPs : TypeIP(ip)
  BY <1>2, QuietKeepsPath DEF BeginRequest, EndRequest, ChooseCheck, Exit, InputFails, TypeIP
<1>3. CASE InCall("MAIN")
  BY <1>3, InCallKeepsPath
<1> QED
  BY <1>1, <1>2, <1>3 DEF UserNext, MainNext

(* Before the first packet every place is empty.                           *)
LEMMA InitPath == Init => PathInv
<1> SUFFICES ASSUME Init PROVE PathInv
  OBVIOUS
<1>1. \A t \in Threads : op[t].at = "idle" /\ op[t].x = NULL
  BY DEF Init, ListInit, Returned
<1>2. /\ \A q \in Lists : Top(q) = NULL /\ Rest(q) = NULL
      /\ \A q \in Lists, x \in Items : next[q][x] = NULL
      /\ \A t \in Threads : InHand(t) = NULL
  BY <1>1, OwnersAreThreads DEF Init, ListInit, Top, Rest, InHand
<1>3. OwnersPoll /\ OnePlace /\ InPlace(Fits)
  BY <1>1, <1>2 DEF OwnersPoll, OnePlace, InPlace
<1>4. Created = {} /\ \A e \in Ends : Reached(e) = {}
  BY DEF Init, Created, Reached
<1> QED
  BY <1>3, <1>4 DEF PathInv, Gone, DeliveredIsOurs, SentIsStamped, Ends

(* All threads together.                                                   *)
LEMMA NextPath ==
  ASSUME IInv, PathInv, [Next]_vars
  PROVE  PathInv'
<1>1. CASE UNCHANGED vars
  BY <1>1, QuietKeepsPath DEF vars
<1> QED
  BY <1>1, PhysicalPath, LogicalPath, NetworkPath, ProtocolPath, MainPath DEF Next

(* PathInv is inductive.                                                   *)
THEOREM PathInvariance == Spec => []PathInv
BY InitPath, NextPath, Invariance, PTL DEF Spec

(* Logical.macAddressesFilter and Network.run: however the threads         *)
(* interleave and whatever they lose, ARP and IP get only frames of their  *)
(* type, from other hosts, to this one or to all.                          *)
THEOREM ProtocolsGetTheirs == Spec => []DeliveredIsOurs
<1>1. PathInv => DeliveredIsOurs
  BY DEF PathInv
<1> QED
  BY <1>1, PathInvariance, PTL

(* Logical.run: nothing leaves without the header it stamps, and nothing   *)
(* that was captured leaves again.                                         *)
THEOREM SentCarriesHeader == Spec => []SentIsStamped
<1>1. PathInv => SentIsStamped
  BY DEF PathInv
<1> QED
  BY <1>1, PathInvariance, PTL

-----------------------------------------------------------------------------
(* The table                                                               *)

(* No step changes the ARP message in a packet that exists.                *)
LEMMA MessageStays ==
  ASSUME IInv, PathInv, [Next]_vars, NEW y \in Created
  PROVE  /\ pkts'[y].op = pkts[y].op /\ pkts'[y].spa = pkts[y].spa
         /\ pkts'[y].sha = pkts[y].sha
<1>0. y \in Items /\ pkts[y] \in SelfPacket /\ pkts \in [Items -> SelfPacket \cup {NULL}]
  BY DEF Created, IInv, TypeOK, StateTypeOK
<1>1. CASE UNCHANGED pkts
  BY <1>1
<1>2. ASSUME NEW o \in Origins, NEW p, Make(o, p) PROVE pkts'[y] = pkts[y]
  <2>1. made[o] \in Nat
    BY DEF IInv, TypeOK, StateTypeOK
  <2>2. y # <<o, made[o] + 1>>
    BY <2>1 DEF PathInv
  <2> QED
    BY <1>0, <1>2, <2>2 DEF Make
<1>3. ASSUME NEW x, \/ pkts' = [pkts EXCEPT ![x].fakeMac = OwnMac]
                    \/ pkts' = [pkts EXCEPT ![x] = Stamped(@)]
                    \/ pkts' = [pkts EXCEPT ![x].scanned = TRUE]
                    \/ pkts' = [pkts EXCEPT ![x].up = FALSE]
      PROVE  /\ pkts'[y].op = pkts[y].op /\ pkts'[y].spa = pkts[y].spa
             /\ pkts'[y].sha = pkts[y].sha
  <2>1. PICK p \in SelfPacket : p = pkts[y]
    BY <1>0
  <2>2. CASE x # y
    BY <1>0, <1>3, <2>2
  <2>3. CASE x = y
    <3>1. pkts'[y] \in {[p EXCEPT !.fakeMac = OwnMac], Stamped(p),
                       [p EXCEPT !.scanned = TRUE], [p EXCEPT !.up = FALSE]}
      BY <1>0, <1>3, <2>1, <2>3
    <3>2. ASSUME NEW n \in {[p EXCEPT !.fakeMac = OwnMac], Stamped(p),
                            [p EXCEPT !.scanned = TRUE], [p EXCEPT !.up = FALSE]}
          PROVE  n.op = p.op /\ n.spa = p.spa /\ n.sha = p.sha
      BY DEF SelfPacket, Stamped
    <3> QED
      BY <2>1, <3>1, <3>2
  <2> QED
    BY <2>2, <2>3
<1>4. CASE PhysicalNext
  BY <1>1, <1>2, <1>4
     DEF PhysicalNext, Capture, CaptureNothing, PollDown, Transmit, PhysicalFinish, InCall, Origins
<1>5. CASE LogicalNext
  BY <1>1, <1>3, <1>5
     DEF LogicalNext, PollLogical, HandleLogical, SendUp, SendDown, Filtered, SkipNull,
         LogicalFinish, InCall
<1>6. CASE NetworkNext
  BY <1>1, <1>3, <1>6
     DEF NetworkNext, PollNetwork, HandleNetwork, Dispatch, PassDown, NetworkDies,
         NetworkFinish, InCall
<1>7. CASE ArpNext \/ IpNext
  BY <1>1, <1>7
     DEF ArpNext, ArpAcquire, PollArp, HandleArp, Reply, SameReferenceAsNew, Learn, Ignore,
         ArpDies, ArpRelease, ArpFinish, IpNext, PollIp, HandleIp, IpDies, IpFinish, InCall
<1>8. CASE UserNext \/ MainNext
  BY <1>1, <1>2, <1>8
     DEF UserNext, ChooseCheck, TypeIP, Exit, InputFails, MainNext, BeginRequest, SendRequest,
         EndRequest, InCall, Origins
<1> QED
  BY <1>1, <1>4, <1>5, <1>6, <1>7, <1>8 DEF Next, vars

(* Only HandleArp changes the table or takes a packet for ARP.             *)
LEMMA OnlyArpLearns ==
  ASSUME IInv, [Next]_vars, ~HandleArp
  PROVE  directions' = directions /\ out'["ARP"] = out["ARP"]
<1> USE DEF IInv, TypeOK, StateTypeOK, Ends, protoVars, Record
<1>1. CASE PhysicalNext \/ LogicalNext \/ NetworkNext \/ IpNext \/ UNCHANGED vars
  <2>1. out'["ARP"] = out["ARP"]
    BY <1>1 DEF PhysicalNext, Capture, CaptureNothing, PollDown, Transmit, PhysicalFinish,
                LogicalNext, PollLogical, HandleLogical, SkipNull, LogicalFinish,
                NetworkNext, PollNetwork, HandleNetwork, NetworkDies, NetworkFinish,
                IpNext, PollIp, HandleIp, IpDies, IpFinish, InCall, vars
  <2> QED
    BY <1>1, <2>1, OthersKeepOut
<1>2. CASE ArpNext
  BY <1>2 DEF ArpNext, ArpAcquire, PollArp, ArpDies, ArpRelease, ArpFinish, InCall
<1>3. CASE UserNext \/ MainNext
  BY <1>3 DEF UserNext, ChooseCheck, TypeIP, Exit, InputFails, MainNext, BeginRequest,
              SendRequest, EndRequest, InCall
<1> QED
  BY <1>1, <1>2, <1>3 DEF Next

(* The first reply for an address enters the table, the later ones do not. *)
LEMMA NextTable ==
  ASSUME IInv, PathInv, [Next]_vars, FirstReplyStays
  PROVE  FirstReplyStays'
<1>1. PICK s \in Seq(Items) : s = out["ARP"]
  BY DEF IInv, TypeOK, StateTypeOK, Ends
<1>2. Len(s) \in Nat /\ DOMAIN s = 1 .. Len(s) /\ \A i \in DOMAIN s : s[i] \in Created
  BY <1>1 DEF PathInv, Gone, Reached
<1>3. CASE ~HandleArp
  <2>1. out'["ARP"] = s /\ directions' = directions
    BY <1>1, <1>3, OnlyArpLearns
  <2>2. \A i \in DOMAIN s : /\ pkts'[s[i]].op = pkts[s[i]].op
                            /\ pkts'[s[i]].spa = pkts[s[i]].spa
                            /\ pkts'[s[i]].sha = pkts[s[i]].sha
    BY <1>2, MessageStays
  <2>3. \A ip \in IPs : Replies(ip)' = Replies(ip)
    BY <1>1, <2>1, <2>2 DEF Replies
  <2>4. \A ip \in IPs : Replies(ip) \subseteq DOMAIN s
    BY <1>1 DEF Replies
  <2> QED
    BY <1>1, <2>1, <2>2, <2>3, <2>4 DEF FirstReplyStays
<1>4. CASE HandleArp
  <2>0. /\ Result("ARP") \in Items /\ Result("ARP") \in Created
        /\ pkts[Result("ARP")] \in SelfPacket
    BY <1>4, ResultIsPacket, LayerAssumption DEF HandleArp, IInv
  <2>1. PICK x \in Items : x = Result("ARP") /\ x \in Created /\ pkts[x] \in SelfPacket
    BY <2>0
  <2>2. PICK p \in SelfPacket : p = pkts[x]
    BY <2>1
  <2>3. /\ UNCHANGED pkts
        /\ \/ p.op = "reply" /\ directions' = IF directions[p.spa] = NULL
                                  THEN [directions EXCEPT ![p.spa] = p.sha] ELSE directions
           \/ p.op # "reply" /\ directions' = directions
    BY <1>4, <2>1, <2>2 DEF HandleArp, Reply, SameReferenceAsNew, Learn, Ignore
  <2>4. out'["ARP"] = Append(s, x)
    BY <1>1, <1>4, <2>1 DEF HandleArp, Record, IInv, TypeOK, StateTypeOK, Ends
  <2>5. PICK n \in Nat : n = Len(s) + 1
    BY <1>2
  <2>6. /\ DOMAIN Append(s, x) = (DOMAIN s) \cup {n} /\ Append(s, x)[n] = x
        /\ \A i \in DOMAIN s : Append(s, x)[i] = s[i] /\ i < n /\ i \in Nat
    BY <1>2, <2>5
  <2>7. ASSUME NEW ip \in IPs
        PROVE  Replies(ip)' = Replies(ip) \cup {i \in {n} : p.op = "reply" /\ p.spa = ip}
    BY <1>1, <2>2, <2>3, <2>4, <2>6 DEF Replies
  <2>8. ASSUME NEW ip \in IPs PROVE Replies(ip) \subseteq DOMAIN s
    BY <1>1 DEF Replies
  <2>9. /\ p.spa \in IPs /\ p.sha \in MACs /\ NULL \notin MACs
        /\ directions \in [IPs -> MACs \cup {NULL}]
        /\ \A i \in DOMAIN s : pkts[s[i]].sha \in MACs
    BY <1>2, PacketTypes, LayerAssumption DEF IInv, TypeOK, StateTypeOK, Created
  <2>10. ASSUME NEW ip \in IPs
         PROVE  IF Replies(ip)' = {} THEN directions'[ip] = NULL
                ELSE \E i \in Replies(ip)' :
                       /\ \A j \in Replies(ip)' : i <= j
                       /\ directions'[ip] = pkts'[out'["ARP"][i]].sha
    <3>1. IF Replies(ip) = {} THEN directions[ip] = NULL
          ELSE \E i \in Replies(ip) : /\ \A j \in Replies(ip) : i <= j
                                      /\ directions[ip] = pkts[s[i]].sha
      BY <1>1 DEF FirstReplyStays
    <3>2. CASE p.op = "reply" /\ p.spa = ip
      <4>1. Replies(ip)' = Replies(ip) \cup {n}
        BY <2>7, <3>2
      <4>2. CASE Replies(ip) = {}
        <5>1. directions'[ip] = p.sha
          BY <2>3, <2>9, <3>1, <3>2, <4>2
        <5> QED
          BY <2>2, <2>3, <2>4, <2>6, <4>1, <4>2, <5>1
      <4>3. CASE Replies(ip) # {}
        <5>1. PICK i \in Replies(ip) : /\ \A j \in Replies(ip) : i <= j
                                       /\ directions[ip] = pkts[s[i]].sha
          BY <3>1, <4>3
        <5>2. i \in DOMAIN s
          BY <2>8
        <5>3. directions'[ip] = directions[ip]
          BY <2>3, <2>9, <3>2, <5>1, <5>2
        <5> QED
          BY <2>3, <2>4, <2>6, <4>1, <5>1, <5>2, <5>3
      <4> QED
        BY <4>2, <4>3
    <3>3. CASE ~(p.op = "reply" /\ p.spa = ip)
      <4>1. Replies(ip)' = Replies(ip)
        BY <2>7, <3>3
      <4>2. directions'[ip] = directions[ip]
        BY <2>3, <2>9, <3>3
      <4> QED
        BY <2>3, <2>4, <2>6, <2>8, <3>1, <4>1, <4>2
    <3> QED
      BY <3>2, <3>3
  <2> QED
    BY <2>10 DEF FirstReplyStays
<1> QED
  BY <1>3, <1>4

(* Arp.run: the table holds the first answer ARP has taken for each        *)
(* address, and nothing else.                                              *)
THEOREM TableKeepsFirst == Spec => []FirstReplyStays
<1>1. Init => FirstReplyStays
  BY DEF Init, FirstReplyStays, Replies, Ends
<1> QED
  BY <1>1, NextTable, Invariance, PathInvariance, PTL DEF Spec

-----------------------------------------------------------------------------
(* So it is on every list where no two calls have overlapped.              *)
CountInv ==
  /\ \A t \in Threads : op[t].at = "idle" => op[t].q = NULL
  /\ \A q \in Lists : ~Raced(q) =>
       /\ \A t, u \in Users(q) : t = u
       /\ \E s \in [Nat -> Refs], a \in Nat, b \in Nat : a <= b /\ Counted(q, s, a, b)

(* A step of t on list q, for the other lists.                             *)
LEMMA OtherLists ==
  ASSUME CountInv, NEW t \in Threads, NEW q,
         \A u \in Threads \ {t} : op'[u] = op[u],
         op[t].q \in {q, NULL}, op'[t].q \in {q, NULL},
         op'[t].at = "idle" => op'[t].q = NULL,
         \A r \in Lists \ {q} : /\ first'[r] = first[r] /\ last'[r] = last[r]
                                /\ next'[r] = next[r] /\ size'[r] = size[r],
         raced \subseteq raced',
         q \in Lists /\ ~Raced(q)' =>
            /\ \A u, v \in Users(q)' : u = v
            /\ \E s \in [Nat -> Refs], a \in Nat, b \in Nat : a <= b /\ Counted(q, s, a, b)'
  PROVE  CountInv'
<1>1. ASSUME NEW r \in Lists \ {q}, ~Raced(r)'
      PROVE  /\ \A u, v \in Users(r)' : u = v
             /\ \E s \in [Nat -> Refs], a \in Nat, b \in Nat : a <= b /\ Counted(r, s, a, b)'
  <2>1. ~Raced(r)
    BY <1>1 DEF Raced
  <2>2. Users(r)' = Users(r) /\ t \notin Users(r)
    BY ListAssumption DEF Users
  <2>3. PICK s \in [Nat -> Refs], a \in Nat, b \in Nat : a <= b /\ Counted(r, s, a, b)
    BY <2>1 DEF CountInv
  <2>4. \A u \in Users(r) : op'[u] = op[u]
    BY <2>2 DEF Users
  <2>5. Counted(r, s, a, b)'
    BY <2>2, <2>3, <2>4 DEF Counted
  <2> QED
    BY <2>1, <2>2, <2>3, <2>5 DEF CountInv
<1>2. \A u \in Threads : op'[u].at = "idle" => op'[u].q = NULL
  BY DEF CountInv
<1> QED
  BY <1>1, <1>2 DEF CountInv

(* A call that begins: it finds the list in order or marks it as raced.    *)
LEMMA BeginCounted ==
  ASSUME ListTypeOK, CountInv, NEW t \in Threads, NEW q \in Lists, NEW x,
         Ready(t), CallAdd(t, q, x) \/ CallPoll(t, q)
  PROVE  CountInv'
<1>1. /\ UNCHANGED <<first, last, next, size>>
      /\ \A u \in Threads \ {t} : op'[u] = op[u]
      /\ op[t].q = NULL /\ op[t].at = "idle"
  BY DEF ListTypeOK, CallAdd, CallPoll, CountInv, Ready
<1>2. /\ raced \subseteq raced'
      /\ ~Raced(q)' => Users(q) = {} /\ ~Raced(q)
  BY BeginRaces
<1>3. \/ op'[t].at = "setLast" /\ op'[t].q = q /\ op'[t].l = last[q]
      \/ op'[t].at = "unlink" /\ op'[t].q = q /\ op'[t].x = first[q] /\ first[q] # NULL
      \/ op'[t].at = "idle" /\ op'[t].q = NULL
  BY DEF ListTypeOK, CallAdd, CallPoll, Returned
<1>4. ASSUME ~Raced(q)'
      PROVE  /\ \A u, v \in Users(q)' : u = v
             /\ \E s \in [Nat -> Refs], a \in Nat, b \in Nat : a <= b /\ Counted(q, s, a, b)'
  <2>1. Users(q) = {} /\ ~Raced(q)
    BY <1>2, <1>4
  <2>2. Users(q)' \subseteq {t}
    BY <1>1, <2>1 DEF Users
  <2>3. PICK s \in [Nat -> Refs], a \in Nat, b \in Nat : a <= b /\ Counted(q, s, a, b)
    BY <2>1 DEF CountInv
  <2>4. Counted(q, s, a, b)'
    BY <2>1, <2>3, BeginCounts
  <2> QED
    BY <2>2, <2>3, <2>4
<1>5. op'[t].q \in {q, NULL} /\ (op'[t].at = "idle" => op'[t].q = NULL)
  BY <1>3
<1> QED
  BY <1>1, <1>2, <1>4, <1>5, OtherLists

(* Each access of a call that has the list for itself.                     *)
LEMMA StepCounted ==
  ASSUME ListTypeOK, OwnersPoll, OnePlace, CountInv, NEW t \in Threads, ListStep(t)
  PROVE  CountInv'
<1>t. op[t] \in Call /\ op \in [Threads -> Call] /\ op[t].q \in Lists /\ op[t].x \in Items
  BY DEF ListTypeOK, ListStep, AddSetLast, AddLink, AddReadSize, AddWriteSize,
         PollUnlink, PollSetFirst, PollClearLast, PollReadSize, PollWriteSize
<1>u. \A u \in Threads \ {t} : op'[u] = op[u]
  BY <1>t DEF ListStep, Advance, AddSetLast, AddLink, AddReadSize, AddWriteSize,
              PollUnlink, PollSetFirst, PollClearLast, PollReadSize, PollWriteSize
<1>q. PICK q \in Lists : q = op[t].q
  BY <1>t
<1>r. raced' = raced
  BY DEF ListStep, AddSetLast, AddLink, AddReadSize, AddWriteSize,
         PollUnlink, PollSetFirst, PollClearLast, PollReadSize, PollWriteSize
<1>o. \A r \in Lists \ {q} : /\ first'[r] = first[r] /\ last'[r] = last[r]
                             /\ next'[r] = next[r] /\ size'[r] = size[r]
  BY <1>q DEF ListTypeOK, ListStep, AddSetLast, AddLink, AddReadSize, AddWriteSize,
              PollUnlink, PollSetFirst, PollClearLast, PollReadSize, PollWriteSize
<1>c. \/ op'[t].at # "idle" /\ op'[t].q = q
      \/ op'[t].at = "idle" /\ op'[t].q = NULL
  BY <1>t, <1>q DEF ListStep, Advance, AddSetLast, AddLink, AddReadSize, AddWriteSize,
         PollUnlink, PollSetFirst, PollClearLast, PollReadSize, PollWriteSize, Returned, Call
<1>1. ASSUME ~Raced(q)'
      PROVE  /\ \A u, v \in Users(q)' : u = v
             /\ \E s \in [Nat -> Refs], a \in Nat, b \in Nat : a <= b /\ Counted(q, s, a, b)'
  <2>1. ~Raced(q)
    BY <1>1, <1>r DEF Raced
  <2>2. Users(q) = {t}
    BY <1>q, <2>1 DEF CountInv, Users
  <2>3. \A u, v \in Users(q)' : u = v
    BY <1>u, <2>2 DEF Users
  <2>4. PICK s \in [Nat -> Refs], a \in Nat, b \in Nat : a <= b /\ Counted(q, s, a, b)
    BY <2>1 DEF CountInv
  <2>5. ASSUME op[t].at = "link"
        PROVE  \A i \in a .. b - 1 : s[i] # op[t].x
    <3>1. Top(q) = first[q] /\ InHand(t) = op[t].x
      <4>1. op[q].at \in {"unlink", "setFirst"} => q \in Users(q)
        BY OwnersAreThreads DEF OwnersPoll, Users, Adds
      <4> QED
        BY <2>2, <2>5, <4>1 DEF Top, InHand
    <3>2. first[q] # op[t].x /\ \A y \in Items : next[q][y] # op[t].x
      BY <1>t, <3>1, ListAssumption DEF OnePlace
    <3>3. Holding(s, a, b, first[q], op[t].l, next[q])
      BY <2>2, <2>4, <2>5 DEF Counted
    <3>4. PICK f, l, n, x : f = first[q] /\ l = op[t].l /\ n = next[q] /\ x = op[t].x
      OBVIOUS
    <3>5. Holding(s, a, b, f, l, n) /\ f # x /\ \A y \in Items : n[y] # x
      BY <3>2, <3>3, <3>4, Zenon
    <3>6. \A i \in a .. b - 1 : s[i] = f \/ \E y \in Items : s[i] = n[y]
      BY <3>5, SpanIsReferred
    <3> QED
      BY <3>4, <3>5, <3>6, Zenon
  <2> QED
    BY <1>q, <2>2, <2>3, <2>4, <2>5, StepCounts
<1> QED
  BY <1>q, <1>u, <1>r, <1>o, <1>c, <1>1, OtherLists

(* A thread between two calls drops the packet it had, or leaves the lists *)
(* alone.                                                                  *)
LEMMA IdleCounted ==
  ASSUME ListTypeOK, CountInv, NEW t \in Threads, Ready(t), Discard(t) \/ UNCHANGED listVars
  PROVE  CountInv'
<1>1. /\ UNCHANGED <<first, last, next, size, raced>>
      /\ \A u \in Threads \ {t} : op'[u] = op[u]
      /\ op[t].q = NULL
  BY DEF ListTypeOK, Discard, listVars, CountInv, Ready
<1>2. op'[t].at = "idle" /\ op'[t].q = NULL
  BY DEF ListTypeOK, Discard, listVars, CountInv, Ready, Returned
<1>3. raced \subseteq raced' /\ NULL \notin Lists
  BY <1>1, ListAssumption
<1>4. \A r \in Lists \ {NULL} : /\ first'[r] = first[r] /\ last'[r] = last[r]
                                 /\ next'[r] = next[r] /\ size'[r] = size[r]
  BY <1>1
<1>5. op[t].q \in {NULL, NULL} /\ op'[t].q \in {NULL, NULL}
  BY <1>1, <1>2
<1> QED
  BY <1>1, <1>2, <1>3, <1>4, <1>5, OtherLists

(* Lists that have been created are empty.                                 *)
LEMMA InitCount == Init => CountInv
<1> SUFFICES ASSUME Init PROVE CountInv
  OBVIOUS
<1>1. \A t \in Threads : op[t].at = "idle" /\ op[t].q = NULL
  BY DEF Init, ListInit, Returned
<1>2. PICK s \in [Nat -> Refs] : s = [i \in Nat |-> NULL]
  BY DEF Refs
<1>3. ASSUME NEW q \in Lists
      PROVE  Users(q) = {} /\ Counted(q, s, 0, 0)
  <2>1. Users(q) = {}
    BY <1>1, ListAssumption DEF Users
  <2>2. /\ first[q] = NULL /\ last[q] = NULL /\ size[q] = 0
        /\ \A y \in Items : next[q][y] = NULL
    BY DEF Init, ListInit
  <2> QED
    BY <2>1, <2>2 DEF Counted, Holding
<1> QED
  BY <1>1, <1>3 DEF CountInv

(* Each step is one access of a call, the begin or the end of one, or none *)
(* of these.                                                               *)
Touches(t) ==
  \/ ListStep(t)
  \/ /\ Ready(t)
     /\ \/ \E q \in Lists, x \in Items : CallAdd(t, q, x)
        \/ t \in Lists /\ CallPoll(t, t)
        \/ Discard(t)
        \/ UNCHANGED listVars

(* Whichever it is, the invariant holds after it.                          *)
LEMMA TouchesCounted ==
  ASSUME ListTypeOK, OwnersPoll, OnePlace, CountInv, NEW t \in Threads, Touches(t)
  PROVE  CountInv'
<1>1. ASSUME Ready(t), NEW q \in Lists, NEW x \in Items, CallAdd(t, q, x)
      PROVE  CountInv'
  BY <1>1, BeginCounted
<1>2. ASSUME Ready(t), t \in Lists, CallPoll(t, t)
      PROVE  CountInv'
  BY <1>2, BeginCounted
<1>3. CASE Ready(t) /\ (Discard(t) \/ UNCHANGED listVars)
  BY <1>3, IdleCounted
<1>4. CASE ListStep(t)
  BY <1>4, StepCounted
<1> QED
  BY <1>1, <1>2, <1>3, <1>4 DEF Touches

(* The steps of t, and of those that can die the actions.                  *)
Moves(t) ==
  /\ Touches(t) /\ \A u \in Threads \ {t} : pc'[u] = pc[u]
  /\ t = "L3" => NetworkNext
  /\ t = "ARP" => ArpNext
  /\ t = "IP" => IpNext

(* Each action of Next is a step of one thread.                            *)
LEMMA EachMoves ==
  ASSUME IInv, Next
  PROVE  \E t \in Threads : Moves(t)
<1> USE OwnersAreThreads, LayerAssumption DEF Moves
<1>g. ASSUME NEW t \in Threads, NEW p, Goto(t, p)
      PROVE  \A u \in Threads \ {t} : pc'[u] = pc[u]
  BY <1>g DEF Goto, IInv, TypeOK, StateTypeOK
<1>r. ASSUME NEW t \in Threads, Result(t) # NULL
      PROVE  Result(t) \in Items
  BY <1>r, ResultIsPacket DEF IInv
<1>c. ASSUME NEW t \in Threads, InCall(t)
      PROVE  Touches(t) /\ \A u \in Threads \ {t} : pc'[u] = pc[u]
  BY <1>c DEF InCall, Touches
<1>1. CASE PhysicalNext
  <2>1. ASSUME Capture
        PROVE  Latest("L1") \in Items
    BY <2>1 DEF Capture, Latest, IInv, TypeOK, StateTypeOK, Origins
  <2>2. CASE Capture
    <3>1. PICK x \in Items : x = Latest("L1")
      BY <2>1, <2>2
    <3> QED
      BY <1>g, <2>2, <3>1 DEF Capture, SendTo, Touches, At
  <2>3. CASE CaptureNothing \/ PhysicalFinish
    BY <1>g, <2>3 DEF CaptureNothing, PhysicalFinish, Touches, At
  <2>4. CASE PollDown
    BY <1>g, <2>4 DEF PollDown, PollOwn, Touches, At
  <2>5. CASE Transmit
    BY <1>g, <2>5 DEF Transmit, Touches, At
  <2> QED
    BY <1>1, <1>c, <2>2, <2>3, <2>4, <2>5 DEF PhysicalNext
<1>2. CASE LogicalNext
  <2>1. CASE PollLogical
    BY <1>g, <2>1 DEF PollLogical, PollOwn, Touches, At
  <2>2. CASE HandleLogical
    <3>1. PICK x \in Items : x = Result("L2")
      BY <1>r, <2>2 DEF HandleLogical
    <3> QED
      BY <1>g, <2>2, <3>1 DEF HandleLogical, SendUp, SendDown, Filtered, SendTo, Touches, At
  <2>3. CASE SkipNull \/ LogicalFinish
    BY <1>g, <2>3 DEF SkipNull, LogicalFinish, Touches, At
  <2> QED
    BY <1>2, <1>c, <2>1, <2>2, <2>3 DEF LogicalNext
<1>3. CASE NetworkNext
  <2>1. CASE PollNetwork
    BY <1>3, <1>g, <2>1 DEF PollNetwork, PollOwn, Touches, At
  <2>2. CASE HandleNetwork
    <3>1. PICK x \in Items : x = Result("L3")
      BY <1>r, <2>2 DEF HandleNetwork
    <3>2. (\E q \in Lists : CallAdd("L3", q, x)) \/ Discard("L3")
      BY <2>2, <3>1 DEF HandleNetwork, Dispatch, PassDown, SendTo
    <3> QED
      BY <1>3, <1>g, <2>2, <3>1, <3>2 DEF HandleNetwork, Touches, At
  <2>3. CASE NetworkDies \/ NetworkFinish
    BY <1>3, <1>g, <2>3 DEF NetworkDies, NetworkFinish, Touches, At
  <2> QED
    BY <1>3, <1>c, <2>1, <2>2, <2>3 DEF NetworkNext
<1>4. CASE ArpNext
  <2>1. CASE PollArp
    BY <1>4, <1>g, <2>1 DEF PollArp, Touches, At
  <2>2. CASE HandleArp
    <3>1. Discard("ARP")
      BY <2>2 DEF HandleArp, Reply, SameReferenceAsNew, Learn, Ignore
    <3> QED
      BY <1>4, <1>g, <2>2, <3>1 DEF HandleArp, Touches, At
  <2>3. CASE ArpAcquire \/ ArpDies \/ ArpRelease \/ ArpFinish
    BY <1>4, <1>g, <2>3 DEF ArpAcquire, ArpDies, ArpRelease, ArpFinish, Touches, At
  <2> QED
    BY <1>4, <1>c, <2>1, <2>2, <2>3 DEF ArpNext
<1>5. CASE IpNext
  <2>1. CASE PollIp
    BY <1>5, <1>g, <2>1 DEF PollIp, PollOwn, Touches, At
  <2>2. CASE HandleIp
    BY <1>5, <1>g, <2>2 DEF HandleIp, Touches, At
  <2>3. CASE IpDies \/ IpFinish
    BY <1>5, <1>g, <2>3 DEF IpDies, IpFinish, Touches, At
  <2> QED
    BY <1>5, <1>c, <2>1, <2>2, <2>3 DEF IpNext
<1>6. CASE UserNext \/ MainNext
  <2>1. CASE SendRequest
    <3>1. made["MAIN"] < MaxRequests
      BY <2>1 DEF SendRequest, At, IInv, RequestInv
    <3>2. Latest("MAIN") \in Items
      BY <3>1 DEF Latest, IInv, TypeOK, StateTypeOK, Origins
    <3>3. PICK x \in Items : x = Latest("MAIN")
      BY <3>2
    <3> QED
      BY <1>g, <2>1, <3>3 DEF SendRequest, SendTo, Touches, At
  <2>2. CASE BeginRequest \/ EndRequest \/ ChooseCheck \/ Exit \/ InputFails
    BY <1>g, <2>2 DEF BeginRequest, EndRequest, ChooseCheck, Exit, InputFails, Touches, At
  <2>3. ASSUME NEW ip \in IPs, TypeIP(ip)
        PROVE  Touches("MAIN") /\ \A u \in Threads \ {"MAIN"} : pc'[u] = pc[u]
    BY <1>g, <2>3 DEF TypeIP, Touches, At
  <2> QED
    BY <1>6, <1>c, <2>1, <2>2, <2>3 DEF UserNext, MainNext
<1> QED
  BY <1>1, <1>2, <1>3, <1>4, <1>5, <1>6 DEF Next

(* All threads together.                                                   *)
LEMMA NextCount ==
  ASSUME IInv, PathInv, CountInv, [Next]_vars
  PROVE  CountInv'
<1>1. ListTypeOK /\ OwnersPoll /\ OnePlace
  BY DEF IInv, TypeOK, PathInv
<1>2. CASE Next
  BY <1>1, <1>2, EachMoves, TouchesCounted DEF Moves
<1>3. CASE UNCHANGED vars
  <2>1. UNCHANGED listVars
    BY <1>3 DEF vars
  <2>2. \A q \in Lists : Raced(q)' = Raced(q) /\ Users(q)' = Users(q)
    BY <2>1 DEF listVars, Raced, Users
  <2>3. ASSUME NEW q \in Lists, NEW s, NEW a, NEW b, Counted(q, s, a, b)
        PROVE  Counted(q, s, a, b)'
    BY <2>1, <2>2, <2>3 DEF listVars, Counted
  <2>4. ASSUME NEW q \in Lists, ~Raced(q)'
        PROVE  /\ \A u, v \in Users(q)' : u = v
               /\ \E s \in [Nat -> Refs], a \in Nat, b \in Nat :
                     a <= b /\ Counted(q, s, a, b)'
    BY <2>2, <2>3, <2>4 DEF CountInv
  <2>5. \A t \in Threads : op'[t].at = "idle" => op'[t].q = NULL
    BY <2>1 DEF listVars, CountInv
  <2> QED
    BY <2>4, <2>5 DEF CountInv
<1> QED
  BY <1>2, <1>3

(* CountInv is inductive: with one call at a time, a list holds what its   *)
(* size says.                                                              *)
THEOREM CountInvariance == Spec => []CountInv
BY InitCount, NextCount, PathInvariance, Invariance, PTL DEF Spec

-----------------------------------------------------------------------------
(* Who dies of a null                                                      *)

(* The threads whose run would call a method of the null.                  *)
Mortal == {"L3", "ARP", "IP"}

(* While nothing has overlapped on its list, a thread that has found it    *)
(* not empty gets a packet.                                                *)
Alive(t) ==
  ~Raced(t) =>
    /\ pc[t] # "dead"
    /\ pc[t] = "handle" => op[t].at \notin Adds /\ (Ready(t) => Result(t) # NULL)
    /\ t = "ARP" /\ pc[t] = "acquire" => Ready(t) /\ size[t] # 0

(* What the others do does not empty its list.                             *)
LEMMA OthersKeepAlive ==
  ASSUME IInv, PathInv, CountInv, NEW u \in Threads, NEW t \in Mortal \ {u}, Alive(t),
         Moves(u)
  PROVE  Alive(t)'
<1> USE OwnersAreThreads, LayerAssumption DEF Mortal, Moves
<1>1. t \in Threads /\ t \in Lists /\ t # u
  OBVIOUS
<1>2. raced \subseteq raced'
  BY DEF Touches, ListStep, CallAdd, CallPoll, Discard, Overlap, listVars, AddSetLast, AddLink,
         AddReadSize, AddWriteSize, PollUnlink, PollSetFirst, PollClearLast, PollReadSize,
         PollWriteSize
<1>3. op'[t] = op[t] /\ pc'[t] = pc[t]
  BY <1>1 DEF IInv, TypeOK, ListTypeOK,
         Touches, ListStep, CallAdd, CallPoll, Discard, listVars, Advance, AddSetLast, AddLink,
         AddReadSize, AddWriteSize, PollUnlink, PollSetFirst, PollClearLast, PollReadSize,
         PollWriteSize
<1>4. ASSUME ~Raced(t), size[t] # 0, size'[t] = 0
      PROVE  FALSE
  <2>1. AddWriteSize(u) \/ PollWriteSize(u)
    BY <1>4 DEF Touches, ListStep, CallAdd, CallPoll, Discard, listVars, AddSetLast, AddLink,
         AddReadSize, PollUnlink, PollSetFirst, PollClearLast, PollReadSize
  <2>2. op[u].q = t
    BY <1>1, <1>4, <2>1 DEF AddWriteSize, PollWriteSize, IInv, TypeOK, ListTypeOK
  <2>3. AddWriteSize(u)
    BY <1>1, <2>1, <2>2 DEF PathInv, OwnersPoll, PollWriteSize, Adds
  <2>4. u \in Users(t)
    BY <2>2 DEF Users
  <2>5. PICK s \in [Nat -> Refs], a \in Nat, b \in Nat : a <= b /\ Counted(t, s, a, b)
    BY <1>1, <1>4 DEF CountInv
  <2>6. size[t] = b - a - 1 /\ a < b /\ op[u].s = size[t]
    BY <2>3, <2>4, <2>5 DEF Counted, AddWriteSize
  <2>7. size'[t] = op[u].s + 1
    BY <1>1, <2>2, <2>3 DEF AddWriteSize, IInv, TypeOK, ListTypeOK
  <2> QED
    BY <1>4, <2>6, <2>7
<1> QED
  BY <1>2, <1>3, <1>4 DEF Alive, Raced, Ready, Result

(* poll gets a packet from a list that isEmpty has called not empty.       *)
LEMMA PollGetsPacket ==
  ASSUME ListTypeOK, CountInv, NEW t \in Mortal, Ready(t), size[t] # 0, CallPoll(t, t),
         ~Raced(t)'
  PROVE  op'[t].at = "unlink" /\ ~Raced(t)
<1> USE OwnersAreThreads, LayerAssumption DEF Mortal
<1>1. Users(t) = {} /\ ~Raced(t)
  BY BeginRaces
<1>2. PICK s \in [Nat -> Refs], a \in Nat, b \in Nat : a <= b /\ Counted(t, s, a, b)
  BY <1>1 DEF CountInv
<1>3. Holding(s, a, b, first[t], last[t], next[t]) /\ size[t] = b - a
  BY <1>1, <1>2 DEF Counted
<1>4. first[t] = s[a] /\ s[a] \in Items
  BY <1>2, <1>3 DEF Holding
<1> QED
  BY <1>1, <1>4, ListAssumption DEF CallPoll, ListTypeOK

(* A call of its own ends with the packet it has begun with.               *)
LEMMA CallKeepsAlive ==
  ASSUME ListTypeOK, NEW t \in Mortal, Alive(t), InCall(t)
  PROVE  Alive(t)'
<1> USE OwnersAreThreads, LayerAssumption DEF Mortal
<1>1. t \in Threads /\ ~Ready(t) /\ op[t].x \in Items /\ op[t] \in Call
  BY DEF ListTypeOK, InCall, ListStep, Ready, AddSetLast, AddLink, AddReadSize, AddWriteSize,
         PollUnlink, PollSetFirst, PollClearLast, PollReadSize, PollWriteSize
<1>2. pc' = pc /\ raced' = raced
  BY DEF InCall, ListStep, AddSetLast, AddLink, AddReadSize, AddWriteSize,
         PollUnlink, PollSetFirst, PollClearLast, PollReadSize, PollWriteSize
<1>3. ASSUME op[t].at \notin Adds
      PROVE  op'[t].at \notin Adds /\ (Ready(t)' => Result(t)' # NULL)
  BY <1>1, <1>3, ListAssumption
     DEF ListTypeOK, Adds, InCall, ListStep, Ready, Result, Returned, Advance, Call, AddSetLast,
         AddLink, AddReadSize, AddWriteSize,
         PollUnlink, PollSetFirst, PollClearLast, PollReadSize, PollWriteSize
<1> QED
  BY <1>1, <1>2, <1>3 DEF Alive, Raced

(* The thread itself: it handles only what it has polled.                  *)
LEMMA OwnKeepsAlive ==
  ASSUME IInv, CountInv, NEW t \in Mortal, Alive(t), Moves(t)
  PROVE  Alive(t)'
<1> USE OwnersAreThreads, LayerAssumption DEF Mortal, Moves
<1>g. ASSUME NEW u \in Threads, NEW p, Goto(u, p)
      PROVE  pc'[u] = p
  BY <1>g DEF Goto, IInv, TypeOK, StateTypeOK
<1>l. ListTypeOK
  BY DEF IInv, TypeOK
<1>c. CASE InCall(t)
  BY <1>c, <1>l, CallKeepsAlive
<1>r. ASSUME ~Raced(t)', UNCHANGED raced
      PROVE  ~Raced(t)
  BY <1>r DEF Raced
<1>p. ASSUME Ready(t), ~isEmpty(t), CallPoll(t, t), pc'[t] = "handle"
      PROVE  Alive(t)'
  BY <1>p, <1>l, PollGetsPacket DEF isEmpty, Alive, Adds, Ready
<1>1. CASE t = "L3"
  <2>1. CASE PollNetwork
    BY <1>1, <1>g, <1>p, <2>1 DEF PollNetwork, PollOwn, At
  <2>2. CASE HandleNetwork \/ NetworkFinish
    BY <1>1, <1>g, <2>2 DEF HandleNetwork, NetworkFinish, Alive
  <2>3. CASE NetworkDies
    BY <1>1, <1>r, <2>3 DEF NetworkDies, listVars, At, Alive
  <2> QED
    BY <1>1, <1>c, <2>1, <2>2, <2>3 DEF NetworkNext
<1>2. CASE t = "ARP"
  <2>1. CASE ArpAcquire
    BY <1>2, <1>g, <2>1 DEF ArpAcquire, At, isEmpty, listVars, Alive, Ready
  <2>2. CASE PollArp
    <3>1. Ready("ARP") /\ CallPoll("ARP", "ARP") /\ pc'["ARP"] = "handle"
          /\ pc["ARP"] = "acquire"
      BY <1>g, <2>2 DEF PollArp, At
    <3>2. CASE ~Raced("ARP")
      BY <1>2, <1>p, <3>1, <3>2 DEF isEmpty, Alive
    <3>3. CASE Raced("ARP")
      BY <1>2, <3>1, <3>3 DEF Alive, Raced, CallPoll, Overlap
    <3> QED
      BY <3>2, <3>3
  <2>3. CASE HandleArp \/ ArpRelease \/ ArpFinish
    BY <1>2, <1>g, <2>3 DEF HandleArp, ArpRelease, ArpFinish, Alive
  <2>4. CASE ArpDies
    BY <1>2, <1>r, <2>4 DEF ArpDies, listVars, At, Alive
  <2> QED
    BY <1>2, <1>c, <2>1, <2>2, <2>3, <2>4 DEF ArpNext
<1>3. CASE t = "IP"
  <2>1. CASE PollIp
    BY <1>3, <1>g, <1>p, <2>1 DEF PollIp, PollOwn, At
  <2>2. CASE HandleIp \/ IpFinish
    BY <1>3, <1>g, <2>2 DEF HandleIp, IpFinish, Alive
  <2>3. CASE IpDies
    BY <1>3, <1>r, <2>3 DEF IpDies, listVars, At, Alive
  <2> QED
    BY <1>3, <1>c, <2>1, <2>2, <2>3 DEF IpNext
<1> QED
  BY <1>1, <1>2, <1>3

(* All three together: the invariant.                                      *)
AllAlive == \A t \in Mortal : Alive(t)

(* They begin in their loops.                                              *)
LEMMA InitAlive == Init => AllAlive
BY OwnersAreThreads, LayerAssumption DEF Init, AllAlive, Mortal, Alive

(* No step kills one of them for another reason.                           *)
LEMMA NextAlive ==
  ASSUME IInv, PathInv, CountInv, AllAlive, [Next]_vars
  PROVE  AllAlive'
<1>1. CASE Next
  <2>1. PICK u \in Threads : Moves(u)
    BY <1>1, EachMoves
  <2> SUFFICES ASSUME NEW t \in Mortal PROVE Alive(t)'
    BY DEF AllAlive
  <2>2. CASE t = u
    BY <2>1, <2>2, OwnKeepsAlive DEF AllAlive
  <2>3. CASE t # u
    BY <2>1, <2>3, OthersKeepAlive DEF AllAlive
  <2> QED
    BY <2>2, <2>3
<1>2. CASE UNCHANGED vars
  BY <1>2 DEF vars, listVars, AllAlive, Alive, Raced, Ready, Result
<1> QED
  BY <1>1, <1>2

(* Layer.run and Arp.run: a thread dies of the null that poll returns only *)
(* if two calls have overlapped on its own list.                           *)
THEOREM OnlyRacesKill == Spec => []DeathNeedsRace
<1>1. AllAlive => DeathNeedsRace
  BY DEF AllAlive, Alive, Mortal, DeathNeedsRace
<1> QED
  BY <1>1, InitAlive, NextAlive, CountInvariance, PathInvariance, Invariance, PTL DEF Spec

-----------------------------------------------------------------------------
(* The order of the packets                                                *)

(* What the owner of list q has taken and not yet passed on.               *)
Held(q) == IF op[q].at \in Adds THEN NULL ELSE op[q].x

(* One list: a are the packets ever added to q, p those that have come     *)
(* out, and r ranks them in the order in which they were added; all ranks  *)
(* are below m.  References lead upwards, what can still come out is above *)
(* what has, and a packet that is being added is above all others.         *)
Line(q, a, p, r, m) ==
  /\ p \subseteq a
  /\ \A x \in a : r[x] < m
  /\ \A x, y \in a : x[1] = y[1] /\ x[2] < y[2] => r[x] < r[y]
  /\ last[q] \in a \cup {NULL}
  /\ Top(q) # NULL => Top(q) \in a /\ \A y \in p : r[y] < r[Top(q)]
  /\ Rest(q) # NULL => Rest(q) \in a /\ \A y \in p : r[y] < r[Rest(q)]
  /\ \A y \in Items : next[q][y] # NULL => y \in a /\ next[q][y] \in a /\ r[y] < r[next[q][y]]
  /\ \A t \in Users(q) : op[t].at \in {"setLast", "link"} =>
       /\ op[t].x \in a \ p /\ op[t].l \in (a \ {op[t].x}) \cup {NULL}
       /\ \A y \in a \ {op[t].x} : r[y] < r[op[t].x]
  /\ Held(q) # NULL => Held(q) \in p /\ \A y \in p \ {Held(q)} : r[y] < r[Held(q)]

(* A step that adds nothing to q and takes nothing from it.                *)
LEMMA LineKept ==
  ASSUME NEW q \in Lists, NEW a, NEW p, NEW r, NEW m, Line(q, a, p, r, m),
         last'[q] \in a \cup {NULL},
         Top(q)' # NULL => Top(q)' \in a /\ \A y \in p : r[y] < r[Top(q)'],
         Rest(q)' # NULL => Rest(q)' \in a /\ \A y \in p : r[y] < r[Rest(q)'],
         \A y \in Items : \/ next'[q][y] \in {next[q][y], NULL}
                          \/ y \in a /\ next'[q][y] \in a /\ r[y] < r[next'[q][y]],
         Held(q)' \in {Held(q), NULL},
         \A u \in Threads : op'[u].q = q /\ op'[u].at \in {"setLast", "link"} =>
            /\ op[u].q = q /\ op[u].at \in {"setLast", "link"}
            /\ op'[u].x = op[u].x /\ op'[u].l = op[u].l
  PROVE  Line(q, a, p, r, m)'
<1>1. \A u \in Users(q)' : op'[u].at \in {"setLast", "link"} =>
        /\ op'[u].x \in a \ p /\ op'[u].l \in (a \ {op'[u].x}) \cup {NULL}
        /\ \A y \in a \ {op'[u].x} : r[y] < r[op'[u].x]
  BY DEF Line, Users
<1>2. \A y \in Items : next'[q][y] # NULL =>
        y \in a /\ next'[q][y] \in a /\ r[y] < r[next'[q][y]]
  BY DEF Line
<1>3. Held(q)' # NULL => Held(q)' \in p /\ \A y \in p \ {Held(q)'} : r[y] < r[Held(q)']
  BY DEF Line
<1> QED
  BY <1>1, <1>2, <1>3 DEF Line

(* Another thread's step, or one of its owner, that does not touch q.      *)
LEMMA LineAside ==
  ASSUME NEW q \in Lists, NEW a, NEW p, NEW r, NEW m, Line(q, a, p, r, m),
         last'[q] = last[q], first'[q] = first[q], next'[q] = next[q],
         \/ op'[q] = op[q]
         \/ /\ op[q].at \notin {"unlink", "setFirst"} /\ op'[q].at \notin {"unlink", "setFirst"}
            /\ Held(q)' \in {Held(q), NULL},
         \A u \in Threads : op'[u] # op[u] => op'[u].q # q
  PROVE  Line(q, a, p, r, m)'
<1>1. Top(q)' = Top(q) /\ Rest(q)' = Rest(q)
  BY DEF Top, Rest
<1>2. Held(q)' \in {Held(q), NULL}
  BY DEF Held
<1>3. /\ last[q] \in a \cup {NULL}
      /\ Top(q) # NULL => Top(q) \in a /\ \A y \in p : r[y] < r[Top(q)]
      /\ Rest(q) # NULL => Rest(q) \in a /\ \A y \in p : r[y] < r[Rest(q)]
  BY DEF Line
<1> QED
  BY <1>1, <1>2, <1>3, LineKept

(* Each access of a call.                                                  *)
LEMMA StepKeepsLine ==
  ASSUME ListTypeOK, OwnersPoll, NEW t \in Threads, ListStep(t),
         NEW q \in Lists, NEW a \in SUBSET Items, NEW p, NEW r \in [Items -> Int], NEW m \in Int,
         Line(q, a, p, r, m)
  PROVE  Line(q, a, p, r, m)'
<1>o. PICK o \in Call : o = op[t]
  BY DEF ListTypeOK
<1>t. /\ op \in [Threads -> Call] /\ first \in [Lists -> Refs] /\ last \in [Lists -> Refs]
      /\ next \in [Lists -> [Items -> Refs]]
  BY DEF ListTypeOK
<1>q. o.q \in Lists /\ o.x \in Items
  BY <1>o DEF ListTypeOK, ListStep, AddSetLast, AddLink, AddReadSize, AddWriteSize,
         PollUnlink, PollSetFirst, PollClearLast, PollReadSize, PollWriteSize
<1>u. \A u \in Threads \ {t} : op'[u] = op[u]
  BY <1>t DEF ListStep, Advance, AddSetLast, AddLink, AddReadSize, AddWriteSize,
              PollUnlink, PollSetFirst, PollClearLast, PollReadSize, PollWriteSize
<1>l. Line(q, a, p, r, m)
  OBVIOUS
<1>p. o.at \notin Adds => t = o.q
  BY <1>o DEF ListStep, OwnersPoll, Adds, AddSetLast, AddLink, AddReadSize, AddWriteSize,
              PollUnlink, PollSetFirst, PollClearLast, PollReadSize, PollWriteSize
<1>1. CASE o.q # q
  <2>1. first'[q] = first[q] /\ last'[q] = last[q] /\ next'[q] = next[q]
    BY <1>o, <1>q, <1>t, <1>1
       DEF ListStep, AddSetLast, AddLink, AddReadSize, AddWriteSize,
           PollUnlink, PollSetFirst, PollClearLast, PollReadSize, PollWriteSize
  <2>2. op'[t].q \in {o.q, NULL}
    BY <1>o, <1>t DEF ListStep, Advance, Returned, Call, AddSetLast, AddLink, AddReadSize,
          AddWriteSize, PollUnlink, PollSetFirst, PollClearLast, PollReadSize, PollWriteSize
  <2>3. t = q => /\ op[q].at \notin {"unlink", "setFirst"}
                 /\ op'[q].at \notin {"unlink", "setFirst"} /\ Held(q)' = NULL
    <3> SUFFICES ASSUME t = q
                 PROVE  /\ op[t].at \notin {"unlink", "setFirst"}
                        /\ op'[t].at \notin {"unlink", "setFirst"} /\ Held(t)' = NULL
      OBVIOUS
    <3>1. o.at \in Adds
      BY <1>p, <1>1
    <3>2. op'[t].at \in Adds \/ (op'[t].at = "idle" /\ op'[t].x = NULL)
      BY <1>o, <1>t, <3>1 DEF ListStep, Advance, Returned, Call, Adds, AddSetLast, AddLink,
         AddReadSize, AddWriteSize, PollUnlink, PollSetFirst, PollClearLast, PollReadSize,
         PollWriteSize
    <3> QED
      BY <1>o, <3>1, <3>2 DEF Adds, Held
  <2>4. \A u \in Threads : op'[u] # op[u] => op'[u].q # q
    BY <1>u, <1>1, <2>2, ListAssumption
  <2>5. t # q => op'[q] = op[q]
    BY <1>u, OwnersAreThreads
  <2> QED
    BY <2>1, <2>3, <2>4, <2>5, LineAside
<1>2. CASE o.q = q /\ o.at \in Adds
  <2>1. CASE o.at = "link"
    <3>1. /\ o.x \in a \ p /\ o.l \in (a \ {o.x}) \cup {NULL}
          /\ \A y \in a \ {o.x} : r[y] < r[o.x]
      BY <1>o, <1>2, <2>1 DEF Line, Users
    <3>2. /\ op'[t].at = "readInc" /\ last' = last
          /\ o.l = NULL => first' = [first EXCEPT ![q] = o.x] /\ next' = next
          /\ o.l # NULL => first' = first /\ next' = [next EXCEPT ![q][o.l] = o.x]
      BY <1>o, <1>t, <1>2, <2>1
         DEF ListStep, Advance, Call, AddSetLast, AddLink, AddReadSize, AddWriteSize,
             PollUnlink, PollSetFirst, PollClearLast, PollReadSize, PollWriteSize
    <3>3. /\ Top(q)' \in {Top(q), o.x, NULL} /\ Rest(q)' \in {Rest(q), NULL}
          /\ Held(q)' \in {Held(q), NULL}
      BY <1>o, <1>t, <1>u, <2>1, <3>2, OwnersAreThreads DEF Top, Rest, Held, Adds
    <3>4. \A y \in Items : \/ next'[q][y] = next[q][y]
                           \/ y \in a /\ next'[q][y] \in a /\ r[y] < r[next'[q][y]]
      BY <1>t, <3>1, <3>2
    <3>5. \A y \in p : r[y] < r[o.x]
      BY <1>l, <3>1 DEF Line
    <3>6. \A u \in Threads : op'[u].q = q /\ op'[u].at \in {"setLast", "link"} =>
            /\ op[u].q = q /\ op[u].at \in {"setLast", "link"}
            /\ op'[u].x = op[u].x /\ op'[u].l = op[u].l
      BY <1>u, <3>2
    <3>7. /\ last'[q] \in a \cup {NULL}
          /\ Top(q)' # NULL => Top(q)' \in a /\ \A y \in p : r[y] < r[Top(q)']
          /\ Rest(q)' # NULL => Rest(q)' \in a /\ \A y \in p : r[y] < r[Rest(q)']
      BY <1>l, <3>1, <3>2, <3>3, <3>5 DEF Line
    <3> QED
      BY <1>l, <3>3, <3>4, <3>6, <3>7, LineKept
  <2>2. CASE o.at # "link"
    <3>1. /\ first' = first /\ next' = next
          /\ last'[q] \in {last[q], IF o.at = "setLast" THEN o.x ELSE last[q]}
          /\ \/ op'[t].at = "idle" /\ op'[t].x = NULL
             \/ op'[t].at = "link" /\ o.at = "setLast" /\ op'[t].q = q
                /\ op'[t].x = o.x /\ op'[t].l = o.l
             \/ op'[t].at = "writeInc"
      BY <1>o, <1>t, <1>2, <2>2
         DEF ListStep, Advance, Call, Adds, Returned, AddSetLast, AddLink, AddReadSize,
             AddWriteSize, PollUnlink, PollSetFirst, PollClearLast, PollReadSize, PollWriteSize
    <3>2. last'[q] \in a \cup {NULL}
      BY <1>l, <1>o, <1>2, <3>1 DEF Line, Users
    <3>3. Top(q)' = Top(q) /\ Rest(q)' = Rest(q) /\ Held(q)' = Held(q)
      BY <1>o, <1>u, <1>2, <3>1, OwnersAreThreads DEF Top, Rest, Held, Adds
    <3>4. \A u \in Threads : op'[u].q = q /\ op'[u].at \in {"setLast", "link"} =>
            /\ op[u].q = q /\ op[u].at \in {"setLast", "link"}
            /\ op'[u].x = op[u].x /\ op'[u].l = op[u].l
      BY <1>o, <1>u, <1>2, <3>1
    <3>5. /\ Top(q) # NULL => Top(q) \in a /\ \A y \in p : r[y] < r[Top(q)]
          /\ Rest(q) # NULL => Rest(q) \in a /\ \A y \in p : r[y] < r[Rest(q)]
      BY <1>l DEF Line
    <3> QED
      BY <1>l, <3>1, <3>2, <3>3, <3>4, <3>5, LineKept
  <2> QED
    BY <2>1, <2>2
<1>3. CASE o.q = q /\ o.at \notin Adds
  <2>0. t = q
    BY <1>p, <1>3
  <2>h. Held(q) = o.x /\ o.x # NULL
    BY <1>o, <1>q, <1>3, <2>0, ListAssumption DEF Held
  <2>1. \A u \in Threads : op'[u].q = q /\ op'[u].at \in {"setLast", "link"} =>
            /\ op[u].q = q /\ op[u].at \in {"setLast", "link"}
            /\ op'[u].x = op[u].x /\ op'[u].l = op[u].l
    <3>1. op'[t].at \notin Adds
      BY <1>o, <1>t, <1>3
         DEF ListStep, Advance, Call, Adds, Returned, AddSetLast, AddLink, AddReadSize,
             AddWriteSize, PollUnlink, PollSetFirst, PollClearLast, PollReadSize, PollWriteSize
    <3> QED
      BY <1>u, <3>1 DEF Adds
  <2>2. op'[t].at \notin Adds /\ op'[t].x = o.x
    BY <1>o, <1>t, <1>3
       DEF ListStep, Advance, Call, Adds, Returned, AddSetLast, AddLink, AddReadSize,
           AddWriteSize, PollUnlink, PollSetFirst, PollClearLast, PollReadSize, PollWriteSize
  <2>3. Held(q)' = Held(q)
    BY <2>0, <2>2, <2>h DEF Held
  <2>4. /\ last[q] \in a \cup {NULL}
        /\ Top(q) # NULL => Top(q) \in a /\ \A y \in p : r[y] < r[Top(q)]
        /\ Rest(q) # NULL => Rest(q) \in a /\ \A y \in p : r[y] < r[Rest(q)]
    BY <1>l DEF Line
  <2>5. CASE PollUnlink(t)
    <3>1. /\ o.at = "unlink" /\ op'[t].at = "setFirst" /\ op'[t].l = next[q][o.x]
          /\ next' = [next EXCEPT ![q][o.x] = NULL] /\ last' = last /\ first' = first
      BY <1>o, <1>t, <1>3, <2>5 DEF PollUnlink, Call
    <3>2. Top(q)' = NULL /\ Rest(q)' = next[q][o.x]
      BY <2>0, <3>1 DEF Top, Rest
    <3>3. next[q][o.x] # NULL =>
            next[q][o.x] \in a /\ \A y \in p : r[y] < r[next[q][o.x]]
      <4>1. /\ o.x \in p /\ p \subseteq Items /\ \A y \in p \ {o.x} : r[y] < r[o.x]
            /\ next[q][o.x] # NULL => next[q][o.x] \in a /\ r[o.x] < r[next[q][o.x]]
        BY <1>l, <1>q, <2>h DEF Line
      <4> QED
        BY <4>1
    <3>4. \A y \in Items : next'[q][y] \in {next[q][y], NULL}
      BY <1>t, <3>1
    <3> QED
      BY <1>l, <2>1, <2>3, <2>4, <3>1, <3>2, <3>3, <3>4, LineKept
  <2>6. CASE PollSetFirst(t)
    <3>1. /\ o.at = "setFirst" /\ op'[t].at \in {"clearLast", "readDec"} /\ first'[q] = o.l
          /\ next' = next /\ last' = last
      BY <1>o, <1>t, <1>3, <2>6 DEF PollSetFirst, Advance, Call
    <3>2. Top(q)' = Rest(q) /\ Rest(q)' = NULL
      BY <1>o, <2>0, <3>1 DEF Top, Rest
    <3> QED
      BY <1>l, <2>1, <2>3, <2>4, <3>1, <3>2, LineKept
  <2>7. CASE PollClearLast(t) \/ PollReadSize(t) \/ PollWriteSize(t)
    <3>1. /\ o.at \notin {"unlink", "setFirst"} /\ op'[t].at \notin {"unlink", "setFirst"}
          /\ first' = first /\ next' = next /\ last'[q] \in {last[q], NULL}
      BY <1>o, <1>t, <1>3, <2>7 DEF PollClearLast, PollReadSize, PollWriteSize, Advance, Call,
                              Returned
    <3>2. Top(q)' = Top(q) /\ Rest(q)' = Rest(q)
      BY <1>o, <2>0, <3>1 DEF Top, Rest
    <3> QED
      BY <1>l, <2>1, <2>3, <2>4, <3>1, <3>2, LineKept
  <2> QED
    BY <1>o, <1>3, <2>5, <2>6, <2>7 DEF ListStep, AddSetLast, AddLink, AddReadSize, AddWriteSize,
                                    Adds
<1> QED
  BY <1>1, <1>2, <1>3

(* What r and m are worth knowing for: the order of a list is the order in *)
(* which each origin made its packets.                                     *)
LEMMA PacketNumbers ==
  \A x \in Items : x = <<x[1], x[2]>> /\ x[1] \in Origins /\ x[2] \in Int /\ 1 <= x[2]
BY LayerAssumption DEF Origins

(* Of the packets of one origin, those that have come out before the one   *)
(* in hand are older.                                                      *)
LEMMA OlderThanHeld ==
  ASSUME NEW q, NEW a \in SUBSET Items, NEW p, NEW r \in [Items -> Int], NEW m,
         Line(q, a, p, r, m), NEW x, x = Held(q), x # NULL,
         NEW y \in p, y # x, y[1] = x[1]
  PROVE  y[2] < x[2]
<1>1. x \in a /\ y \in a /\ r[y] < r[x]
  BY DEF Line
<1>2. ~ (x[2] < y[2])
  BY <1>1 DEF Line
<1>3. y[2] # x[2]
  BY <1>1, PacketNumbers
<1> QED
  BY <1>1, <1>2, <1>3, PacketNumbers

(* poll takes out what is above all that came before.                      *)
LEMMA PollKeepsLine ==
  ASSUME ListTypeOK, OnePlace, NEW q \in Lists, Ready(q), CallPoll(q, q),
         NEW a \in SUBSET Items, NEW p, NEW r \in [Items -> Int], NEW m \in Int,
         Line(q, a, p, r, m)
  PROVE  \E n \in SUBSET Items : /\ p \subseteq n /\ n \subseteq p \cup {Held(q)'}
                                 /\ Held(q)' \notin p /\ Line(q, a, n, r, m)'
<1> USE OwnersAreThreads
<1>0. /\ op \in [Threads -> Call] /\ first \in [Lists -> Refs] /\ UNCHANGED <<first, last, next>>
      /\ p \subseteq Items /\ NULL \notin p
  BY ListAssumption DEF ListTypeOK, CallPoll, Line
<1>l. Line(q, a, p, r, m)
  OBVIOUS
<1>u. /\ \A u \in Threads \ {q} : op'[u] = op[u]
      /\ op'[q].at \notin Adds
  BY <1>0 DEF CallPoll, Returned, Adds
<1>a. \A u \in Users(q)' : op'[u].at \in {"setLast", "link"} =>
        u \in Users(q) /\ u # q /\ op'[u] = op[u]
  BY <1>u DEF Users, Adds
<1>1. CASE first[q] = NULL
  <2>1. op'[q].at = "idle" /\ op'[q].x = NULL
    BY <1>0, <1>1 DEF CallPoll, Returned
  <2>2. Top(q)' = NULL /\ Rest(q)' = NULL /\ Held(q)' = NULL
    BY <1>0, <1>1, <2>1 DEF Top, Rest, Held
  <2>3. Line(q, a, p, r, m)'
    BY <1>0, <1>l, <1>a, <2>2 DEF Line
  <2> QED
    BY <1>0, <2>2, <2>3
<1>2. CASE first[q] # NULL
  <2>1. PICK x \in Items : x = first[q]
    BY <1>0, <1>2 DEF Refs
  <2>2. op'[q].at = "unlink" /\ op'[q].x = x
    BY <1>0, <1>2, <2>1 DEF CallPoll
  <2>3. Top(q) = x /\ x # NULL
    BY <1>2, <2>1 DEF Top, Ready
  <2>4. Top(q)' = NULL /\ Rest(q)' = NULL /\ Held(q)' = x
    BY <2>2 DEF Top, Rest, Held, Adds
  <2>5. x \in a /\ \A y \in p : r[y] < r[x]
    BY <1>l, <2>3 DEF Line
  <2>6. x \notin p
    BY <1>0, <2>5
  <2>7. \A u \in Users(q) : op[u].at \in {"setLast", "link"} => op[u].x # x
    <3> SUFFICES ASSUME NEW u \in Users(q), op[u].at \in {"setLast", "link"} PROVE op[u].x # x
      OBVIOUS
    <3>1. u \in Threads /\ InHand(u) = op[u].x
      BY DEF Users, InHand
    <3>2. InHand(u) # x
      BY <2>3, <3>1 DEF OnePlace
    <3> QED
      BY <3>1, <3>2
  <2>8. PICK n \in SUBSET Items : n = p \cup {x}
    BY <1>0
  <2>9. Line(q, a, n, r, m)'
    <3>1. \A u \in Users(q)' : op'[u].at \in {"setLast", "link"} =>
            /\ op'[u].x \in a \ n /\ op'[u].l \in (a \ {op'[u].x}) \cup {NULL}
            /\ \A y \in a \ {op'[u].x} : r[y] < r[op'[u].x]
      BY <1>l, <1>a, <2>7, <2>8 DEF Line
    <3>2. Held(q)' \in n /\ \A y \in n \ {Held(q)'} : r[y] < r[Held(q)']
      BY <2>4, <2>5, <2>8
    <3> QED
      BY <1>0, <1>l, <2>4, <2>5, <2>8, <3>1, <3>2 DEF Line
  <2> QED
    BY <2>4, <2>6, <2>8, <2>9
<1> QED
  BY <1>1, <1>2

(* add, when nobody else is adding: the new packet ranks highest.          *)
LEMMA AddKeepsLine ==
  ASSUME ListTypeOK, NEW t \in Threads, NEW q \in Lists, t # q, NEW x \in Items, CallAdd(t, q, x),
         \A u \in Users(q) : op[u].at \notin Adds,
         NEW a \in SUBSET Items, NEW p, NEW r \in [Items -> Int], NEW m \in Int,
         Line(q, a, p, r, m),
         x \notin a, \A y \in a : y[1] = x[1] => y[2] < x[2]
  PROVE  Line(q, a \cup {x}, p, [r EXCEPT ![x] = m], m + 1)'
<1> USE OwnersAreThreads
<1>l. Line(q, a, p, r, m)
  OBVIOUS
<1>0. /\ UNCHANGED <<first, last, next>>
      /\ \A u \in Threads \ {t} : op'[u] = op[u]
      /\ op'[t].at = "setLast" /\ op'[t].q = q /\ op'[t].x = x /\ op'[t].l = last[q]
  BY DEF ListTypeOK, CallAdd
<1>1. Top(q)' = Top(q) /\ Rest(q)' = Rest(q) /\ Held(q)' = Held(q)
  BY <1>0 DEF Top, Rest, Held
<1>2. PICK n \in [Items -> Int] : n = [r EXCEPT ![x] = m]
  OBVIOUS
<1>3. n[x] = m /\ \A y \in a : n[y] = r[y] /\ n[y] < m /\ r[y] \in Int
  BY <1>2, <1>l DEF Line
<1>4. PICK b \in SUBSET Items : b = a \cup {x}
  OBVIOUS
<1>5. \A y \in b : n[y] < m + 1
  BY <1>3, <1>4
<1>6. \A y, z \in b : y[1] = z[1] /\ y[2] < z[2] => n[y] < n[z]
  <2> SUFFICES ASSUME NEW y \in b, NEW z \in b, y[1] = z[1], y[2] < z[2] PROVE n[y] < n[z]
    OBVIOUS
  <2>1. CASE y \in a /\ z \in a
    BY <1>l, <1>3, <2>1 DEF Line
  <2>2. CASE z = x
    <3>1. y # x
      BY <2>2, PacketNumbers
    <3> QED
      BY <1>3, <1>4, <2>2, <3>1
  <2>3. CASE y = x /\ z \in a
    <3>1. z[2] < x[2]
      BY <2>3
    <3> QED
      BY <2>3, <3>1, PacketNumbers
  <2> QED
    BY <1>4, <2>1, <2>2, <2>3
<1>7. \A u \in Users(q)' : op'[u].at \in {"setLast", "link"} =>
        /\ op'[u].x \in b \ p /\ op'[u].l \in (b \ {op'[u].x}) \cup {NULL}
        /\ \A y \in b \ {op'[u].x} : n[y] < n[op'[u].x]
  <2> SUFFICES ASSUME NEW u \in Users(q)', op'[u].at \in {"setLast", "link"}
               PROVE  /\ op'[u].x \in b \ p /\ op'[u].l \in (b \ {op'[u].x}) \cup {NULL}
                      /\ \A y \in b \ {op'[u].x} : n[y] < n[op'[u].x]
    OBVIOUS
  <2>1. u = t
    BY <1>0 DEF Users, Adds
  <2>2. x \notin p /\ last[q] \in a \cup {NULL}
    BY <1>l DEF Line
  <2> QED
    BY <1>0, <1>3, <1>4, <2>1, <2>2
<1>8. Line(q, b, p, n, m + 1)'
  <2>1. /\ p \subseteq b /\ last'[q] \in b \cup {NULL}
        /\ Top(q)' # NULL => Top(q)' \in b /\ \A y \in p : n[y] < n[Top(q)']
        /\ Rest(q)' # NULL => Rest(q)' \in b /\ \A y \in p : n[y] < n[Rest(q)']
    BY <1>l, <1>0, <1>1, <1>3, <1>4 DEF Line
  <2>2. \A y \in Items : next'[q][y] # NULL =>
          y \in b /\ next'[q][y] \in b /\ n[y] < n[next'[q][y]]
    BY <1>l, <1>0, <1>3, <1>4 DEF Line
  <2>3. Held(q)' # NULL => Held(q)' \in p /\ \A y \in p \ {Held(q)'} : n[y] < n[Held(q)']
    BY <1>l, <1>1, <1>3 DEF Line
  <2> QED
    BY <1>5, <1>6, <1>7, <2>1, <2>2, <2>3 DEF Line
<1> QED
  BY <1>2, <1>4, <1>8

(* For the other lists a call that begins, or the end of one, is nothing;  *)
(* the owner that adds to another list lets go of what it held.            *)
LEMMA CallAsideLine ==
  ASSUME ListTypeOK, NEW t \in Threads, Ready(t), NEW q, NEW x,
         CallAdd(t, q, x) \/ (CallPoll(t, q) /\ q = t) \/ Discard(t),
         NEW d \in Lists, d # q \/ Discard(t),
         NEW a, NEW p, NEW r, NEW m, Line(d, a, p, r, m)
  PROVE  Line(d, a, p, r, m)' /\ Held(d)' \in {Held(d), NULL}
<1> USE OwnersAreThreads
<1>1. /\ UNCHANGED <<first, last, next>>
      /\ \A u \in Threads \ {t} : op'[u] = op[u]
  BY DEF ListTypeOK, CallAdd, CallPoll, Discard
<1>2. op'[t].q # d
  BY ListAssumption DEF ListTypeOK, CallAdd, CallPoll, Discard, Returned
<1>3. t = d => op'[t].at \notin {"unlink", "setFirst"} /\ Held(t)' = NULL
  BY DEF ListTypeOK, CallAdd, CallPoll, Discard, Returned, Held, Adds
<1>4. t = d => op[t].at \notin {"unlink", "setFirst"}
  BY DEF Ready
<1>5. Held(d)' \in {Held(d), NULL}
  BY <1>1, <1>3 DEF Held
<1> QED
  BY <1>1, <1>2, <1>3, <1>4, <1>5, LineAside

(* x has come out of list q, and q's owner has passed it on.               *)
Passed(p, q, x) == x \in p[q] /\ x # Held(q)

(* How a packet has got into list q: through the list before it.           *)
Came(p, q, x) ==
  IF x[1] = "L1" THEN /\ q # "L1"
                      /\ q = "L3" => Passed(p, "L2", x)
                      /\ q \in {"ARP", "IP"} => Passed(p, "L3", x)
                 ELSE /\ q \in {"L1", "L2", "L3"}
                      /\ q = "L2" => Passed(p, "L3", x)
                      /\ q = "L1" => Passed(p, "L2", x)

EndOf(e) == IF e = "wire" THEN "L1" ELSE e

InOrder(a, p, r, m) ==
  /\ \A q \in Lists : Line(q, a[q], p[q], r[q], m[q])
  /\ \A q \in Lists : \A x \in a[q] : x \in Created /\ Came(p, q, x)
  /\ \A e \in Ends : \A x \in Reached(e) : Passed(p, EndOf(e), x)

(* Each end has got the packets of one origin as they were made.           *)
OutInOrder ==
  \A e \in Ends : \A i, j \in DOMAIN out[e] :
    i < j /\ out[e][i][1] = out[e][j][1] => out[e][i][2] < out[e][j][2]

(* The invariant: so it is until two threads have added to one list at     *)
(* once.                                                                   *)
OrderInv ==
  InTurn => /\ OutInOrder
            /\ \E a \in [Lists -> SUBSET Items], p \in [Lists -> SUBSET Items],
                  r \in [Lists -> [Items -> Int]], m \in [Lists -> Int] : InOrder(a, p, r, m)

(* Before the first packet.                                                *)
LEMMA InitOrder == Init => OrderInv
<1> SUFFICES ASSUME Init PROVE OrderInv
  OBVIOUS
<1> USE OwnersAreThreads
<1>1. \A t \in Threads : op[t] = Returned(NULL)
  BY DEF Init, ListInit
<1>2. PICK a \in [Lists -> SUBSET Items] : a = [q \in Lists |-> {}]
  OBVIOUS
<1>3. PICK r \in [Lists -> [Items -> Int]], m \in [Lists -> Int] : TRUE
  <2>1. /\ [q \in Lists |-> [x \in Items |-> 0]] \in [Lists -> [Items -> Int]]
        /\ [q \in Lists |-> 0] \in [Lists -> Int]
    OBVIOUS
  <2> QED
    BY <2>1
<1>4. ListInit
  BY DEF Init
<1>5. ASSUME NEW q \in Lists
      PROVE  Line(q, a[q], a[q], r[q], m[q])
  <2>1. op[q].at = "idle" /\ op[q].x = NULL
    BY <1>1 DEF Returned
  <2>2. Top(q) = NULL /\ Rest(q) = NULL /\ Held(q) = NULL /\ last[q] = NULL
    BY <1>4, <2>1 DEF ListInit, Top, Rest, Held, Adds
  <2>3. \A y \in Items : next[q][y] = NULL
    BY <1>4 DEF ListInit
  <2>4. \A t \in Threads : op[t].at = "idle"
    <3> SUFFICES ASSUME NEW t \in Threads PROVE op[t].at = "idle"
      OBVIOUS
    <3>1. op[t] = Returned(NULL)
      BY <1>1
    <3> QED
      BY <3>1 DEF Returned
  <2>5. a[q] = {}
    BY <1>2
  <2> QED
    BY <2>2, <2>3, <2>4, <2>5 DEF Line, Users
<1>6. \A e \in Ends : Reached(e) = {} /\ DOMAIN out[e] = {}
  BY DEF Init, Reached
<1>7. InOrder(a, a, r, m)
  BY <1>2, <1>5, <1>6 DEF InOrder
<1>8. OutInOrder
  BY <1>6 DEF OutInOrder
<1> QED
  BY <1>7, <1>8 DEF OrderInv

(* A step that may take a packet out of list q, for its owner to hold.     *)
Gives(q, a, p, r, m) ==
  \E n \in SUBSET Items : /\ p \subseteq n /\ n \subseteq p \cup {Held(q)'}
                          /\ Held(q)' \notin p \/ Held(q)' \in {Held(q), NULL}
                          /\ Line(q, a, n, r, m)'

(* A step that sends no packet and brings none to an end.                  *)
LEMMA MovesKeepOrder ==
  ASSUME OrderInv, InTurn' => InTurn, UNCHANGED out, Created \subseteq Created',
         NEW q \in Lists,
         \A d \in Lists \ {q} : Held(d)' \in {Held(d), NULL},
         \A d \in Lists \ {q}, a \in SUBSET Items, p \in SUBSET Items, r \in [Items -> Int],
            m \in Int : Line(d, a, p, r, m) => Line(d, a, p, r, m)',
         \A a \in SUBSET Items, p \in SUBSET Items, r \in [Items -> Int], m \in Int :
            Line(q, a, p, r, m) => Gives(q, a, p, r, m)
  PROVE  OrderInv'
<1> SUFFICES ASSUME InTurn'
             PROVE  /\ OutInOrder'
                    /\ \E a \in [Lists -> SUBSET Items], p \in [Lists -> SUBSET Items],
                          r \in [Lists -> [Items -> Int]], m \in [Lists -> Int] :
                          InOrder(a, p, r, m)'
  BY DEF OrderInv
<1>1. OutInOrder'
  BY DEF OrderInv, OutInOrder
<1>2. PICK a \in [Lists -> SUBSET Items], p \in [Lists -> SUBSET Items],
           r \in [Lists -> [Items -> Int]], m \in [Lists -> Int] : InOrder(a, p, r, m)
  BY DEF OrderInv
<1>3. PICK aq \in SUBSET Items, pq \in SUBSET Items, rq \in [Items -> Int], mq \in Int :
        aq = a[q] /\ pq = p[q] /\ rq = r[q] /\ mq = m[q]
  OBVIOUS
<1>a. Line(q, aq, pq, rq, mq)
  BY <1>2, <1>3 DEF InOrder
<1>4. PICK n \in SUBSET Items : /\ pq \subseteq n /\ n \subseteq pq \cup {Held(q)'}
                                /\ Held(q)' \notin pq \/ Held(q)' \in {Held(q), NULL}
                                /\ Line(q, aq, n, rq, mq)'
  <2>1. Gives(q, aq, pq, rq, mq)
    BY <1>a
  <2> QED
    BY <2>1 DEF Gives
<1>5. PICK z \in [Lists -> SUBSET Items] : z = [p EXCEPT ![q] = n]
  OBVIOUS
<1>6. z[q] = n /\ \A d \in Lists \ {q} : z[d] = p[d]
  BY <1>5
<1>7. \A d \in Lists : \A x \in Items : Passed(p, d, x) => Passed(z, d, x)'
  <2> SUFFICES ASSUME NEW d \in Lists, NEW x \in Items, Passed(p, d, x)
               PROVE  Passed(z, d, x)'
    OBVIOUS
  <2>1. x # NULL
    BY ListAssumption
  <2>2. CASE d = q
    BY <1>3, <1>4, <1>6, <2>1, <2>2 DEF Passed, Held
  <2>3. CASE d # q
    BY <1>6, <2>1, <2>3 DEF Passed
  <2> QED
    BY <2>2, <2>3
<1>8. \A d \in Lists : Line(d, a[d], z[d], r[d], m[d])'
  <2> SUFFICES ASSUME NEW d \in Lists PROVE Line(d, a[d], z[d], r[d], m[d])'
    OBVIOUS
  <2>1. CASE d = q
    BY <1>3, <1>4, <1>6, <2>1
  <2>2. CASE d # q
    <3>1. PICK ad \in SUBSET Items, pd \in SUBSET Items, rd \in [Items -> Int], md \in Int :
            ad = a[d] /\ pd = p[d] /\ rd = r[d] /\ md = m[d]
      OBVIOUS
    <3>2. Line(d, ad, pd, rd, md)
      BY <1>2, <3>1 DEF InOrder
    <3>3. Line(d, ad, pd, rd, md)'
      BY <2>2, <3>2
    <3> QED
      BY <1>6, <2>2, <3>1, <3>3
  <2> QED
    BY <2>1, <2>2
<1>9. \A d \in Lists : \A x \in a[d] : x \in Created' /\ Came(z, d, x)'
  BY <1>2, <1>7, LayerAssumption DEF InOrder, Came
<1>10. \A e \in Ends : \A x \in Reached(e)' : Passed(z, EndOf(e), x)'
  <2> SUFFICES ASSUME NEW e \in Ends, NEW x \in Reached(e)
               PROVE  Passed(z, EndOf(e), x)'
    BY DEF Reached
  <2>1. EndOf(e) \in Lists /\ Passed(p, EndOf(e), x)
    BY <1>2, LayerAssumption DEF InOrder, EndOf, Ends
  <2>2. x \in Items
    BY <2>1 DEF Passed
  <2> QED
    BY <1>7, <2>1, <2>2
<1>11. InOrder(a, z, r, m)'
  BY <1>8, <1>9, <1>10 DEF InOrder
<1> QED
  BY <1>1, <1>11

(* A thread goes on with its call.                                         *)
LEMMA InCallKeepsOrder ==
  ASSUME IInv, PathInv, OrderInv, NEW t \in Threads, InCall(t)
  PROVE  OrderInv'
<1> USE OwnersAreThreads
<1>1. ListTypeOK /\ OwnersPoll /\ ListStep(t) /\ UNCHANGED <<pkts, out>>
  BY DEF IInv, TypeOK, PathInv, InCall
<1>2. op \in [Threads -> Call]
  BY <1>1 DEF ListTypeOK
<1>3. \A d \in Lists : Held(d)' \in {Held(d), NULL}
  <2>1. \A u \in Threads \ {t} : op'[u] = op[u]
    BY <1>1, <1>2 DEF ListStep, Advance, AddSetLast, AddLink, AddReadSize, AddWriteSize,
              PollUnlink, PollSetFirst, PollClearLast, PollReadSize, PollWriteSize
  <2>2. \/ op[t].at \in Adds /\ (op'[t].at \in Adds \/ op'[t].x = NULL)
        \/ op[t].at \notin Adds /\ op'[t].at \notin Adds /\ op'[t].x = op[t].x
    BY <1>1, <1>2 DEF ListStep, Advance, Call, Adds, Returned, AddSetLast, AddLink, AddReadSize,
             AddWriteSize, PollUnlink, PollSetFirst, PollClearLast, PollReadSize, PollWriteSize
  <2> QED
    BY <2>1, <2>2 DEF Held
<1>4. \A d \in Lists, a \in SUBSET Items, p \in SUBSET Items, r \in [Items -> Int], m \in Int :
        Line(d, a, p, r, m) => Line(d, a, p, r, m)'
  BY <1>1, StepKeepsLine
<1>5. raced' = raced
  BY <1>1 DEF ListStep, AddSetLast, AddLink, AddReadSize, AddWriteSize,
              PollUnlink, PollSetFirst, PollClearLast, PollReadSize, PollWriteSize
<1>6. (InTurn' => InTurn) /\ Created \subseteq Created'
  BY <1>1, <1>5 DEF InTurn, Crossed, Created
<1>7. PICK q \in Lists : TRUE
  BY LayerAssumption
<1>8. \A a \in SUBSET Items, p \in SUBSET Items, r \in [Items -> Int], m \in Int :
        Line(q, a, p, r, m) => Gives(q, a, p, r, m)
  <2> SUFFICES ASSUME NEW a \in SUBSET Items, NEW p \in SUBSET Items, NEW r \in [Items -> Int],
                      NEW m \in Int, Line(q, a, p, r, m)
               PROVE  Gives(q, a, p, r, m)
    OBVIOUS
  <2>1. Line(q, a, p, r, m)'
    BY <1>4
  <2>2. Held(q)' \in {Held(q), NULL}
    BY <1>3
  <2> QED
    BY <2>1, <2>2 DEF Gives
<1> QED
  BY <1>1, <1>3, <1>4, <1>6, <1>8, MovesKeepOrder

(* begins to poll,                                                         *)
LEMMA PollKeepsOrder ==
  ASSUME IInv, PathInv, OrderInv, NEW t \in Lists, Ready(t), CallPoll(t, t), UNCHANGED <<pkts, out>>
  PROVE  OrderInv'
<1> USE OwnersAreThreads
<1>1. ListTypeOK /\ OnePlace /\ t \in Threads
  BY DEF IInv, TypeOK, PathInv
<1>2. \A d \in Lists \ {t} : Held(d)' \in {Held(d), NULL}
  BY <1>1 DEF ListTypeOK, CallPoll, Held
<1>3. \A d \in Lists \ {t}, a \in SUBSET Items, p \in SUBSET Items, r \in [Items -> Int],
         m \in Int : Line(d, a, p, r, m) => Line(d, a, p, r, m)'
  BY <1>1, CallAsideLine
<1>4. \A a \in SUBSET Items, p \in SUBSET Items, r \in [Items -> Int], m \in Int :
         Line(t, a, p, r, m) => Gives(t, a, p, r, m)
  BY <1>1, PollKeepsLine DEF Gives
<1>5. (InTurn' => InTurn) /\ Created \subseteq Created'
  BY DEF CallPoll, Overlap, InTurn, Crossed, Created
<1> QED
  BY <1>2, <1>3, <1>4, <1>5, MovesKeepOrder

(* does nothing to the lists,                                              *)
LEMMA QuietKeepsOrder ==
  ASSUME OrderInv, UNCHANGED <<listVars, pkts, out>>
  PROVE  OrderInv'
<1>1. UNCHANGED <<first, last, next, size, op, raced, pkts, out>>
  BY DEF listVars
<1>2. \A d \in Lists : Held(d)' = Held(d)
  BY <1>1 DEF Held
<1>3. \A d \in Lists, a \in SUBSET Items, p \in SUBSET Items, r \in [Items -> Int], m \in Int :
        Line(d, a, p, r, m) => Line(d, a, p, r, m)'
  BY <1>1 DEF Line, Users, Top, Rest, Held
<1>4. (InTurn' => InTurn) /\ Created \subseteq Created'
  BY <1>1 DEF InTurn, Crossed, Created
<1>5. PICK q \in Lists : TRUE
  BY LayerAssumption
<1>6. \A a \in SUBSET Items, p \in SUBSET Items, r \in [Items -> Int], m \in Int :
        Line(q, a, p, r, m) => Gives(q, a, p, r, m)
  <2> SUFFICES ASSUME NEW a \in SUBSET Items, NEW p \in SUBSET Items, NEW r \in [Items -> Int],
                      NEW m \in Int, Line(q, a, p, r, m)
               PROVE  Gives(q, a, p, r, m)
    OBVIOUS
  <2>1. Line(q, a, p, r, m)'
    BY <1>3
  <2>2. Held(q)' \in {Held(q), NULL}
    BY <1>2
  <2> QED
    BY <2>1, <2>2 DEF Gives
<1> QED
  BY <1>1, <1>2, <1>3, <1>4, <1>6, MovesKeepOrder

(* Between which lists a packet of origin o goes.                          *)
Leads(o, t, q) ==
  IF o = "L1" THEN <<t, q>> \in {<<"L2", "L3">>, <<"L3", "ARP">>, <<"L3", "IP">>}
              ELSE <<t, q>> \in {<<"L3", "L2">>, <<"L2", "L1">>}

(* A call on a list says so if it overlaps with an add that is under way.  *)
LEMMA AloneInTurn ==
  ASSUME ListTypeOK, NEW t, NEW q \in Lists, NEW x, CallAdd(t, q, x), InTurn'
  PROVE  InTurn /\ \A u \in Users(q) : op[u].at \notin Adds
<1>1. raced' = raced \cup {<<q, {"add", Doing(u)}>> : u \in Users(q)}
  BY DEF CallAdd, Overlap
<1>2. InTurn
  BY <1>1 DEF InTurn, Crossed
<1>3. ASSUME NEW u \in Users(q), op[u].at \in Adds
      PROVE  FALSE
  <2>1. Doing(u) = "add" /\ {"add", Doing(u)} = {"add"}
    BY <1>3 DEF Doing
  <2>2. <<q, {"add", Doing(u)}>> \in raced'
    BY <1>1
  <2>3. <<q, {"add"}>> \in raced'
    BY <2>1, <2>2
  <2> QED
    BY <2>3 DEF InTurn, Crossed
<1> QED
  BY <1>2, <1>3

(* The thread sends a packet that it has polled from the list before, or   *)
(* one that it has just made.                                              *)
LEMMA SendKeepsOrder ==
  ASSUME IInv, PathInv, OrderInv, NEW t \in Threads, NEW q \in Lists, t # q, NEW x \in Items,
         Ready(t), CallAdd(t, q, x), UNCHANGED out,
         \A y \in Items \ {x} : pkts'[y] = pkts[y], pkts'[x] # NULL,
         \/ t \in Lists /\ x = Result(t) /\ Leads(x[1], t, q)
         \/ /\ pkts[x] = NULL /\ x[2] = made[x[1]] + 1
            /\ <<x[1], q>> \in {<<"L1", "L2">>, <<"MAIN", "L3">>}
  PROVE  OrderInv'
<1> SUFFICES ASSUME InTurn'
             PROVE  /\ OutInOrder'
                    /\ \E a \in [Lists -> SUBSET Items], p \in [Lists -> SUBSET Items],
                          r \in [Lists -> [Items -> Int]], m \in [Lists -> Int] :
                          InOrder(a, p, r, m)'
  BY DEF OrderInv
<1> USE OwnersAreThreads
<1>0. ListTypeOK
  BY DEF IInv, TypeOK
<1>1. InTurn /\ \A u \in Users(q) : op[u].at \notin Adds
  BY <1>0, AloneInTurn
<1>2. OutInOrder'
  BY <1>1 DEF OrderInv, OutInOrder
<1>3. PICK a \in [Lists -> SUBSET Items], p \in [Lists -> SUBSET Items],
           r \in [Lists -> [Items -> Int]], m \in [Lists -> Int] : InOrder(a, p, r, m)
  BY <1>1 DEF OrderInv
<1>4. PICK aq \in SUBSET Items, pq \in SUBSET Items, rq \in [Items -> Int], mq \in Int :
        aq = a[q] /\ pq = p[q] /\ rq = r[q] /\ mq = m[q]
  OBVIOUS
<1>5. /\ Line(q, aq, pq, rq, mq)
      /\ \A d \in Lists : Line(d, a[d], p[d], r[d], m[d])
      /\ \A y \in aq : y \in Created /\ Came(p, q, y)
  BY <1>3, <1>4 DEF InOrder
<1>6. x \notin aq /\ \A y \in aq : y[1] = x[1] => y[2] < x[2]
  <2>1. CASE t \in Lists /\ x = Result(t) /\ Leads(x[1], t, q)
    <3>1. PICK at \in SUBSET Items, pt \in SUBSET Items, rt \in [Items -> Int], mt \in Int :
            at = a[t] /\ pt = p[t] /\ rt = r[t] /\ mt = m[t]
      BY <2>1
    <3>2. Line(t, at, pt, rt, mt)
      BY <1>5, <2>1, <3>1
    <3>3. Held(t) = x /\ x # NULL
      BY <2>1, ListAssumption DEF Held, Result, Ready, Adds
    <3>4. \A y \in aq : y[1] = x[1] => y \in pt /\ y # x
      BY <1>5, <2>1, <3>1, <3>3 DEF Came, Leads, Passed
    <3> QED
      BY <3>2, <3>3, <3>4, OlderThanHeld
  <2>2. CASE pkts[x] = NULL /\ x[2] = made[x[1]] + 1
    <3>1. x \notin aq
      BY <1>5, <2>2 DEF Created
    <3>2. \A y \in aq : y[1] = x[1] => y[2] <= made[x[1]]
      BY <1>5 DEF PathInv
    <3>3. made[x[1]] \in Int
      BY PacketNumbers DEF IInv, TypeOK, StateTypeOK
    <3> QED
      BY <2>2, <3>1, <3>2, <3>3, PacketNumbers
  <2> QED
    BY <2>1, <2>2
<1>7. PICK bq \in SUBSET Items, nq \in [Items -> Int] :
        bq = aq \cup {x} /\ nq = [rq EXCEPT ![x] = mq]
  OBVIOUS
<1>8. Line(q, bq, pq, nq, mq + 1)'
  BY <1>0, <1>1, <1>5, <1>6, <1>7, AddKeepsLine
<1>9. PICK b \in [Lists -> SUBSET Items], n \in [Lists -> [Items -> Int]], k \in [Lists -> Int] :
        b = [a EXCEPT ![q] = bq] /\ n = [r EXCEPT ![q] = nq] /\ k = [m EXCEPT ![q] = mq + 1]
  <2>1. /\ [a EXCEPT ![q] = bq] \in [Lists -> SUBSET Items] /\ mq + 1 \in Int
        /\ [r EXCEPT ![q] = nq] \in [Lists -> [Items -> Int]]
    OBVIOUS
  <2>2. [m EXCEPT ![q] = mq + 1] \in [Lists -> Int]
    BY <2>1
  <2> QED
    BY <2>1, <2>2
<1>10. /\ b[q] = aq \cup {x} /\ b[q] = bq /\ n[q] = nq /\ k[q] = mq + 1
       /\ \A d \in Lists \ {q} : b[d] = a[d] /\ n[d] = r[d] /\ k[d] = m[d]
  BY <1>7, <1>9
<1>11. \A d \in Lists \ {q} : Line(d, a[d], p[d], r[d], m[d])' /\ Held(d)' \in {Held(d), NULL}
  <2> SUFFICES ASSUME NEW d \in Lists \ {q}
               PROVE  Line(d, a[d], p[d], r[d], m[d])' /\ Held(d)' \in {Held(d), NULL}
    OBVIOUS
  <2>1. PICK ad, pd, rd, md : ad = a[d] /\ pd = p[d] /\ rd = r[d] /\ md = m[d]
    OBVIOUS
  <2>2. Line(d, ad, pd, rd, md)
    BY <1>5, <2>1
  <2>3. Line(d, ad, pd, rd, md)' /\ Held(d)' \in {Held(d), NULL}
    BY <1>0, <2>2, CallAsideLine
  <2> QED
    BY <2>1, <2>3
<1>12. Held(q)' = Held(q)
  BY <1>0 DEF CallAdd, ListTypeOK, Held
<1>13. \A d \in Lists : \A y \in Items : Passed(p, d, y) => Passed(p, d, y)'
  BY <1>11, <1>12, ListAssumption DEF Passed
<1>14. \A d \in Lists : Line(d, b[d], p[d], n[d], k[d])'
  BY <1>4, <1>8, <1>10, <1>11
<1>15. Created \cup {x} \subseteq Created'
  BY DEF Created
<1>16. Came(p, q, x)'
  <2>1. CASE t \in Lists /\ x = Result(t) /\ Leads(x[1], t, q)
    <3>1. Held(t) = x /\ Held(t) \in p[t]
      BY <1>5, <2>1, ListAssumption DEF Line, Held, Result, Ready, Adds
    <3>2. Held(t)' = NULL
      BY <1>0 DEF CallAdd, ListTypeOK, Held, Adds
    <3>3. Passed(p, t, x)'
      BY <3>1, <3>2, ListAssumption DEF Passed
    <3> QED
      BY <2>1, <3>3 DEF Came, Leads
  <2>2. CASE <<x[1], q>> \in {<<"L1", "L2">>, <<"MAIN", "L3">>}
    BY <2>2 DEF Came
  <2> QED
    BY <2>1, <2>2
<1>17. \A d \in Lists : \A y \in b[d] : y \in Created' /\ Came(p, d, y)'
  <2> SUFFICES ASSUME NEW d \in Lists, NEW y \in b[d], y # x \/ d # q
               PROVE  y \in Created' /\ Came(p, d, y)'
    BY <1>10, <1>15, <1>16
  <2>1. y \in a[d] /\ y \in Items
    BY <1>4, <1>10
  <2>2. y \in Created /\ Came(p, d, y)
    BY <1>3, <2>1 DEF InOrder
  <2> QED
    BY <1>13, <1>15, <2>1, <2>2, LayerAssumption DEF Came
<1>18. \A e \in Ends : \A y \in Reached(e)' : Passed(p, EndOf(e), y)'
  <2> SUFFICES ASSUME NEW e \in Ends, NEW y \in Reached(e)
               PROVE  Passed(p, EndOf(e), y)'
    BY DEF Reached
  <2>1. EndOf(e) \in Lists /\ Passed(p, EndOf(e), y)
    BY <1>3, LayerAssumption DEF InOrder, EndOf, Ends
  <2>2. y \in Items
    BY <2>1 DEF Passed
  <2> QED
    BY <1>13, <2>1, <2>2
<1>19. InOrder(b, p, n, k)'
  BY <1>14, <1>17, <1>18 DEF InOrder
<1> QED
  BY <1>2, <1>19

(* The thread is through with the packet it has polled, and that may have  *)
(* been its end.                                                           *)
LEMMA DropKeepsOrder ==
  ASSUME IInv, PathInv, OrderInv, NEW t \in Lists, NEW x, x = Result(t), Ready(t), Discard(t),
         Created \subseteq Created',
         \/ UNCHANGED out
         \/ \E e \in Ends : x # NULL /\ Record(e, x) /\ EndOf(e) = t
  PROVE  OrderInv'
<1> SUFFICES ASSUME InTurn'
             PROVE  /\ OutInOrder'
                    /\ \E a \in [Lists -> SUBSET Items], p \in [Lists -> SUBSET Items],
                          r \in [Lists -> [Items -> Int]], m \in [Lists -> Int] :
                          InOrder(a, p, r, m)'
  BY DEF OrderInv
<1> USE OwnersAreThreads
<1>0. ListTypeOK /\ StateTypeOK
  BY DEF IInv, TypeOK
<1>1. InTurn
  BY DEF Discard, InTurn, Crossed
<1>2. OutInOrder
  BY <1>1 DEF OrderInv
<1>3. PICK a \in [Lists -> SUBSET Items], p \in [Lists -> SUBSET Items],
           r \in [Lists -> [Items -> Int]], m \in [Lists -> Int] : InOrder(a, p, r, m)
  BY <1>1 DEF OrderInv
<1>4. \A d \in Lists : Line(d, a[d], p[d], r[d], m[d])' /\ Held(d)' \in {Held(d), NULL}
  <2> SUFFICES ASSUME NEW d \in Lists
               PROVE  Line(d, a[d], p[d], r[d], m[d])' /\ Held(d)' \in {Held(d), NULL}
    OBVIOUS
  <2>1. PICK ad, pd, rd, md : ad = a[d] /\ pd = p[d] /\ rd = r[d] /\ md = m[d]
    OBVIOUS
  <2>2. Line(d, ad, pd, rd, md)
    BY <1>3, <2>1 DEF InOrder
  <2>3. Line(d, ad, pd, rd, md)' /\ Held(d)' \in {Held(d), NULL}
    BY <1>0, <2>2, CallAsideLine
  <2> QED
    BY <2>1, <2>3
<1>5. \A d \in Lists : \A y \in Items : Passed(p, d, y) => Passed(p, d, y)'
  BY <1>4, ListAssumption DEF Passed
<1>6. \A d \in Lists : \A y \in a[d] : y \in Created' /\ Came(p, d, y)'
  <2> SUFFICES ASSUME NEW d \in Lists, NEW y \in a[d]
               PROVE  y \in Created' /\ Came(p, d, y)'
    OBVIOUS
  <2>1. y \in Created /\ Came(p, d, y) /\ y \in Items
    BY <1>3 DEF InOrder
  <2> QED
    BY <1>5, <2>1, LayerAssumption DEF Came
<1>7. x # NULL => x \in Items /\ x \in p[t] /\ x = Held(t) /\ Passed(p, t, x)'
  <2> HAVE x # NULL
  <2>1. x = Held(t)
    BY DEF Held, Result, Ready, Adds
  <2>2. x \in p[t]
    BY <1>3, <2>1 DEF InOrder, Line
  <2>3. Held(t)' = NULL
    BY <1>0 DEF Discard, ListTypeOK, Returned, Held, Adds
  <2> QED
    BY <2>1, <2>2, <2>3 DEF Passed
<1>8. CASE UNCHANGED out
  <2>1. OutInOrder'
    BY <1>2, <1>8 DEF OutInOrder
  <2>2. \A e \in Ends : Reached(e)' = Reached(e)
    BY <1>8 DEF Reached
  <2>3. \A e \in Ends : \A y \in Reached(e) : Passed(p, EndOf(e), y)'
    <3> SUFFICES ASSUME NEW e \in Ends, NEW y \in Reached(e) PROVE Passed(p, EndOf(e), y)'
      OBVIOUS
    <3>1. EndOf(e) \in Lists /\ Passed(p, EndOf(e), y)
      BY <1>3, LayerAssumption DEF InOrder, EndOf, Ends
    <3>2. y \in Items
      BY <3>1 DEF Passed
    <3> QED
      BY <1>5, <3>1, <3>2
  <2>4. InOrder(a, p, r, m)'
    BY <1>4, <1>6, <2>2, <2>3 DEF InOrder
  <2> QED
    BY <2>1, <2>4
<1>9. ASSUME NEW e \in Ends, x # NULL, Record(e, x), EndOf(e) = t
      PROVE  OutInOrder' /\ InOrder(a, p, r, m)'
  <2>1. /\ Reached(e)' = Reached(e) \cup {x}
        /\ \A d \in Ends \ {e} : Reached(d)' = Reached(d)
    BY <1>0, <1>7, <1>9, ReachedAfter
  <2>2. \A d \in Ends : \A y \in Reached(d)' : Passed(p, EndOf(d), y)'
    <3> SUFFICES ASSUME NEW d \in Ends, NEW y \in Reached(d)', y # x \/ d # e
                 PROVE  Passed(p, EndOf(d), y)'
      BY <1>7, <1>9
    <3>1. y \in Reached(d)
      BY <2>1
    <3>2. EndOf(d) \in Lists /\ Passed(p, EndOf(d), y)
      BY <1>3, <3>1, LayerAssumption DEF InOrder, EndOf, Ends
    <3>3. y \in Items
      BY <3>2 DEF Passed
    <3> QED
      BY <1>5, <3>2, <3>3
  <2>3. InOrder(a, p, r, m)'
    BY <1>4, <1>6, <2>2 DEF InOrder
  <2>4. \A y \in Reached(e) : y[1] = x[1] => y[2] < x[2]
    <3> SUFFICES ASSUME NEW y \in Reached(e), y[1] = x[1] PROVE y[2] < x[2]
      OBVIOUS
    <3>1. Passed(p, t, y)
      BY <1>3, <1>9 DEF InOrder
    <3>2. y \in p[t] /\ y # x
      BY <1>7, <1>9, <3>1 DEF Passed
    <3>3. PICK at \in SUBSET Items, pt \in SUBSET Items, rt \in [Items -> Int], mt \in Int :
            at = a[t] /\ pt = p[t] /\ rt = r[t] /\ mt = m[t]
      OBVIOUS
    <3>4. Line(t, at, pt, rt, mt)
      BY <1>3, <3>3 DEF InOrder
    <3> QED
      BY <1>7, <1>9, <3>2, <3>3, <3>4, OlderThanHeld
  <2>5. OutInOrder'
    <3>1. PICK s \in Seq(Items) : s = out[e]
      BY <1>0 DEF StateTypeOK
    <3>2. out'[e] = Append(s, x) /\ \A d \in Ends \ {e} : out'[d] = out[d]
      BY <1>0, <1>9, <3>1 DEF Record, StateTypeOK
    <3>3. /\ Len(s) \in Nat /\ DOMAIN s = 1 .. Len(s) /\ DOMAIN Append(s, x) = 1 .. Len(s) + 1
          /\ \A i \in 1 .. Len(s) : Append(s, x)[i] = s[i]
          /\ Append(s, x)[Len(s) + 1] = x
      BY <1>7, <1>9
    <3>4. \A i \in 1 .. Len(s) : s[i][1] = x[1] => s[i][2] < x[2]
      BY <2>4, <3>1, <3>3 DEF Reached
    <3>5. \A i, j \in 1 .. Len(s) : i < j /\ s[i][1] = s[j][1] => s[i][2] < s[j][2]
      BY <1>2, <3>1, <3>3 DEF OutInOrder
    <3>6. \A i, j \in DOMAIN out'[e] :
            i < j /\ out'[e][i][1] = out'[e][j][1] => out'[e][i][2] < out'[e][j][2]
      <4> SUFFICES ASSUME NEW i \in 1 .. Len(s) + 1, NEW j \in 1 .. Len(s) + 1, i < j,
                          Append(s, x)[i][1] = Append(s, x)[j][1]
                   PROVE  Append(s, x)[i][2] < Append(s, x)[j][2]
        BY <3>2, <3>3
      <4>1. i \in 1 .. Len(s)
        BY <3>3
      <4>2. CASE j = Len(s) + 1
        BY <3>3, <3>4, <4>1, <4>2
      <4>3. CASE j \in 1 .. Len(s)
        BY <3>3, <3>5, <4>1, <4>3
      <4> QED
        BY <3>3, <4>2, <4>3
    <3> QED
      BY <1>2, <3>2, <3>6 DEF OutInOrder
  <2> QED
    BY <2>3, <2>5
<1> QED
  BY <1>8, <1>9

(* Layer 1 sends up what it has just captured and is the end of the way    *)
(* down.                                                                   *)
LEMMA PhysicalOrder ==
  ASSUME IInv, PathInv, OrderInv, PhysicalNext
  PROVE  OrderInv'
<1> USE OwnersAreThreads, LayerAssumption
<1>1. CASE Capture
  <2>1. PICK f \in Frames : Make("L1", Captured(f))
    BY <1>1 DEF Capture
  <2>0. Latest("L1") \in Items
    BY <1>1 DEF Capture, Latest, IInv, TypeOK, StateTypeOK, Origins
  <2>2. PICK x \in Items : x = Latest("L1")
    BY <2>0
  <2>3. Captured(f) \in SelfPacket
    BY PacketTypes
  <2>4. /\ pkts[x] = NULL /\ pkts'[x] # NULL
        /\ \A y \in Items \ {x} : pkts'[y] = pkts[y]
    BY <1>1, <2>1, <2>2, <2>3, MadeIsNew DEF Capture, Origins, Created
  <2>5. x[1] = "L1" /\ x[2] = made[x[1]] + 1
    BY <2>2 DEF Latest
  <2> QED
    BY <1>1, <2>2, <2>4, <2>5, SendKeepsOrder DEF Capture, SendTo, At
<1>2. CASE CaptureNothing \/ PhysicalFinish
  BY <1>2, QuietKeepsOrder DEF CaptureNothing, PhysicalFinish
<1>3. CASE PollDown
  BY <1>3, PollKeepsOrder, QuietKeepsOrder DEF PollDown, PollOwn, At
<1>4. CASE Transmit
  <2>1. PICK x : x = Result("L1")
    OBVIOUS
  <2>2. Ready("L1") /\ Discard("L1") /\ Created \subseteq Created'
    BY <1>4 DEF Transmit, At, Created
  <2>3. UNCHANGED out \/ (x # NULL /\ Record("wire", x))
    BY <1>4, <2>1 DEF Transmit
  <2> QED
    BY <2>1, <2>2, <2>3, DropKeepsOrder DEF Ends, EndOf
<1>5. CASE InCall("L1")
  BY <1>5, InCallKeepsOrder
<1> QED
  BY <1>1, <1>2, <1>3, <1>4, <1>5 DEF PhysicalNext

(* Layer 2 sends up what came from the device and down what did not.       *)
LEMMA LogicalOrder ==
  ASSUME IInv, PathInv, OrderInv, LogicalNext
  PROVE  OrderInv'
<1> USE OwnersAreThreads, LayerAssumption
<1>1. CASE PollLogical
  BY <1>1, PollKeepsOrder DEF PollLogical, PollOwn, At
<1>2. CASE HandleLogical
  <2>1. PICK x : x = Result("L2")
    OBVIOUS
  <2>2. /\ x \in Items /\ x \in Fits["L2"] /\ pkts[x] \in SelfPacket /\ pkts[x] # NULL
    BY <1>2, <2>1, PolledFits DEF HandleLogical, At
  <2>3. /\ UNCHANGED out /\ Ready("L2") /\ pkts \in [Items -> SelfPacket \cup {NULL}]
    BY <1>2 DEF HandleLogical, At, IInv, TypeOK, StateTypeOK
  <2>4. CASE SendUp(x) \/ SendDown(x)
    <3>1. PICK q \in {"L1", "L3"} : CallAdd("L2", q, x) /\ (q = "L3" <=> pkts[x].up)
      BY <2>4 DEF SendUp, SendDown, SendTo
    <3>2. Leads(x[1], "L2", q)
      BY <2>2, <3>1 DEF Fits, Rising, Falling, Leads
    <3>3. PICK n \in SelfPacket : pkts' = [pkts EXCEPT ![x] = n]
      <4>1. [pkts[x] EXCEPT !.fakeMac = OwnMac] \in SelfPacket /\ Stamped(pkts[x]) \in SelfPacket
        BY <2>2, PacketTypes
      <4>2. \/ pkts' = [pkts EXCEPT ![x] = [pkts[x] EXCEPT !.fakeMac = OwnMac]]
            \/ pkts' = [pkts EXCEPT ![x] = Stamped(pkts[x])]
        BY <2>2, <2>3, <2>4 DEF SendUp, SendDown
      <4> QED
        BY <4>1, <4>2
    <3>4. pkts'[x] # NULL /\ \A y \in Items \ {x} : pkts'[y] = pkts[y]
      BY <2>2, <2>3, <3>3, NullIsNoPacket
    <3> QED
      BY <2>1, <2>2, <2>3, <3>1, <3>2, <3>4, SendKeepsOrder
  <2>5. CASE Filtered(x)
    <3>1. Discard("L2") /\ Created \subseteq Created'
      BY <2>5 DEF Filtered, Created
    <3> QED
      BY <2>1, <2>3, <3>1, DropKeepsOrder
  <2> QED
    BY <1>2, <2>1, <2>4, <2>5 DEF HandleLogical
<1>3. CASE SkipNull \/ LogicalFinish
  BY <1>3, QuietKeepsOrder DEF SkipNull, LogicalFinish
<1>4. CASE InCall("L2")
  BY <1>4, InCallKeepsOrder
<1> QED
  BY <1>1, <1>2, <1>3, <1>4 DEF LogicalNext

(* Layer 3 hands up what came from the device and sends down the rest.     *)
LEMMA NetworkOrder ==
  ASSUME IInv, PathInv, OrderInv, NetworkNext
  PROVE  OrderInv'
<1> USE OwnersAreThreads, LayerAssumption
<1>1. CASE PollNetwork
  BY <1>1, PollKeepsOrder DEF PollNetwork, PollOwn, At
<1>2. CASE HandleNetwork
  <2>1. PICK x : x = Result("L3")
    OBVIOUS
  <2>2. /\ x \in Items /\ x \in Fits["L3"] /\ pkts[x] \in SelfPacket /\ pkts[x] # NULL
    BY <1>2, <2>1, PolledFits DEF HandleNetwork, At
  <2>3. /\ UNCHANGED out /\ Ready("L3") /\ pkts \in [Items -> SelfPacket \cup {NULL}]
    BY <1>2 DEF HandleNetwork, At, IInv, TypeOK, StateTypeOK
  <2>4. PICK n \in SelfPacket : pkts' = [pkts EXCEPT ![x] = n]
    <3>1. /\ [pkts[x] EXCEPT !.scanned = TRUE] \in SelfPacket
          /\ [pkts[x] EXCEPT !.up = FALSE] \in SelfPacket
      BY <2>2, PacketTypes
    <3> QED
      BY <1>2, <2>1, <3>1 DEF HandleNetwork, Dispatch, PassDown
  <2>5. pkts'[x] # NULL /\ \A y \in Items \ {x} : pkts'[y] = pkts[y]
    BY <2>2, <2>3, <2>4, NullIsNoPacket
  <2>6. \/ /\ ~pkts[x].scanned
           /\ Discard("L3") \/ \E q \in {"ARP", "IP"} : CallAdd("L3", q, x)
        \/ pkts[x].scanned /\ CallAdd("L3", "L2", x)
    BY <1>2, <2>1 DEF HandleNetwork, Dispatch, PassDown, SendTo
  <2>7. CASE Discard("L3")
    <3>1. Created \subseteq Created'
      BY <2>5 DEF Created
    <3> QED
      BY <2>1, <2>3, <2>7, <3>1, DropKeepsOrder
  <2>8. ASSUME NEW q \in {"ARP", "IP"}, ~pkts[x].scanned, CallAdd("L3", q, x)
        PROVE  OrderInv'
    <3>1. Leads(x[1], "L3", q)
      BY <2>2, <2>8 DEF Fits, Rising, Falling, Leads
    <3> QED
      BY <2>1, <2>2, <2>3, <2>5, <2>8, <3>1, SendKeepsOrder
  <2>9. CASE pkts[x].scanned /\ CallAdd("L3", "L2", x)
    <3>1. Leads(x[1], "L3", "L2")
      BY <2>2, <2>9 DEF Fits, Rising, Falling, Leads
    <3> QED
      BY <2>1, <2>2, <2>3, <2>5, <2>9, <3>1, SendKeepsOrder
  <2> QED
    BY <2>6, <2>7, <2>8, <2>9
<1>3. CASE NetworkDies \/ NetworkFinish
  BY <1>3, QuietKeepsOrder DEF NetworkDies, NetworkFinish
<1>4. CASE InCall("L3")
  BY <1>4, InCallKeepsOrder
<1> QED
  BY <1>1, <1>2, <1>3, <1>4 DEF NetworkNext

(* ARP and IP are where the way up ends.                                   *)
LEMMA ProtocolOrder ==
  ASSUME IInv, PathInv, OrderInv, ArpNext \/ IpNext
  PROVE  OrderInv'
<1> USE OwnersAreThreads, LayerAssumption
<1>1. CASE PollArp \/ PollIp
  BY <1>1, PollKeepsOrder DEF PollArp, PollIp, PollOwn, At
<1>2. ASSUME NEW t \in {"ARP", "IP"}, NEW x, x = Result(t), x # NULL, Ready(t), Discard(t),
             UNCHANGED pkts, Record(t, x)
      PROVE  OrderInv'
  <2>1. Created \subseteq Created'
    BY <1>2 DEF Created
  <2> QED
    BY <1>2, <2>1, DropKeepsOrder DEF Ends, EndOf
<1>3. CASE HandleArp
  <2>1. Discard("ARP") /\ UNCHANGED pkts
    BY <1>3 DEF HandleArp, Reply, SameReferenceAsNew, Learn, Ignore
  <2> QED
    BY <1>2, <1>3, <2>1 DEF HandleArp, At
<1>4. CASE HandleIp
  BY <1>2, <1>4 DEF HandleIp, At
<1>5. CASE ArpAcquire \/ ArpDies \/ ArpRelease \/ ArpFinish \/ IpDies \/ IpFinish
  BY <1>5, QuietKeepsOrder DEF ArpAcquire, ArpDies, ArpRelease, ArpFinish, IpDies, IpFinish
<1>6. CASE InCall("ARP") \/ InCall("IP")
  BY <1>6, InCallKeepsOrder
<1> QED
  BY <1>1, <1>3, <1>4, <1>5, <1>6 DEF ArpNext, IpNext

(* Main starts the way down.                                               *)
LEMMA MainOrder ==
  ASSUME IInv, PathInv, OrderInv, UserNext \/ MainNext
  PROVE  OrderInv'
<1> USE OwnersAreThreads, LayerAssumption
<1>1. CASE SendRequest
  <2>1. made["MAIN"] < MaxRequests /\ asked \in IPs
    BY <1>1 DEF SendRequest, At, IInv, RequestInv
  <2>2. Latest("MAIN") \in Items
    BY <2>1 DEF Latest, IInv, TypeOK, StateTypeOK, Origins
  <2>3. PICK x \in Items : x = Latest("MAIN")
    BY <2>2
  <2>4. arpRequest(asked) \in SelfPacket /\ Make("MAIN", arpRequest(asked))
    BY <1>1, <2>1, PacketTypes DEF SendRequest
  <2>5. /\ pkts[x] = NULL /\ pkts'[x] # NULL
        /\ \A y \in Items \ {x} : pkts'[y] = pkts[y]
    BY <1>1, <2>3, <2>4, MadeIsNew DEF SendRequest, Origins, Created
  <2>6. x[1] = "MAIN" /\ x[2] = made[x[1]] + 1
    BY <2>3 DEF Latest
  <2> QED
    BY <1>1, <2>3, <2>5, <2>6, SendKeepsOrder DEF SendRequest, SendTo, At
<1>2. CASE BeginRequest \/ EndRequest \/ ChooseCheck \/ Exit \/ InputFails
           \/ \E ip \in IPs : TypeIP(ip)
  BY <1>2, QuietKeepsOrder DEF BeginRequest, EndRequest, ChooseCheck, Exit, InputFails, TypeIP
<1>3. CASE InCall("MAIN")
  BY <1>3, InCallKeepsOrder
<1> QED
  BY <1>1, <1>2, <1>3 DEF UserNext, MainNext

(* All threads together.                                                   *)
LEMMA NextOrder ==
  ASSUME IInv, PathInv, OrderInv, [Next]_vars
  PROVE  OrderInv'
<1>1. CASE UNCHANGED vars
  BY <1>1, QuietKeepsOrder DEF vars
<1> QED
  BY <1>1, PhysicalOrder, LogicalOrder, NetworkOrder, ProtocolOrder, MainOrder DEF Next

(* OrderInv is inductive together with IInv and PathInv: until two threads *)
(* add to one list at once, each list is a line in which every origin's    *)
(* packets stand as they were made.                                        *)
THEOREM OrderInvariance == Spec => []OrderInv
BY InitOrder, NextOrder, Invariance, PathInvariance, PTL DEF Spec

(* The thread at the end of a path takes a packet out of it.               *)
Leaves(e) ==
  LET x == Result(EndOf(e))
  IN  At(EndOf(e), pc[EndOf(e)]) /\ x # NULL /\ Record(e, x) /\ UNCHANGED made

(* What a step does to the three paths: nothing, or a packet enters one of *)
(* them, or the thread at an end takes one out.                            *)
LEMMA PathSteps ==
  ASSUME [Next]_vars
  PROVE  \/ UNCHANGED <<made, out>>
         \/ UNCHANGED out /\ \E o \in Origins : made' = [made EXCEPT ![o] = @ + 1]
         \/ \E e \in Ends : Leaves(e)
<1> USE DEF Origins, Ends, EndOf, Leaves
<1>1. CASE PhysicalNext
  BY <1>1 DEF PhysicalNext, Capture, CaptureNothing, PollDown, Transmit, PhysicalFinish, InCall,
              Make, At
<1>2. CASE LogicalNext
  BY <1>2 DEF LogicalNext, PollLogical, HandleLogical, SkipNull, LogicalFinish, InCall
<1>3. CASE NetworkNext
  BY <1>3 DEF NetworkNext, PollNetwork, HandleNetwork, NetworkDies, NetworkFinish, InCall
<1>4. CASE ArpNext
  <2>1. CASE HandleArp
    <3>1. UNCHANGED made
      BY <2>1 DEF HandleArp, Reply, SameReferenceAsNew, Learn, Ignore
    <3> QED
      BY <2>1, <3>1 DEF HandleArp, At
  <2> QED
    BY <1>4, <2>1 DEF ArpNext, ArpAcquire, PollArp, ArpDies, ArpRelease, ArpFinish, InCall
<1>5. CASE IpNext
  BY <1>5 DEF IpNext, PollIp, HandleIp, IpDies, IpFinish, InCall, At
<1>6. CASE UserNext
  BY <1>6 DEF UserNext, ChooseCheck, TypeIP, Exit, InputFails
<1>7. CASE MainNext
  BY <1>7 DEF MainNext, BeginRequest, SendRequest, EndRequest, InCall, Make
<1>8. CASE UNCHANGED vars
  BY <1>8 DEF vars
<1> QED
  BY <1>1, <1>2, <1>3, <1>4, <1>5, <1>6, <1>7, <1>8 DEF Next

(* A packet that reaches an end was made, has not reached it before, and   *)
(* overtakes none of its origin as long as the adds have been in turn.     *)
LEMMA LeavesInOrder ==
  ASSUME IInv, PathInv, OrderInv, NEW e \in Ends, Leaves(e),
         NEW x, x = Result(EndOf(e))
  PROVE  /\ x[1] \in Origins /\ x[2] \in 1 .. made[x[1]] /\ x = <<x[1], x[2]>>
         /\ \A i \in DOMAIN out[e] :
              out[e][i][1] = x[1] =>
                out[e][i][2] # x[2] /\ (InTurn => out[e][i][2] < x[2])
<1> PICK t \in Lists : t = EndOf(e)
  BY LayerAssumption DEF EndOf, Ends
<1>1. x \in Items /\ x \in Fits[t] /\ x \notin Gone /\ x # NULL
  BY PolledFits DEF Leaves
<1>2. x[2] <= made[x[1]]
  BY <1>1 DEF PathInv, Fits
<1>3. made[x[1]] \in Int
  BY <1>1, PacketNumbers DEF IInv, TypeOK, StateTypeOK
<1>4. x[1] \in Origins /\ x[2] \in 1 .. made[x[1]] /\ x = <<x[1], x[2]>>
  BY <1>1, <1>2, <1>3, PacketNumbers
<1>5. ASSUME NEW y \in Reached(e), y[1] = x[1]
      PROVE  y[2] # x[2] /\ (InTurn => y[2] < x[2])
  <2>1. y \in Gone
    BY DEF Gone, Ends
  <2>2. y \in Items
    BY <2>1 DEF PathInv, Created
  <2>3. y[2] # x[2]
    BY <1>1, <1>5, <2>1, <2>2, PacketNumbers
  <2>4. ASSUME InTurn PROVE y[2] < x[2]
    <3>1. PICK a \in [Lists -> SUBSET Items], p \in [Lists -> SUBSET Items],
               r \in [Lists -> [Items -> Int]], m \in [Lists -> Int] : InOrder(a, p, r, m)
      BY <2>4 DEF OrderInv
    <3>2. PICK at \in SUBSET Items, pt \in SUBSET Items, rt \in [Items -> Int], mt \in Int :
            at = a[t] /\ pt = p[t] /\ rt = r[t] /\ mt = m[t]
      OBVIOUS
    <3>3. Line(t, at, pt, rt, mt)
      BY <3>1, <3>2 DEF InOrder
    <3>4. y \in pt
      BY <3>1, <3>2 DEF InOrder, Passed
    <3>5. x = Held(t)
      BY DEF Leaves, At, Held, Result, Ready, Adds
    <3>6. y # x
      BY <1>1, <2>1
    <3> QED
      BY <1>1, <1>5, <3>3, <3>4, <3>5, <3>6, OlderThanHeld
  <2> QED
    BY <2>3, <2>4
<1> QED
  BY <1>4, <1>5 DEF Reached

(* Once two threads have added to one list at once it stays so.            *)
LEMMA TurnsAreLost ==
  ASSUME IInv, [Next]_vars, InTurn'
  PROVE  InTurn
<1>1. raced \subseteq raced'
  <2>1. ASSUME NEW t \in Threads, Touches(t) PROVE raced \subseteq raced'
    <3>1. CASE ListStep(t) \/ Discard(t) \/ UNCHANGED listVars
      BY <3>1 DEF ListStep, AddSetLast, AddLink, AddReadSize, AddWriteSize, PollUnlink, listVars,
                  PollSetFirst, PollClearLast, PollReadSize, PollWriteSize, Discard
    <3> QED
      BY <2>1, <3>1, BeginRaces DEF Touches
  <2>2. CASE Next
    BY <2>1, <2>2, EachMoves DEF Moves
  <2>3. CASE UNCHANGED vars
    BY <2>3 DEF vars, listVars
  <2> QED
    BY <2>2, <2>3
<1> QED
  BY <1>1 DEF InTurn, Crossed

(* Logical.run, Network.run, Arp.run, Ip.run, Physical.run and requestIP:  *)
(* each of the three paths through the stack implements LossyLink.         *)
THEOREM PathsKeepOrder == Spec => PathsInOrder
<1>1. Init => ToArp!LinkInit /\ ToIp!LinkInit /\ ToWire!LinkInit
  <2> SUFFICES ASSUME Init PROVE ToArp!LinkInit /\ ToIp!LinkInit /\ ToWire!LinkInit
    OBVIOUS
  <2>1. InTurn
    BY DEF Init, ListInit, InTurn, Crossed
  <2> QED
    BY <2>1 DEF Init, Ends, ToArp!LinkInit, ToIp!LinkInit, ToWire!LinkInit
<1>2. ASSUME IInv, PathInv, OrderInv, [Next]_vars
      PROVE  /\ [ToArp!LinkNext]_ToArp!linkVars
             /\ [ToIp!LinkNext]_ToIp!linkVars
             /\ [ToWire!LinkNext]_ToWire!linkVars
  <2> USE DEF ToArp!LinkNext, ToIp!LinkNext, ToWire!LinkNext,
              ToArp!linkVars, ToIp!linkVars, ToWire!linkVars
  <2>1. InTurn' => InTurn
    BY <1>2, TurnsAreLost
  <2>2. CASE UNCHANGED <<made, out>>
    BY <2>1, <2>2 DEF ToArp!LoseOrder, ToIp!LoseOrder, ToWire!LoseOrder
  <2>3. CASE UNCHANGED out /\ \E o \in Origins : made' = [made EXCEPT ![o] = @ + 1]
    BY <2>1, <2>3 DEF ToArp!Accept, ToIp!Accept, ToWire!Accept
  <2>4. ASSUME NEW e \in Ends, Leaves(e)
        PROVE  /\ [ToArp!LinkNext]_ToArp!linkVars
               /\ [ToIp!LinkNext]_ToIp!linkVars
               /\ [ToWire!LinkNext]_ToWire!linkVars
    <3>1. PICK x : x = Result(EndOf(e))
      OBVIOUS
    <3>2. /\ x[1] \in Origins /\ x[2] \in 1 .. made[x[1]] /\ x = <<x[1], x[2]>>
          /\ \A i \in DOMAIN out[e] :
               out[e][i][1] = x[1] =>
                 out[e][i][2] # x[2] /\ (InTurn => out[e][i][2] < x[2])
      BY <1>2, <2>4, <3>1, LeavesInOrder
    <3>3. /\ out'[e] = Append(out[e], <<x[1], x[2]>>) /\ UNCHANGED made
          /\ \A d \in Ends \ {e} : out'[d] = out[d]
      BY <1>2, <2>4, <3>1, <3>2 DEF Leaves, Record, IInv, TypeOK, StateTypeOK
    <3>4. e # "ARP" => ToArp!LoseOrder
      BY <3>3 DEF Ends, ToArp!LoseOrder
    <3>5. e # "IP" => ToIp!LoseOrder
      BY <3>3 DEF Ends, ToIp!LoseOrder
    <3>6. e # "wire" => ToWire!LoseOrder
      BY <3>3 DEF Ends, ToWire!LoseOrder
    <3>7. e = "ARP" => ToArp!Deliver(x[1], x[2])
      BY <3>2, <3>3 DEF ToArp!Deliver
    <3>8. e = "IP" => ToIp!Deliver(x[1], x[2])
      BY <3>2, <3>3 DEF ToIp!Deliver
    <3>9. e = "wire" => ToWire!Deliver(x[1], x[2])
      BY <3>2, <3>3 DEF ToWire!Deliver
    <3> QED
      BY <2>1, <3>2, <3>4, <3>5, <3>6, <3>7, <3>8, <3>9
  <2> QED
    BY <1>2, <2>2, <2>3, <2>4, PathSteps
<1> QED
  BY <1>1, <1>2, Invariance, PathInvariance, OrderInvariance, PTL
     DEF Spec, PathsInOrder, ToArp!LinkSpec, ToIp!LinkSpec, ToWire!LinkSpec
=============================================================================
