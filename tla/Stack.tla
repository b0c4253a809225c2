-------------------------------- MODULE Stack --------------------------------
(***************************************************************************)
(* The program: all its threads over the shared lists, the ARP table and   *)
(* its semaphore, and the finish flags.                                    *)
(***************************************************************************)
EXTENDS Physical, Logical, Network, Protocols

Next ==
  \/ PhysicalNext \/ LogicalNext \/ NetworkNext
  \/ ArpNext \/ IpNext
  \/ UserNext \/ MainNext

Spec == Init /\ [][Next]_vars

(* Every thread is scheduled; the user need not do anything.               *)
Fairness ==
  /\ WF_vars(PhysicalNext) /\ WF_vars(LogicalNext) /\ WF_vars(NetworkNext)
  /\ WF_vars(ArpNext) /\ WF_vars(IpNext) /\ WF_vars(MainNext)

FairSpec == Spec /\ Fairness

-----------------------------------------------------------------------------
(* What the paths promise.                                                 *)

(* No two threads have been adding to one list at once.                    *)
InTurn == \A q \in Lists : ~Crossed(q)

ToArp  == INSTANCE LossyLink WITH
            Senders <- Origins, accepted <- made, delivered <- out["ARP"], ordered <- InTurn
ToIp   == INSTANCE LossyLink WITH
            Senders <- Origins, accepted <- made, delivered <- out["IP"], ordered <- InTurn
ToWire == INSTANCE LossyLink WITH
            Senders <- Origins, accepted <- made, delivered <- out["wire"], ordered <- InTurn

(* From the device to ARP and to IP, and from requestIP to the device: on  *)
(* each path packets may be lost, but none is duplicated, and none is      *)
(* overtaken before two threads have added to one list at once, through    *)
(* two or three lists without a common lock.                               *)
PathsInOrder == ToArp!LinkSpec /\ ToIp!LinkSpec /\ ToWire!LinkSpec

Reached(e) == {out[e][i] : i \in DOMAIN out[e]}

(* What reaches a protocol is of its type, came from another host and was  *)
(* addressed to this one or to all: the three checks of macAddressesFilter *)
(* and the dispatch of Network, seen from the far end.                     *)
DeliveredIsOurs ==
  \A e \in {"ARP", "IP"} : \A x \in Reached(e) :
    /\ x[1] = "L1"
    /\ pkts[x].type = e
    /\ pkts[x].src # OwnMac /\ pkts[x].dst \in {OwnMac, Broadcast}

(* Nothing captured is ever sent back; what is sent carries the header     *)
(* layer 2 owes it, of the type its protocol marked it with.               *)
SentIsStamped ==
  \A x \in Reached("wire") :
    /\ x[1] # "L1"
    /\ pkts[x].src = OwnMac /\ pkts[x].dst = Broadcast /\ pkts[x].type = "ARP"

-----------------------------------------------------------------------------
(* The table and its lock.                                                 *)

(* Main and ARP are never both inside the section that the semaphore of    *)
(* ARP protects, not even when ARP has died in it.                         *)
OneInSection ==
  ~ /\ pc["MAIN"] \in {"ask", "request", "release"}
    /\ pc["ARP"] \in {"handle", "release", "dead"}

(* A request goes out only for an address that is not in the table at that *)
(* very moment: containsKey and appendPacket are two steps of requestIP.   *)
RequestedIsUnknown ==
  [][made'["MAIN"] # made["MAIN"] => directions[asked] = NULL]_vars

Replies(ip) ==
  {i \in DOMAIN out["ARP"] :
     pkts[out["ARP"][i]].op = "reply" /\ pkts[out["ARP"][i]].spa = ip}

(* What the code does, as against TableRefreshed below: the table holds,   *)
(* for each address, what the first reply taken for it said, and nothing   *)
(* for the others.                                                         *)
FirstReplyStays ==
  \A ip \in IPs :
    IF Replies(ip) = {} THEN directions[ip] = NULL
    ELSE \E i \in Replies(ip) :
           /\ \A j \in Replies(ip) : i <= j
           /\ directions[ip] = pkts[out["ARP"][i]].sha

-----------------------------------------------------------------------------
(* Failures and shutdown.                                                  *)

(* Network, ARP and IP die of the null that poll returns when size counts  *)
(* more than the list holds, and that takes two overlapping calls on the   *)
(* thread's own list.                                                      *)
DeathNeedsRace == \A t \in {"L3", "ARP", "IP"} : pc[t] = "dead" => Raced(t)

Upward == {<<"L1", "L2">>, <<"L2", "L3">>, <<"L3", "ARP">>, <<"L3", "IP">>}

(* The threads stop from the bottom up: no thread that has finished is     *)
(* still being handed packets from below.                                  *)
NoAddToFinished ==
  \A u \in Upward : pc[u[2]] = "done" => Ready(u[1]) \/ op[u[1]].q # u[2]

(* Option 2 stops every thread, unless Network has died: then IP and ARP   *)
(* are not told.  A protocol that has died needs no telling.               *)
ShutdownCompletes ==
  finish["L1"] ~>
    /\ pc["L1"] = "done" /\ pc["L2"] = "done"
    /\ \/ pc["L3"] = "dead"
       \/ pc["L3"] = "done" /\ \A t \in {"ARP", "IP"} : pc[t] \in {"done", "dead"}

ReplyForUs(x, ip) ==
  /\ pkts[x] # NULL
  /\ pkts[x].type = "ARP" /\ pkts[x].op = "reply" /\ pkts[x].spa = ip
  /\ pkts[x].src # OwnMac /\ pkts[x].dst = OwnMac

(* A captured reply to this host is learnt, unless the program is told to  *)
(* finish, calls have raced, or Main has the lock of the table.            *)
ReplyLearnt ==
  \A n \in 1 .. MaxFrames, ip \in IPs :
    ReplyForUs(<<"L1", n>>, ip) ~>
      directions[ip] # NULL \/ finish["L1"] \/ raced # {} \/ Holds("MAIN")

-----------------------------------------------------------------------------
(* The inductive invariant behind OneInSection, RequestedIsUnknown and     *)
(* NoAddToFinished.                                                        *)

(* The lists hand around objects that have been created.                   *)
Created == {x \in Items : pkts[x] # NULL}
PointersMade == HoldOnly(Created)

(* Whoever is in the section is the first in the queue of the semaphore.   *)
LockInv ==
  /\ pc["MAIN"] \in {"ask", "request", "release"} => Holds("MAIN")
  /\ pc["ARP"] \in {"handle", "release", "dead"} => Holds("ARP")

(* What requestIP found in the table is still so when it sends.            *)
RequestInv ==
  /\ pc["MAIN"] \in {"acquire", "ask", "request"} => made["MAIN"] < MaxRequests
  /\ pc["MAIN"] = "request" => asked \in IPs /\ directions[asked] = NULL

(* A thread stops only when told, it is told only by one that has stopped, *)
(* and a layer that has stopped is in no call.                             *)
ShutdownInv ==
  /\ \A u \in Upward : finish[u[2]] => pc[u[1]] = "done"
  /\ \A t \in {"L2", "L3", "ARP", "IP"} : pc[t] = "done" => finish[t]
  /\ \A t \in {"L1", "L2", "L3"} : pc[t] = "done" => Ready(t)

IInv == TypeOK /\ PointersMade /\ LockInv /\ RequestInv /\ ShutdownInv

-----------------------------------------------------------------------------
(* The inductive invariant behind DeliveredIsOurs, SentIsStamped and       *)
(* FirstReplyStays.  The setters of SelfPacket are not synchronised: what  *)
(* a thread finds in a packet is what the one before it left there only    *)
(* because no packet is ever in two places.                                *)

(* The places from which a thread may still take a packet: the head of a   *)
(* list, unless its owner is taking it; the successor in each node; what   *)
(* the owner will make the head; and the packet a thread has taken or has  *)
(* not yet linked.  A packet lost in a race may be in none.                *)
Top(q)    == IF op[q].at \in {"unlink", "setFirst"} THEN NULL ELSE first[q]
Rest(q)   == IF op[q].at = "setFirst" THEN op[q].l ELSE NULL
InHand(t) == IF op[t].at \in {"readInc", "writeInc"} THEN NULL ELSE op[t].x

OnePlace ==
  /\ \A q \in Lists : Top(q) # NULL =>
       /\ \A r \in Lists : /\ Top(r) = Top(q) => r = q
                           /\ Rest(r) # Top(q)
                           /\ \A y \in Items : next[r][y] # Top(q)
       /\ \A t \in Threads : InHand(t) # Top(q)
  /\ \A q \in Lists : Rest(q) # NULL =>
       /\ \A r \in Lists : /\ Rest(r) = Rest(q) => r = q
                           /\ \A y \in Items : next[r][y] # Rest(q)
       /\ \A t \in Threads : InHand(t) # Rest(q)
  /\ \A q \in Lists, x \in Items : next[q][x] # NULL =>
       /\ \A r \in Lists, y \in Items : next[r][y] = next[q][x] => r = q /\ y = x
       /\ \A t \in Threads : InHand(t) # next[q][x]
  /\ \A t, u \in Threads : InHand(t) # NULL /\ InHand(t) = InHand(u) => t = u

(* Nothing but the packets of fit[q] is in list q, on its way there or in  *)
(* the hands of its owner.                                                 *)
InPlace(fit) ==
  /\ \A q \in Lists :
       /\ Top(q) \in fit[q] \cup {NULL} /\ Rest(q) \in fit[q] \cup {NULL}
       /\ \A x \in Items : next[q][x] \in fit[q] \cup {NULL}
  /\ \A t \in Threads :
       \/ InHand(t) = NULL
       \/ op[t].at \in {"setLast", "link"} /\ InHand(t) \in fit[op[t].q]
       \/ op[t].at \notin Adds /\ t \in Lists /\ InHand(t) \in fit[t]

OwnersPoll ==
  \A t \in Threads : op[t].at \notin Adds \cup {"idle"} => t \in Lists /\ op[t].q = t

(* What a packet is when it is on its way up or down in list q.            *)
Rising(q, x) ==
  /\ x[1] = "L1"
  /\ q \in {"L2", "L3"} => pkts[x].up /\ ~pkts[x].scanned
  /\ q # "L2" => macAddressesFilter(pkts[x])
  /\ q \in {"ARP", "IP"} => pkts[x].type = q

Falling(q, x) ==
  /\ x[1] = "MAIN"
  /\ pkts[x].scanned /\ pkts[x].fakeType = "ARP"
  /\ q = "L2" => ~pkts[x].up
  /\ q = "L1" => pkts[x] = Stamped(pkts[x])

Gone == Reached("ARP") \cup Reached("IP") \cup Reached("wire")

Fits ==
  [q \in Lists |->
     {x \in Created \ Gone :
        \/ q # "L1" /\ Rising(q, x)
        \/ q \in {"L1", "L2", "L3"} /\ Falling(q, x)}]

PathInv ==
  /\ OwnersPoll /\ OnePlace /\ InPlace(Fits)
  /\ Gone \subseteq Created
  /\ \A x \in Created : x[2] <= made[x[1]]
  /\ DeliveredIsOurs /\ SentIsStamped

-----------------------------------------------------------------------------
(* What DEBERINGOS.txt asks of the program and it does not do.             *)

(* Whoever asks for our address gets an answer: once ARP is through with   *)
(* its packets it has made a reply for every such request.                 *)
Questions == {x \in Reached("ARP") : pkts[x].op = "request" /\ pkts[x].tpa = OwnIP}
QuestionsAnswered ==
  pc["ARP"] = "loop" /\ Questions # {} => made["ARP"] # 0

(* "Hay que actualizar esta tabla cada cierto tiempo": when ARP is through *)
(* with its packets, the table holds what the last reply taken for an      *)
(* address said.                                                           *)
TableRefreshed ==
  \A ip \in IPs :
    pc["ARP"] = "loop" /\ Replies(ip) # {} =>
      \E i \in Replies(ip) :
        /\ \A j \in Replies(ip) : j <= i
        /\ directions[ip] = pkts[out["ARP"][i]].sha

(* ARP is not blocked for good while it has something to do.               *)
ArpNotBlocked == pc["ARP"] = "acquire" ~> pc["ARP"] # "acquire"

=============================================================================
