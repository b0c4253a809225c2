------------------------------ MODULE Protocols ------------------------------
(***************************************************************************)
(* The threads above layer 3: Arp.run and Ip.run, and Main with            *)
(* Arp.requestIP, which runs in Main's thread on the object of ARP and     *)
(* shares its semaphore and its table.                                     *)
(***************************************************************************)
EXTENDS Layer

(* Semaphore(1, true): whoever comes first gets the permit first.          *)
Acquire(t) == lockQ' = Append(lockQ, t)
Holds(t)   == lockQ # <<>> /\ Head(lockQ) = t
Release    == lockQ' = Tail(lockQ)

-----------------------------------------------------------------------------
(* Arp.run                                                                 *)

ArpAcquire ==
  /\ At("ARP", "loop") /\ ~finish["ARP"] /\ ~isEmpty("ARP")
  /\ Acquire("ARP")
  /\ Goto("ARP", "acquire")
  /\ UNCHANGED <<listVars, finish, pkts, made, directions, asked, out>>

PollArp ==
  /\ At("ARP", "acquire") /\ Holds("ARP")
  /\ CallPoll("ARP", "ARP")
  /\ Goto("ARP", "handle")
  /\ UNCHANGED <<finish, pkts, made, protoVars, out>>

(* a == new byte[]{...}: == compares references, and the array on the      *)
(* right has just been created.                                            *)
SameReferenceAsNew(bytes) == FALSE

arpReply(p) == Built("reply", p.fakeMac, p.tpa, p.sha, p.spa)

Reply(p) ==
  /\ SameReferenceAsNew(p.tha) /\ p.op = "request"
  /\ Make("ARP", arpReply(p))
  /\ SendTo("ARP", "L3", Latest("ARP"))
  /\ UNCHANGED directions

(* The first answer for an address stays in the table for good: the branch *)
(* that would put a later one is commented out.                            *)
Learn(p) ==
  /\ p.op = "reply"
  /\ directions' = IF directions[p.spa] = NULL
                   THEN [directions EXCEPT ![p.spa] = p.sha] ELSE directions
  /\ Discard("ARP")
  /\ UNCHANGED <<pkts, made>>

Ignore(p) ==
  /\ p.op = "request" => ~SameReferenceAsNew(p.tha)
  /\ p.op # "reply"
  /\ Discard("ARP")
  /\ UNCHANGED <<pkts, made, directions>>

(* The cast to ARPPacket succeeds: jpcap chooses the class of a packet by  *)
(* the frame type by which Network has dispatched it.                      *)
HandleArp ==
  /\ At("ARP", "handle") /\ Result("ARP") # NULL
  /\ LET p == pkts[Result("ARP")] IN Reply(p) \/ Learn(p) \/ Ignore(p)
  /\ Record("ARP", Result("ARP"))
  /\ Goto("ARP", "release")
  /\ UNCHANGED <<finish, lockQ, asked>>

(* p.getPacket() of a null p: the thread ends and keeps the permit.        *)
ArpDies ==
  /\ At("ARP", "handle") /\ Result("ARP") = NULL
  /\ Goto("ARP", "dead")
  /\ UNCHANGED <<listVars, finish, pkts, made, protoVars, out>>

ArpRelease ==
  /\ At("ARP", "release")
  /\ Release
  /\ Goto("ARP", "loop")
  /\ UNCHANGED <<listVars, finish, pkts, made, directions, asked, out>>

ArpFinish ==
  /\ At("ARP", "loop") /\ finish["ARP"]
  /\ Goto("ARP", "done")
  /\ UNCHANGED <<listVars, finish, pkts, made, protoVars, out>>

ArpNext ==
  ArpAcquire \/ PollArp \/ HandleArp \/ ArpDies \/ ArpRelease \/ ArpFinish \/ InCall("ARP")

-----------------------------------------------------------------------------
(* Ip.run: polls and does nothing with the packet.  Its semaphore is taken *)
(* by no other thread.                                                     *)

PollIp ==
  /\ At("IP", "loop") /\ ~finish["IP"]
  /\ PollOwn("IP")
  /\ Goto("IP", "handle")
  /\ UNCHANGED <<finish, pkts, made, protoVars, out>>

HandleIpAgain ==   \* mutant: the packet handled stays in hand
  /\ At("IP", "handle") /\ Result("IP") # NULL
  /\ Record("IP", Result("IP"))
  /\ UNCHANGED <<listVars, pc, finish, pkts, made, protoVars>>

HandleIp ==
  /\ At("IP", "handle") /\ Result("IP") # NULL
  /\ Record("IP", Result("IP"))
  /\ Discard("IP")
  /\ Goto("IP", "loop")
  /\ UNCHANGED <<finish, pkts, made, protoVars>>

IpDies ==
  /\ At("IP", "handle") /\ Result("IP") = NULL
  /\ Goto("IP", "dead")
  /\ UNCHANGED <<listVars, finish, pkts, made, protoVars, out>>

IpFinish ==
  /\ At("IP", "loop") /\ finish["IP"]
  /\ Goto("IP", "done")
  /\ UNCHANGED <<listVars, finish, pkts, made, protoVars, out>>

IpNext == PollIp \/ HandleIp \/ IpDies \/ IpFinish \/ InCall("IP")

-----------------------------------------------------------------------------
(* Main.menu and Arp.requestIP                                             *)

(* Option 1.  The bound keeps a request that could not be built from being *)
(* begun.                                                                  *)
ChooseCheck ==
  /\ At("MAIN", "menu")
  /\ made["MAIN"] < MaxRequests /\ Begun < MaxPackets
  /\ Acquire("MAIN")
  /\ Goto("MAIN", "acquire")
  /\ UNCHANGED <<listVars, finish, pkts, made, directions, asked, out>>

BeginRequestUnlocked ==   \* mutant: does not wait for the permit
  /\ At("MAIN", "acquire")
  /\ Goto("MAIN", "ask")
  /\ UNCHANGED <<listVars, finish, pkts, made, protoVars, out>>

BeginRequest ==
  /\ At("MAIN", "acquire") /\ Holds("MAIN")
  /\ Goto("MAIN", "ask")
  /\ UNCHANGED <<listVars, finish, pkts, made, protoVars, out>>

TypeAnyIP(ip) ==   \* mutant: no look into the table
  /\ At("MAIN", "ask")
  /\ asked' = ip
  /\ Goto("MAIN", "request")
  /\ UNCHANGED <<listVars, finish, pkts, made, lockQ, directions, out>>

(* The user types a valid address, under the lock; on an invalid one the   *)
(* question is repeated.  Then the lookup.                                 *)
TypeIP(ip) ==
  /\ At("MAIN", "ask")
  /\ asked' = ip
  /\ Goto("MAIN", IF directions[ip] = NULL THEN "request" ELSE "release")
  /\ UNCHANGED <<listVars, finish, pkts, made, lockQ, directions, out>>

arpRequestUnsigned(ip) ==   \* mutant: sender_hardaddr is not set
  Built("request", NULL, OwnIP, ZeroMac, ip)
arpRequest(ip) == Built("request", OwnMac, OwnIP, ZeroMac, ip)

SendRequest ==
  /\ At("MAIN", "request")
  /\ Make("MAIN", arpRequest(asked))
  /\ SendTo("MAIN", "L3", Latest("MAIN"))
  /\ Goto("MAIN", "release")
  /\ UNCHANGED <<finish, protoVars, out>>

EndRequest ==
  /\ At("MAIN", "release")
  /\ Release
  /\ asked' = NULL
  /\ Goto("MAIN", "menu")
  /\ UNCHANGED <<listVars, finish, pkts, made, directions, out>>

(* Option 2: menu returns and main tells layer 1 to finish.                *)
Exit ==
  /\ At("MAIN", "menu")
  /\ Stop({"L1"})
  /\ Goto("MAIN", "done")
  /\ UNCHANGED <<listVars, pkts, made, protoVars, out>>

(* A word instead of a number at the menu, or the end of the input at      *)
(* either prompt: Scanner throws, main catches the exception after the     *)
(* call of setFinish, and requestIP does not release the lock.             *)
InputFails ==
  /\ At("MAIN", "menu") \/ At("MAIN", "ask")
  /\ Goto("MAIN", "aborted")
  /\ UNCHANGED <<listVars, finish, pkts, made, protoVars, out>>

UserNext == ChooseCheck \/ (\E ip \in IPs : TypeIP(ip)) \/ Exit \/ InputFails
MainNext == BeginRequest \/ SendRequest \/ EndRequest \/ InCall("MAIN")
=============================================================================
