----------------------------- MODULE SharedList ------------------------------
(***************************************************************************)
(* One packet list under load: the owner runs the polling loop of a layer  *)
(* (Logical.run: poll when the list is not empty, ignore a null result)    *)
(* while its neighbours add packets with sendToUpperLayer,                 *)
(* sendToBottomLayer or appendPacket.  With Logical as the owner the       *)
(* producers are Physical and Network, each under a semaphore of its own.  *)
(***************************************************************************)
EXTENDS PacketList, Sequences, FiniteSets

CONSTANTS
  Producers,    (* the threads that add to the list                        *)
  Owner,        (* the thread that polls it                                *)
  MaxPerThread, (* bound: the packets each producer adds                   *)
  MaxPackets    (* bound: the packets all of them add                      *)

ASSUME SharedListAssumption ==
  /\ Owner \notin Producers
  /\ Threads = Producers \cup {Owner}
  /\ Lists = {Owner}
  /\ MaxPerThread \in Nat /\ MaxPackets \in Nat
  /\ Items = Producers \X (1 .. MaxPerThread)
ASSUME ProducersAssumption == IsFiniteSet(Producers)

VARIABLES
  sent,   (* how many packets each producer has begun to add               *)
  got     (* the packets the owner has taken out, in order                 *)

sharedVars == <<listVars, sent, got>>

Init ==
  /\ ListInit
  /\ sent = [p \in Producers |-> 0]
  /\ got = <<>>

Numbers(p) == {<<p, i>> : i \in 1 .. sent[p]}
Begun      == UNION {Numbers(p) : p \in Producers}

(* lock.acquire(); list.add(packet); lock.release(), the semaphore being   *)
(* the producer's own: it excludes nobody.                                 *)
Send(p) ==
  /\ Ready(p)
  /\ sent[p] < MaxPerThread /\ Cardinality(Begun) < MaxPackets
  /\ sent' = [sent EXCEPT ![p] = @ + 1]
  /\ CallAdd(p, Owner, <<p, sent[p] + 1>>)
  /\ UNCHANGED got

PollUnguarded ==   \* mutant: the loop does not ask isEmpty() first
  /\ Ready(Owner) /\ Result(Owner) = NULL
  /\ CallPoll(Owner, Owner)
  /\ UNCHANGED <<sent, got>>

PollPeek ==   \* mutant: looks at the first packet and leaves it there
  /\ Ready(Owner) /\ Result(Owner) = NULL
  /\ ~isEmpty(Owner)
  /\ op' = [op EXCEPT ![Owner] = Returned(first[Owner])]
  /\ Overlap(Owner, "poll")
  /\ UNCHANGED <<first, last, next, size, sent, got>>

PollClears ==   \* mutant: clears the list when it finds nothing in it
  /\ Ready(Owner) /\ Result(Owner) = NULL
  /\ ~isEmpty(Owner)
  /\ IF first[Owner] = NULL
     THEN /\ last' = [last EXCEPT ![Owner] = NULL]
          /\ UNCHANGED <<first, next, size, op, raced>>
     ELSE CallPoll(Owner, Owner)
  /\ UNCHANGED <<sent, got>>

(* The owner polls only when it has seen a non-zero size.                  *)
Poll ==
  /\ Ready(Owner) /\ Result(Owner) = NULL
  /\ ~isEmpty(Owner)
  /\ CallPoll(Owner, Owner)
  /\ UNCHANGED <<sent, got>>

TakeAgain ==   \* mutant: the packet is not dropped after it was handled
  /\ Ready(Owner) /\ Result(Owner) # NULL
  /\ got' = Append(got, Result(Owner))
  /\ UNCHANGED <<listVars, sent>>

(* The call has returned a packet; the owner goes on with it.              *)
Take ==
  /\ Ready(Owner) /\ Result(Owner) # NULL
  /\ got' = Append(got, Result(Owner))
  /\ Discard(Owner)
  /\ UNCHANGED sent

Step(t) == ListStep(t) /\ UNCHANGED <<sent, got>>

Next ==
  \/ \E p \in Producers : Send(p)
  \/ Poll
  \/ Take
  \/ \E t \in Threads : Step(t)

Spec == Init /\ [][Next]_sharedVars

-----------------------------------------------------------------------------
TypeOK ==
  /\ ListTypeOK
  /\ sent \in [Producers -> 0 .. MaxPerThread]
  /\ got \in Seq(Items)

(* LinkedList.size counts what add() and poll() did; read and written      *)
(* without a common lock it may come out too large or too small for good.  *)
(* A size that is too large is what poll() answers with null, which ends   *)
(* Network, ARP and IP; but it never becomes negative, which poll() would  *)
(* go on decreasing: only the owner ever writes a smaller size, and from   *)
(* the moment it has seen size # 0 to that write every value written or    *)
(* about to be written is at least 1.                                      *)
Adding  == {"idle", "setLast", "link", "readInc", "writeInc"}
Polling == {"idle", "unlink", "setFirst", "clearLast", "readDec", "writeDec"}
SizeBounds ==
  /\ \A p \in Producers :
       /\ op[p].at \in Adding
       /\ op[p].at = "writeInc" => op[p].s >= 0
  /\ op[Owner].at \in Polling
  /\ op[Owner].at # "idle" => size[Owner] >= 1
  /\ op[Owner].at = "writeDec" => op[Owner].s >= 1
  /\ size[Owner] >= 0
SizeInv == TypeOK /\ SizeBounds

(* The nodes reachable from the head.                                      *)
Reachable(q) ==
  LET walk[n \in 0 .. Cardinality(Items)] ==
        IF n = 0 THEN first[q]
        ELSE IF walk[n - 1] = NULL THEN NULL ELSE next[q][walk[n - 1]]
  IN {walk[n] : n \in 0 .. Cardinality(Items)} \ {NULL}

Unpolled == Begun \ ({got[i] : i \in DOMAIN got} \cup {Result(Owner)})

(* As long as no two calls have overlapped, the list is a queue: when no   *)
(* call is running its nodes are exactly the packets not yet polled, and   *)
(* size counts them.  Of a list on which calls have raced it says nothing. *)
ExactUntilRaced ==
  raced = {} /\ (\A t \in Threads : Ready(t)) =>
    /\ Reachable(Owner) = Unpolled
    /\ size[Owner] = Cardinality(Unpolled)

(* A racing add can leave last pointing into a chain that first no longer  *)
(* reaches.  Every later add then links to that chain and poll keeps       *)
(* finding first null: the list is dead.                                   *)
Wedged(q) ==
  /\ first[q] = NULL /\ last[q] # NULL
  /\ \A t \in Users(q) :
       op[t].at \in {"setLast", "link"} => op[t].l # NULL
  /\ \A t \in Users(q) :
       op[t].at \notin {"unlink", "setFirst", "clearLast"}

(* No later step of any thread brings a dead list back to life.            *)
WedgeIsForever == [][\A q \in Lists : Wedged(q) => Wedged(q)']_sharedVars

(* The semaphore acquired for sending (DEBERINGOS.txt:7) keeps two threads *)
(* from sending to the same layer at once.                                 *)
SendsExclude == \A p, q \in Producers : p # q => Ready(p) \/ Ready(q)

(* No packet comes out twice, however the calls interleave; and what one   *)
(* producer adds comes out in the order in which it was added, however its *)
(* adds race with polls, until two producers have added at once.           *)
Link == INSTANCE LossyLink WITH
          Senders <- Producers, accepted <- sent, delivered <- got,
          ordered <- ~Crossed(Owner)
EachProducerInOrder == Link!LinkSpec

=============================================================================
