-------------------------- MODULE SharedListProofs ---------------------------
(***************************************************************************)
(* Theorems about one packet list with any number of producers, each       *)
(* adding any number of packets, whatever the interleaving: the size never *)
(* falls below zero; the list implements the lossy link, no packet comes   *)
(* out twice and what a producer adds comes out in order until two         *)
(* producers add at once; and a wedged list stays wedged.                  *)
(***************************************************************************)
EXTENDS SharedList, PacketListProofs, FiniteSetTheorems, WellFoundedInduction

(* The list is empty and idle at first.                                    *)
LEMMA InitSizeInv == Init => SizeInv
<1> SUFFICES ASSUME Init PROVE SizeInv
  OBVIOUS
<1> USE ListAssumption, SharedListAssumption
<1>1. ListTypeOK
  <2>1. Returned(NULL) \in Call /\ Returned(NULL).at = "idle"
    BY ReturnedIsCall DEF Refs
  <2> QED
    BY <2>1 DEF Init, ListInit, ListTypeOK, Refs
<1>2. TypeOK
  BY <1>1 DEF Init, TypeOK
<1>3. \A t \in Threads : op[t].at = "idle"
  BY DEF Init, ListInit, Returned
<1>4. size[Owner] = 0
  BY DEF Init, ListInit
<1> QED
  BY <1>2, <1>3, <1>4 DEF SizeInv, SizeBounds, Adding, Polling

(* Types: what a step of the closed system may do to them.                 *)
LEMMA NextType ==
  ASSUME TypeOK, [Next]_sharedVars
  PROVE  TypeOK'
<1> USE ListAssumption, SharedListAssumption DEF TypeOK
<1>1. ASSUME NEW p \in Producers, Send(p) PROVE TypeOK'
  <2>1. <<p, sent[p] + 1>> \in Items /\ sent[p] + 1 \in 0 .. MaxPerThread
    BY <1>1 DEF Send
  <2>2. ListTypeOK'
    BY <1>1, <2>1, CallAddType DEF Send
  <2> QED
    BY <1>1, <2>1, <2>2 DEF Send
<1>2. CASE Poll
  BY <1>2, CallPollType DEF Poll
<1>3. CASE Take
  <2>1. Result(Owner) \in Items
    BY <1>3 DEF Take, Result, ListTypeOK, Call, Refs
  <2>2. ListTypeOK'
    BY <1>3, DiscardType DEF Take
  <2> QED
    BY <1>3, <2>1, <2>2 DEF Take
<1>4. ASSUME NEW t \in Threads, Step(t) PROVE TypeOK'
  BY <1>4, ListStepType DEF Step
<1>5. CASE UNCHANGED sharedVars
  BY <1>5 DEF sharedVars, listVars, ListTypeOK
<1> QED
  BY <1>1, <1>2, <1>3, <1>4, <1>5 DEF Next

(* One access of a call in progress keeps the bounds on size.              *)
LEMMA StepSizeBounds ==
  ASSUME SizeInv, NEW t \in Threads, ListStep(t)
  PROVE  SizeBounds'
<1> USE ListAssumption, SharedListAssumption
<1>0. /\ op \in [Threads -> Call] /\ size \in [Lists -> Int]
      /\ size[Owner] \in Int /\ op[t].s \in Int /\ op[Owner].s \in Int
      /\ \A p \in Producers : op[p].s \in Int
      /\ op[t].at # "idle" => op[t].q = Owner
  BY DEF SizeInv, TypeOK, ListTypeOK, Call
<1>1. CASE AddSetLast(t) \/ AddLink(t)
  <2>1. t \in Producers
    BY <1>1 DEF SizeInv, SizeBounds, AddSetLast, AddLink, Polling
  <2>2. PICK stage \in {"link", "readInc"} : Advance(t, stage)
    BY <1>1 DEF AddSetLast, AddLink
  <2>3. UNCHANGED size
    BY <1>1 DEF AddSetLast, AddLink
  <2> QED
    BY <1>0, <2>1, <2>2, <2>3 DEF Advance, SizeInv, SizeBounds, Adding
<1>2. CASE AddReadSize(t)
  BY <1>0, <1>2 DEF SizeInv, SizeBounds, AddReadSize, Adding, Polling
<1>3. CASE AddWriteSize(t)
  <2>1. t \in Producers /\ op[t].s >= 0
    BY <1>3 DEF SizeInv, SizeBounds, AddWriteSize, Polling
  <2>2. size'[Owner] = op[t].s + 1
    BY <1>0, <1>3 DEF AddWriteSize
  <2>3. \A u \in Threads \ {t} : op'[u] = op[u]
    BY <1>0, <1>3 DEF AddWriteSize
  <2>4. op'[t].at = "idle"
    BY <1>0, <1>3 DEF AddWriteSize, Returned
  <2> QED
    BY <1>0, <2>1, <2>2, <2>3, <2>4 DEF SizeInv, SizeBounds, Adding, Polling
<1>4. CASE PollUnlink(t) \/ PollSetFirst(t) \/ PollClearLast(t)
  <2>1. t = Owner /\ op[t].at # "idle"
    BY <1>4 DEF SizeInv, SizeBounds, PollUnlink, PollSetFirst, PollClearLast, Adding
  <2>2. PICK stage \in {"setFirst", "clearLast", "readDec"} : op'[t].at = stage
    <3>1. CASE PollUnlink(t)
      BY <1>0, <3>1 DEF PollUnlink
    <3>2. CASE PollSetFirst(t)
      BY <1>0, <3>2 DEF PollSetFirst, Advance
    <3>3. CASE PollClearLast(t)
      BY <1>0, <3>3 DEF PollClearLast, Advance
    <3> QED
      BY <1>4, <3>1, <3>2, <3>3
  <2>3. UNCHANGED size /\ \A p \in Producers : op'[p] = op[p]
    BY <1>0, <1>4, <2>1 DEF PollUnlink, PollSetFirst, PollClearLast, Advance
  <2> QED
    BY <1>0, <2>1, <2>2, <2>3 DEF SizeInv, SizeBounds, Polling
<1>5. CASE PollReadSize(t)
  BY <1>0, <1>5 DEF SizeInv, SizeBounds, PollReadSize, Adding, Polling
<1>6. CASE PollWriteSize(t)
  <2>1. t = Owner /\ op[t].s >= 1
    BY <1>6 DEF SizeInv, SizeBounds, PollWriteSize, Adding
  <2>2. size'[Owner] = op[t].s - 1
    BY <1>0, <1>6 DEF PollWriteSize
  <2>3. \A p \in Producers : op'[p] = op[p]
    BY <1>0, <1>6, <2>1 DEF PollWriteSize
  <2>4. op'[t].at = "idle"
    BY <1>0, <1>6 DEF PollWriteSize, Returned
  <2> QED
    BY <1>0, <2>1, <2>2, <2>3, <2>4 DEF SizeInv, SizeBounds, Adding, Polling
<1> QED
  BY <1>1, <1>2, <1>3, <1>4, <1>5, <1>6 DEF ListStep

(* While the owner polls, no step takes the size below 1.                  *)
LEMMA NextSizeBounds ==
  ASSUME SizeInv, [Next]_sharedVars
  PROVE  SizeBounds'
<1> USE ListAssumption, SharedListAssumption
<1>0. op \in [Threads -> Call] /\ size[Owner] \in Int
  BY DEF SizeInv, TypeOK, ListTypeOK
<1>1. ASSUME NEW p \in Producers, Send(p) PROVE SizeBounds'
  BY <1>0, <1>1 DEF SizeInv, SizeBounds, Send, CallAdd, Adding, Polling
<1>2. CASE Poll
  <2>1. size[Owner] >= 1
    BY <1>0, <1>2 DEF Poll, isEmpty, SizeInv, SizeBounds
  <2>2. /\ \A p \in Producers : op'[p] = op[p]
        /\ op'[Owner].at \in {"idle", "unlink"}
    BY <1>0, <1>2 DEF Poll, CallPoll, Returned
  <2> QED
    BY <1>2, <2>1, <2>2 DEF Poll, CallPoll, SizeInv, SizeBounds, Polling
<1>3. CASE Take
  BY <1>0, <1>3 DEF SizeInv, SizeBounds, Take, Discard, Returned, Polling
<1>4. ASSUME NEW t \in Threads, Step(t) PROVE SizeBounds'
  BY <1>4, StepSizeBounds DEF Step
<1>5. CASE UNCHANGED sharedVars
  BY <1>5 DEF sharedVars, listVars, SizeInv, SizeBounds
<1> QED
  BY <1>1, <1>2, <1>3, <1>4, <1>5 DEF Next

(* The types hold in every reachable state.                                *)
THEOREM TypeCorrect == Spec => []TypeOK
<1>1. Init => TypeOK
  BY InitSizeInv DEF SizeInv
<1>2. TypeOK /\ [Next]_sharedVars => TypeOK'
  BY NextType
<1> QED
  BY <1>1, <1>2, PTL DEF Spec

(* SizeInv is inductive.                                                   *)
THEOREM SizeInvariance == Spec => []SizeInv
<1>1. SizeInv /\ [Next]_sharedVars => SizeInv'
  BY NextType, NextSizeBounds DEF SizeInv
<1> QED
  BY <1>1, InitSizeInv, PTL DEF Spec

-----------------------------------------------------------------------------
(* What the references of the list are, as values: f is the head, n the    *)
(* successors, lo what poll will make the head, h the node it is taking    *)
(* out, Li the packets that have been linked, Po those taken out.          *)

(* At most one reference leads to a packet, none to one that is not yet in *)
(* the list or has been taken out.                                         *)
Unique(f, n, lo, h, Li, Po) ==
  /\ \A y, z \in Items : n[y] = n[z] /\ n[y] # NULL => y = z
  /\ f # NULL  => \A y \in Items : n[y] # f
  /\ lo # NULL => lo # f /\ \A y \in Items : n[y] # lo
  /\ h # NULL  => h # lo /\ \A y \in Items : n[y] # h
  /\ \A y \in Items : n[y] \in (Li \ Po) \cup {NULL}
  /\ f \in (Li \ Po) \cup {NULL} /\ lo \in (Li \ Po) \cup {NULL} /\ h \in (Li \ Po) \cup {NULL}
  /\ Po \subseteq Li /\ Li \subseteq Items

(* References lead from packets that were added earlier, by the rank r, to *)
(* packets that were added later.                                          *)
Ranked(r, f, n, lo, h, Po) ==
  /\ \A y \in Items : n[y] # NULL => r[y] < r[n[y]]
  /\ h # NULL /\ lo # NULL => r[h] < r[lo]
  /\ h # NULL /\ f # NULL /\ f # h => r[h] < r[f]
  /\ \A g \in Po : /\ f # NULL  => r[g] < r[f]
                   /\ lo # NULL => r[g] < r[lo]
                   /\ h # NULL  => r[g] < r[h]


(* Making a new packet the head of the list.                               *)
LEMMA LinkFirst ==
  ASSUME NEW f, NEW n, NEW lo, NEW h, NEW Li, NEW Po, Unique(f, n, lo, h, Li, Po),
         NEW x \in Items, x \notin Li
  PROVE  Unique(x, n, lo, h, Li \cup {x}, Po)
BY ListAssumption DEF Unique

(* Linking a new packet behind another one.                                *)
LEMMA LinkBehind ==
  ASSUME NEW f, NEW n \in [Items -> Refs], NEW lo, NEW h, NEW Li, NEW Po,
         Unique(f, n, lo, h, Li, Po), NEW x \in Items, x \notin Li, NEW l \in Items
  PROVE  Unique(f, [n EXCEPT ![l] = x], lo, h, Li \cup {x}, Po)
<1> DEFINE m == [n EXCEPT ![l] = x]
<1>1. \A y \in Items : m[y] = IF y = l THEN x ELSE n[y]
  OBVIOUS
<1> HIDE DEF m
<1>2. Unique(f, m, lo, h, Li \cup {x}, Po)
  BY <1>1, ListAssumption DEF Unique
<1> QED BY <1>2 DEF m

(* A poll reads the head: f is now in hand.                                *)
LEMMA TakeHead ==
  ASSUME NEW f, NEW n, NEW Li, NEW Po, Unique(f, n, NULL, NULL, Li, Po)
  PROVE  Unique(f, n, NULL, f, Li, Po)
BY DEF Unique

(* A poll takes the successor of the packet in hand and clears it.         *)
LEMMA Unlink ==
  ASSUME NEW f, NEW n \in [Items -> Refs], NEW h \in Items, NEW Li, NEW Po,
         Unique(f, n, NULL, h, Li, Po)
  PROVE  Unique(f, [n EXCEPT ![h] = NULL], n[h], h, Li, Po)
<1> DEFINE m == [n EXCEPT ![h] = NULL]
<1>1. \A y \in Items : m[y] = IF y = h THEN NULL ELSE n[y]
  OBVIOUS
<1> HIDE DEF m
<1>2. Unique(f, m, n[h], h, Li, Po)
  BY <1>1, ListAssumption DEF Unique
<1> QED BY <1>2 DEF m

(* A poll makes that successor the head: the packet is out.                *)
LEMMA SetHead ==
  ASSUME NEW f, NEW n, NEW lo, NEW h \in Items, NEW Li, NEW Po, Unique(f, n, lo, h, Li, Po)
  PROVE  Unique(lo, n, NULL, NULL, Li, Po \cup {h})
BY ListAssumption DEF Unique

(* The same five changes for the ranks: a packet that ranks above all      *)
(* others becomes the head.                                                *)
LEMMA LinkFirstRanked ==
  ASSUME NEW r \in [Items -> Int], NEW f, NEW n, NEW lo, NEW h, NEW Li, NEW Po,
         Unique(f, n, lo, h, Li, Po), Ranked(r, f, n, lo, h, Po),
         NEW x \in Items, x \notin Li, \A y \in Li : r[y] < r[x]
  PROVE  Ranked(r, x, n, lo, h, Po)
BY ListAssumption DEF Unique, Ranked

(* A packet is linked behind one that ranks below it.                      *)
LEMMA LinkBehindRanked ==
  ASSUME NEW r \in [Items -> Int], NEW f, NEW n \in [Items -> Refs], NEW lo, NEW h,
         NEW Po, Ranked(r, f, n, lo, h, Po),
         NEW x \in Items, NEW l \in Items, r[l] < r[x]
  PROVE  Ranked(r, f, [n EXCEPT ![l] = x], lo, h, Po)
<1> DEFINE m == [n EXCEPT ![l] = x]
<1>1. \A y \in Items : m[y] = IF y = l THEN x ELSE n[y]
  OBVIOUS
<1> HIDE DEF m
<1>2. Ranked(r, f, m, lo, h, Po)
  BY <1>1 DEF Ranked
<1> QED BY <1>2 DEF m

(* The head is read.                                                       *)
LEMMA TakeHeadRanked ==
  ASSUME NEW r, NEW f, NEW n, NEW Po, Ranked(r, f, n, NULL, NULL, Po)
  PROVE  Ranked(r, f, n, NULL, f, Po)
BY DEF Ranked

(* The successor of the packet in hand is taken and cleared.               *)
LEMMA UnlinkRanked ==
  ASSUME NEW r \in [Items -> Int], NEW f, NEW n \in [Items -> Refs], NEW h \in Items,
         NEW Po, Po \subseteq Items, Ranked(r, f, n, NULL, h, Po)
  PROVE  Ranked(r, f, [n EXCEPT ![h] = NULL], n[h], h, Po)
<1> DEFINE m == [n EXCEPT ![h] = NULL]
<1>1. \A y \in Items : m[y] = IF y = h THEN NULL ELSE n[y]
  OBVIOUS
<1>2. n[h] # NULL => n[h] \in Items /\ r[h] < r[n[h]] /\ r[n[h]] \in Int
  BY DEF Ranked, Refs
<1>3. h # NULL
  BY ListAssumption
<1>4. \A g \in Po : r[g] \in Int /\ r[g] < r[h] /\ r[h] \in Int
  BY <1>3 DEF Ranked
<1>5. \A g \in Po : n[h] # NULL => r[g] < r[n[h]]
  BY <1>2, <1>4
<1> HIDE DEF m
<1>6. Ranked(r, f, m, n[h], h, Po)
  BY <1>1, <1>2, <1>3, <1>5 DEF Ranked
<1> QED BY <1>6 DEF m

(* The successor becomes the head.                                         *)
LEMMA SetHeadRanked ==
  ASSUME NEW r, NEW f, NEW n, NEW lo, NEW h \in Items, NEW Po, Ranked(r, f, n, lo, h, Po)
  PROVE  Ranked(r, lo, n, NULL, NULL, Po \cup {h})
BY ListAssumption DEF Ranked

-----------------------------------------------------------------------------
(* The state of a shared list in these terms.                              *)

Pending == {op[p].x : p \in {s \in Producers : op[s].at \in {"setLast", "link"}}}
Linked  == Begun \ Pending
Ahead   == IF op[Owner].at = "setFirst" THEN op[Owner].l ELSE NULL
InHand  == IF op[Owner].at \in {"unlink", "setFirst"} THEN op[Owner].x ELSE NULL
Out     == IF op[Owner].at \in {"unlink", "setFirst"} THEN NULL ELSE op[Owner].x
Old     == {got[i] : i \in DOMAIN got}
Polled  == Old \cup ({Out} \ {NULL})

UniqueInv ==
  /\ Unique(first[Owner], next[Owner], Ahead, InHand, Linked, Polled)
  /\ Out \notin Old

AddInv ==
  \A p \in Producers :
    op[p].at # "idle" => sent[p] >= 1 /\ op[p].x = <<p, sent[p]>>

BegunInv ==
  /\ last[Owner] \in Begun \cup {NULL}
  /\ \A y \in Items : next[Owner][y] # NULL => y \in Begun
  /\ \A p \in Producers : op[p].at \in {"setLast", "link"} =>
       op[p].l \in (Begun \ {op[p].x}) \cup {NULL}

(* A rank of the packets, below k, in which everything is in order: what   *)
(* is being added comes last, what was taken out before what was taken     *)
(* last, and both before what is still in the list.                        *)
InOrder(r, k) ==
  /\ \A x \in Begun : r[x] < k
  /\ \A p \in Producers : \A i, j \in 1 .. sent[p] : i < j => r[<<p, i>>] < r[<<p, j>>]
  /\ \A p \in Producers : op[p].at # "idle" =>
       \A y \in Begun : y # op[p].x => r[y] < r[op[p].x]
  /\ Ranked(r, first[Owner], next[Owner], Ahead, InHand, Polled)
  /\ Out # NULL => \A g \in Old : r[g] < r[Out]

OneAdder ==
  \A p, s \in Producers : p # s => op[p].at = "idle" \/ op[s].at = "idle"

OrderInv ==
  ~Crossed(Owner) => OneAdder /\ \E r \in [Items -> Int], k \in Int : InOrder(r, k)

LinkInv == UniqueInv /\ AddInv /\ BegunInv /\ OrderInv
QueueInv == SizeInv /\ LinkInv

-----------------------------------------------------------------------------
(* The packets that producers have begun to add.                           *)
LEMMA BegunFacts ==
  ASSUME TypeOK
  PROVE  /\ Begun \subseteq Items /\ Pending \subseteq Items \cup {NULL}
         /\ \A p \in Producers : \A i \in Int : <<p, i>> \in Begun <=> i \in 1 .. sent[p]
<1> USE SharedListAssumption
<1>1. \A p \in Producers : sent[p] \in 0 .. MaxPerThread
  BY DEF TypeOK
<1>2. Begun \subseteq Items
  BY <1>1 DEF Begun, Numbers
<1>3. Pending \subseteq Items \cup {NULL}
  BY DEF Pending, TypeOK, ListTypeOK, Call, Refs
<1>4. \A p \in Producers : \A i \in Int : <<p, i>> \in Begun <=> i \in 1 .. sent[p]
  BY DEF Begun, Numbers
<1> QED BY <1>2, <1>3, <1>4

(* A step of the owner keeps the invariant if it keeps the references in   *)
(* order; it clears some of them, but makes none to a packet that was not  *)
(* in the list.                                                            *)
LEMMA OwnerKeeps ==
  ASSUME LinkInv, sent' = sent, \A p \in Producers : op'[p] = op[p],
         Crossed(Owner) => Crossed(Owner)',
         Unique(first'[Owner], next'[Owner], Ahead', InHand', Linked, Polled'),
         Out' \notin Old',
         last'[Owner] \in {last[Owner], NULL},
         \A y \in Items : next'[Owner][y] \in {next[Owner][y], NULL},
         \A r \in [Items -> Int] :
           /\ Ranked(r, first[Owner], next[Owner], Ahead, InHand, Polled)
           /\ Out # NULL => \A g \in Old : r[g] < r[Out]
           => /\ Ranked(r, first'[Owner], next'[Owner], Ahead', InHand', Polled')
              /\ Out' # NULL => \A g \in Old' : r[g] < r[Out']
  PROVE  LinkInv'
<1>1. Begun' = Begun /\ Linked' = Linked
  <2>1. Begun' = Begun
    BY DEF Begun, Numbers
  <2>2. Pending' = Pending
    BY DEF Pending
  <2> QED BY <2>1, <2>2 DEF Linked
<1>2. UniqueInv'
  BY <1>1 DEF UniqueInv
<1>3. AddInv'
  BY DEF LinkInv, AddInv
<1>4. BegunInv'
  BY <1>1 DEF LinkInv, BegunInv
<1>5. OrderInv'
  <2> SUFFICES ASSUME ~Crossed(Owner)'
               PROVE  OneAdder' /\ \E r \in [Items -> Int], k \in Int : InOrder(r, k)'
    BY DEF OrderInv
  <2>1. OneAdder'
    BY DEF LinkInv, OrderInv, OneAdder
  <2>2. PICK r \in [Items -> Int], k \in Int : InOrder(r, k)
    BY DEF LinkInv, OrderInv
  <2>3. /\ Ranked(r, first'[Owner], next'[Owner], Ahead', InHand', Polled')
        /\ Out' # NULL => \A g \in Old' : r[g] < r[Out']
    BY <2>2 DEF InOrder
  <2>4. InOrder(r, k)'
    BY <1>1, <2>2, <2>3 DEF InOrder
  <2> QED BY <2>1, <2>4
<1> QED BY <1>2, <1>3, <1>4, <1>5 DEF LinkInv

(* So does a step inside an add.                                           *)
LEMMA ProducerKeeps ==
  ASSUME LinkInv, SizeInv, NEW p \in Producers, sent' = sent, got' = got, raced' = raced,
         \A t \in Threads \ {p} : op'[t] = op[t],
         op[p].at # "idle", op'[p].at # "idle" => op'[p].x = op[p].x,
         BegunInv',
         Unique(first'[Owner], next'[Owner], Ahead, InHand, Linked', Polled),
         \A r \in [Items -> Int], k \in Int :
           InOrder(r, k) =>
             Ranked(r, first'[Owner], next'[Owner], Ahead, InHand, Polled)
  PROVE  LinkInv'
<1> USE SharedListAssumption
<1>1. op'[Owner] = op[Owner]
  OBVIOUS
<1>2. Begun' = Begun /\ Ahead' = Ahead /\ InHand' = InHand /\ Polled' = Polled
      /\ Out' = Out /\ Old' = Old
  BY <1>1 DEF Begun, Numbers, Ahead, InHand, Out, Old, Polled
<1>3. UniqueInv'
  BY <1>2 DEF LinkInv, UniqueInv
<1>4. \A s \in Producers : op'[s].at # "idle" => op[s].at # "idle" /\ op'[s].x = op[s].x
  OBVIOUS
<1>5. AddInv'
  BY <1>4 DEF LinkInv, AddInv
<1>6. OrderInv'
  <2> SUFFICES ASSUME ~Crossed(Owner)
               PROVE  OneAdder' /\ \E r \in [Items -> Int], k \in Int : InOrder(r, k)'
    BY DEF OrderInv, Crossed
  <2>1. OneAdder'
    BY <1>4 DEF LinkInv, OrderInv, OneAdder
  <2>2. PICK r \in [Items -> Int], k \in Int : InOrder(r, k)
    BY DEF LinkInv, OrderInv
  <2>3. Ranked(r, first'[Owner], next'[Owner], Ahead, InHand, Polled)
    BY <2>2
  <2>4. InOrder(r, k)'
    BY <1>2, <1>4, <2>2, <2>3 DEF InOrder
  <2> QED BY <2>1, <2>4
<1> QED BY <1>3, <1>5, <1>6 DEF LinkInv

-----------------------------------------------------------------------------
(* The owner begins a poll.                                                *)
LEMMA PollKeeps ==
  ASSUME SizeInv, LinkInv, Poll
  PROVE  LinkInv'
<1> USE ListAssumption, SharedListAssumption
<1>1. /\ op \in [Threads -> Call] /\ Owner \in Threads /\ Owner \in Lists
      /\ op[Owner].at = "idle" /\ op[Owner].x = NULL
      /\ UNCHANGED <<sent, got, first, last, next>>
      /\ CallPoll(Owner, Owner)
  BY DEF Poll, CallPoll, Ready, Result, SizeInv, TypeOK, ListTypeOK
<1>2. Ahead = NULL /\ InHand = NULL /\ Out = NULL /\ Polled = Old /\ Old' = Old
  BY <1>1 DEF Ahead, InHand, Out, Polled, Old
<1>3. \A p \in Producers : op'[p] = op[p]
  BY <1>1 DEF CallPoll
<1>4. Crossed(Owner) => Crossed(Owner)'
  BY <1>1 DEF CallPoll, Overlap, Crossed
<1>5. NULL \notin Old
  BY <1>2 DEF LinkInv, UniqueInv
<1>6. CASE first[Owner] = NULL
  <2>1. op'[Owner] = Returned(NULL)
    BY <1>1, <1>6 DEF CallPoll
  <2>2. Ahead' = NULL /\ InHand' = NULL /\ Out' = NULL /\ Polled' = Old
    BY <1>2, <2>1 DEF Ahead, InHand, Out, Polled, Returned
  <2>3. Unique(first'[Owner], next'[Owner], Ahead', InHand', Linked, Polled')
    BY <1>1, <1>2, <2>2 DEF LinkInv, UniqueInv
  <2> QED BY <1>1, <1>2, <1>3, <1>4, <1>5, <2>2, <2>3, OwnerKeeps
<1>7. CASE first[Owner] # NULL
  <2>1. op'[Owner] = [at |-> "unlink", q |-> Owner, x |-> first[Owner], l |-> NULL, s |-> 0]
    BY <1>1, <1>7 DEF CallPoll
  <2>2. Ahead' = NULL /\ InHand' = first[Owner] /\ Out' = NULL /\ Polled' = Old
    BY <1>2, <2>1 DEF Ahead, InHand, Out, Polled
  <2>3. Unique(first'[Owner], next'[Owner], Ahead', InHand', Linked, Polled')
    BY <1>1, <1>2, <2>2, TakeHead DEF LinkInv, UniqueInv
  <2>4. \A r \in [Items -> Int] :
          Ranked(r, first[Owner], next[Owner], Ahead, InHand, Polled) =>
            Ranked(r, first'[Owner], next'[Owner], Ahead', InHand', Polled')
    BY <1>1, <1>2, <2>2, TakeHeadRanked
  <2> QED BY <1>1, <1>2, <1>3, <1>4, <1>5, <2>2, <2>3, <2>4, OwnerKeeps
<1> QED BY <1>6, <1>7

(* The owner takes the packet it has polled.                               *)
LEMMA TakeKeeps ==
  ASSUME SizeInv, LinkInv, Take
  PROVE  LinkInv' /\ Out \in Items \cap Linked /\ Out = Result(Owner) /\ Old' = Old \cup {Out}
<1> USE ListAssumption, SharedListAssumption
<1>1. /\ op \in [Threads -> Call] /\ Owner \in Threads /\ got \in Seq(Items)
      /\ op[Owner].at = "idle" /\ op[Owner].x # NULL
      /\ UNCHANGED <<sent, first, last, next, raced>>
      /\ op' = [op EXCEPT ![Owner] = Returned(NULL)]
      /\ got' = Append(got, op[Owner].x)
  BY DEF Take, Discard, Ready, Result, SizeInv, TypeOK, ListTypeOK
<1>2. Ahead = NULL /\ InHand = NULL /\ Out = op[Owner].x /\ Polled = Old \cup {Out}
  BY <1>1 DEF Ahead, InHand, Out, Polled
<1>3. Out \in Items \cap Linked
  BY <1>2 DEF LinkInv, UniqueInv, Unique
<1>4. Old' = Old \cup {Out}
  <2>1. /\ DOMAIN got = 1 .. Len(got) /\ Len(got) \in Nat
        /\ DOMAIN got' = 1 .. (Len(got) + 1)
        /\ \A i \in 1 .. Len(got) : got'[i] = got[i]
        /\ got'[Len(got) + 1] = Out
    BY <1>1, <1>2, <1>3
  <2>2. \A z : z \in Old' => z \in Old \cup {Out}
    BY <2>1 DEF Old
  <2>3. Out \in Old'
    BY <2>1 DEF Old
  <2>4. \A z : z \in Old => z \in Old'
    BY <2>1 DEF Old
  <2> QED BY <2>2, <2>3, <2>4
<1>5. Ahead' = NULL /\ InHand' = NULL /\ Out' = NULL
  BY <1>1 DEF Ahead, InHand, Out, Returned
<1>6. Polled' = Polled
  BY <1>2, <1>4, <1>5 DEF Polled
<1>7. \A p \in Producers : op'[p] = op[p]
  BY <1>1
<1>8. Unique(first'[Owner], next'[Owner], Ahead', InHand', Linked, Polled')
  BY <1>1, <1>2, <1>5, <1>6 DEF LinkInv, UniqueInv
<1>9. NULL \notin Old'
  BY <1>2, <1>4, <1>3 DEF LinkInv, UniqueInv, Unique
<1>10. LinkInv'
  BY <1>1, <1>2, <1>5, <1>6, <1>7, <1>8, <1>9, OwnerKeeps DEF Crossed
<1> QED BY <1>2, <1>3, <1>4, <1>10 DEF Result

(* The poll reads and clears the successor of the packet in hand.          *)
LEMMA UnlinkKeeps ==
  ASSUME SizeInv, LinkInv, PollUnlink(Owner), UNCHANGED <<sent, got>>
  PROVE  LinkInv'
<1> USE ListAssumption, SharedListAssumption
<1> DEFINE h == op[Owner].x
<1>1. /\ op \in [Threads -> Call] /\ Owner \in Threads /\ Owner \in Lists
      /\ op[Owner].at = "unlink" /\ h \in Items /\ op[Owner].q = Owner
      /\ next \in [Lists -> [Items -> Refs]]
      /\ UNCHANGED <<sent, got, first, last, raced>>
      /\ next' = [next EXCEPT ![Owner][h] = NULL]
      /\ op' = [op EXCEPT ![Owner].at = "setFirst", ![Owner].l = next[Owner][h]]
  BY DEF PollUnlink, SizeInv, TypeOK, ListTypeOK
<1>2. Ahead = NULL /\ InHand = h /\ Out = NULL
  BY <1>1 DEF Ahead, InHand, Out
<1>3. op'[Owner].at = "setFirst" /\ op'[Owner].l = next[Owner][h] /\ op'[Owner].x = h
  BY <1>1 DEF Call
<1>4. Ahead' = next[Owner][h] /\ InHand' = h /\ Out' = NULL /\ Old' = Old /\ Polled' = Polled
  BY <1>1, <1>2, <1>3 DEF Ahead, InHand, Out, Old, Polled
<1>5. next[Owner] \in [Items -> Refs] /\ next'[Owner] = [next[Owner] EXCEPT ![h] = NULL]
  BY <1>1
<1>6. \A p \in Producers : op'[p] = op[p]
  BY <1>1
<1>7. Unique(first'[Owner], next'[Owner], Ahead', InHand', Linked, Polled')
  BY <1>1, <1>2, <1>4, <1>5, Unlink DEF LinkInv, UniqueInv
<1>8. Polled \subseteq Items
  BY DEF LinkInv, UniqueInv, Unique
<1>9. \A r \in [Items -> Int] :
        Ranked(r, first[Owner], next[Owner], Ahead, InHand, Polled) =>
          Ranked(r, first'[Owner], next'[Owner], Ahead', InHand', Polled')
  BY <1>1, <1>2, <1>4, <1>5, <1>8, UnlinkRanked
<1>10. \A y \in Items : next'[Owner][y] \in {next[Owner][y], NULL}
  BY <1>5
<1>11. Out' \notin Old'
  BY <1>2, <1>4 DEF LinkInv, UniqueInv
<1> HIDE DEF h
<1> QED BY <1>1, <1>4, <1>6, <1>7, <1>9, <1>10, <1>11, OwnerKeeps DEF Crossed

(* The poll moves the head on; the packet it returns is out of the list.   *)
LEMMA SetFirstKeeps ==
  ASSUME SizeInv, LinkInv, PollSetFirst(Owner), UNCHANGED <<sent, got>>
  PROVE  LinkInv'
<1> USE ListAssumption, SharedListAssumption
<1> DEFINE h == op[Owner].x
<1>1. /\ op \in [Threads -> Call] /\ Owner \in Threads /\ Owner \in Lists
      /\ op[Owner].at = "setFirst" /\ h \in Items /\ op[Owner].q = Owner
      /\ UNCHANGED <<sent, got, next, last, raced>>
      /\ first \in [Lists -> Refs]
      /\ first' = [first EXCEPT ![Owner] = op[Owner].l]
      /\ op' = [op EXCEPT ![Owner].at = IF op[Owner].l = NULL THEN "clearLast" ELSE "readDec"]
  BY DEF PollSetFirst, Advance, SizeInv, TypeOK, ListTypeOK
<1>2. Ahead = op[Owner].l /\ InHand = h /\ Out = NULL /\ Polled = Old
  BY <1>1 DEF Ahead, InHand, Out, Polled
<1>3. op'[Owner].at \in {"clearLast", "readDec"} /\ op'[Owner].x = h
  BY <1>1 DEF Call
<1>4. Ahead' = NULL /\ InHand' = NULL /\ Out' = h /\ Old' = Old /\ Polled' = Polled \cup {h}
  BY <1>1, <1>2, <1>3 DEF Ahead, InHand, Out, Old, Polled
<1>5. first'[Owner] = Ahead
  BY <1>1, <1>2
<1>6. \A p \in Producers : op'[p] = op[p]
  BY <1>1
<1>7. Unique(first'[Owner], next'[Owner], Ahead', InHand', Linked, Polled')
  BY <1>1, <1>2, <1>4, <1>5, SetHead DEF LinkInv, UniqueInv
<1>8. Out' \notin Old'
  BY <1>1, <1>2, <1>4 DEF LinkInv, UniqueInv, Unique
<1>9. \A r \in [Items -> Int] :
        Ranked(r, first[Owner], next[Owner], Ahead, InHand, Polled) =>
          /\ Ranked(r, first'[Owner], next'[Owner], Ahead', InHand', Polled')
          /\ Out' # NULL => \A g \in Old' : r[g] < r[Out']
  <2> TAKE r \in [Items -> Int]
  <2> HAVE Ranked(r, first[Owner], next[Owner], Ahead, InHand, Polled)
  <2>1. Ranked(r, first'[Owner], next'[Owner], Ahead', InHand', Polled')
    BY <1>1, <1>2, <1>4, <1>5, SetHeadRanked
  <2>2. \A g \in Old : r[g] < r[h]
    BY <1>1, <1>2 DEF Ranked
  <2> QED BY <1>4, <2>1, <2>2
<1> HIDE DEF h
<1> QED BY <1>1, <1>6, <1>7, <1>8, <1>9, OwnerKeeps DEF Crossed

(* What follows in a poll concerns last and the count.                     *)
LEMMA RestOfPollKeeps ==
  ASSUME SizeInv, LinkInv, UNCHANGED <<sent, got>>,
         PollClearLast(Owner) \/ PollReadSize(Owner) \/ PollWriteSize(Owner)
  PROVE  LinkInv'
<1> USE ListAssumption, SharedListAssumption
<1>1. /\ op \in [Threads -> Call] /\ Owner \in Threads /\ Owner \in Lists
      /\ op[Owner].at \in {"clearLast", "readDec", "writeDec"} /\ op[Owner].q = Owner
      /\ UNCHANGED <<first, next, raced>>
      /\ last \in [Lists -> Refs]
  BY DEF PollClearLast, PollReadSize, PollWriteSize, SizeInv, TypeOK, ListTypeOK
<1>2. /\ op'[Owner].at \in {"readDec", "writeDec", "idle"} /\ op'[Owner].x = op[Owner].x
      /\ \A p \in Producers : op'[p] = op[p]
  BY <1>1 DEF PollClearLast, PollReadSize, PollWriteSize, Advance, Returned, Call
<1>3. Ahead' = Ahead /\ InHand' = InHand /\ Out' = Out /\ Old' = Old /\ Polled' = Polled
  BY <1>1, <1>2 DEF Ahead, InHand, Out, Old, Polled
<1>4. last'[Owner] \in {last[Owner], NULL}
  BY <1>1 DEF PollClearLast, PollReadSize, PollWriteSize
<1>5. Unique(first'[Owner], next'[Owner], Ahead', InHand', Linked, Polled') /\ Out' \notin Old'
  BY <1>1, <1>3 DEF LinkInv, UniqueInv
<1> QED BY <1>1, <1>2, <1>3, <1>4, <1>5, OwnerKeeps DEF Crossed

-----------------------------------------------------------------------------
(* What is being added and not yet linked is in nobody else's call.        *)
LEMMA PendingFacts ==
  ASSUME SizeInv, LinkInv, NEW p \in Producers, op[p].at \in {"setLast", "link"}
  PROVE  /\ op[p].x = <<p, sent[p]>> /\ op[p].x \in Items /\ op[p].x \in Begun
         /\ op[p].x \in Pending
         /\ \A s \in Producers \ {p} : op[s].at # "idle" => op[s].x # op[p].x
<1> USE SharedListAssumption
<1>1. sent[p] >= 1 /\ op[p].x = <<p, sent[p]>> /\ sent[p] \in Int
  BY DEF LinkInv, AddInv, SizeInv, TypeOK
<1>2. op[p].x \in Begun /\ Begun \subseteq Items
  BY <1>1, BegunFacts DEF SizeInv
<1>3. \A s \in Producers \ {p} : op[s].at # "idle" => op[s].x # op[p].x
  BY <1>1 DEF LinkInv, AddInv
<1> QED BY <1>1, <1>2, <1>3 DEF Pending

(* The add makes its packet the tail.                                      *)
LEMMA SetLastKeeps ==
  ASSUME SizeInv, LinkInv, NEW p \in Producers, AddSetLast(p), UNCHANGED <<sent, got>>
  PROVE  LinkInv' /\ Linked' = Linked
<1> USE ListAssumption, SharedListAssumption
<1>1. /\ op \in [Threads -> Call] /\ p \in Threads /\ Owner \in Lists
      /\ op[p].at = "setLast" /\ op[p].q = Owner
      /\ last \in [Lists -> Refs]
      /\ UNCHANGED <<sent, got, first, next, raced>>
      /\ last' = [last EXCEPT ![Owner] = op[p].x]
      /\ op' = [op EXCEPT ![p].at = "link"]
  BY DEF AddSetLast, Advance, SizeInv, TypeOK, ListTypeOK
<1>2. op'[p].at = "link" /\ op'[p].x = op[p].x /\ op'[p].l = op[p].l
  BY <1>1 DEF Call
<1>3. \A t \in Threads \ {p} : op'[t] = op[t]
  BY <1>1
<1>4. Begun' = Begun
  BY <1>1 DEF Begun, Numbers
<1>5. op[p].x \in Begun
  BY <1>1, PendingFacts
<1>6. Pending' = Pending
  BY <1>1, <1>2, <1>3 DEF Pending
<1>7. Linked' = Linked
  BY <1>4, <1>6 DEF Linked
<1>8. BegunInv'
  BY <1>1, <1>2, <1>3, <1>4, <1>5 DEF LinkInv, BegunInv
<1>9. Unique(first'[Owner], next'[Owner], Ahead, InHand, Linked', Polled)
  BY <1>1, <1>7 DEF LinkInv, UniqueInv
<1>10. \A r \in [Items -> Int], k \in Int :
         InOrder(r, k) => Ranked(r, first'[Owner], next'[Owner], Ahead, InHand, Polled)
  BY <1>1 DEF InOrder
<1> QED BY <1>1, <1>2, <1>3, <1>7, <1>8, <1>9, <1>10, ProducerKeeps

(* The add links its packet, to the head or behind the tail it has read.   *)
LEMMA LinkKeeps ==
  ASSUME SizeInv, LinkInv, NEW p \in Producers, AddLink(p), UNCHANGED <<sent, got>>
  PROVE  LinkInv' /\ op[p].x \notin Linked /\ Linked' = Linked \cup {op[p].x}
<1> USE ListAssumption, SharedListAssumption
<1> DEFINE x == op[p].x
           l == op[p].l
<1>1. /\ op \in [Threads -> Call] /\ p \in Threads /\ Owner \in Lists
      /\ op[p].at = "link" /\ op[p].q = Owner
      /\ first \in [Lists -> Refs] /\ next \in [Lists -> [Items -> Refs]]
      /\ UNCHANGED <<sent, got, last, raced>>
      /\ op' = [op EXCEPT ![p].at = "readInc"]
  BY DEF AddLink, Advance, SizeInv, TypeOK, ListTypeOK
<1>2. op'[p].at = "readInc" /\ op'[p].x = x
  BY <1>1 DEF Call
<1>3. \A t \in Threads \ {p} : op'[t] = op[t]
  BY <1>1
<1>4. Begun' = Begun
  BY <1>1 DEF Begun, Numbers
<1>5. /\ x \in Items /\ x \in Begun /\ x \in Pending
      /\ \A s \in Producers \ {p} : op[s].at # "idle" => op[s].x # x
  BY <1>1, PendingFacts
<1>6. Pending' = Pending \ {x}
  <2>1. \A s \in Producers \ {p} : op'[s] = op[s]
    BY <1>3
  <2> QED BY <1>1, <1>2, <1>5, <2>1 DEF Pending
<1>7. x \notin Linked /\ Linked' = Linked \cup {x}
  BY <1>4, <1>5, <1>6 DEF Linked
<1>8. l \in (Begun \ {x}) \cup {NULL}
  BY <1>1 DEF LinkInv, BegunInv
<1>9. \A r \in [Items -> Int], k \in Int :
        InOrder(r, k) => \A y \in Begun \ {x} : r[y] < r[x]
  BY <1>1 DEF InOrder
<1>10. Linked \subseteq Begun \ {x} /\ Begun \subseteq Items
  BY <1>7, BegunFacts DEF Linked, SizeInv
<1>11. ASSUME l = NULL PROVE LinkInv'
  <2>1. first'[Owner] = x /\ next' = next
    BY <1>1, <1>11 DEF AddLink
  <2>2. Unique(first'[Owner], next'[Owner], Ahead, InHand, Linked', Polled)
    BY <1>5, <1>7, <2>1, LinkFirst DEF LinkInv, UniqueInv
  <2>3. ASSUME NEW r \in [Items -> Int], NEW k \in Int, InOrder(r, k)
        PROVE  Ranked(r, first'[Owner], next'[Owner], Ahead, InHand, Polled)
    <3>1. \A y \in Linked : r[y] < r[x]
      BY <1>9, <1>10, <2>3
    <3> HIDE DEF x
    <3> QED BY <1>5, <1>7, <2>1, <2>3, <3>1, LinkFirstRanked DEF LinkInv, UniqueInv, InOrder
  <2>4. BegunInv'
    BY <1>1, <1>2, <1>3, <1>4, <2>1 DEF LinkInv, BegunInv
  <2> QED BY <1>1, <1>2, <1>3, <2>2, <2>3, <2>4, ProducerKeeps
<1>12. ASSUME l # NULL PROVE LinkInv'
  <2>1. l \in Items /\ l \in Begun \ {x}
    BY <1>8, <1>10, <1>12
  <2>2. /\ first' = first /\ next[Owner] \in [Items -> Refs]
        /\ next'[Owner] = [next[Owner] EXCEPT ![l] = x]
    BY <1>1, <1>12 DEF AddLink
  <2> DEFINE n == next[Owner]
  <2>3. Unique(first'[Owner], next'[Owner], Ahead, InHand, Linked', Polled)
    <3>1. Unique(first[Owner], n, Ahead, InHand, Linked, Polled)
      BY DEF LinkInv, UniqueInv
    <3>2. n \in [Items -> Refs] /\ x \in Items /\ x \notin Linked /\ l \in Items
      BY <1>5, <1>7, <2>1, <2>2
    <3> HIDE DEF x, l, n
    <3>3. Unique(first[Owner], [n EXCEPT ![l] = x], Ahead, InHand, Linked \cup {x}, Polled)
      BY ONLY <3>1, <3>2, LinkBehind
    <3>4. /\ next'[Owner] = [n EXCEPT ![l] = x] /\ Linked' = Linked \cup {x}
          /\ first'[Owner] = first[Owner]
      BY <1>7, <2>2 DEF n
    <3> QED BY ONLY <3>3, <3>4, Zenon
  <2>4. ASSUME NEW r \in [Items -> Int], NEW k \in Int, InOrder(r, k)
        PROVE  Ranked(r, first'[Owner], next'[Owner], Ahead, InHand, Polled)
    <3>1. r[l] < r[x]
      BY <1>9, <2>1, <2>4
    <3>2. n \in [Items -> Refs] /\ x \in Items /\ l \in Items
      BY <1>5, <2>1, <2>2
    <3>3. Ranked(r, first[Owner], n, Ahead, InHand, Polled)
      BY <2>4 DEF InOrder
    <3> HIDE DEF x, l, n
    <3>4. Ranked(r, first[Owner], [n EXCEPT ![l] = x], Ahead, InHand, Polled)
      BY ONLY r \in [Items -> Int], <3>1, <3>2, <3>3, LinkBehindRanked
    <3>5. next'[Owner] = [n EXCEPT ![l] = x] /\ first'[Owner] = first[Owner]
      BY <2>2 DEF n
    <3> QED BY ONLY <3>4, <3>5, Zenon
  <2>5. BegunInv'
    <3>1. \A y \in Items : next'[Owner][y] # NULL => y \in Begun
      BY <2>1, <2>2 DEF LinkInv, BegunInv
    <3> QED BY <1>1, <1>2, <1>3, <1>4, <3>1 DEF LinkInv, BegunInv
  <2> QED BY <1>1, <1>2, <1>3, <2>3, <2>4, <2>5, ProducerKeeps
<1> QED BY <1>7, <1>11, <1>12

(* What follows in an add concerns the count.                              *)
LEMMA RestOfAddKeeps ==
  ASSUME SizeInv, LinkInv, NEW p \in Producers, UNCHANGED <<sent, got>>,
         AddReadSize(p) \/ AddWriteSize(p)
  PROVE  LinkInv' /\ Linked' = Linked
<1> USE ListAssumption, SharedListAssumption
<1>1. /\ op \in [Threads -> Call] /\ p \in Threads
      /\ op[p].at \in {"readInc", "writeInc"}
      /\ UNCHANGED <<sent, got, first, last, next, raced>>
      /\ \A t \in Threads \ {p} : op'[t] = op[t]
  BY DEF AddReadSize, AddWriteSize, SizeInv, TypeOK, ListTypeOK
<1>2. op'[p].at \in {"writeInc", "idle"} /\ (op'[p].at # "idle" => op'[p].x = op[p].x)
  BY <1>1 DEF AddReadSize, AddWriteSize, Returned, Call
<1>3. Begun' = Begun /\ Pending' = Pending
  BY <1>1, <1>2 DEF Begun, Numbers, Pending
<1>4. Linked' = Linked
  BY <1>3 DEF Linked
<1>5. BegunInv'
  BY <1>1, <1>2, <1>3 DEF LinkInv, BegunInv
<1>6. Unique(first'[Owner], next'[Owner], Ahead, InHand, Linked', Polled)
  BY <1>1, <1>4 DEF LinkInv, UniqueInv
<1>7. \A r \in [Items -> Int], k \in Int :
        InOrder(r, k) => Ranked(r, first'[Owner], next'[Owner], Ahead, InHand, Polled)
  BY <1>1 DEF InOrder
<1> QED BY <1>1, <1>2, <1>4, <1>5, <1>6, <1>7, ProducerKeeps

-----------------------------------------------------------------------------
(* A rank that agrees on everything the references lead from or to will do *)
(* as well.                                                                *)
LEMMA RankedAgrees ==
  ASSUME NEW r, NEW rr, NEW f, NEW n, NEW lo, NEW h, NEW Po, NEW S,
         Ranked(r, f, n, lo, h, Po),
         f \in S \cup {NULL}, lo \in S \cup {NULL}, h \in S \cup {NULL}, Po \subseteq S,
         \A y \in Items : n[y] # NULL => y \in S /\ n[y] \in S,
         \A y \in S : rr[y] = r[y]
  PROVE  Ranked(rr, f, n, lo, h, Po)
BY DEF Ranked

(* A producer begins to add a packet: it gets the highest rank.            *)
LEMMA SendKeeps ==
  ASSUME SizeInv, LinkInv, NEW p \in Producers, Send(p)
  PROVE  LinkInv' /\ Linked' = Linked
<1> USE ListAssumption, SharedListAssumption
<1> DEFINE i == sent[p] + 1
           x == <<p, i>>
<1>1. /\ op \in [Threads -> Call] /\ p \in Threads /\ Owner \in Threads /\ Owner \in Lists
      /\ sent \in [Producers -> 0 .. MaxPerThread]
      /\ op[p].at = "idle"
      /\ UNCHANGED <<got, first, last, next>>
      /\ sent' = [sent EXCEPT ![p] = i]
      /\ op' = [op EXCEPT ![p] =
                  [at |-> "setLast", q |-> Owner, x |-> x, l |-> last[Owner], s |-> 0]]
      /\ Overlap(Owner, "add")
  BY DEF Send, CallAdd, Ready, SizeInv, TypeOK, ListTypeOK
<1>2. sent[p] \in Nat /\ i \in Nat /\ i <= MaxPerThread /\ x \in Items
  <2>1. sent[p] \in Nat /\ i \in Nat
    BY <1>1
  <2>2. sent[p] < MaxPerThread
    BY DEF Send
  <2> QED BY <2>1, <2>2
<1>3. \A s \in Producers \ {p} : sent'[s] = sent[s] /\ op'[s] = op[s]
  BY <1>1
<1>4. /\ op'[Owner] = op[Owner] /\ sent'[p] = i
      /\ op'[p].at = "setLast" /\ op'[p].x = x /\ op'[p].l = last[Owner]
  BY <1>1
<1>5. x \notin Begun /\ Begun \subseteq Items
  BY <1>1, <1>2, BegunFacts DEF SizeInv
<1>6. Numbers(p)' = Numbers(p) \cup {x}
  <2>1. 1 .. i = (1 .. sent[p]) \cup {i}
    BY <1>2
  <2> QED BY <1>4, <2>1 DEF Numbers
<1>7. Begun' = Begun \cup {x}
  <2>1. \A s \in Producers \ {p} : Numbers(s)' = Numbers(s)
    BY <1>3 DEF Numbers
  <2> HIDE DEF x
  <2> QED BY <1>6, <2>1 DEF Begun
<1>8. Pending' = Pending \cup {x}
  <2> HIDE DEF x, i
  <2> QED BY <1>1, <1>3, <1>4 DEF Pending
<1>9. Linked' = Linked
  <2> HIDE DEF x
  <2> QED BY <1>5, <1>7, <1>8 DEF Linked
<1>10. /\ Ahead' = Ahead /\ InHand' = InHand /\ Out' = Out /\ Old' = Old
       /\ Polled' = Polled /\ first' = first /\ next' = next
  BY <1>1, <1>4 DEF Ahead, InHand, Out, Old, Polled
<1>11. UniqueInv'
  BY <1>9, <1>10 DEF LinkInv, UniqueInv
<1>12. AddInv'
  <2>1. op'[p].at # "idle" => sent'[p] >= 1 /\ op'[p].x = <<p, sent'[p]>>
    BY <1>2, <1>4
  <2> QED BY <1>3, <2>1 DEF LinkInv, AddInv
<1>13. BegunInv'
  <2> HIDE DEF x
  <2>1. last'[Owner] \in Begun' \cup {NULL}
    BY <1>1, <1>7 DEF LinkInv, BegunInv
  <2>2. \A y \in Items : next'[Owner][y] # NULL => y \in Begun'
    BY <1>7, <1>10 DEF LinkInv, BegunInv
  <2>3. op'[p].l \in (Begun' \ {op'[p].x}) \cup {NULL}
    BY <1>4, <1>5, <1>7 DEF LinkInv, BegunInv
  <2>4. \A s \in Producers \ {p} : op'[s].at \in {"setLast", "link"} =>
          op'[s].l \in (Begun' \ {op'[s].x}) \cup {NULL}
    BY <1>3, <1>7 DEF LinkInv, BegunInv
  <2> QED BY <2>1, <2>2, <2>3, <2>4 DEF BegunInv
<1>14. OrderInv'
  <2> SUFFICES ASSUME ~Crossed(Owner)'
               PROVE  OneAdder' /\ \E r \in [Items -> Int], k \in Int : InOrder(r, k)'
    BY DEF OrderInv
  <2>1. ~Crossed(Owner)
    BY <1>1 DEF Crossed, Overlap
  <2>2. \A s \in Producers : op[s].at = "idle"
    <3> SUFFICES ASSUME NEW s \in Producers, op[s].at # "idle" PROVE FALSE
      OBVIOUS
    <3>1. s \in Threads /\ op[s].at \in Adds /\ op[s].q = Owner
      BY DEF SizeInv, SizeBounds, Adding, Adds, TypeOK, ListTypeOK
    <3>2. s \in Users(Owner) /\ Doing(s) = "add"
      BY <3>1 DEF Users, Doing
    <3>3. <<Owner, {"add", Doing(s)}>> \in raced'
      BY <1>1, <3>2 DEF Overlap
    <3>4. {"add", Doing(s)} = {"add"}
      BY <3>2
    <3> QED BY <3>3, <3>4 DEF Crossed
  <2>3. OneAdder'
    BY <1>3, <2>2 DEF OneAdder
  <2>4. PICK r \in [Items -> Int], k \in Int : InOrder(r, k)
    BY <2>1 DEF LinkInv, OrderInv
  <2>5. PICK rr \in [Items -> Int] : rr = [r EXCEPT ![x] = k]
    BY <2>4
  <2>5a. rr[x] = k /\ k + 1 \in Int
    BY <1>2, <2>4, <2>5
  <2>6. \A y \in Begun : rr[y] = r[y] /\ rr[y] \in Int /\ rr[y] < k
    <3>1. \A y \in Begun : y # x
      BY <1>5
    <3> HIDE DEF x
    <3> QED BY <1>5, <2>4, <2>5, <3>1 DEF InOrder
  <2>7. \A y \in Begun' : rr[y] < k + 1
    <3> HIDE DEF x
    <3> QED BY <1>7, <2>4, <2>5a, <2>6
  <2>8. \A s \in Producers : \A a, b \in 1 .. sent'[s] :
          a < b => rr[<<s, a>>] < rr[<<s, b>>]
    <3> SUFFICES ASSUME NEW s \in Producers, NEW a \in 1 .. sent'[s], NEW b \in 1 .. sent'[s],
                        a < b
                 PROVE  rr[<<s, a>>] < rr[<<s, b>>]
      OBVIOUS
    <3>1. sent[s] \in Nat
      BY <1>1
    <3>2. CASE b \in 1 .. sent[s]
      <4>1. a \in 1 .. sent[s]
        BY <3>1, <3>2
      <4>2. <<s, a>> \in Begun /\ <<s, b>> \in Begun
        BY <3>2, <4>1, BegunFacts DEF SizeInv
      <4>3. r[<<s, a>>] < r[<<s, b>>]
        BY <2>4, <3>2, <4>1 DEF InOrder
      <4> QED BY <2>6, <4>2, <4>3
    <3>3. CASE b \notin 1 .. sent[s]
      <4>1. s = p /\ b = i
        BY <1>2, <1>3, <1>4, <3>1, <3>3
      <4>2. a \in 1 .. sent[s]
        BY <1>2, <1>4, <4>1
      <4>3. <<s, a>> \in Begun
        BY <4>2, BegunFacts DEF SizeInv
      <4> QED BY <2>5a, <2>6, <4>1, <4>3
    <3> QED BY <3>2, <3>3
  <2>9. \A s \in Producers : op'[s].at # "idle" =>
          \A y \in Begun' : y # op'[s].x => rr[y] < rr[op'[s].x]
    <3>1. \A s \in Producers : op'[s].at # "idle" => op'[s].x = x
      BY <1>3, <1>4, <2>2
    <3> HIDE DEF x
    <3> QED BY <1>7, <2>5a, <2>6, <3>1
  <2>10. /\ first[Owner] \in Begun \cup {NULL} /\ Ahead \in Begun \cup {NULL}
         /\ InHand \in Begun \cup {NULL} /\ Polled \subseteq Begun
         /\ \A y \in Items : next[Owner][y] # NULL =>
              y \in Begun /\ next[Owner][y] \in Begun
    BY DEF LinkInv, UniqueInv, Unique, Linked, BegunInv
  <2>11. Ranked(rr, first[Owner], next[Owner], Ahead, InHand, Polled)
    <3>1. Ranked(r, first[Owner], next[Owner], Ahead, InHand, Polled)
      BY <2>4 DEF InOrder
    <3>2. \A y \in Begun : rr[y] = r[y]
      BY <2>6
    <3> QED BY ONLY <2>10, <3>1, <3>2, RankedAgrees
  <2>12. Out # NULL => \A g \in Old : rr[g] < rr[Out]
    <3>1. Old \subseteq Begun /\ (Out # NULL => Out \in Begun)
      BY <2>10 DEF Polled
    <3> QED BY <2>4, <2>6, <3>1 DEF InOrder
  <2>13. InOrder(rr, k + 1)'
    BY <1>10, <2>7, <2>8, <2>9, <2>11, <2>12 DEF InOrder
  <2> QED BY <2>3, <2>5a, <2>13
<1> QED BY <1>9, <1>11, <1>12, <1>13, <1>14 DEF LinkInv

-----------------------------------------------------------------------------
(* An empty list, no packet sent.                                          *)
LEMMA InitQueueInv == Init => QueueInv
<1> SUFFICES ASSUME Init PROVE LinkInv
  BY InitSizeInv DEF QueueInv
<1> USE ListAssumption, SharedListAssumption
<1>1. /\ \A t \in Threads : op[t] = Returned(NULL)
      /\ first[Owner] = NULL /\ last[Owner] = NULL /\ next[Owner] = [y \in Items |-> NULL]
      /\ sent = [p \in Producers |-> 0] /\ got = <<>>
  BY DEF Init, ListInit
<1>2. Begun = {} /\ Linked = {}
  BY <1>1 DEF Begun, Numbers, Linked
<1>3. Ahead = NULL /\ InHand = NULL /\ Out = NULL /\ Old = {} /\ Polled = {}
  BY <1>1 DEF Returned, Ahead, InHand, Out, Old, Polled
<1>4. UniqueInv
  BY <1>1, <1>2, <1>3 DEF UniqueInv, Unique
<1>5. \A p \in Producers : op[p].at = "idle"
  BY <1>1 DEF Returned
<1>6. AddInv /\ BegunInv
  BY <1>1, <1>5 DEF AddInv, BegunInv
<1>7. InOrder([y \in Items |-> 0], 1)
  BY <1>1, <1>2, <1>3, <1>5 DEF InOrder, Ranked
<1>8. OrderInv
  <2>1. [y \in Items |-> 0] \in [Items -> Int] /\ 1 \in Int
    OBVIOUS
  <2>2. OneAdder
    BY <1>5 DEF OneAdder
  <2> QED BY <1>7, <2>1, <2>2 DEF OrderInv
<1> QED BY <1>4, <1>6, <1>8 DEF LinkInv

(* No step of the closed system disturbs it.                               *)
LEMMA NextLinkInv ==
  ASSUME QueueInv, [Next]_sharedVars
  PROVE  LinkInv'
<1> USE SharedListAssumption DEF QueueInv
<1>1. ASSUME NEW p \in Producers, Send(p) PROVE LinkInv'
  BY <1>1, SendKeeps
<1>2. CASE Poll
  BY <1>2, PollKeeps
<1>3. CASE Take
  BY <1>3, TakeKeeps
<1>4. ASSUME NEW p \in Producers, Step(p) PROVE LinkInv'
  <2>1. /\ op[p].at \in Adding /\ ListStep(p) /\ UNCHANGED <<sent, got>>
    BY <1>4 DEF Step, SizeInv, SizeBounds
  <2>2. AddSetLast(p) \/ AddLink(p) \/ AddReadSize(p) \/ AddWriteSize(p)
    BY <2>1 DEF ListStep, PollUnlink, PollSetFirst, PollClearLast, PollReadSize,
                PollWriteSize, Adding
  <2> QED BY <2>1, <2>2, SetLastKeeps, LinkKeeps, RestOfAddKeeps
<1>5. CASE Step(Owner)
  <2>1. /\ op[Owner].at \in Polling /\ ListStep(Owner) /\ UNCHANGED <<sent, got>>
    BY <1>5 DEF Step, SizeInv, SizeBounds
  <2>2. PollUnlink(Owner) \/ PollSetFirst(Owner) \/ PollClearLast(Owner)
        \/ PollReadSize(Owner) \/ PollWriteSize(Owner)
    BY <2>1 DEF ListStep, AddSetLast, AddLink, AddReadSize, AddWriteSize, Polling
  <2> QED BY <2>1, <2>2, UnlinkKeeps, SetFirstKeeps, RestOfPollKeeps
<1>6. CASE UNCHANGED sharedVars
  <2>1. UNCHANGED <<first, last, next, op, raced, sent, got>>
    BY <1>6 DEF sharedVars, listVars
  <2>2. Begun' = Begun /\ Pending' = Pending /\ Ahead' = Ahead /\ InHand' = InHand
        /\ Out' = Out /\ Old' = Old
    BY <2>1 DEF Begun, Numbers, Pending, Ahead, InHand, Out, Old
  <2>3. Linked' = Linked /\ Polled' = Polled
    BY <2>2 DEF Linked, Polled
  <2>4. UniqueInv'
    BY <2>1, <2>2, <2>3 DEF LinkInv, UniqueInv
  <2>5. AddInv' /\ BegunInv'
    BY <2>1, <2>2 DEF LinkInv, AddInv, BegunInv
  <2>6. \A r \in [Items -> Int], k \in Int : InOrder(r, k) => InOrder(r, k)'
    BY <2>1, <2>2, <2>3 DEF InOrder
  <2>7. OrderInv'
    BY <2>1, <2>6 DEF LinkInv, OrderInv, OneAdder, Crossed
  <2> QED BY <2>4, <2>5, <2>7 DEF LinkInv
<1> QED BY <1>1, <1>2, <1>3, <1>4, <1>5, <1>6 DEF Next

(* The references of the list and the packets taken from it, together with *)
(* the bounds on size, are an inductive invariant.                         *)
THEOREM QueueInvariance == Spec => []QueueInv
<1>1. QueueInv /\ [Next]_sharedVars => QueueInv'
  <2>1. QueueInv /\ [Next]_sharedVars => SizeInv'
    BY NextType, NextSizeBounds DEF QueueInv, SizeInv
  <2>2. QueueInv /\ [Next]_sharedVars => LinkInv'
    BY NextLinkInv
  <2> QED BY <2>1, <2>2 DEF QueueInv
<1> QED
  BY <1>1, InitQueueInv, PTL DEF Spec

-----------------------------------------------------------------------------
(* The packet the owner takes was sent and is none it had before; and it   *)
(* was sent after every one it had from the same producer, until two       *)
(* producers have added at once.                                           *)
LEMMA TakeDelivers ==
  ASSUME QueueInv, Take
  PROVE  \E s \in Producers : \E n \in 1 .. sent[s] : Link!Deliver(s, n)
<1> USE SharedListAssumption DEF QueueInv
<1>1. Out \in Items \cap Linked /\ Out = Result(Owner)
  BY TakeKeeps
<1>2. /\ \A g \in Old : g \in Begun
      /\ Out \in Begun /\ Out # NULL /\ Out \notin Old
  BY <1>1, ListAssumption DEF LinkInv, UniqueInv, Unique, Polled, Linked
<1>3. PICK s \in Producers : \E n \in 1 .. sent[s] : Out = <<s, n>>
  BY <1>2 DEF Begun, Numbers
<1>4. PICK n \in 1 .. sent[s] : Out = <<s, n>>
  BY <1>3
<1>5. sent[s] \in Nat /\ n \in Nat
  BY <1>4 DEF SizeInv, TypeOK
<1>6. ASSUME NEW i \in DOMAIN got, got[i][1] = s
      PROVE  got[i][2] # n /\ (~Crossed(Owner) => got[i][2] < n)
  <2>1. got[i] \in Old
    BY DEF Old
  <2>2. got[i] \in Begun
    BY <1>2, <2>1
  <2>3a. PICK u \in Producers : \E j \in 1 .. sent[u] : got[i] = <<u, j>>
    BY <2>2 DEF Begun, Numbers
  <2>3. PICK m \in 1 .. sent[u] : got[i] = <<u, m>>
    BY <2>3a
  <2>4. u = s /\ got[i][2] = m /\ m \in 1 .. sent[s] /\ m \in Nat /\ got[i] = <<s, m>>
    BY <1>5, <1>6, <2>3
  <2>5. m # n
    BY <1>2, <1>4, <2>1, <2>4
  <2>6. ASSUME ~Crossed(Owner), n < m PROVE FALSE
    <3>1. PICK r \in [Items -> Int], k \in Int : InOrder(r, k)
      BY <2>6 DEF LinkInv, OrderInv
    <3>2. r[got[i]] < r[Out]
      BY <1>2, <2>1, <3>1 DEF InOrder
    <3>3. r[<<s, n>>] < r[<<s, m>>]
      BY <2>4, <2>6, <3>1 DEF InOrder
    <3>4. r[Out] < r[got[i]]
      BY <1>4, <2>4, <3>3
    <3>5. r[Out] \in Int /\ r[got[i]] \in Int
      BY <1>2, <2>2, <3>1, BegunFacts DEF SizeInv
    <3> QED BY <3>2, <3>4, <3>5
  <2> QED BY <1>5, <2>4, <2>5, <2>6
<1>7. got' = Append(got, <<s, n>>) /\ sent' = sent
  BY <1>1, <1>4 DEF Take
<1>8. Link!Deliver(s, n)
  BY <1>6, <1>7 DEF Link!Deliver
<1> QED BY <1>8

(* Whether two producers have added at once is never forgotten.            *)
LEMMA CrossedStays ==
  ASSUME [Next]_sharedVars
  PROVE  Crossed(Owner) => Crossed(Owner)'
<1>1. raced \subseteq raced'
  <2>1. ASSUME NEW p \in Producers, Send(p) PROVE raced \subseteq raced'
    BY <2>1 DEF Send, CallAdd, Overlap
  <2>2. CASE Poll
    BY <2>2 DEF Poll, CallPoll, Overlap
  <2>3. CASE Take
    BY <2>3 DEF Take, Discard
  <2>4. ASSUME NEW t \in Threads, Step(t) PROVE raced \subseteq raced'
    BY <2>4 DEF Step, ListStep, AddSetLast, AddLink, AddReadSize, AddWriteSize,
                PollUnlink, PollSetFirst, PollClearLast, PollReadSize, PollWriteSize
  <2>5. CASE UNCHANGED sharedVars
    BY <2>5 DEF sharedVars, listVars
  <2> QED BY <2>1, <2>2, <2>3, <2>4, <2>5 DEF Next
<1> QED BY <1>1 DEF Crossed

(* A LinkedList that no common lock guards still hands every packet out at *)
(* most once, and what one sender adds in the order in which it was added  *)
(* unless two senders have added at the same time: SharedList implements   *)
(* LossyLink.                                                              *)
THEOREM ImplementsLossyLink == Spec => EachProducerInOrder
<1>1. Init => Link!LinkInit
  BY DEF Init, ListInit, Link!LinkInit, Crossed
<1>2. ASSUME QueueInv, [Next]_sharedVars
      PROVE  [Link!LinkNext]_Link!linkVars
  <2>1. ~Crossed(Owner)' => ~Crossed(Owner)
    BY <1>2, CrossedStays
  <2>2. ASSUME NEW p \in Producers, Send(p) PROVE Link!Accept(p)
    BY <2>2 DEF Send, Link!Accept
  <2>3. CASE Take
    BY <1>2, <2>1, <2>3, TakeDelivers DEF Link!LinkNext
  <2>4. CASE Poll
    BY <2>1, <2>4 DEF Poll, Link!LinkNext, Link!LoseOrder
  <2>5. ASSUME NEW t \in Threads, Step(t) PROVE Link!LinkNext
    BY <2>1, <2>5 DEF Step, Link!LinkNext, Link!LoseOrder
  <2>6. CASE UNCHANGED sharedVars
    BY <2>6 DEF sharedVars, listVars, Link!linkVars, Crossed
  <2> QED BY <1>2, <2>1, <2>2, <2>3, <2>4, <2>5, <2>6 DEF Next, Link!LinkNext
<1> QED
  BY <1>1, <1>2, QueueInvariance, PTL DEF Spec, EachProducerInOrder, Link!LinkSpec

-----------------------------------------------------------------------------
(* One access of a call in progress leaves a dead list dead.               *)
LEMMA StepWedged ==
  ASSUME ListTypeOK, NEW t \in Threads, ListStep(t), NEW q \in Lists, Wedged(q)
  PROVE  Wedged(q)'
<1> USE ListAssumption
<1>1. /\ op \in [Threads -> Call] /\ first \in [Lists -> Refs] /\ last \in [Lists -> Refs]
      /\ op[t].at # "idle" => op[t].q \in Lists /\ op[t].x \in Items
  BY DEF ListTypeOK
<1>2. \A u \in Threads \ {t} : op'[u] = op[u]
  BY <1>1 DEF ListStep, AddSetLast, AddLink, AddReadSize, AddWriteSize, Advance,
              PollUnlink, PollSetFirst, PollClearLast, PollReadSize, PollWriteSize
<1>3. ASSUME first'[q] = NULL, last'[q] # NULL,
             op'[t].q = q => /\ op'[t].at \in {"setLast", "link"} => op'[t].l # NULL
                             /\ op'[t].at \notin {"unlink", "setFirst", "clearLast"}
      PROVE  Wedged(q)'
  BY <1>2, <1>3 DEF Wedged, Users
<1>4. op[t].q = q => /\ op[t].at \in {"setLast", "link"} => op[t].l # NULL
                     /\ op[t].at \notin {"unlink", "setFirst", "clearLast"}
  BY DEF Wedged, Users
<1>5. first[q] = NULL /\ last[q] # NULL
  BY DEF Wedged
<1>6. CASE AddSetLast(t)
  <2>1. op'[t].at = "link" /\ op'[t].l = op[t].l /\ op'[t].q = op[t].q
    BY <1>1, <1>6 DEF AddSetLast, Advance, Call
  <2>2. first'[q] = NULL /\ last'[q] # NULL
    BY <1>1, <1>5, <1>6 DEF AddSetLast
  <2> QED BY <1>3, <1>4, <1>6, <2>1, <2>2 DEF AddSetLast
<1>7. CASE AddLink(t)
  <2>1. op'[t].at = "readInc"
    BY <1>1, <1>7 DEF AddLink, Advance, Call
  <2>2. first'[q] = NULL /\ last'[q] # NULL
    BY <1>1, <1>4, <1>5, <1>7 DEF AddLink
  <2> QED BY <1>3, <2>1, <2>2
<1>8. CASE AddReadSize(t) \/ AddWriteSize(t)
  <2>1. op'[t].at \in {"writeInc", "idle"}
    BY <1>1, <1>8 DEF AddReadSize, AddWriteSize, Returned, Call
  <2>2. first'[q] = NULL /\ last'[q] # NULL
    BY <1>5, <1>8 DEF AddReadSize, AddWriteSize
  <2> QED BY <1>3, <2>1, <2>2
<1>9. CASE PollUnlink(t) \/ PollSetFirst(t) \/ PollClearLast(t)
  <2>1. op[t].q # q /\ op[t].q \in Lists
    BY <1>1, <1>4, <1>9 DEF PollUnlink, PollSetFirst, PollClearLast
  <2>2. op'[t].q = op[t].q
    BY <1>1, <1>9 DEF PollUnlink, PollSetFirst, PollClearLast, Advance, Call
  <2>3. first'[q] = NULL /\ last'[q] # NULL
    BY <1>1, <1>5, <1>9, <2>1 DEF PollUnlink, PollSetFirst, PollClearLast
  <2> QED BY <1>3, <2>1, <2>2, <2>3
<1>10. CASE PollReadSize(t) \/ PollWriteSize(t)
  <2>1. op'[t].at \in {"writeDec", "idle"}
    BY <1>1, <1>10 DEF PollReadSize, PollWriteSize, Returned, Call
  <2>2. first'[q] = NULL /\ last'[q] # NULL
    BY <1>5, <1>10 DEF PollReadSize, PollWriteSize
  <2> QED BY <1>3, <2>1, <2>2
<1> QED BY <1>6, <1>7, <1>8, <1>9, <1>10 DEF ListStep

(* Nor does a new call: an add links behind last, a poll finds no head.    *)
LEMMA NextWedged ==
  ASSUME TypeOK, Next, NEW q \in Lists, Wedged(q)
  PROVE  Wedged(q)'
<1> USE ListAssumption, SharedListAssumption
<1>1. q = Owner /\ op \in [Threads -> Call] /\ first[q] = NULL /\ last[q] # NULL
      /\ Owner \in Threads
  BY DEF TypeOK, ListTypeOK, Wedged
<1>2. ASSUME NEW t \in Threads, \A u \in Threads \ {t} : op'[u] = op[u],
             UNCHANGED <<first, last>>,
             op'[t].at = "idle" \/ (op'[t].at = "setLast" /\ op'[t].l # NULL)
      PROVE  Wedged(q)'
  BY <1>2 DEF Wedged, Users
<1>3. ASSUME NEW p \in Producers, Send(p) PROVE Wedged(q)'
  <2>1. op'[p].at = "setLast" /\ op'[p].l = last[Owner] /\ p \in Threads
    BY <1>1, <1>3 DEF Send, CallAdd
  <2>2. \A u \in Threads \ {p} : op'[u] = op[u]
    BY <1>1, <1>3 DEF Send, CallAdd
  <2> QED BY <1>1, <1>2, <1>3, <2>1, <2>2 DEF Send, CallAdd
<1>4. CASE Poll
  <2>1. op'[Owner] = Returned(NULL) /\ \A u \in Threads \ {Owner} : op'[u] = op[u]
    BY <1>1, <1>4 DEF Poll, CallPoll
  <2> QED BY <1>1, <1>2, <1>4, <2>1 DEF Poll, CallPoll, Returned
<1>5. CASE Take
  <2>1. op'[Owner] = Returned(NULL) /\ \A u \in Threads \ {Owner} : op'[u] = op[u]
    BY <1>1, <1>5 DEF Take, Discard
  <2> QED BY <1>1, <1>2, <1>5, <2>1 DEF Take, Discard, Returned
<1>6. ASSUME NEW t \in Threads, Step(t) PROVE Wedged(q)'
  BY <1>6, StepWedged DEF Step, TypeOK
<1> QED BY <1>3, <1>4, <1>5, <1>6 DEF Next

(* A list that a racing add has left with a tail and no head stays so: no  *)
(* later add or poll of LinkedList brings it back.                         *)
THEOREM WedgeStays == Spec => WedgeIsForever
<1>1. TypeOK /\ [Next]_sharedVars => [\A q \in Lists : Wedged(q) => Wedged(q)']_sharedVars
  BY NextWedged
<1> QED
  BY <1>1, TypeCorrect, PTL DEF Spec, WedgeIsForever

-----------------------------------------------------------------------------
(* A list on which no two calls have overlapped                            *)

(* The packets that are in the list, or about to leave it.                 *)
Taken   == Polled \cup (IF op[Owner].at = "setFirst" THEN {op[Owner].x} ELSE {})
Present == Linked \ Taken

(* They are what hangs on first, as many as size says but for the call in  *)
(* progress.                                                               *)
ExactInv ==
  /\ \A t \in Threads : op[t].at = "idle" => op[t].q = NULL
  /\ ~Raced(Owner) =>
       /\ \A t, u \in Users(Owner) : t = u
       /\ \E s \in [Nat -> Refs], a \in Nat, b \in Nat :
            a <= b /\ Counted(Owner, s, a, b) /\ Span(s, a, b) = Present

(* Whoever is in a call uses the list.                                     *)
LEMMA InCallUses ==
  ASSUME TypeOK, ExactInv, NEW t \in Threads
  PROVE  t \in Users(Owner) <=> op[t].at # "idle"
BY ListAssumption, SharedListAssumption DEF TypeOK, ListTypeOK, ExactInv, Users

(* No call: nothing is in the list.                                        *)
LEMMA InitExact == Init => ExactInv
<1> SUFFICES ASSUME Init PROVE ExactInv
  OBVIOUS
<1> USE ListAssumption, SharedListAssumption
<1>1. \A t \in Threads : op[t].at = "idle" /\ op[t].q = NULL
  BY DEF Init, ListInit, Returned
<1>2. PICK s \in [Nat -> Refs] : s = [i \in Nat |-> NULL]
  BY DEF Refs
<1>3. Users(Owner) = {}
  BY <1>1 DEF Users
<1>4. Counted(Owner, s, 0, 0)
  <2>1. /\ first[Owner] = NULL /\ last[Owner] = NULL /\ size[Owner] = 0
        /\ \A y \in Items : next[Owner][y] = NULL
    BY DEF Init, ListInit
  <2> QED
    BY <1>3, <2>1 DEF Counted, Holding
<1>5. Span(s, 0, 0) = {}
  BY DEF Span
<1>6. Begun = {}
  BY DEF Begun, Numbers, Init
<1> QED
  BY <1>1, <1>3, <1>4, <1>5, <1>6 DEF ExactInv, Present, Linked

(* A call begins.                                                          *)
LEMMA BeginExact ==
  ASSUME TypeOK, ExactInv, NEW t \in Threads, Ready(t), NEW x,
         CallAdd(t, Owner, x) \/ CallPoll(t, Owner), Present' = Present
  PROVE  ExactInv'
<1> USE ListAssumption, SharedListAssumption
<1>1. /\ \A u \in Threads \ {t} : op'[u] = op[u]
      /\ op'[t].at = "idle" => op'[t].q = NULL
  BY DEF TypeOK, ListTypeOK, CallAdd, CallPoll, Returned
<1>2. ASSUME ~Raced(Owner)'
      PROVE  /\ \A u, v \in Users(Owner)' : u = v
             /\ \E s \in [Nat -> Refs], a \in Nat, b \in Nat :
                  a <= b /\ Counted(Owner, s, a, b)' /\ Span(s, a, b) = Present'
  <2>1. Users(Owner) = {} /\ ~Raced(Owner)
    BY <1>2, BeginRaces
  <2>2. PICK s \in [Nat -> Refs], a \in Nat, b \in Nat :
          a <= b /\ Counted(Owner, s, a, b) /\ Span(s, a, b) = Present
    BY <2>1 DEF ExactInv
  <2>3. Users(Owner)' \subseteq {t} /\ Counted(Owner, s, a, b)'
    BY <2>1, <2>2, BeginCounts DEF TypeOK
  <2> QED
    BY <2>2, <2>3
<1> QED
  BY <1>1, <1>2 DEF ExactInv

(* A producer begins to add a packet, which is not in the list yet.        *)
LEMMA SendExact ==
  ASSUME QueueInv, ExactInv, NEW p \in Producers, Send(p)
  PROVE  ExactInv'
<1> USE ListAssumption, SharedListAssumption
<1>1. Linked' = Linked
  BY SendKeeps DEF QueueInv
<1>2. op'[Owner] = op[Owner] /\ got' = got
  BY DEF Send, CallAdd, QueueInv, SizeInv, TypeOK, ListTypeOK
<1>3. Present' = Present
  BY <1>1, <1>2 DEF Present, Taken, Polled, Out, Old
<1>4. Ready(p) /\ CallAdd(p, Owner, <<p, sent[p] + 1>>)
  BY DEF Send
<1> QED
  BY <1>3, <1>4, BeginExact DEF QueueInv, SizeInv

(* The producers know nothing of what the owner does.                      *)
LEMMA OwnerLeavesLinked ==
  ASSUME sent' = sent, \A p \in Producers : op'[p] = op[p]
  PROVE  Linked' = Linked
<1>1. Begun' = Begun
  BY DEF Begun, Numbers
<1>2. Pending' = Pending
  BY DEF Pending
<1> QED
  BY <1>1, <1>2 DEF Linked

(* The owner begins a poll,                                                *)
LEMMA PollExact ==
  ASSUME QueueInv, ExactInv, Poll
  PROVE  ExactInv'
<1> USE ListAssumption, SharedListAssumption
<1>1. /\ op \in [Threads -> Call] /\ Owner \in Threads
      /\ CallPoll(Owner, Owner) /\ Ready(Owner) /\ op[Owner].x = NULL
      /\ sent' = sent /\ got' = got
  BY DEF Poll, Result, QueueInv, SizeInv, TypeOK, ListTypeOK
<1>2. Linked' = Linked
  BY <1>1, OwnerLeavesLinked DEF CallPoll
<1>3. \/ op'[Owner].at = "idle" /\ op'[Owner].x = NULL
      \/ op'[Owner].at = "unlink"
  BY <1>1 DEF CallPoll, Returned
<1>4. Taken = Old /\ Taken' = Old
  BY <1>1, <1>3 DEF Taken, Polled, Out, Old, Ready
<1>5. Present' = Present
  BY <1>2, <1>4 DEF Present
<1> QED
  BY <1>1, <1>5, BeginExact DEF QueueInv, SizeInv

(* and goes on with what it got.                                           *)
LEMMA TakeExact ==
  ASSUME QueueInv, ExactInv, Take
  PROVE  ExactInv'
<1> USE ListAssumption, SharedListAssumption
<1>1. /\ op \in [Threads -> Call] /\ Owner \in Threads /\ got \in Seq(Items)
      /\ op[Owner].at = "idle" /\ op[Owner].x # NULL
      /\ UNCHANGED <<sent, first, last, next, size, raced>>
      /\ op' = [op EXCEPT ![Owner] = Returned(NULL)]
      /\ got' = Append(got, op[Owner].x)
  BY DEF Take, Discard, Ready, Result, QueueInv, SizeInv, TypeOK, ListTypeOK
<1>2. /\ op'[Owner] = Returned(NULL) /\ op'[Owner].at = "idle"
      /\ op'[Owner].x = NULL /\ op'[Owner].q = NULL /\ op[Owner].q = NULL
  BY <1>1 DEF Returned, ExactInv
<1>3. \A t \in Threads \ {Owner} : op'[t] = op[t]
  BY <1>1
<1>4. Linked' = Linked
  BY <1>1, <1>3, OwnerLeavesLinked
<1>5. Old' = Old \cup {op[Owner].x}
  BY TakeKeeps DEF QueueInv, Result
<1>6. Taken' = Taken
  BY <1>1, <1>2, <1>5 DEF Taken, Polled, Out
<1>7. Users(Owner)' = Users(Owner) /\ \A t \in Users(Owner) : op'[t] = op[t]
  BY <1>2, <1>3 DEF Users
<1>8. Present' = Present /\ Raced(Owner)' = Raced(Owner)
  BY <1>1, <1>4, <1>6 DEF Present, Raced
<1>9. ASSUME NEW s, NEW a, NEW b, Counted(Owner, s, a, b)
      PROVE  Counted(Owner, s, a, b)'
  BY <1>1, <1>7, <1>9 DEF Counted
<1>10. \A t \in Threads : op'[t].at = "idle" => op'[t].q = NULL
  BY <1>2, <1>3 DEF ExactInv
<1> QED
  BY <1>7, <1>8, <1>9, <1>10 DEF ExactInv

(* One access of a call: linking brings a packet into the list, unlinking  *)
(* takes one out.                                                          *)
LEMMA StepPresent ==
  ASSUME QueueInv, NEW t \in Threads, Step(t)
  PROVE  Present' = After(op[t], Present)
<1> USE ListAssumption, SharedListAssumption DEF After
<1>t. /\ op \in [Threads -> Call] /\ Owner \in Threads
      /\ op[t].at # "idle" => op[t].x \in Items
      /\ UNCHANGED <<sent, got>> /\ ListStep(t)
  BY DEF Step, QueueInv, SizeInv, TypeOK, ListTypeOK
<1>x. op[Owner].at # "idle" => op[Owner].x \in Items
  BY DEF QueueInv, SizeInv, TypeOK, ListTypeOK
<1>i. SizeInv /\ LinkInv /\ UNCHANGED <<sent, got>>
  BY <1>t DEF QueueInv
<1>o. Old' = Old
  BY <1>t DEF Old
<1>1. ASSUME NEW p \in Producers, t = p, AddSetLast(p) \/ AddLink(p) \/ AddReadSize(p) \/ AddWriteSize(p)
      PROVE  Present' = IF op[t].at = "link" THEN Present \cup {op[t].x} ELSE Present
  <2>1. op'[Owner] = op[Owner]
    BY <1>t, <1>1 DEF AddSetLast, AddLink, AddReadSize, AddWriteSize, Advance
  <2>2. Taken' = Taken
    BY <1>o, <2>1 DEF Taken, Polled, Out
  <2>3. CASE AddLink(p)
    <3>1. op[p].x \notin Linked /\ Linked' = Linked \cup {op[p].x} /\ op[t].at = "link"
      BY <1>1, <1>i, <2>3, LinkKeeps DEF AddLink
    <3>2. op[p].x \notin Taken
      <4>1. Polled \subseteq Linked
        BY <1>i DEF LinkInv, UniqueInv, Unique
      <4>2. op[Owner].at = "setFirst" => op[Owner].x \in Linked
        BY <1>t, <1>i, <1>x DEF LinkInv, UniqueInv, Unique, InHand
      <4> QED
        BY <3>1, <4>1, <4>2 DEF Taken
    <3> QED
      BY <1>1, <2>2, <3>1, <3>2 DEF Present
  <2>4. CASE AddSetLast(p)
    BY <1>1, <1>i, <2>2, <2>4, SetLastKeeps DEF Present, AddSetLast
  <2>5. CASE AddReadSize(p) \/ AddWriteSize(p)
    BY <1>1, <1>i, <2>2, <2>5, RestOfAddKeeps DEF Present, AddReadSize, AddWriteSize
  <2> QED
    BY <1>1, <2>3, <2>4, <2>5
<1>2. ASSUME t = Owner, PollUnlink(t) \/ PollSetFirst(t) \/ PollClearLast(t) \/ PollReadSize(t) \/ PollWriteSize(t)
      PROVE  Present' = IF op[t].at = "unlink" THEN Present \ {op[t].x} ELSE Present
  <2>1. Linked' = Linked
    BY <1>t, <1>2, OwnerLeavesLinked
       DEF PollUnlink, PollSetFirst, PollClearLast, PollReadSize, PollWriteSize, Advance
  <2>2. PICK x \in Items : x = op[t].x
    BY <1>t, <1>2 DEF PollUnlink, PollSetFirst, PollClearLast, PollReadSize, PollWriteSize
  <2>3. \/ op[t].at = "unlink" /\ op'[t].at = "setFirst" /\ op'[t].x = x
        \/ /\ op[t].at = "setFirst" /\ op'[t].at \in {"clearLast", "readDec"}
           /\ op'[t].x = x
        \/ /\ op[t].at \in {"clearLast", "readDec", "writeDec"}
           /\ op'[t].at \in {"readDec", "writeDec", "idle"} /\ op'[t].x = x
    BY <1>t, <1>2, <2>2
       DEF PollUnlink, PollSetFirst, PollClearLast, PollReadSize, PollWriteSize,
           Advance, Returned, Call
  <2>4. Taken' = IF op[t].at = "unlink" THEN Taken \cup {x} ELSE Taken
    BY <1>2, <1>o, <2>2, <2>3 DEF Taken, Polled, Out
  <2> QED
    BY <2>1, <2>2, <2>4 DEF Present
<1>3. t \in Producers => op[t].at \in Adding
  BY <1>i DEF SizeInv, SizeBounds
<1>4. t = Owner => op[t].at \in Polling
  BY <1>i DEF SizeInv, SizeBounds
<1>5. CASE t \in Producers
  <2>1. AddSetLast(t) \/ AddLink(t) \/ AddReadSize(t) \/ AddWriteSize(t)
    BY <1>t, <1>3, <1>5
       DEF Adding, ListStep, PollUnlink, PollSetFirst, PollClearLast, PollReadSize, PollWriteSize
  <2>2. op[t].at # "unlink"
    BY <1>3, <1>5 DEF Adding
  <2> QED
    BY <1>1, <1>5, <2>1, <2>2
<1>6. CASE t = Owner
  <2>1. PollUnlink(t) \/ PollSetFirst(t) \/ PollClearLast(t) \/ PollReadSize(t) \/ PollWriteSize(t)
    BY <1>t, <1>4, <1>6
       DEF Polling, ListStep, AddSetLast, AddLink, AddReadSize, AddWriteSize
  <2>2. op[t].at # "link"
    BY <1>4, <1>6 DEF Polling
  <2> QED
    BY <1>2, <1>6, <2>1, <2>2
<1> QED
  BY <1>5, <1>6

(* So what hangs on first stays what is present.                           *)
LEMMA StepExact ==
  ASSUME QueueInv, ExactInv, NEW t \in Threads, Step(t)
  PROVE  ExactInv'
<1> USE ListAssumption, SharedListAssumption
<1>t. /\ TypeOK /\ ListTypeOK /\ op \in [Threads -> Call] /\ ListStep(t) /\ op[t].at # "idle"
      /\ op[t].q = Owner
  BY DEF Step, ListStep, AddSetLast, AddLink, AddReadSize, AddWriteSize, PollUnlink,
         PollSetFirst, PollClearLast, PollReadSize, PollWriteSize,
         QueueInv, SizeInv, TypeOK, ListTypeOK
<1>u. \A u \in Threads \ {t} : op'[u] = op[u]
  BY <1>t DEF ListStep, Advance, AddSetLast, AddLink, AddReadSize, AddWriteSize,
              PollUnlink, PollSetFirst, PollClearLast, PollReadSize, PollWriteSize
<1>r. raced' = raced
  BY <1>t DEF ListStep, AddSetLast, AddLink, AddReadSize, AddWriteSize,
         PollUnlink, PollSetFirst, PollClearLast, PollReadSize, PollWriteSize
<1>c. \/ op'[t].at # "idle" /\ op'[t].q = Owner
      \/ op'[t].at = "idle" /\ op'[t].q = NULL
  BY <1>t DEF ListStep, Advance, AddSetLast, AddLink, AddReadSize, AddWriteSize,
         PollUnlink, PollSetFirst, PollClearLast, PollReadSize, PollWriteSize, Returned, Call
<1>1. ASSUME ~Raced(Owner)'
      PROVE  /\ \A u, v \in Users(Owner)' : u = v
             /\ \E s \in [Nat -> Refs], a \in Nat, b \in Nat :
                  a <= b /\ Counted(Owner, s, a, b)' /\ Span(s, a, b) = Present'
  <2>1. ~Raced(Owner)
    BY <1>1, <1>r DEF Raced
  <2>2. Users(Owner) = {t}
    BY <1>t, <2>1 DEF ExactInv, Users
  <2>3. \A u, v \in Users(Owner)' : u = v
    BY <1>u, <2>2 DEF Users
  <2>4. PICK s \in [Nat -> Refs], a \in Nat, b \in Nat :
          a <= b /\ Counted(Owner, s, a, b) /\ Span(s, a, b) = Present
    BY <2>1 DEF ExactInv
  <2>5. ASSUME op[t].at = "link"
        PROVE  \A i \in a .. b - 1 : s[i] # op[t].x
    <3>1. op[t].x \in Items /\ op[t].x \notin Linked
      <4>1. t \in Producers
        BY <1>t, <2>5 DEF QueueInv, SizeInv, SizeBounds, Polling
      <4>2. op[t].x \in Pending /\ op[t].x \in Items
        BY <2>5, <4>1, PendingFacts DEF QueueInv
      <4> QED
        BY <4>2 DEF Linked
    <3>2. \A i \in a .. b - 1 : s[i] \in Linked
      BY <2>4 DEF Span, Present
    <3> QED
      BY <3>1, <3>2
  <2>6. PICK sx \in [Nat -> Refs], ax \in Nat, bx \in Nat :
          /\ ax <= bx
          /\ Counted(Owner, sx, ax, bx)'
          /\ Span(sx, ax, bx) = After(op[t], Span(s, a, b))
    <3>1. PICK q \in Lists : q = Owner
      OBVIOUS
    <3>2. /\ q = op[t].q /\ Users(q) = {t} /\ Counted(q, s, a, b)
          /\ op[t].at = "link" => \A i \in a .. b - 1 : s[i] # op[t].x
      BY <1>t, <2>2, <2>4, <2>5, <3>1
    <3>3. \E sx \in [Nat -> Refs], ax \in Nat, bx \in Nat :
            /\ ax <= bx
            /\ Counted(q, sx, ax, bx)'
            /\ Span(sx, ax, bx) = After(op[t], Span(s, a, b))
      BY <1>t, <2>4, <3>2, StepCounts
    <3> QED
      BY <3>1, <3>3
  <2>7. Span(sx, ax, bx) = Present'
    BY <2>4, <2>6, StepPresent
  <2> QED
    BY <2>3, <2>6, <2>7
<1> QED
  BY <1>u, <1>c, <1>1 DEF ExactInv

(* All steps together.                                                     *)
LEMMA NextExact ==
  ASSUME QueueInv, ExactInv, [Next]_sharedVars
  PROVE  ExactInv'
<1>1. CASE UNCHANGED sharedVars
  <2>1. /\ UNCHANGED <<first, last, next, size, op, raced>>
        /\ Present' = Present
    BY <1>1 DEF sharedVars, listVars, Present, Linked, Begun, Numbers, Pending,
                Taken, Polled, Old, Out
  <2>2. Users(Owner)' = Users(Owner) /\ Raced(Owner)' = Raced(Owner)
    BY <2>1 DEF Users, Raced
  <2>3. ASSUME NEW s, NEW a, NEW b, Counted(Owner, s, a, b)
        PROVE  Counted(Owner, s, a, b)'
    BY <2>1, <2>2, <2>3 DEF Counted
  <2> QED
    BY <2>1, <2>2, <2>3 DEF ExactInv
<1> QED
  BY <1>1, SendExact, PollExact, TakeExact, StepExact DEF Next

(* ExactInv holds in every reachable state.                                *)
THEOREM ExactInvariance == Spec => []ExactInv
BY InitExact, NextExact, QueueInvariance, PTL DEF Spec

(* Every non-empty set of natural numbers has a least element.             *)
LEMMA Least ==
  ASSUME NEW S \in SUBSET Nat, S # {}
  PROVE  \E m \in S : \A n \in S : m <= n
<1>1. PICK k \in Nat : k \in S
  OBVIOUS
<1>2. IsFiniteSet(0 .. k)
  BY FS_Interval
<1> DEFINE R == StrictSubsetOrdering(0 .. k)
           F == {0 .. n : n \in {m \in S : m <= k}}
<1>3. IsWellFoundedOn(R, SUBSET (0 .. k))
  <2>1. FiniteSubsetsOf(0 .. k) = SUBSET (0 .. k)
    BY <1>2, FS_FiniteSubsetsOfFinite
  <2>2. IsWellFoundedOn(R, FiniteSubsetsOf(0 .. k))
    BY FS_StrictSubsetOrderingWellFounded
  <2> QED BY <2>1, <2>2
<1>4. F # {} /\ F \subseteq SUBSET (0 .. k)
  BY <1>1
<1>5. \E x \in F : \A y \in F : <<y, x>> \notin R
  <2> HIDE DEF R, F
  <2> QED BY <1>3, <1>4, WFMin
<1>6. PICK m \in S : m <= k /\ \A y \in F : <<y, 0 .. m>> \notin R
  BY <1>5
<1>7. ASSUME NEW n \in S, n < m PROVE FALSE
  <2>1. n \in Nat /\ m \in Nat /\ n <= k /\ 0 .. n \in F
    BY <1>6, <1>7
  <2>2. 0 .. n \subseteq 0 .. m /\ m \in 0 .. m /\ m \notin 0 .. n /\ 0..m \subseteq 0..k
    BY <1>6, <1>7, <2>1
  <2>3. <<0 .. n, 0 .. m>> \in R
    BY <2>2 DEF StrictSubsetOrdering
  <2> QED BY <1>6, <2>1, <2>3
<1> QED BY <1>6, <1>7

(* The walk of Reachable is defined by where it begins and where each node *)
(* leads.                                                                  *)
IsWalk(w, N, f, n) ==
  w = [i \in 0 .. N |-> IF i = 0 THEN f ELSE IF w[i - 1] = NULL THEN NULL ELSE n[w[i - 1]]]

LEMMA WalkIsUnique ==
  ASSUME NEW N \in Nat, NEW f, NEW n, NEW v, NEW w, IsWalk(v, N, f, n), IsWalk(w, N, f, n)
  PROVE  v = w
<1> DEFINE Differ == {i \in 0 .. N : v[i] # w[i]}
<1>1. /\ \A i \in 0 .. N : v[i] = IF i = 0 THEN f ELSE IF v[i - 1] = NULL THEN NULL ELSE n[v[i - 1]]
      /\ \A i \in 0 .. N : w[i] = IF i = 0 THEN f ELSE IF w[i - 1] = NULL THEN NULL ELSE n[w[i - 1]]
  BY DEF IsWalk
<1>2. Differ = {}
  <2> SUFFICES ASSUME Differ # {} PROVE FALSE
    OBVIOUS
  <2>1. PICK m \in Differ : \A i \in Differ : m <= i
    <3>1. Differ \in SUBSET Nat
      OBVIOUS
    <3> HIDE DEF Differ
    <3> QED BY <3>1, Least
  <2>2. m \in 0 .. N /\ v[m] # w[m]
    OBVIOUS
  <2>3. m # 0 /\ m - 1 \in 0 .. N
    BY <1>1, <2>2
  <2>4. v[m - 1] = w[m - 1]
    BY <2>1, <2>2, <2>3
  <2> QED
    BY <1>1, <2>2, <2>3, <2>4
<1>3. \A i \in 0 .. N : v[i] = w[i]
  BY <1>2
<1> QED
  BY <1>3 DEF IsWalk

(* In a list in order it visits the nodes one after the other.             *)
LEMMA WalkThroughHolding ==
  ASSUME NEW s \in [Nat -> Refs], NEW a \in Nat, NEW b \in Nat, a <= b,
         NEW f, NEW l, NEW n, Holding(s, a, b, f, l, n), NEW N \in Nat
  PROVE  IsWalk([i \in 0 .. N |-> IF a + i < b THEN s[a + i] ELSE NULL], N, f, n)
<1> DEFINE w == [i \in 0 .. N |-> IF a + i < b THEN s[a + i] ELSE NULL]
<1>1. \A i \in 0 .. N : w[i] = IF a + i < b THEN s[a + i] ELSE NULL
  OBVIOUS
<1> HIDE DEF w
<1>2. ASSUME NEW i \in 0 .. N
      PROVE  w[i] = IF i = 0 THEN f ELSE IF w[i - 1] = NULL THEN NULL ELSE n[w[i - 1]]
  <2>1. CASE i = 0
    BY <1>1, <2>1 DEF Holding
  <2>2. CASE i # 0 /\ a + i < b
    <3>1. PICK j \in a .. b - 2 : j = a + (i - 1) /\ j + 1 = a + i /\ i - 1 \in 0 .. N
      BY <2>2
    <3>2. s[j] \in Items /\ n[s[j]] = s[j + 1]
      BY DEF Holding
    <3>3. w[i - 1] = s[j] /\ w[i] = s[j + 1]
      BY <1>1, <2>2, <3>1
    <3> QED
      BY <2>2, <3>2, <3>3, ListAssumption
  <2>3. CASE i # 0 /\ a + i = b
    <3>1. PICK j \in a .. b - 1 : j = a + (i - 1) /\ j = b - 1 /\ i - 1 \in 0 .. N
      BY <2>3
    <3>2. s[j] \in Items
      BY DEF Holding
    <3>3. \A k \in a .. b - 2 : s[j] # s[k]
      <4>1. \A k \in a .. b - 2 : k \in a .. b - 1 /\ k # j
        BY <3>1
      <4> QED
        BY <4>1 DEF Holding
    <3>4. n[s[j]] = NULL
      BY <3>2, <3>3 DEF Holding
    <3>5. w[i - 1] = s[j] /\ w[i] = NULL
      BY <1>1, <2>3, <3>1
    <3> QED
      BY <2>3, <3>4, <3>5
  <2>4. CASE i # 0 /\ a + i > b
    <3>1. i - 1 \in 0 .. N /\ ~(a + (i - 1) < b) /\ ~(a + i < b)
      BY <2>4
    <3> QED
      BY <1>1, <2>4, <3>1
  <2> QED
    BY <2>1, <2>2, <2>3, <2>4
<1>3. w = [i \in 0 .. N |-> w[i]]
  BY DEF w
<1>4. IsWalk(w, N, f, n)
  BY <1>2, <1>3 DEF IsWalk
<1> QED
  BY <1>4 DEF w

(* There are as many as the positions they have.                           *)
LEMMA SpanSize ==
  ASSUME NEW s \in [Nat -> Refs], NEW a \in Nat, NEW b \in Nat, a <= b,
         NEW f, NEW l, NEW n, Holding(s, a, b, f, l, n)
  PROVE  IsFiniteSet(Span(s, a, b)) /\ Cardinality(Span(s, a, b)) = b - a
<1>1. IsFiniteSet(a .. b - 1) /\ Cardinality(a .. b - 1) = b - a
  <2>1. a \in Int /\ b - 1 \in Int
    OBVIOUS
  <2>2. IsFiniteSet(a .. b - 1) /\ Cardinality(a .. b - 1) = IF a > b - 1 THEN 0 ELSE b - 1 - a + 1
    BY <2>1, FS_Interval
  <2> QED
    BY <2>2
<1>2. ExistsBijection(a .. b - 1, Span(s, a, b))
  <2> DEFINE g == [i \in a .. b - 1 |-> s[i]]
  <2>1. g \in [a .. b - 1 -> Span(s, a, b)]
    BY DEF Span
  <2>2. \A i, j \in a .. b - 1 : g[i] = g[j] => i = j
    BY DEF Holding
  <2>3. \A y \in Span(s, a, b) : \E i \in a .. b - 1 : g[i] = y
    BY DEF Span
  <2> HIDE DEF g
  <2> QED
    BY <2>1, <2>2, <2>3 DEF ExistsBijection, Bijection, Injection, Surjection, IsInjective
<1> QED
  BY <1>1, <1>2, FS_Bijection

(* There are finitely many packets.                                        *)
LEMMA ItemsAreFinite == IsFiniteSet(Items)
<1>1. IsFiniteSet(1 .. MaxPerThread)
  BY FS_Interval, SharedListAssumption
<1> QED
  BY <1>1, FS_Product, SharedListAssumption, ProducersAssumption

(* A LinkedList without a common lock is still a queue while no two calls  *)
(* have overlapped: between calls, what can be reached from first is what  *)
(* was added and not polled, and size counts it.                           *)
THEOREM ExactWithoutRaces == Spec => []ExactUntilRaced
<1>1. ASSUME QueueInv, ExactInv, raced = {}, \A t \in Threads : Ready(t)
      PROVE  Reachable(Owner) = Unpolled /\ size[Owner] = Cardinality(Unpolled)
  <2> USE ListAssumption, SharedListAssumption
  <2>1. Users(Owner) = {} /\ ~Raced(Owner)
    BY <1>1, InCallUses DEF Ready, Users, Raced, QueueInv, SizeInv
  <2>2. PICK s \in [Nat -> Refs], a \in Nat, b \in Nat :
          a <= b /\ Counted(Owner, s, a, b) /\ Span(s, a, b) = Present
    BY <1>1, <2>1 DEF ExactInv
  <2>3. Holding(s, a, b, first[Owner], last[Owner], next[Owner]) /\ size[Owner] = b - a
    BY <2>1, <2>2 DEF Counted
  <2>4. Present = Unpolled
    <3>1. Linked = Begun
      BY <1>1 DEF Linked, Pending, Ready
    <3>2. Taken \ {NULL} = (Old \cup {Result(Owner)}) \ {NULL}
      BY <1>1 DEF Taken, Polled, Out, Result, Ready
    <3>3. NULL \notin Begun
      BY <1>1, BegunFacts DEF QueueInv, SizeInv
    <3> QED
      BY <3>1, <3>2, <3>3 DEF Present, Unpolled, Old
  <2>5. PICK f, l, n : f = first[Owner] /\ l = last[Owner] /\ n = next[Owner]
    OBVIOUS
  <2>6. Holding(s, a, b, f, l, n)
    BY <2>3, <2>5
  <2>7. IsFiniteSet(Present) /\ Cardinality(Present) = b - a
    BY <2>2, <2>6, SpanSize
  <2>8. PICK N \in Nat : N = Cardinality(Items) /\ b - a <= N
    <3>1. Present \subseteq Items
      BY <1>1, BegunFacts DEF Present, Linked, QueueInv, SizeInv
    <3>2. Cardinality(Items) \in Nat
      BY ItemsAreFinite, FS_CardinalityType
    <3>3. Cardinality(Present) <= Cardinality(Items)
      BY <3>1, ItemsAreFinite, FS_Subset
    <3> QED
      BY <2>7, <3>2, <3>3
  <2>9. PICK w : w = [i \in 0 .. N |-> IF a + i < b THEN s[a + i] ELSE NULL] /\ IsWalk(w, N, f, n)
    BY <2>2, <2>6, WalkThroughHolding
  <2> DEFINE walk == CHOOSE v : IsWalk(v, Cardinality(Items), first[Owner], next[Owner])
  <2>10. walk = w
    <3>1. IsWalk(w, Cardinality(Items), first[Owner], next[Owner])
      BY <2>5, <2>8, <2>9
    <3>2. IsWalk(walk, Cardinality(Items), first[Owner], next[Owner])
      BY <3>1, Zenon
    <3> HIDE DEF walk
    <3>3. IsWalk(walk, N, f, n)
      BY <2>5, <2>8, <3>2
    <3> QED
      BY <2>9, <3>3, WalkIsUnique
  <2>11. Reachable(Owner) = {walk[i] : i \in 0 .. Cardinality(Items)} \ {NULL}
    BY Zenon DEF Reachable, IsWalk
  <2>12. {w[i] : i \in 0 .. N} \ {NULL} = Span(s, a, b)
    <3>1. \A i \in 0 .. N : w[i] = IF a + i < b THEN s[a + i] ELSE NULL
      BY <2>9
    <3>2. \A i \in 0 .. N : w[i] # NULL => w[i] \in Span(s, a, b)
      BY <2>2, <3>1 DEF Span
    <3>3. ASSUME NEW j \in a .. b - 1
          PROVE  s[j] \in {w[i] : i \in 0 .. N} \ {NULL}
      <4>1. s[j] \in Items /\ s[j] # NULL
        BY <2>6 DEF Holding
      <4>2. PICK i \in 0 .. N : a + i = j
        <5>1. j - a \in 0 .. N /\ a + (j - a) = j
          BY <2>2, <2>8
        <5> QED BY <5>1
      <4>3. w[i] = s[j]
        BY <3>1, <4>2
      <4> QED
        BY <4>1, <4>3
    <3> QED
      BY <3>2, <3>3 DEF Span
  <2> HIDE DEF walk
  <2>13. Reachable(Owner) = Span(s, a, b)
    <3>1. {walk[i] : i \in 0 .. Cardinality(Items)} = {w[i] : i \in 0 .. N}
      BY <2>8, <2>10
    <3> QED
      BY <2>11, <2>12, <3>1
  <2> QED
    BY <2>2, <2>3, <2>4, <2>7, <2>13
<1>2. QueueInv /\ ExactInv => ExactUntilRaced
  BY <1>1 DEF ExactUntilRaced
<1> QED
  BY <1>2, QueueInvariance, ExactInvariance, PTL

=============================================================================
