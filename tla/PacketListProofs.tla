-------------------------- MODULE PacketListProofs ---------------------------
(***************************************************************************)
(* Every operation of PacketList keeps the types of its variables: lemmas  *)
(* for the proofs about the modules that use the lists.                    *)
(***************************************************************************)
EXTENDS PacketList, TLAPS

(* An idle record is a call record of the right type.                      *)
LEMMA ReturnedIsCall ==
  ASSUME NEW x \in Refs
  PROVE  Returned(x) \in Call /\ Returned(x).at = "idle" /\ Returned(x).x = x
BY DEF Returned, Call, Refs, Stages

(* list.add may begin in any thread that is not in a call.                 *)
LEMMA CallAddType ==
  ASSUME ListTypeOK, NEW t \in Threads, NEW q \in Lists, NEW x \in Items, CallAdd(t, q, x)
  PROVE  ListTypeOK'
<1>1. op' \in [Threads -> Call]
  BY DEF ListTypeOK, CallAdd, Call, Refs, Stages
<1>2. raced' \in SUBSET Overlaps
  BY DEF ListTypeOK, CallAdd, Overlap, Overlaps, Doing, Kinds
<1>3. \A u \in Threads : op'[u].at # "idle" => op'[u].q \in Lists /\ op'[u].x \in Items
  BY DEF ListTypeOK, CallAdd
<1> QED
  BY <1>1, <1>2, <1>3 DEF ListTypeOK, CallAdd

(* list.poll may begin in any thread that is not in a call.                *)
LEMMA CallPollType ==
  ASSUME ListTypeOK, NEW t \in Threads, NEW q \in Lists, CallPoll(t, q)
  PROVE  ListTypeOK'
<1>1. first[q] \in Refs
  BY DEF ListTypeOK
<1>2. raced' \in SUBSET Overlaps
  BY DEF ListTypeOK, CallPoll, Overlap, Overlaps, Doing, Kinds
<1>3. CASE first[q] = NULL
  <2>1. op' = [op EXCEPT ![t] = Returned(NULL)]
    BY <1>3 DEF CallPoll
  <2>2. Returned(NULL) \in Call /\ Returned(NULL).at = "idle"
    BY ReturnedIsCall DEF Refs
  <2> QED
    BY <1>2, <2>1, <2>2 DEF ListTypeOK, CallPoll
<1>4. CASE first[q] # NULL
  <2> DEFINE c == [at |-> "unlink", q |-> q, x |-> first[q], l |-> NULL, s |-> 0]
  <2>1. op' = [op EXCEPT ![t] = c]
    BY <1>4 DEF CallPoll
  <2>2. c \in Call /\ c.q \in Lists /\ c.x \in Items
    BY <1>1, <1>4 DEF Call, Refs, Stages
  <2> HIDE DEF c
  <2> QED
    BY <1>2, <2>1, <2>2 DEF ListTypeOK, CallPoll
<1> QED
  BY <1>3, <1>4

(* A thread that forgets the result of its last poll is between two calls. *)
LEMMA DiscardType ==
  ASSUME ListTypeOK, NEW t \in Threads, Discard(t)
  PROVE  ListTypeOK'
<1>1. Returned(NULL) \in Call /\ Returned(NULL).at = "idle"
  BY ReturnedIsCall DEF Refs
<1> QED
  BY <1>1 DEF ListTypeOK, Discard

(* The steps inside add and poll.                                          *)
LEMMA ListStepType ==
  ASSUME ListTypeOK, NEW t \in Threads, ListStep(t)
  PROVE  ListTypeOK'
<1> DEFINE q == op[t].q
           x == op[t].x
<1>0. op[t] \in Call /\ op[t].l \in Refs /\ x \in Refs /\ op[t].s \in Int
  BY DEF ListTypeOK, Call
<1>q. op[t].at # "idle" => q \in Lists /\ x \in Items
  BY DEF ListTypeOK
<1>r. Returned(NULL) \in Call /\ Returned(NULL).at = "idle"
      /\ Returned(x) \in Call /\ Returned(x).at = "idle"
  BY <1>0, ReturnedIsCall DEF Refs
<1>1. CASE AddSetLast(t)
  BY <1>1, <1>0, <1>q DEF ListTypeOK, AddSetLast, Advance, Call, Stages
<1>2. CASE AddLink(t)
  <2>1. first' \in [Lists -> Refs] /\ next' \in [Lists -> [Items -> Refs]]
    <3>1. /\ first \in [Lists -> Refs] /\ next \in [Lists -> [Items -> Refs]]
          /\ q \in Lists /\ x \in Items
      BY <1>2, <1>q DEF ListTypeOK, AddLink
    <3>2. CASE op[t].l = NULL
      BY <1>2, <3>1, <3>2 DEF AddLink, Refs
    <3>3. CASE op[t].l # NULL
      <4>1. op[t].l \in Items
        BY <1>0, <3>3 DEF Refs
      <4> QED BY <1>2, <3>1, <3>3, <4>1 DEF AddLink, Refs
    <3> QED BY <3>2, <3>3
  <2> QED
    BY <1>2, <1>0, <1>q, <2>1 DEF ListTypeOK, AddLink, Advance, Call, Stages
<1>3. CASE AddReadSize(t)
  <2>1. size[q] \in Int
    BY <1>3, <1>q DEF ListTypeOK, AddReadSize
  <2> QED
    BY <1>3, <1>0, <1>q, <2>1 DEF ListTypeOK, AddReadSize, Call, Stages
<1>4. CASE AddWriteSize(t)
  BY <1>4, <1>0, <1>q, <1>r DEF ListTypeOK, AddWriteSize
<1>5. CASE PollUnlink(t)
  <2>1. next[q][x] \in Refs
    BY <1>5, <1>q DEF ListTypeOK, PollUnlink
  <2>2. next' \in [Lists -> [Items -> Refs]]
    BY <1>5, <1>q DEF ListTypeOK, PollUnlink, Refs
  <2> QED
    BY <1>5, <1>0, <1>q, <2>1, <2>2 DEF ListTypeOK, PollUnlink, Call, Stages
<1>6. CASE PollSetFirst(t)
  BY <1>6, <1>0, <1>q DEF ListTypeOK, PollSetFirst, Advance, Call, Stages
<1>7. CASE PollClearLast(t)
  BY <1>7, <1>0, <1>q DEF ListTypeOK, PollClearLast, Advance, Call, Stages, Refs
<1>8. CASE PollReadSize(t)
  <2>1. size[q] \in Int
    BY <1>8, <1>q DEF ListTypeOK, PollReadSize
  <2> QED
    BY <1>8, <1>0, <1>q, <2>1 DEF ListTypeOK, PollReadSize, Call, Stages
<1>9. CASE PollWriteSize(t)
  BY <1>9, <1>0, <1>q, <1>r DEF ListTypeOK, PollWriteSize
<1> QED
  BY <1>1, <1>2, <1>3, <1>4, <1>5, <1>6, <1>7, <1>8, <1>9 DEF ListStep

-----------------------------------------------------------------------------
(* The lists hand on what they were given: no call brings in a packet that *)
(* was not in a list or a call before, except the one it adds.             *)

(* Advance moves a call on and leaves what it refers to.                   *)
LEMMA StageOnly ==
  ASSUME op \in [Threads -> Call], NEW t \in Threads, NEW stage, Advance(t, stage)
  PROVE  \A u \in Threads : /\ op'[u].x = op[u].x /\ op'[u].l = op[u].l
                            /\ op'[u].q = op[u].q /\ op'[u].s = op[u].s
<1>1. op[t] \in Call
  OBVIOUS
<1> QED
  BY <1>1 DEF Advance, Call

(* An add that has begun refers to the packet it was given.                *)
LEMMA CallAddHolds ==
  ASSUME ListTypeOK, NEW S, HoldOnly(S),
         NEW t \in Threads, NEW q \in Lists, NEW x \in S, CallAdd(t, q, x)
  PROVE  HoldOnly(S)'
BY DEF ListTypeOK, HoldOnly, CallAdd

(* A poll that has begun refers to the first packet of its list.           *)
LEMMA CallPollHolds ==
  ASSUME ListTypeOK, NEW S, HoldOnly(S), NEW t \in Threads, NEW q \in Lists, CallPoll(t, q)
  PROVE  HoldOnly(S)'
<1>1. op'[t].x \in S \cup {NULL} /\ op'[t].l \in S \cup {NULL}
  BY DEF ListTypeOK, HoldOnly, CallPoll, Returned
<1>2. \A u \in Threads \ {t} : op'[u] = op[u]
  BY DEF ListTypeOK, CallPoll
<1> QED
  BY <1>1, <1>2 DEF HoldOnly, CallPoll

(* Discarding a result brings in nothing.                                  *)
LEMMA DiscardHolds ==
  ASSUME ListTypeOK, NEW S, HoldOnly(S), NEW t \in Threads, Discard(t)
  PROVE  HoldOnly(S)'
BY DEF ListTypeOK, HoldOnly, Discard, Returned

(* Each access of a call copies a reference the list or the call has.      *)
LEMMA ListStepHolds ==
  ASSUME ListTypeOK, NEW S, HoldOnly(S), NEW t \in Threads, ListStep(t)
  PROVE  HoldOnly(S)'
<1> DEFINE q == op[t].q
           x == op[t].x
<1>q. op[t].at # "idle" => q \in Lists /\ x \in Items /\ x \in S \cup {NULL}
  BY DEF ListTypeOK, HoldOnly
<1>l. op[t].l \in S \cup {NULL}
  BY DEF HoldOnly
<1>1. CASE AddSetLast(t)
  BY <1>1, <1>q DEF ListTypeOK, HoldOnly, AddSetLast, Advance
<1>2. CASE AddLink(t)
  <2>1. \A r \in Lists : /\ first'[r] \in S \cup {NULL}
                         /\ \A y \in Items : next'[r][y] \in S \cup {NULL}
    <3>1. q \in Lists /\ x \in S \cup {NULL}
      BY <1>2, <1>q DEF AddLink
    <3>2. CASE op[t].l = NULL
      BY <1>2, <3>1, <3>2 DEF ListTypeOK, HoldOnly, AddLink
    <3>3. CASE op[t].l # NULL
      <4>1. first' = first /\ next' = [next EXCEPT ![q][op[t].l] = x]
        BY <1>2, <3>3 DEF AddLink
      <4> HIDE DEF q, x
      <4> QED
        BY <3>1, <4>1 DEF ListTypeOK, HoldOnly
    <3> QED
      BY <3>2, <3>3
  <2>2. \A u \in Threads : op'[u].x = op[u].x /\ op'[u].l = op[u].l
    BY <1>2, StageOnly DEF ListTypeOK, AddLink
  <2> QED
    BY <1>2, <2>1, <2>2 DEF HoldOnly, AddLink
<1>3. CASE AddReadSize(t)
  BY <1>3 DEF ListTypeOK, HoldOnly, AddReadSize
<1>4. CASE AddWriteSize(t)
  BY <1>4 DEF ListTypeOK, HoldOnly, AddWriteSize, Returned
<1>5. CASE PollUnlink(t)
  <2>1. op'[t].x \in S \cup {NULL} /\ op'[t].l \in S \cup {NULL}
    BY <1>5, <1>q DEF ListTypeOK, HoldOnly, PollUnlink
  <2>2. \A u \in Threads \ {t} : op'[u] = op[u]
    BY <1>5 DEF ListTypeOK, PollUnlink
  <2>3. \A r \in Lists : \A y \in Items : next'[r][y] \in S \cup {NULL}
    BY <1>5, <1>q DEF ListTypeOK, HoldOnly, PollUnlink
  <2> QED
    BY <1>5, <2>1, <2>2, <2>3 DEF HoldOnly, PollUnlink
<1>6. CASE PollSetFirst(t)
  <2>1. \A r \in Lists : first'[r] \in S \cup {NULL}
    BY <1>6, <1>l DEF ListTypeOK, HoldOnly, PollSetFirst
  <2>2. \A u \in Threads : op'[u].x = op[u].x /\ op'[u].l = op[u].l
    BY <1>6, StageOnly DEF ListTypeOK, PollSetFirst
  <2> QED
    BY <1>6, <2>1, <2>2 DEF HoldOnly, PollSetFirst
<1>7. CASE PollClearLast(t)
  BY <1>7 DEF ListTypeOK, HoldOnly, PollClearLast, Advance
<1>8. CASE PollReadSize(t)
  BY <1>8 DEF ListTypeOK, HoldOnly, PollReadSize
<1>9. CASE PollWriteSize(t)
  BY <1>9, <1>q DEF ListTypeOK, HoldOnly, PollWriteSize, Returned
<1> QED
  BY <1>1, <1>2, <1>3, <1>4, <1>5, <1>6, <1>7, <1>8, <1>9 DEF ListStep

-----------------------------------------------------------------------------
(* A list on which no two calls have overlapped                            *)

(* It holds s[a], ..., s[b - 1], of an array s of all that was ever in it: *)
(* f is its head, l its tail, n its successors.                            *)
Holding(s, a, b, f, l, n) ==
  /\ IF a = b THEN f = NULL /\ l = NULL ELSE f = s[a] /\ l = s[b - 1]
  /\ \A i \in a .. b - 1 : s[i] \in Items
  /\ \A i, j \in a .. b - 1 : s[i] = s[j] => i = j
  /\ \A i \in a .. b - 2 : n[s[i]] = s[i + 1]
  /\ \A y \in Items : (\A i \in a .. b - 2 : y # s[i]) => n[y] = NULL

Span(s, a, b) == {s[i] : i \in a .. b - 1}

(* linkLast.                                                               *)
LEMMA HoldingAdd ==
  ASSUME NEW s \in [Nat -> Refs], NEW a \in Nat, NEW b \in Nat, a <= b, NEW f, NEW l,
         NEW n \in [Items -> Refs], Holding(s, a, b, f, l, n),
         NEW x \in Items, \A i \in a .. b - 1 : s[i] # x
  PROVE  \E sx \in [Nat -> Refs] :
            /\ Span(sx, a, b + 1) = Span(s, a, b) \cup {x}
            /\ l = NULL => Holding(sx, a, b + 1, x, x, n)
            /\ l # NULL => l \in Items /\ Holding(sx, a, b + 1, f, x, [n EXCEPT ![l] = x])
<1> DEFINE sx == [s EXCEPT ![b] = x]
<1>1. sx \in [Nat -> Refs] /\ sx[b] = x /\ \A i \in a .. b - 1 : sx[i] = s[i]
  BY DEF Refs
<1> HIDE DEF sx
<1>s. Span(sx, a, b + 1) = Span(s, a, b) \cup {x}
  <2>1. a .. (b + 1) - 1 = (a .. b - 1) \cup {b}
    OBVIOUS
  <2> QED BY <1>1, <2>1 DEF Span
<1>2. CASE l = NULL
  <2>1. a = b
    BY <1>2, ListAssumption DEF Holding
  <2>2. Holding(sx, a, b + 1, x, x, n)
    BY <1>1, <1>2, <2>1 DEF Holding
  <2> QED
    BY <1>1, <1>s, <1>2, <2>2
<1>3. CASE l # NULL
  <2>1. a < b /\ l = s[b - 1] /\ l \in Items /\ f = s[a]
    BY <1>3 DEF Holding
  <2> DEFINE m == [n EXCEPT ![l] = x]
  <2>2. \A y \in Items : m[y] = IF y = l THEN x ELSE n[y]
    BY <2>1
  <2> HIDE DEF m
  <2>3. \A i \in a .. b : sx[i] \in Items
    BY <1>1 DEF Holding
  <2>4. \A i, j \in a .. b : sx[i] = sx[j] => i = j
    BY <1>1 DEF Holding
  <2>5. \A i \in a .. b - 1 : m[sx[i]] = sx[i + 1]
    <3> TAKE i \in a .. b - 1
    <3>1. CASE i = b - 1
      BY <1>1, <2>1, <2>2, <3>1
    <3>2. CASE i # b - 1
      BY <1>1, <2>1, <2>2, <3>2 DEF Holding
    <3> QED BY <3>1, <3>2
  <2>6. \A y \in Items : (\A i \in a .. b - 1 : y # sx[i]) => m[y] = NULL
    BY <1>1, <2>1, <2>2 DEF Holding
  <2>7. Holding(sx, a, b + 1, f, x, m)
    BY <1>1, <2>1, <2>3, <2>4, <2>5, <2>6 DEF Holding
  <2> QED
    BY <1>1, <1>s, <1>3, <2>1, <2>7 DEF m
<1> QED
  BY <1>2, <1>3

(* Something refers to each packet in it.                                  *)
LEMMA SpanIsReferred ==
  ASSUME NEW s, NEW a \in Nat, NEW b \in Nat, NEW f, NEW l, NEW n, Holding(s, a, b, f, l, n)
  PROVE  \A i \in a .. b - 1 : s[i] = f \/ \E y \in Items : s[i] = n[y]
<1> SUFFICES ASSUME NEW i \in a .. b - 1 PROVE s[i] = f \/ \E y \in Items : s[i] = n[y]
  OBVIOUS
<1>1. CASE i = a
  BY <1>1 DEF Holding
<1>2. CASE i # a
  <2>1. i - 1 \in a .. b - 2 /\ (i - 1) + 1 = i
    BY <1>2
  <2>2. s[i - 1] \in Items /\ n[s[i - 1]] = s[(i - 1) + 1]
    BY <2>1 DEF Holding
  <2> QED
    BY <2>1, <2>2
<1> QED
  BY <1>1, <1>2

(* unlinkFirst.                                                            *)
LEMMA HoldingPoll ==
  ASSUME NEW s \in [Nat -> Refs], NEW a \in Nat, NEW b \in Nat, a <= b, NEW f, NEW l,
         NEW n \in [Items -> Refs], Holding(s, a, b, f, l, n), f # NULL
  PROVE  /\ a < b /\ f \in Items
         /\ n[f] = NULL <=> a + 1 = b
         /\ Span(s, a + 1, b) = Span(s, a, b) \ {f}
         /\ Holding(s, a + 1, b, n[f], IF a + 1 = b THEN NULL ELSE l, [n EXCEPT ![f] = NULL])
<1>1. a < b /\ f = s[a] /\ l = s[b - 1] /\ f \in Items
  BY DEF Holding
<1> DEFINE m == [n EXCEPT ![f] = NULL]
<1>2. \A y \in Items : m[y] = IF y = f THEN NULL ELSE n[y]
  OBVIOUS
<1> HIDE DEF m
<1>s. Span(s, a + 1, b) = Span(s, a, b) \ {f}
  BY <1>1 DEF Holding, Span
<1>3. IF a + 1 = b THEN n[f] = NULL ELSE n[f] = s[a + 1] /\ s[a + 1] # NULL
  BY <1>1, ListAssumption DEF Holding
<1>4. \A i \in a + 1 .. b - 2 : m[s[i]] = s[i + 1]
  BY <1>1, <1>2 DEF Holding
<1>5. \A y \in Items : (\A i \in a + 1 .. b - 2 : y # s[i]) => m[y] = NULL
  BY <1>1, <1>2 DEF Holding
<1>6. Holding(s, a + 1, b, n[f], IF a + 1 = b THEN NULL ELSE l, m)
  BY <1>1, <1>3, <1>4, <1>5 DEF Holding
<1> QED
  BY <1>1, <1>s, <1>3, <1>6 DEF m

(* What list q holds and what its size field says, from one access to the  *)
(* next, when at most one thread is in a call on it: size runs behind by   *)
(* the packet that has just been linked or unlinked.                       *)
Counted(q, s, a, b) ==
  /\ Users(q) = {} => Holding(s, a, b, first[q], last[q], next[q]) /\ size[q] = b - a
  /\ \A t \in Users(q) :
       /\ op[t].at = "setLast" =>
            /\ Holding(s, a, b, first[q], last[q], next[q]) /\ size[q] = b - a
            /\ op[t].l = last[q]
       /\ op[t].at = "link" =>
            /\ Holding(s, a, b, first[q], op[t].l, next[q]) /\ size[q] = b - a
            /\ last[q] = op[t].x
       /\ op[t].at \in {"readInc", "writeInc"} =>
            /\ Holding(s, a, b, first[q], last[q], next[q]) /\ size[q] = b - a - 1 /\ a < b
       /\ op[t].at = "unlink" =>
            /\ Holding(s, a, b, first[q], last[q], next[q]) /\ size[q] = b - a
            /\ op[t].x = first[q]
       /\ op[t].at \in {"setFirst", "clearLast"} =>
            /\ Holding(s, a, b, op[t].l, IF op[t].l = NULL THEN NULL ELSE last[q], next[q])
            /\ size[q] = b - a + 1
            /\ op[t].at = "clearLast" => op[t].l = NULL /\ first[q] = NULL
       /\ op[t].at \in {"readDec", "writeDec"} =>
            /\ Holding(s, a, b, first[q], last[q], next[q]) /\ size[q] = b - a + 1
       /\ op[t].at \in {"writeInc", "writeDec"} => op[t].s = size[q]

(* A call that begins marks the list as raced unless it has it for itself. *)
LEMMA BeginRaces ==
  ASSUME NEW t, NEW q \in Lists, NEW x, CallAdd(t, q, x) \/ CallPoll(t, q)
  PROVE  /\ raced \subseteq raced'
         /\ ~Raced(q)' => Users(q) = {} /\ ~Raced(q)
<1>1. PICK call \in {"add", "poll"} : Overlap(q, call)
  BY DEF CallAdd, CallPoll
<1>2. raced' = raced \cup {<<q, {call, Doing(u)}>> : u \in Users(q)}
  BY <1>1 DEF Overlap
<1>3. ASSUME NEW u \in Users(q)
      PROVE  {call, Doing(u)} \in Kinds /\ <<q, {call, Doing(u)}>> \in raced'
  BY <1>2 DEF Kinds, Doing
<1>4. Users(q) # {} => Raced(q)'
  BY <1>3 DEF Raced
<1> QED
  BY <1>2, <1>4 DEF Raced

(* A call that begins on a list that nobody else uses finds it in order.    *)
LEMMA BeginCounts ==
  ASSUME ListTypeOK, NEW t \in Threads, NEW q \in Lists, NEW x,
         CallAdd(t, q, x) \/ CallPoll(t, q), Users(q) = {},
         NEW s, NEW a, NEW b, Counted(q, s, a, b)
  PROVE  Users(q)' \subseteq {t} /\ Counted(q, s, a, b)'
<1>1. /\ UNCHANGED <<first, last, next, size>>
      /\ \A u \in Threads \ {t} : op'[u] = op[u]
  BY DEF ListTypeOK, CallAdd, CallPoll
<1>2. Users(q)' \subseteq {t}
  BY <1>1 DEF Users
<1>3. \/ op'[t].at = "setLast" /\ op'[t].q = q /\ op'[t].l = last[q]
      \/ op'[t].at = "unlink" /\ op'[t].q = q /\ op'[t].x = first[q] /\ first[q] # NULL
      \/ op'[t].at = "idle" /\ op'[t].q = NULL
  BY DEF ListTypeOK, CallAdd, CallPoll, Returned
<1>4. Holding(s, a, b, first[q], last[q], next[q]) /\ size[q] = b - a
  BY DEF Counted
<1>5. CASE op'[t].at = "idle"
  <2>1. Users(q)' = {}
    BY <1>2, <1>3, <1>5, ListAssumption DEF Users
  <2> QED
    BY <1>1, <1>4, <2>1 DEF Counted
<1>6. CASE op'[t].at # "idle"
  BY <1>1, <1>2, <1>3, <1>4, <1>6 DEF Counted, Users
<1> QED
  BY <1>2, <1>5, <1>6

(* The packets of S after the next access of call o.                       *)
After(o, S) ==
  IF o.at = "link" THEN S \cup {o.x} ELSE IF o.at = "unlink" THEN S \ {o.x} ELSE S

(* Each access of a call that has the list for itself: linking adds a      *)
(* packet at the end, unlinking takes one away at the front.               *)
LEMMA StepCounts ==
  ASSUME ListTypeOK, NEW t \in Threads, ListStep(t), NEW q \in Lists, q = op[t].q,
         Users(q) = {t},
         NEW s \in [Nat -> Refs], NEW a \in Nat, NEW b \in Nat, a <= b, Counted(q, s, a, b),
         op[t].at = "link" => \A i \in a .. b - 1 : s[i] # op[t].x
  PROVE  \E sx \in [Nat -> Refs], ax \in Nat, bx \in Nat :
            /\ ax <= bx
            /\ Counted(q, sx, ax, bx)'
            /\ Span(sx, ax, bx) = After(op[t], Span(s, a, b))
<1>t. op[t] \in Call /\ op \in [Threads -> Call]
  BY DEF ListTypeOK
<1>u. \A u \in Threads \ {t} : op'[u] = op[u]
  BY <1>t DEF ListStep, Advance, AddSetLast, AddLink, AddReadSize, AddWriteSize,
              PollUnlink, PollSetFirst, PollClearLast, PollReadSize, PollWriteSize
<1>q. q = op[t].q
  OBVIOUS
<1>x. PICK x \in Items : x = op[t].x
  BY DEF ListTypeOK, ListStep, AddSetLast, AddLink, AddReadSize, AddWriteSize,
         PollUnlink, PollSetFirst, PollClearLast, PollReadSize, PollWriteSize
<1>l. PICK l \in Refs : l = op[t].l
  BY <1>t DEF Call
<1>c. \/ op'[t].at # "idle" /\ op'[t].q = q
      \/ op'[t].at = "idle" /\ op'[t].q = NULL
  BY <1>t, <1>q DEF ListStep, Advance, AddSetLast, AddLink, AddReadSize, AddWriteSize,
         PollUnlink, PollSetFirst, PollClearLast, PollReadSize, PollWriteSize, Returned, Call
<1>2. Users(q) = {t}
  OBVIOUS
<1>3. Users(q)' = IF op'[t].at = "idle" THEN {} ELSE {t}
  BY <1>u, <1>c, <1>2, ListAssumption DEF Users
<1>4. s \in [Nat -> Refs] /\ a \in Nat /\ b \in Nat /\ a <= b /\ Counted(q, s, a, b)
  OBVIOUS
<1>5. /\ first \in [Lists -> Refs] /\ last \in [Lists -> Refs] /\ size \in [Lists -> Int]
      /\ next \in [Lists -> [Items -> Refs]] /\ next[q] \in [Items -> Refs]
  BY DEF ListTypeOK
<1>6. CASE AddSetLast(t)
  <2>1. /\ first' = first /\ next' = next /\ size' = size /\ last'[q] = x
        /\ op[t].at = "setLast" /\ op'[t].at = "link" /\ op'[t].x = x /\ op'[t].l = l
    BY <1>t, <1>q, <1>x, <1>l, <1>5, <1>6 DEF AddSetLast, Advance, Call
  <2>2. Holding(s, a, b, first[q], last[q], next[q]) /\ size[q] = b - a /\ l = last[q]
    BY <1>l, <1>2, <1>4, <1>6 DEF Counted, AddSetLast
  <2>3. Counted(q, s, a, b)'
    BY <1>3, <2>1, <2>2 DEF Counted
  <2> QED
    BY <1>4, <2>1, <2>3 DEF After
<1>7. CASE AddLink(t)
  <2>1. op[t].at = "link"
    BY <1>7 DEF AddLink
  <2>2. Holding(s, a, b, first[q], l, next[q]) /\ size[q] = b - a /\ last[q] = x
    BY <1>x, <1>l, <1>2, <1>4, <2>1 DEF Counted
  <2>3. \A i \in a .. b - 1 : s[i] # x
    BY <1>x, <2>1
  <2>4. PICK sx \in [Nat -> Refs] :
          /\ Span(sx, a, b + 1) = Span(s, a, b) \cup {x}
          /\ l = NULL => Holding(sx, a, b + 1, x, x, next[q])
          /\ l # NULL => l \in Items
                         /\ Holding(sx, a, b + 1, first[q], x, [next[q] EXCEPT ![l] = x])
    <3>1. PICK n \in [Items -> Refs], f \in Refs : n = next[q] /\ f = first[q]
      BY <1>5
    <3>2. Holding(s, a, b, f, l, n)
      BY <2>2, <3>1
    <3>3. \E sx \in [Nat -> Refs] :
            /\ Span(sx, a, b + 1) = Span(s, a, b) \cup {x}
            /\ l = NULL => Holding(sx, a, b + 1, x, x, n)
            /\ l # NULL => l \in Items
                           /\ Holding(sx, a, b + 1, f, x, [n EXCEPT ![l] = x])
      BY <1>4, <2>3, <3>2, HoldingAdd
    <3> QED
      BY <3>1, <3>3
  <2>5. op'[t].at = "readInc" /\ size' = size /\ last' = last
    BY <1>t, <1>7 DEF AddLink, Advance, Call
  <2>6. Holding(sx, a, b + 1, first'[q], last'[q], next'[q])
    <3>1. CASE l = NULL
      BY <1>q, <1>x, <1>l, <1>5, <1>7, <2>2, <2>4, <2>5, <3>1 DEF AddLink
    <3>2. CASE l # NULL
      <4>1. next' = [next EXCEPT ![q][l] = x] /\ first' = first
        BY <1>q, <1>x, <1>l, <1>7, <3>2 DEF AddLink
      <4>2. next'[q] = [next[q] EXCEPT ![l] = x]
        BY <1>5, <4>1
      <4> QED
        BY <2>2, <2>4, <2>5, <3>2, <4>1, <4>2
    <3> QED
      BY <3>1, <3>2
  <2>7. PICK c \in Nat : c = b + 1 /\ a <= c
    BY <1>4
  <2>8. Counted(q, sx, a, c)'
    BY <1>3, <1>4, <2>2, <2>5, <2>6, <2>7 DEF Counted
  <2> QED
    BY <1>4, <1>x, <2>1, <2>4, <2>7, <2>8 DEF After
<1>8. CASE PollUnlink(t)
  <2>1. op[t].at = "unlink"
    BY <1>8 DEF PollUnlink
  <2>2. Holding(s, a, b, first[q], last[q], next[q]) /\ size[q] = b - a /\ x = first[q]
    BY <1>x, <1>2, <1>4, <2>1 DEF Counted
  <2>3. /\ a < b
        /\ next[q][x] = NULL <=> a + 1 = b
        /\ Span(s, a + 1, b) = Span(s, a, b) \ {x}
        /\ Holding(s, a + 1, b, next[q][x], IF a + 1 = b THEN NULL ELSE last[q],
                   [next[q] EXCEPT ![x] = NULL])
    <3>1. PICK n \in [Items -> Refs], f \in Refs : n = next[q] /\ f = first[q]
      BY <1>5
    <3>2. Holding(s, a, b, f, last[q], n) /\ f # NULL
      BY <1>x, <2>2, <3>1, ListAssumption
    <3>3. /\ a < b /\ f \in Items
          /\ n[f] = NULL <=> a + 1 = b
          /\ Span(s, a + 1, b) = Span(s, a, b) \ {f}
          /\ Holding(s, a + 1, b, n[f], IF a + 1 = b THEN NULL ELSE last[q],
                     [n EXCEPT ![f] = NULL])
      BY <1>4, <3>2, HoldingPoll
    <3> QED
      BY <2>2, <3>1, <3>3
  <2>4. /\ op'[t].at = "setFirst" /\ op'[t].l = next[q][x]
        /\ size' = size /\ last' = last /\ first' = first
        /\ next' = [next EXCEPT ![q][x] = NULL]
    BY <1>t, <1>q, <1>x, <1>8 DEF PollUnlink, Call
  <2>5. next'[q] = [next[q] EXCEPT ![x] = NULL]
    BY <1>5, <2>4
  <2>6. PICK c \in Nat : c = a + 1 /\ c <= b
    BY <1>4, <2>3
  <2>7. Counted(q, s, c, b)'
    BY <1>3, <1>4, <2>2, <2>3, <2>4, <2>5, <2>6 DEF Counted
  <2> QED
    BY <1>4, <1>x, <2>1, <2>3, <2>6, <2>7 DEF After
<1>9. CASE PollSetFirst(t)
  <2>1. op[t].at = "setFirst"
    BY <1>9 DEF PollSetFirst
  <2>2. Holding(s, a, b, l, IF l = NULL THEN NULL ELSE last[q], next[q]) /\ size[q] = b - a + 1
    BY <1>l, <1>2, <1>4, <2>1 DEF Counted
  <2>3. /\ first'[q] = l /\ last' = last /\ next' = next /\ size' = size
        /\ op'[t].at = (IF l = NULL THEN "clearLast" ELSE "readDec") /\ op'[t].l = l
    BY <1>t, <1>q, <1>l, <1>5, <1>9 DEF PollSetFirst, Advance, Call
  <2>4. Counted(q, s, a, b)'
    BY <1>3, <2>2, <2>3 DEF Counted
  <2> QED
    BY <1>4, <2>1, <2>4 DEF After
<1>10. CASE PollClearLast(t)
  <2>1. op[t].at = "clearLast"
    BY <1>10 DEF PollClearLast
  <2>2. Holding(s, a, b, NULL, NULL, next[q]) /\ size[q] = b - a + 1 /\ first[q] = NULL
    BY <1>2, <1>4, <2>1 DEF Counted
  <2>3. /\ last'[q] = NULL /\ first' = first /\ next' = next /\ size' = size
        /\ op'[t].at = "readDec"
    BY <1>t, <1>q, <1>5, <1>10 DEF PollClearLast, Advance, Call
  <2>4. Counted(q, s, a, b)'
    BY <1>3, <2>2, <2>3 DEF Counted
  <2> QED
    BY <1>4, <2>1, <2>4 DEF After
<1>11. CASE AddReadSize(t) \/ PollReadSize(t)
  <2>1. \/ op[t].at = "readInc" /\ op'[t].at = "writeInc"
        \/ op[t].at = "readDec" /\ op'[t].at = "writeDec"
    BY <1>t, <1>11 DEF AddReadSize, PollReadSize, Call
  <2>2. /\ first' = first /\ last' = last /\ next' = next /\ size' = size
        /\ op'[t].s = size[q]
    BY <1>t, <1>q, <1>11 DEF AddReadSize, PollReadSize, Call
  <2>3. Counted(q, s, a, b)'
    BY <1>2, <1>3, <1>4, <2>1, <2>2 DEF Counted
  <2> QED
    BY <1>4, <2>1, <2>3 DEF After
<1>12. CASE AddWriteSize(t) \/ PollWriteSize(t)
  <2>1. /\ op'[t].at = "idle"
        /\ \/ op[t].at = "writeInc" /\ size'[q] = op[t].s + 1
           \/ op[t].at = "writeDec" /\ size'[q] = op[t].s - 1
    BY <1>t, <1>q, <1>5, <1>12 DEF AddWriteSize, PollWriteSize, Returned
  <2>2. first' = first /\ last' = last /\ next' = next
    BY <1>12 DEF AddWriteSize, PollWriteSize
  <2>3. /\ Holding(s, a, b, first[q], last[q], next[q])
        /\ op[t].at = "writeInc" => op[t].s = b - a - 1
        /\ op[t].at = "writeDec" => op[t].s = b - a + 1
    BY <1>2, <1>4, <2>1 DEF Counted
  <2>4. Counted(q, s, a, b)'
    BY <1>3, <1>4, <2>1, <2>2, <2>3 DEF Counted
  <2> QED
    BY <1>4, <2>1, <2>4 DEF After
<1> QED
  BY <1>6, <1>7, <1>8, <1>9, <1>10, <1>11, <1>12 DEF ListStep

=============================================================================
