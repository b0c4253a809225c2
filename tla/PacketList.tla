----------------------------- MODULE PacketList -----------------------------
(***************************************************************************)
(* The packet lists of the stack.  Layer.packet_list and                   *)
(* SelfProtocol.packet_list are java.util.LinkedList objects: one thread,  *)
(* the owner, polls its list; the neighbouring threads add to it.  No lock *)
(* covers both sides (a layer acquires ITS OWN semaphore before it adds to *)
(* another layer's list), so the calls race.  Every action below performs  *)
(* one access to a field another thread may be using at that moment; the   *)
(* body of a call is the sequence of its actions, interleaved at will.     *)
(*                                                                         *)
(* LinkedList itself belongs to the JDK, not to the repository: the order  *)
(* of its accesses is that of linkLast (add) and unlinkFirst (poll).       *)
(***************************************************************************)
EXTENDS Integers

CONSTANTS
  Threads,  (* the threads that touch the lists                            *)
  Lists,    (* the lists, named by the thread that owns them               *)
  Items,    (* the SelfPacket objects; each is added at most once to a list *)
  NULL      (* Java's null                                                 *)

ASSUME ListAssumption == NULL \notin Items /\ NULL \notin Lists

VARIABLES
  first, last, (* head and tail references of each list                    *)
  next,        (* next[q][x]: the successor field of the node holding x    *)
  size,        (* the size field: what isEmpty() looks at                  *)
  op,          (* the call each thread is executing, with its locals       *)
  raced        (* history: the lists on which two calls have overlapped,   *)
               (* with what the two were doing                             *)

listVars == <<first, last, next, size, op, raced>>

Refs   == Items \cup {NULL}
Stages == {"idle", "setLast", "link", "readInc", "writeInc",
           "unlink", "setFirst", "clearLast", "readDec", "writeDec"}

(* A call in progress: the list q it works on, x the element added or the  *)
(* one polled, l the local reference (l of linkLast, next of unlinkFirst), *)
(* s the value of size it has read.  An idle record keeps in x the result  *)
(* of the last poll.                                                       *)
Call == [at: Stages, q: Lists \cup {NULL}, x: Refs, l: Refs, s: Int]

Returned(x) == [at |-> "idle", q |-> NULL, x |-> x, l |-> NULL, s |-> 0]

ListInit ==
  /\ first = [q \in Lists |-> NULL]
  /\ last  = [q \in Lists |-> NULL]
  /\ next  = [q \in Lists |-> [x \in Items |-> NULL]]
  /\ size  = [q \in Lists |-> 0]
  /\ op    = [t \in Threads |-> Returned(NULL)]
  /\ raced = {}

Ready(t)   == op[t].at = "idle"
Result(t)  == op[t].x
Users(q)   == {t \in Threads : op[t].q = q}
isEmpty(q) == size[q] = 0

Adds     == {"setLast", "link", "readInc", "writeInc"}
Doing(t) == IF op[t].at \in Adds THEN "add" ELSE "poll"
Kinds    == SUBSET {"add", "poll"}
Overlaps == Lists \X Kinds

Overlap(q, call) ==
  raced' = raced \cup {<<q, {call, Doing(t)}>> : t \in Users(q)}

Raced(q)   == \E k \in Kinds : <<q, k>> \in raced
Crossed(q) == <<q, {"add"}>> \in raced   \* two threads added at once

Advance(t, stage) == op' = [op EXCEPT ![t].at = stage]

-----------------------------------------------------------------------------
(* list.add(x): l = last; last = node; link it; size++                     *)

CallAdd(t, q, x) ==
  /\ op' = [op EXCEPT ![t] =
              [at |-> "setLast", q |-> q, x |-> x, l |-> last[q], s |-> 0]]
  /\ Overlap(q, "add")
  /\ UNCHANGED <<first, last, next, size>>

AddSetLast(t) ==
  /\ op[t].at = "setLast"
  /\ last' = [last EXCEPT ![op[t].q] = op[t].x]
  /\ Advance(t, "link")
  /\ UNCHANGED <<first, next, size, raced>>

AddLink(t) ==
  /\ op[t].at = "link"
  /\ IF op[t].l = NULL
     THEN /\ first' = [first EXCEPT ![op[t].q] = op[t].x]
          /\ UNCHANGED next
     ELSE /\ next' = [next EXCEPT ![op[t].q][op[t].l] = op[t].x]
          /\ UNCHANGED first
  /\ Advance(t, "readInc")
  /\ UNCHANGED <<last, size, raced>>

AddReadSize(t) ==
  /\ op[t].at = "readInc"
  /\ op' = [op EXCEPT ![t].at = "writeInc", ![t].s = size[op[t].q]]
  /\ UNCHANGED <<first, last, next, size, raced>>

AddWriteSize(t) ==
  /\ op[t].at = "writeInc"
  /\ size' = [size EXCEPT ![op[t].q] = op[t].s + 1]
  /\ op' = [op EXCEPT ![t] = Returned(NULL)]
  /\ UNCHANGED <<first, last, next, raced>>

-----------------------------------------------------------------------------
(* list.poll(): f = first; null, or unlink f and size--                    *)

CallPollUnchecked(t, q) ==   \* mutant: the test for an empty list is missing
  /\ op' = [op EXCEPT ![t] =
              [at |-> "unlink", q |-> q, x |-> first[q], l |-> NULL, s |-> 0]]
  /\ Overlap(q, "poll")
  /\ UNCHANGED <<first, last, next, size>>

CallPoll(t, q) ==
  /\ op' = [op EXCEPT ![t] =
              IF first[q] = NULL THEN Returned(NULL)
              ELSE [at |-> "unlink", q |-> q, x |-> first[q], l |-> NULL, s |-> 0]]
  /\ Overlap(q, "poll")
  /\ UNCHANGED <<first, last, next, size>>

PollUnlink(t) ==
  /\ op[t].at = "unlink"
  /\ op' = [op EXCEPT ![t].at = "setFirst", ![t].l = next[op[t].q][op[t].x]]
  /\ next' = [next EXCEPT ![op[t].q][op[t].x] = NULL]
  /\ UNCHANGED <<first, last, size, raced>>

PollSetFirst(t) ==
  /\ op[t].at = "setFirst"
  /\ first' = [first EXCEPT ![op[t].q] = op[t].l]
  /\ Advance(t, IF op[t].l = NULL THEN "clearLast" ELSE "readDec")
  /\ UNCHANGED <<last, next, size, raced>>

PollClearLast(t) ==
  /\ op[t].at = "clearLast"
  /\ last' = [last EXCEPT ![op[t].q] = NULL]
  /\ Advance(t, "readDec")
  /\ UNCHANGED <<first, next, size, raced>>

PollReadSize(t) ==
  /\ op[t].at = "readDec"
  /\ op' = [op EXCEPT ![t].at = "writeDec", ![t].s = size[op[t].q]]
  /\ UNCHANGED <<first, last, next, size, raced>>

PollWriteSize(t) ==
  /\ op[t].at = "writeDec"
  /\ size' = [size EXCEPT ![op[t].q] = op[t].s - 1]
  /\ op' = [op EXCEPT ![t] = Returned(op[t].x)]
  /\ UNCHANGED <<first, last, next, raced>>

(* The caller is through with the result of its last poll.                 *)
Discard(t) ==
  /\ op' = [op EXCEPT ![t] = Returned(NULL)]
  /\ UNCHANGED <<first, last, next, size, raced>>

(* One step of the call thread t is executing.                             *)
ListStep(t) ==
  \/ AddSetLast(t) \/ AddLink(t) \/ AddReadSize(t) \/ AddWriteSize(t)
  \/ PollUnlink(t) \/ PollSetFirst(t) \/ PollClearLast(t)
  \/ PollReadSize(t) \/ PollWriteSize(t)

-----------------------------------------------------------------------------
ListTypeOK ==
  /\ first \in [Lists -> Refs]
  /\ last  \in [Lists -> Refs]
  /\ next  \in [Lists -> [Items -> Refs]]
  /\ size  \in [Lists -> Int]
  /\ op    \in [Threads -> Call]
  /\ raced \in SUBSET Overlaps
  /\ \A t \in Threads : op[t].at # "idle" => op[t].q \in Lists /\ op[t].x \in Items

(* The lists and the calls know no other packet than those of S.           *)
HoldOnly(S) ==
  /\ \A q \in Lists :
       /\ first[q] \in S \cup {NULL} /\ last[q] \in S \cup {NULL}
       /\ \A x \in Items : next[q][x] \in S \cup {NULL}
  /\ \A t \in Threads : op[t].x \in S \cup {NULL} /\ op[t].l \in S \cup {NULL}

=============================================================================
