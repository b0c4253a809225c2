------------------------------ MODULE LossyLink ------------------------------
(***************************************************************************)
(* What a path through the stack promises to the code at its far end, no   *)
(* matter how the calls on the lists race: it may lose a packet, but it    *)
(* never invents one and never delivers one twice; and as long as it is    *)
(* ordered, what one sender put in comes out in the order in which it was  *)
(* put in.  Once lost, the order does not come back.                       *)
(***************************************************************************)
EXTENDS Naturals, Sequences

CONSTANT Senders

VARIABLES
  accepted,   (* how many packets each sender has put in                   *)
  delivered,  (* the packets <<sender, number>> that came out, in order    *)
  ordered     (* whether the path still keeps the order                    *)

linkVars == <<accepted, delivered, ordered>>

LinkInit ==
  /\ accepted = [s \in Senders |-> 0]
  /\ delivered = <<>>
  /\ ordered = TRUE

Accept(s) ==
  /\ accepted' = [accepted EXCEPT ![s] = @ + 1]
  /\ UNCHANGED delivered

Deliver(s, n) ==
  /\ n \in 1 .. accepted[s]
  /\ \A i \in DOMAIN delivered :
       delivered[i][1] = s =>
         /\ delivered[i][2] # n
         /\ ordered => delivered[i][2] < n
  /\ delivered' = Append(delivered, <<s, n>>)
  /\ UNCHANGED accepted

LoseOrder == UNCHANGED <<accepted, delivered>>

LinkNext ==
  /\ ordered' => ordered
  /\ \/ LoseOrder
     \/ \E s \in Senders : Accept(s) \/ \E n \in 1 .. accepted[s] : Deliver(s, n)

LinkSpec == LinkInit /\ [][LinkNext]_linkVars
=============================================================================
