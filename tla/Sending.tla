------------------------------- MODULE Sending -------------------------------
(***************************************************************************)
(* What Physical does with the devices: configuration opens the captor,    *)
(* which is never closed, and sendPackage opens a sender for every packet. *)
(***************************************************************************)
EXTENDS Devices

VARIABLES
  at,       (* where Physical is                                           *)
  failures  (* history: the sends that failed in openDevice or sendPacket  *)

sendingVars == <<deviceVars, at, failures>>

ASSUME SendingAssumption == {"captor", "sender"} \subseteq Objects

Init ==
  /\ DevicesInit
  /\ at = "configuration"
  /\ failures = 0

(* A captor that cannot be opened stays null; the program goes on.         *)
configuration ==
  /\ at = "configuration"
  /\ openDevice("captor")
  /\ at' = "run"
  /\ UNCHANGED failures

(* sendPackage: open, send and close; an exception of the first two leaves *)
(* without the close.                                                      *)
OpenSender ==
  /\ at = "run"
  /\ openDevice("sender")
  /\ at' = IF error' = "none" THEN "opened" ELSE "run"
  /\ failures' = IF error' = "none" THEN failures ELSE failures + 1

NoSender ==
  /\ at = "run"
  /\ AllReserved
  /\ UNCHANGED <<at, failures>>

SendPacket ==
  /\ at = "opened"
  /\ sendPacket("sender")
  /\ at' = IF error' = "none" THEN "sent" ELSE "return"
  /\ failures' = IF error' = "none" THEN failures ELSE failures + 1

CloseSender ==
  /\ at = "sent"
  /\ close("sender")
  /\ at' = "return"
  /\ UNCHANGED failures

Return ==
  /\ at = "return"
  /\ Drop("sender")
  /\ at' = "run"
  /\ UNCHANGED failures

Next ==
  configuration \/ OpenSender \/ NoSender \/ SendPacket \/ CloseSender \/ Return

Spec == Init /\ [][Next]_sendingVars

-----------------------------------------------------------------------------
TypeOK ==
  /\ DevicesTypeOK
  /\ at \in {"configuration", "run", "opened", "sent", "return"}
  /\ failures \in Nat

(* An ID is taken for good by the captor and by every send that failed,    *)
(* and by nothing else: between two sends no other ID is reserved.         *)
IDsAreLost ==
  at = "run" => Cardinality({id \in IDs : instanciatedFlag[id]}) = 1 + failures

(* Sending, failing and losing IDs never takes the device from the captor. *)
CaptorKeepsDevice ==
  object["captor"].kind = "device" =>
    /\ pcds[object["captor"].ID] = "captor"
    /\ object["sender"].kind = "device" => object["sender"].ID # object["captor"].ID

=============================================================================
