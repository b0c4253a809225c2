----------------------------- MODULE MCDevices ------------------------------
(***************************************************************************)
(* The pool of devices with Physical as its client, or with any other.     *)
(***************************************************************************)
EXTENDS Sending

ClientsInit ==
  /\ DevicesInit
  /\ at \in {"configuration", "elsewhere"}
  /\ failures = 0

AnyClient ==
  /\ at = "elsewhere"
  /\ DevicesNext
  /\ UNCHANGED <<at, failures>>

ClientsSpec == ClientsInit /\ [][Next \/ AnyClient]_sendingVars
=============================================================================
