------------------------------- MODULE Devices -------------------------------
(***************************************************************************)
(* The devices of jpcap: the IDs that JpcapInstance hands out, the pcap    *)
(* handle that the native code keeps under each of them, and the raw       *)
(* socket.  The clients hold JpcapCaptor and JpcapSender objects.  The     *)
(* library is not synchronised, and the program calls it from one thread   *)
(* at a time (Main at start-up, then layer 1), so a call is one action.    *)
(* Captors and senders are opened and closed by the same steps and are not *)
(* told apart.                                                             *)
(***************************************************************************)
EXTENDS Integers, FiniteSets

CONSTANTS
  MaxInstances,  (* MAX_NUMBER_OF_INSTANCE, 255 in the code                *)
  Objects,       (* bound: the captors and senders referred to at one time *)
  NULL

ASSUME DevicesAssumption == MaxInstances \in Nat /\ NULL \notin Objects

IDs    == 0 .. (MaxInstances - 1)
RAW_ID == -1   (* 99999 in the code; like it, outside of the array         *)

VARIABLES
  instanciatedFlag, (* which IDs are reserved                              *)
  pcds,             (* the handle of each ID, named by who opened it       *)
  soc,              (* the raw socket: soc_num is -1, a live descriptor,   *)
                    (* or that of a socket closed since                    *)
  object,           (* the objects the client refers to                    *)
  error,            (* the exception the last call has thrown              *)
  orderly           (* history: each object closed at most once, and a     *)
                    (* sender obtained from a captor not at all            *)

deviceVars == <<instanciatedFlag, pcds, soc, object, error, orderly>>

Errors == {"none", "allOpened", "inUse", "native", "rawOpened", "outOfBounds"}
Kinds  == {"none", "device", "shared", "raw"}
Object == [kind: Kinds, ID: IDs \cup {RAW_ID}, open: BOOLEAN]
Unused == [kind |-> "none", ID |-> RAW_ID, open |-> FALSE]

DevicesInit ==
  /\ instanciatedFlag = [id \in IDs |-> FALSE]
  /\ pcds = [id \in IDs |-> NULL]
  /\ soc = "none"
  /\ object = [i \in Objects |-> Unused]
  /\ error = "none"
  /\ orderly = TRUE

New(i, kind, id) ==
  object' = [object EXCEPT ![i] = [kind |-> kind, ID |-> id, open |-> TRUE]]

-----------------------------------------------------------------------------
(* reserveID: the first ID that is free; without one the constructor       *)
(* throws.                                                                 *)
reserveAny(id) ==   \* mutant: an ID of any state
  /\ id \in IDs
  /\ instanciatedFlag' = [instanciatedFlag EXCEPT ![id] = TRUE]
reserveID(id) ==
  /\ ~instanciatedFlag[id]
  /\ \A j \in IDs : j < id => instanciatedFlag[j]
  /\ instanciatedFlag' = [instanciatedFlag EXCEPT ![id] = TRUE]

AllReserved ==
  /\ \A id \in IDs : instanciatedFlag[id]
  /\ error' = "allOpened"
  /\ UNCHANGED <<instanciatedFlag, pcds, soc, object, orderly>>

(* openDevice of JpcapCaptor and of JpcapSender.  When the native part     *)
(* fails, the object is lost with its ID still reserved.                   *)
OpenNative(i, id) ==
  /\ pcds' = [pcds EXCEPT ![id] = i]
  /\ New(i, "device", id)
  /\ error' = "none"

FailNative(id) ==
  /\ error' = IF pcds[id] # NULL THEN "inUse" ELSE "native"
  /\ UNCHANGED <<pcds, object>>

openDeviceUnreserved(i) ==   \* mutant: looks at neither table
  /\ object[i].kind = "none"
  /\ \E id \in IDs : reserveAny(id) /\ (OpenNative(i, id) \/ FailNative(id))
  /\ UNCHANGED <<soc, orderly>>

openDevice(i) ==
  /\ object[i].kind = "none"
  /\ \E id \in IDs :
       /\ reserveID(id)
       /\ (pcds[id] = NULL /\ OpenNative(i, id)) \/ FailNative(id)
  /\ UNCHANGED <<soc, orderly>>

(* openRawSocket: an ID is reserved here as well, and then forgotten.      *)
openRawSocket(i) ==
  /\ object[i].kind = "none"
  /\ \E id \in IDs : reserveID(id)
  /\ \/ /\ soc # "none"
        /\ error' = "rawOpened"
        /\ UNCHANGED <<soc, object>>
     \/ /\ soc = "none"
        /\ error' = "native"
        /\ UNCHANGED <<soc, object>>
     \/ /\ soc = "none"
        /\ soc' = "open"
        /\ New(i, "raw", RAW_ID)
        /\ error' = "none"
  /\ UNCHANGED <<pcds, orderly>>

(* getJpcapSenderInstance: a sender with the ID of the captor.             *)
getJpcapSenderInstance(i, captor) ==
  /\ object[i].kind = "none" /\ object[captor].kind = "device"
  /\ New(i, "shared", object[captor].ID)
  /\ error' = "none"
  /\ UNCHANGED <<instanciatedFlag, pcds, soc, orderly>>

-----------------------------------------------------------------------------
Closed(i) ==
  /\ object' = [object EXCEPT ![i].open = FALSE]
  /\ orderly' = (orderly /\ object[i].open /\ object[i].kind # "shared")

keepID(id) == UNCHANGED instanciatedFlag   \* mutant: the ID stays reserved
unreserveID(id) == instanciatedFlag' = [instanciatedFlag EXCEPT ![id] = FALSE]

keepHandle(id) == UNCHANGED pcds   \* mutant: the handle stays in the table
nativeClose(id) == pcds' = [pcds EXCEPT ![id] = NULL]

closeForgetting(i) ==   \* mutant: the ID of the object is lost
  /\ object[i].kind \in {"device", "shared"}
  /\ nativeClose(object[i].ID) /\ unreserveID(object[i].ID)
  /\ object' = [object EXCEPT ![i].ID = NULL]
  /\ error' = "none"
  /\ UNCHANGED <<soc, orderly>>

(* close of a captor or a sender: what is under its ID is closed, whoever  *)
(* opened it, and the ID is free.                                          *)
close(i) ==
  /\ object[i].kind \in {"device", "shared"}
  /\ nativeClose(object[i].ID) /\ unreserveID(object[i].ID)
  /\ Closed(i)
  /\ error' = "none"
  /\ UNCHANGED soc

(* close of a raw sender: the descriptor is closed, soc_num keeps its      *)
(* number, and unreserveID fails.                                          *)
closeRaw(i) ==
  /\ object[i].kind = "raw"
  /\ soc' = "closed"
  /\ Closed(i)
  /\ error' = "outOfBounds"
  /\ UNCHANGED <<instanciatedFlag, pcds>>

(* sendPacket through a handle that is not there throws.                   *)
sendPacket(i) ==
  /\ object[i].kind \in {"device", "shared"}
  /\ \/ pcds[object[i].ID] # NULL /\ error' = "none"
     \/ pcds[object[i].ID] # NULL /\ error' = "native"
     \/ pcds[object[i].ID] = NULL /\ error' = "inUse"
  /\ UNCHANGED <<instanciatedFlag, pcds, soc, object, orderly>>

(* The client loses a reference: there is no finalizer.                    *)
Drop(i) ==
  /\ object[i].kind # "none"
  /\ object' = [object EXCEPT ![i] = Unused]
  /\ UNCHANGED <<instanciatedFlag, pcds, soc, error, orderly>>

DevicesNext ==
  \/ AllReserved
  \/ \E i \in Objects :
       \/ openDevice(i) \/ openRawSocket(i) \/ close(i) \/ closeRaw(i)
       \/ sendPacket(i) \/ Drop(i)
       \/ \E captor \in Objects : getJpcapSenderInstance(i, captor)

DevicesSpec == DevicesInit /\ [][DevicesNext]_deviceVars

-----------------------------------------------------------------------------
DevicesTypeOK ==
  /\ instanciatedFlag \in [IDs -> BOOLEAN]
  /\ pcds \in [IDs -> Objects \cup {NULL}]
  /\ soc \in {"none", "open", "closed"}
  /\ object \in [Objects -> Object]
  /\ error \in Errors
  /\ orderly \in BOOLEAN

(* No handle is left under an ID that is free: whatever the clients do, an *)
(* open never comes upon the handle of another instance.                   *)
PcapHasID == \A id \in IDs : pcds[id] # NULL => instanciatedFlag[id]

Live(i) == object[i].kind = "device" /\ object[i].open

(* As long as every object is closed at most once, and no sender that came *)
(* from a captor is, each open object works on the handle it has opened.   *)
OwnDevice ==
  orderly => \A i \in Objects :
    Live(i) => object[i].ID \in IDs /\ pcds[object[i].ID] = i

DevicesInv == DevicesTypeOK /\ PcapHasID /\ OwnDevice

=============================================================================
