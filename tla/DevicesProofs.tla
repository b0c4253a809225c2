---------------------------- MODULE DevicesProofs ----------------------------
(***************************************************************************)
(* The theorems about Devices, for any number of IDs and of objects, and   *)
(* those about Sending: Physical is a client of Devices that closes in     *)
(* order, so it inherits what is shown of every client.                    *)
(***************************************************************************)
EXTENDS Sending, FiniteSetTheorems, TLAPS

(* A call that opens a device keeps the invariant: it takes an ID under    *)
(* which there is no handle.                                               *)
LEMMA OpenKeeps ==
  ASSUME DevicesInv, NEW i \in Objects, openDevice(i)
  PROVE  DevicesInv'
<1> USE DevicesAssumption DEF DevicesInv
<1>1. PICK id \in IDs :
         /\ reserveID(id)
         /\ (pcds[id] = NULL /\ OpenNative(i, id)) \/ FailNative(id)
  BY DEF openDevice
<1>2. UNCHANGED <<soc, orderly>>
  BY DEF openDevice
<1>3. instanciatedFlag' = [instanciatedFlag EXCEPT ![id] = TRUE] /\ ~instanciatedFlag[id]
  BY <1>1 DEF reserveID
<1>4. CASE pcds[id] = NULL /\ OpenNative(i, id)
  <2>1. /\ pcds' = [pcds EXCEPT ![id] = i]
        /\ object' = [object EXCEPT ![i] = [kind |-> "device", ID |-> id, open |-> TRUE]]
        /\ error' = "none"
    BY <1>4 DEF OpenNative, New
  <2>2. DevicesTypeOK'
    BY <1>2, <1>3, <2>1 DEF DevicesTypeOK, Object, Kinds, Errors
  <2>3. PcapHasID'
    BY <1>3, <2>1 DEF PcapHasID, DevicesTypeOK
  <2>4. OwnDevice'
    <3> SUFFICES ASSUME orderly', NEW k \in Objects, Live(k)'
                 PROVE  (object[k].ID \in IDs /\ pcds[object[k].ID] = k)'
      BY DEF OwnDevice
    <3>1. CASE k = i
      BY <2>1, <3>1 DEF DevicesTypeOK
    <3>2. CASE k # i
      <4>1. object'[k] = object[k] /\ Live(k)
        BY <2>1, <3>2 DEF DevicesTypeOK, Live
      <4>2. object[k].ID \in IDs /\ pcds[object[k].ID] = k
        BY <1>2, <4>1 DEF OwnDevice
      <4>3. object[k].ID # id
        BY <1>3, <4>2 DEF PcapHasID
      <4> QED BY <2>1, <4>1, <4>2, <4>3 DEF DevicesTypeOK
    <3> QED BY <3>1, <3>2
  <2> QED BY <2>2, <2>3, <2>4
<1>5. CASE FailNative(id)
  <2>1. UNCHANGED <<pcds, object>> /\ error' \in Errors
    BY <1>5 DEF FailNative, Errors
  <2>2. DevicesTypeOK'
    BY <1>2, <1>3, <2>1 DEF DevicesTypeOK
  <2>3. PcapHasID'
    BY <1>3, <2>1 DEF PcapHasID, DevicesTypeOK
  <2>4. OwnDevice'
    BY <1>2, <2>1 DEF OwnDevice, Live
  <2> QED BY <2>2, <2>3, <2>4
<1> QED BY <1>1, <1>4, <1>5

(* A call of close keeps it: it may close the handle of another object,    *)
(* but then some close has not been orderly.                               *)
LEMMA CloseKeeps ==
  ASSUME DevicesInv, NEW i \in Objects, close(i)
  PROVE  DevicesInv'
<1> USE DevicesAssumption DEF DevicesInv
<1> DEFINE id == object[i].ID
<1>1. /\ object[i].kind \in {"device", "shared"}
      /\ pcds' = [pcds EXCEPT ![id] = NULL]
      /\ instanciatedFlag' = [instanciatedFlag EXCEPT ![id] = FALSE]
      /\ orderly' = (orderly /\ object[i].open /\ object[i].kind # "shared")
      /\ object' = [object EXCEPT ![i].open = FALSE]
      /\ error' = "none" /\ soc' = soc
  BY DEF close, Closed, nativeClose, unreserveID
<1>2. DevicesTypeOK'
  <2>1. object' \in [Objects -> Object]
    BY <1>1 DEF DevicesTypeOK, Object
  <2>2. orderly' \in BOOLEAN
    BY <1>1, Zenon
  <2> QED BY <1>1, <2>1, <2>2 DEF DevicesTypeOK, Errors
<1>3. PcapHasID'
  BY <1>1 DEF PcapHasID, DevicesTypeOK
<1>4. OwnDevice'
  <2> SUFFICES ASSUME orderly', NEW k \in Objects, Live(k)'
               PROVE  (object[k].ID \in IDs /\ pcds[object[k].ID] = k)'
    BY DEF OwnDevice
  <2>1. orderly /\ Live(i)
    BY <1>1 DEF Live
  <2>2. k # i
    BY <1>1 DEF Live, DevicesTypeOK, Object
  <2>3. object'[k] = object[k] /\ Live(k)
    BY <1>1, <2>2 DEF DevicesTypeOK, Live
  <2>4. /\ object[k].ID \in IDs /\ pcds[object[k].ID] = k
        /\ object[i].ID \in IDs /\ pcds[object[i].ID] = i
    BY <2>1, <2>3 DEF OwnDevice
  <2> QED BY <1>1, <2>2, <2>3, <2>4 DEF DevicesTypeOK
<1> QED BY <1>2, <1>3, <1>4

(* The calls that open no device and close none keep it.                   *)
LEMMA OthersKeep ==
  ASSUME DevicesInv, NEW i \in Objects,
         \/ openRawSocket(i) \/ closeRaw(i) \/ sendPacket(i) \/ Drop(i)
         \/ \E captor \in Objects : getJpcapSenderInstance(i, captor)
  PROVE  DevicesInv'
<1> USE DevicesAssumption DEF DevicesInv
<1>1. pcds' = pcds /\ orderly' \in BOOLEAN /\ (orderly' => orderly)
  <2>1. CASE closeRaw(i)
    <3>1. pcds' = pcds /\ orderly' = (orderly /\ object[i].open /\ object[i].kind # "shared")
      BY <2>1 DEF closeRaw, Closed
    <3> QED BY <3>1, Zenon
  <2>2. CASE pcds' = pcds /\ orderly' = orderly
    BY <2>2 DEF DevicesTypeOK
  <2> QED
    BY <2>1, <2>2 DEF openRawSocket, sendPacket, Drop, getJpcapSenderInstance
<1>2. /\ instanciatedFlag' \in [IDs -> BOOLEAN]
      /\ \A id \in IDs : instanciatedFlag[id] => instanciatedFlag'[id]
  <2>1. CASE \E id \in IDs : reserveID(id)
    BY <2>1 DEF reserveID, DevicesTypeOK
  <2>2. CASE instanciatedFlag' = instanciatedFlag
    BY <2>2 DEF DevicesTypeOK
  <2> QED
    BY <2>1, <2>2 DEF openRawSocket, closeRaw, sendPacket, Drop, getJpcapSenderInstance
<1>3. \/ object' = object
      \/ object' = [object EXCEPT ![i].open = FALSE]
      \/ \E o \in Object : o.kind # "device" /\ object' = [object EXCEPT ![i] = o]
  <2>1. CASE openRawSocket(i)
    <3>1. [kind |-> "raw", ID |-> RAW_ID, open |-> TRUE] \in Object
      BY DEF Object, Kinds
    <3> QED BY <2>1, <3>1 DEF openRawSocket, New
  <2>2. CASE closeRaw(i)
    BY <2>2 DEF closeRaw, Closed
  <2>3. CASE sendPacket(i)
    BY <2>3 DEF sendPacket
  <2>4. CASE Drop(i)
    BY <2>4 DEF Drop, Unused, Object, Kinds
  <2>5. CASE \E captor \in Objects : getJpcapSenderInstance(i, captor)
    <3>1. PICK captor \in Objects : getJpcapSenderInstance(i, captor)
      BY <2>5
    <3>2. [kind |-> "shared", ID |-> object[captor].ID, open |-> TRUE] \in Object
      BY DEF Object, Kinds, DevicesTypeOK
    <3> QED BY <3>1, <3>2 DEF getJpcapSenderInstance, New
  <2> QED BY <2>1, <2>2, <2>3, <2>4, <2>5
<1>4. DevicesTypeOK'
  <2>1. object' \in [Objects -> Object]
    BY <1>3, ZenonT(40) DEF DevicesTypeOK, Object
  <2>2. soc' \in {"none", "open", "closed"} /\ error' \in Errors
    BY DEF openRawSocket, closeRaw, sendPacket, Drop, getJpcapSenderInstance,
           DevicesTypeOK, Errors
  <2> QED BY <1>1, <1>2, <2>1, <2>2 DEF DevicesTypeOK
<1>5. PcapHasID'
  BY <1>1, <1>2 DEF PcapHasID
<1>6. \A k \in Objects : Live(k)' => Live(k) /\ object'[k].ID = object[k].ID
  BY <1>3 DEF Live, DevicesTypeOK, Object
<1>7. OwnDevice'
  BY <1>1, <1>6 DEF OwnDevice
<1> QED BY <1>4, <1>5, <1>7

(* The types, the rule of the handles and that of the owners hold in every *)
(* state, for every sequence of calls.                                     *)
THEOREM DevicesInvariance == DevicesSpec => []DevicesInv
<1>1. DevicesInit => DevicesInv
  BY DevicesAssumption DEF DevicesInit, DevicesInv, DevicesTypeOK, PcapHasID, OwnDevice, Live,
     Unused, Object, Kinds, Errors
<1>2. DevicesInv /\ [DevicesNext]_deviceVars => DevicesInv'
  <2> SUFFICES ASSUME DevicesInv, [DevicesNext]_deviceVars PROVE DevicesInv'
    OBVIOUS
  <2>1. CASE AllReserved
    BY <2>1 DEF AllReserved, DevicesInv, DevicesTypeOK, PcapHasID, OwnDevice, Live, Errors
  <2>2. CASE UNCHANGED deviceVars
    BY <2>2 DEF deviceVars, DevicesInv, DevicesTypeOK, PcapHasID, OwnDevice, Live
  <2>3. ASSUME NEW i \in Objects, openDevice(i) PROVE DevicesInv'
    BY <2>3, OpenKeeps
  <2>4. ASSUME NEW i \in Objects, close(i) PROVE DevicesInv'
    BY <2>4, CloseKeeps
  <2>5. ASSUME NEW i \in Objects,
               \/ openRawSocket(i) \/ closeRaw(i) \/ sendPacket(i) \/ Drop(i)
               \/ \E captor \in Objects : getJpcapSenderInstance(i, captor)
        PROVE  DevicesInv'
    BY <2>5, OthersKeep
  <2> QED BY <2>1, <2>2, <2>3, <2>4, <2>5 DEF DevicesNext
<1> QED BY <1>1, <1>2, PTL DEF DevicesSpec

(* The tables, the raw socket and the objects keep to their types.         *)
THEOREM DevicesTypes == DevicesSpec => []DevicesTypeOK
<1>1. DevicesInv => DevicesTypeOK
  BY DEF DevicesInv
<1> QED BY <1>1, DevicesInvariance, PTL

(* PcapHasID: no handle is ever left under a free ID, so that the error    *)
(* "Another Jpcap instance is being used" cannot come from an open.        *)
THEOREM HandlesHaveIDs == DevicesSpec => []PcapHasID
<1>1. DevicesInv => PcapHasID
  BY DEF DevicesInv
<1> QED BY <1>1, DevicesInvariance, PTL

(* OwnDevice: two open objects never work on the same handle as long as    *)
(* the clients close in order.                                             *)
THEOREM OwnersKeepDevices == DevicesSpec => []OwnDevice
<1>1. DevicesInv => OwnDevice
  BY DEF DevicesInv
<1> QED BY <1>1, DevicesInvariance, PTL

-----------------------------------------------------------------------------
(* Physical as a client                                                    *)

Reserved == {id \in IDs : instanciatedFlag[id]}

(* The reserved IDs are accounted for at each place.                       *)
CountInv ==
  /\ at = "configuration"      => Cardinality(Reserved) = 0 /\ failures = 0
  /\ at \in {"opened", "sent"} => Cardinality(Reserved) = 2 + failures
  /\ at \in {"run", "return"}  => Cardinality(Reserved) = 1 + failures

SenderInv ==
  /\ at \in {"configuration", "run"} => object["sender"] = Unused
  /\ at \in {"opened", "sent"} => Live("sender")
  /\ at = "return" => object["sender"].kind = "device"

CaptorInv ==
  /\ at = "configuration" => object["captor"] = Unused
  /\ object["captor"].kind # "none" => Live("captor")

(* Devices are closed in order, by the only thread there is.               *)
SendingInv ==
  /\ TypeOK /\ PcapHasID /\ OwnDevice
  /\ orderly
  /\ CountInv /\ SenderInv /\ CaptorInv /\ CaptorKeepsDevice

-----------------------------------------------------------------------------
(* Every step of Physical is one of the calls that Devices allows, or none *)
(* of them: what holds for any client holds for Physical.                  *)
THEOREM PhysicalIsAClient == Spec => DevicesSpec
<1>1. Init => DevicesInit
  BY DEF Init
<1>2. [Next]_sendingVars => [DevicesNext]_deviceVars
  <2> SUFFICES ASSUME [Next]_sendingVars PROVE [DevicesNext]_deviceVars
    OBVIOUS
  <2> USE SendingAssumption
  <2>1. CASE configuration
    BY <2>1 DEF configuration, DevicesNext
  <2>2. CASE OpenSender
    BY <2>2 DEF OpenSender, DevicesNext
  <2>3. CASE NoSender
    BY <2>3 DEF NoSender, DevicesNext
  <2>4. CASE SendPacket
    BY <2>4 DEF SendPacket, DevicesNext
  <2>5. CASE CloseSender
    BY <2>5 DEF CloseSender, DevicesNext
  <2>6. CASE Return
    BY <2>6 DEF Return, DevicesNext
  <2>7. CASE UNCHANGED sendingVars
    BY <2>7 DEF sendingVars
  <2> QED BY <2>1, <2>2, <2>3, <2>4, <2>5, <2>6, <2>7 DEF Next
<1> QED BY <1>1, <1>2, PTL DEF Spec, DevicesSpec

-----------------------------------------------------------------------------
(* There are finitely many IDs, so that they can be counted.               *)
LEMMA ReservedFinite == IsFiniteSet(Reserved) /\ Cardinality(Reserved) \in Nat
<1>1. IsFiniteSet(IDs)
  BY DevicesAssumption, FS_Interval DEF IDs
<1> QED BY <1>1, FS_Subset, FS_CardinalityType DEF Reserved

(* Opening takes one more ID, whether it succeeds or not, and changes no   *)
(* object but its own.                                                     *)
LEMMA OpenTakes ==
  ASSUME DevicesTypeOK, NEW i \in Objects, openDevice(i)
  PROVE  /\ Cardinality(Reserved') = Cardinality(Reserved) + 1
         /\ UNCHANGED orderly
         /\ \A k \in Objects \ {i} : object'[k] = object[k]
         /\ \/ error' # "none" /\ object' = object
            \/ error' = "none" /\ Live(i)'
<1> USE DevicesAssumption
<1>1. PICK id \in IDs :
         /\ reserveID(id)
         /\ (pcds[id] = NULL /\ OpenNative(i, id)) \/ FailNative(id)
  BY DEF openDevice
<1>2. Reserved' = Reserved \cup {id} /\ id \notin Reserved
  BY <1>1 DEF reserveID, Reserved, DevicesTypeOK
<1>3. Cardinality(Reserved') = Cardinality(Reserved) + 1
  BY <1>2, ReservedFinite, FS_AddElement
<1>4. CASE OpenNative(i, id)
  <2>1. object'[i] = [kind |-> "device", ID |-> id, open |-> TRUE]
    BY <1>4 DEF OpenNative, New, DevicesTypeOK
  <2>2. \A k \in Objects \ {i} : object'[k] = object[k]
    BY <1>4 DEF OpenNative, New, DevicesTypeOK
  <2>3. Live(i)'
    BY <2>1 DEF Live
  <2> QED BY <1>3, <1>4, <2>2, <2>3 DEF OpenNative, openDevice
<1>5. CASE FailNative(id)
  BY <1>3, <1>5 DEF FailNative, openDevice
<1> QED BY <1>1, <1>4, <1>5

(* Closing gives one back, if the handle under it is the closer's own.     *)
LEMMA CloseGives ==
  ASSUME DevicesInv, orderly, NEW i \in Objects, Live(i), close(i)
  PROVE  /\ Cardinality(Reserved') = Cardinality(Reserved) - 1
         /\ orderly'
         /\ object' = [object EXCEPT ![i].open = FALSE]
<1> USE DevicesAssumption
<1> DEFINE id == object[i].ID
<1>1. id \in IDs /\ id \in Reserved
  BY DEF DevicesInv, OwnDevice, PcapHasID, Reserved
<1>2. Reserved' = Reserved \ {id}
  BY <1>1 DEF close, unreserveID, Reserved, DevicesInv, DevicesTypeOK
<1>3. Cardinality(Reserved') = Cardinality(Reserved) - 1
  BY <1>1, <1>2, ReservedFinite, FS_RemoveElement
<1>4. orderly' /\ object' = [object EXCEPT ![i].open = FALSE]
  <2>1. orderly' = (orderly /\ object[i].open /\ object[i].kind # "shared")
    BY DEF close, Closed
  <2>2. object' = [object EXCEPT ![i].open = FALSE]
    BY Zenon DEF close, Closed
  <2> QED BY <2>1, <2>2, Zenon DEF Live
<1> QED BY <1>3, <1>4

(* Two open objects that are closed in order are under two IDs.            *)
LEMMA Apart ==
  ASSUME OwnDevice', orderly', CaptorInv',
         (object["sender"].kind = "device" => Live("sender"))'
  PROVE  CaptorKeepsDevice'
<1> USE SendingAssumption
<1>1. CASE object'["captor"].kind = "device"
  <2>1. (pcds[object["captor"].ID] = "captor")'
    BY <1>1 DEF CaptorInv, OwnDevice
  <2>2. (object["sender"].kind = "device" => pcds[object["sender"].ID] = "sender")'
    BY DEF OwnDevice
  <2> QED BY <2>1, <2>2 DEF CaptorKeepsDevice
<1> QED BY <1>1 DEF CaptorKeepsDevice

-----------------------------------------------------------------------------
(* At every place in Physical the number of IDs is accounted for, the      *)
(* objects are in the state that place needs, and the two IDs differ.      *)
THEOREM SendingInvariance == Spec => []SendingInv
<1> USE DevicesAssumption, SendingAssumption
<1>1. Init => SendingInv
  <2> SUFFICES ASSUME Init PROVE SendingInv
    OBVIOUS
  <2>1. DevicesInv
    BY DEF Init, DevicesInit, DevicesInv, DevicesTypeOK, PcapHasID, OwnDevice, Live,
           Unused, Object, Kinds, Errors
  <2>2. Reserved = {}
    BY DEF Init, DevicesInit, Reserved
  <2>3. CountInv
    BY <2>2, FS_EmptySet DEF Init, CountInv
  <2> QED
    BY <2>1, <2>3 DEF Init, DevicesInit, SendingInv, DevicesInv, TypeOK, SenderInv,
                      CaptorInv, CaptorKeepsDevice, Unused
<1>2. SendingInv /\ DevicesInv' /\ [Next]_sendingVars => SendingInv'
  <2> SUFFICES ASSUME SendingInv, DevicesInv', [Next]_sendingVars PROVE SendingInv'
    OBVIOUS
  <2>1. /\ DevicesTypeOK /\ failures \in Nat /\ orderly /\ DevicesInv
        /\ Cardinality(Reserved) \in Nat
    BY ReservedFinite DEF SendingInv, TypeOK, DevicesInv
  <2>2. DevicesTypeOK' /\ PcapHasID' /\ OwnDevice'
    BY DEF DevicesInv
  <2>3. CASE configuration
    <3>1. at = "configuration" /\ at' = "run" /\ failures' = failures /\ openDevice("captor")
      BY <2>3 DEF configuration
    <3>2. /\ Cardinality(Reserved') = Cardinality(Reserved) + 1 /\ orderly'
          /\ object'["sender"] = object["sender"]
          /\ (object' = object \/ Live("captor")')
      BY <2>1, <3>1, OpenTakes
    <3>3. CountInv'
      BY <3>1, <3>2 DEF SendingInv, CountInv
    <3>4. SenderInv' /\ CaptorInv'
      BY <3>1, <3>2 DEF SendingInv, SenderInv, CaptorInv, Live, Unused
    <3>5. CaptorKeepsDevice'
      BY <2>2, <3>1, <3>2, <3>4, Apart DEF SenderInv, Unused
    <3> QED BY <2>1, <2>2, <3>1, <3>2, <3>3, <3>4, <3>5 DEF SendingInv, TypeOK
  <2>4. CASE OpenSender
    <3>1. /\ at = "run" /\ openDevice("sender")
          /\ at' = IF error' = "none" THEN "opened" ELSE "run"
          /\ failures' = IF error' = "none" THEN failures ELSE failures + 1
      BY <2>4 DEF OpenSender
    <3>2. /\ Cardinality(Reserved') = Cardinality(Reserved) + 1 /\ orderly'
          /\ object'["captor"] = object["captor"]
          /\ \/ error' # "none" /\ object' = object
             \/ error' = "none" /\ Live("sender")'
      BY <2>1, <3>1, OpenTakes
    <3>3. CountInv'
      BY <2>1, <3>1, <3>2 DEF SendingInv, CountInv
    <3>4. SenderInv' /\ CaptorInv'
      BY <3>1, <3>2 DEF SendingInv, SenderInv, CaptorInv, Live, Unused
    <3>5. CaptorKeepsDevice'
      BY <2>2, <3>1, <3>2, <3>4, Apart DEF SenderInv, Unused
    <3> QED BY <2>1, <2>2, <3>1, <3>2, <3>3, <3>4, <3>5 DEF SendingInv, TypeOK
  <2>5. CASE NoSender
    <3>1. /\ UNCHANGED <<at, failures, instanciatedFlag, object, orderly, pcds>>
      BY <2>5 DEF NoSender, AllReserved
    <3> QED
      BY <2>1, <2>2, <3>1 DEF SendingInv, TypeOK, CountInv, SenderInv, CaptorInv,
                              CaptorKeepsDevice, Live, Reserved
  <2>6. CASE SendPacket
    <3>1. /\ at = "opened"
          /\ at' = IF error' = "none" THEN "sent" ELSE "return"
          /\ failures' = IF error' = "none" THEN failures ELSE failures + 1
          /\ UNCHANGED <<instanciatedFlag, object, orderly, pcds>>
      BY <2>6 DEF SendPacket, sendPacket
    <3>2. CountInv'
      BY <2>1, <3>1 DEF SendingInv, CountInv, Reserved
    <3> QED
      BY <2>1, <2>2, <3>1, <3>2 DEF SendingInv, TypeOK, SenderInv, CaptorInv,
                                    CaptorKeepsDevice, Live
  <2>7. CASE CloseSender
    <3>1. at = "sent" /\ at' = "return" /\ failures' = failures /\ close("sender")
      BY <2>7 DEF CloseSender
    <3>2. Live("sender")
      BY <3>1 DEF SendingInv, SenderInv
    <3>3. /\ Cardinality(Reserved') = Cardinality(Reserved) - 1 /\ orderly'
          /\ object' = [object EXCEPT !["sender"].open = FALSE]
      BY <2>1, <3>1, <3>2, CloseGives
    <3>4. CountInv'
      BY <2>1, <3>1, <3>3 DEF SendingInv, CountInv
    <3>5. /\ object'["captor"] = object["captor"]
          /\ object'["sender"].kind = object["sender"].kind
          /\ object'["sender"].ID = object["sender"].ID
      BY <2>1, <3>3 DEF DevicesTypeOK, Object
    <3>6. SenderInv' /\ CaptorInv'
      BY <3>1, <3>2, <3>5 DEF SendingInv, SenderInv, CaptorInv, Live
    <3>7. CaptorKeepsDevice'
      BY <2>2, <3>3, <3>5, <3>6 DEF SendingInv, CaptorKeepsDevice, CaptorInv, OwnDevice
    <3> QED BY <2>1, <2>2, <3>1, <3>3, <3>4, <3>6, <3>7 DEF SendingInv, TypeOK
  <2>8. CASE Return
    <3>1. /\ at = "return" /\ at' = "run" /\ failures' = failures
          /\ object' = [object EXCEPT !["sender"] = Unused]
          /\ UNCHANGED <<instanciatedFlag, orderly>>
      BY <2>8 DEF Return, Drop
    <3>2. CountInv'
      BY <2>1, <3>1 DEF SendingInv, CountInv, Reserved
    <3>3. SenderInv' /\ CaptorInv'
      BY <2>1, <3>1 DEF SendingInv, SenderInv, CaptorInv, DevicesTypeOK, Live
    <3>4. CaptorKeepsDevice'
      BY <2>1, <2>2, <3>1, <3>3, Apart DEF SenderInv, Unused
    <3> QED BY <2>1, <2>2, <3>1, <3>2, <3>3, <3>4 DEF SendingInv, TypeOK
  <2>9. CASE UNCHANGED sendingVars
    BY <2>9 DEF sendingVars, deviceVars, SendingInv, TypeOK, DevicesTypeOK, PcapHasID,
                OwnDevice, CountInv, SenderInv, CaptorInv, CaptorKeepsDevice, Live, Reserved
  <2> QED BY <2>3, <2>4, <2>5, <2>6, <2>7, <2>8, <2>9 DEF Next
<1>3. Spec => []DevicesInv
  BY PhysicalIsAClient, DevicesInvariance, PTL
<1> QED BY <1>1, <1>2, <1>3, PTL DEF Spec

(* IDsAreLost: sendPackage loses one ID for every send that fails and no   *)
(* other, however many there are.                                          *)
THEOREM FailuresCostIDs == Spec => []IDsAreLost
<1>1. SendingInv => IDsAreLost
  BY DEF SendingInv, CountInv, Reserved, IDsAreLost
<1> QED BY <1>1, SendingInvariance, PTL

(* CaptorKeepsDevice: no sequence of sends and failures closes the captor  *)
(* of layer 1 or hands its ID out again.                                   *)
THEOREM CaptorIsSafe == Spec => []CaptorKeepsDevice
<1>1. SendingInv => CaptorKeepsDevice
  BY DEF SendingInv
<1> QED BY <1>1, SendingInvariance, PTL

=============================================================================
