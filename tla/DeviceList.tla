------------------------------ MODULE DeviceList -----------------------------
(***************************************************************************)
(* JpcapCaptor.getDeviceList: from the adapters that pcap_findalldevs      *)
(* reports to the array of NetworkInterface objects that the user chooses  *)
(* from.  An address is its family; what is inside is copied as it is.     *)
(***************************************************************************)
EXTENDS Integers, Sequences

CONSTANT NULL

Families == {"v4", "v6", "link", "none"}
Address  == [addr : Families, netmask : Families, broadaddr : Families, dstaddr : Families]

(* What pcap_findalldevs tells of an adapter, and whether it can be opened *)
Adapter ==
  [name : STRING, loopback : BOOLEAN, mac : {"own", NULL}, link : STRING, opens : BOOLEAN,
   addresses : Seq(Address)]

(* getAddressByteArray: none for an absent address or a foreign family     *)
getAddressByteArray(family) == IF family \in {"v4", "v6"} THEN family ELSE NULL

Readable(a) == getAddressByteArray(a.addr) # NULL

(* The address in an entry of the array                                    *)
Bytes == Families \cup {NULL}
Listed == [addr : Bytes, netmask : Bytes, broadaddr : Bytes, dstaddr : Bytes]
InterfaceAddress(a) ==
  [addr |-> getAddressByteArray(a.addr), netmask |-> getAddressByteArray(a.netmask),
   broadaddr |-> getAddressByteArray(a.broadaddr), dstaddr |-> getAddressByteArray(a.dstaddr)]

(* The first loop over the addresses counts, the second one fills the      *)
(* array that was made for so many; [k] is what either has when it has     *)
(* gone through k addresses.                                               *)
CountedAll(as) == Len(as)   \* mutant: counts what will not be filled in
Counted(as) ==
  LET j[k \in 0 .. Len(as)] ==
        IF k = 0 THEN 0 ELSE IF Readable(as[k]) THEN j[k - 1] + 1 ELSE j[k - 1]
  IN  j[Len(as)]

Addresses(as) ==
  LET fill[k \in 0 .. Len(as)] ==
        IF k = 0
        THEN [j |-> 0, array |-> [i \in 1 .. Counted(as) |-> NULL]]
        ELSE IF Readable(as[k])
        THEN [j     |-> fill[k - 1].j + 1,
              array |-> [fill[k - 1].array EXCEPT ![fill[k - 1].j + 1] = InterfaceAddress(as[k])]]
        ELSE fill[k - 1]
  IN  fill[Len(as)].array

(* The adapter is opened for its link type; if that fails it is "Unknown". *)
LinkName(d) == IF d.opens THEN d.link ELSE "Unknown"

(* The ioctl for it is not checked; it fills in a structure of zeros.      *)
HardwareAddress(d) == IF d.mac = NULL THEN "zeros" ELSE d.mac

NetworkInterface(d) ==
  [name |-> d.name, loopback |-> d.loopback, mac |-> HardwareAddress(d),
   linkName |-> LinkName(d), addresses |-> Addresses(d.addresses)]

(* A failing pcap_findalldevs gives null and no exception; a socket that   *)
(* cannot be opened throws, for the adapter it is needed for.              *)
ListNothing(devices)      == devices = NULL
ListAll(alldevs, devices) ==
  devices = [i \in 1 .. Len(alldevs) |-> NetworkInterface(alldevs[i])]
SocketFails(alldevs)      == alldevs # <<>>
=============================================================================
