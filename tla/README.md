# Redes1Grupal: a verification project

The program is a small network stack on top of jpcap: three layers and two
protocols, each a thread, pass packets to each other through lists, and a menu
lets the user ask for the Ethernet address of an IP address. jpcap, a Java
library with native methods in C, is part of the repository. This directory
holds TLA+ modules that model both, TLC configurations that check them, and
TLAPS proofs. Paths below are those of the repository; `r0p3/` stands for
`src/r0p3/`, `c/` for `jpcap-0.7/src/c/` and `jpcap/` for
`jpcap-0.7/src/java/jpcap/`.

## 1. Inventory

| Part | State | Operations | Hard behaviour |
|---|---|---|---|
| `r0p3/layers/Layer`, `r0p3/protocols/SelfProtocol` | `packet_list` (LinkedList), `lock` (fair semaphore), `finish` | `appendPacket`, `getPacketDiscarding`, `sendToUpperLayer`, `sendToBottomLayer`, `setFinish` | each sender acquires **its own** semaphore and adds to **another** object's list: the calls on one list race |
| `r0p3/layers/SelfPacket` | headers, direction, `scanned_type`, fake type and address | setters | three threads mark one object in turn |
| `r0p3/layers/Physical` | captor, selected interface | `run`, `sendPackage`, `configuration` | alternates between device and list; a send may fail at every step |
| `r0p3/layers/Logical` | `srcMac`, `dstMac` | `run`, `macAddressesFilter`, `configuration` | the only layer that survives a null from its list |
| `r0p3/layers/Network` | protocols, `ip_address` | `run`, `configuration` | dies of a null; then its protocols are never told to finish |
| `r0p3/protocols/Arp` | table `directions` | `run`, `requestIP`, `arpRequest`, `arpReply` | two threads (ARP and Main) share table and semaphore; the semaphore is held at a prompt and when the thread dies |
| `r0p3/protocols/Ip` | - | `run` | dies of a null |
| `r0p3/Main` | - | `main`, `menu` | starts everything; stops it through a chain of flags |
| the dialogues (`configuration` of the layers, `menu`, `requestIP`) | one `Scanner` each over `System.in` | prompts, address checks | a Scanner takes more than it uses and dies with it |
| list of interfaces (`getDeviceList` in `c/JpcapCaptor.c`) | - | `getDeviceList` | counts in one loop, fills in another; three ways to fail |
| pool of devices (`jpcap/JpcapInstance`, `JpcapSender`, `JpcapCaptor`, `c/JpcapSender.c`) | `instanciatedFlag`, `pcds`, `soc_num` | open, `getJpcapSenderInstance`, `sendPacket`, `close` | IDs that leak on failure; objects that share an ID; two threads that get the same one |
| capturing (`c/JpcapCaptor.c`, `c/JpcapWriter.c`) | `jni_envs`, `jpcap_handlers`, `Jpcap`, `pdt`, `pcdd`, all static | `getPacket`, `processPacket`, `loopPacket`, `breakLoop`, dump files | every call writes the statics that deliveries of other calls read |
| from a frame to an object (`get_packet`, `analyze_*`) | - | pure | header walk, uninitialised variable, mixed integer widths, truncation |
| from an object to a frame (`set_packet`, `set_*`, `in_cksum`) | - | pure | byte order, odd lengths, words nobody writes |
| samples, installers, WinPcap, javadoc | - | - | not part of the program |

Interaction: frames go Physical -> Logical -> Network -> ARP or IP, requests go
Main -> Network -> Logical -> Physical, every arrow an `add` to the list of the
receiver. `finish` goes Main -> Physical -> Logical -> Network -> IP and ARP,
every arrow a `setFinish` by a thread that has itself stopped. Physical opens
one captor and, per packet, one sender from the pool.

What makes the parts correct:

* lists: nothing invented and nothing twice; nothing overtaken while no two
  threads add at once; and while calls do not overlap, nothing lost;
* filter and dispatch: a protocol sees only packets for this host, of its type,
  from others; nothing captured goes back to the net; what is sent has a header;
* ARP: table and lookup are protected from each other; the table says what the
  replies said; requests for us are answered; nobody waits for ever;
* shutdown: from the bottom up, and all of it;
* dialogues: what the user answers is heard where he answered it, and what he
  typed is what is used;
* devices: two open objects never share a handle, and IDs are not lost;
* capturing: a delivery goes to the handler and the thread of its own call;
* frames: the class of an object is what the frame is, the parts are those of
  the datagram, checksums are accepted, and what is sent arrives.

`PROJECT.json` lists the hazards behind these, line by line, with the property
that would catch each.

## 2. Modules

| Module | Models | Remarks |
|---|---|---|
| `PacketList` | java.util.LinkedList as the program uses it | one action per access to a shared field |
| `SharedList` | one list, several producers, its owner's polling loop | what every pair of neighbours does |
| `LossyLink` | abstract: what a path promises | refined by `SharedList` and, three times, by `Stack` |
| `Layer` | shared state, SelfPacket, `Layer`, `SelfProtocol` | extended by the thread modules |
| `Physical`, `Logical`, `Network`, `Protocols` | one thread's `run` each; `Protocols` has ARP, IP and Main | |
| `Stack` | the program: all threads together, its properties | |
| `Devices` | the pool of jpcap's IDs and native handles | any clients |
| `Sending` | Physical as the client of `Devices` | |
| `DeviceList`, `Console` | `getDeviceList`; the user, System.in and the five dialogues | |
| `Capture` | captors, handlers and writers used from several threads | |
| `Words`, `GetPacket`, `Checksum`, `Headers` | pure: integers of C, `get_packet`, `in_cksum`, `set_*` and `analyze_*` | |
| `Wire` | objects sent, captured, dumped and sent on; frames of others | composes the four |
| `MCSharedList`, `MCStack`, `MCDevices`, `MCWire`, `MCCapture`, `MCConsole` | constants for TLC | `MCDevices` runs either Physical or any clients |
| `PacketListProofs`, `SharedListProofs`, `StackProofs`, `DevicesProofs`, `CaptureProofs`, `ConsoleProofs`, `WireProofs`, `ArrivalProofs` | theorems | section 4 |

### From the code to the model

**Lists.** `add` is linkLast: read `last`, write `last`, link (`first` or
`next`), read `size`, write `size`. `poll` is unlinkFirst: read `first` (null
ends it), read and clear `next`, write `first`, clear `last` if nothing
follows, read and write `size`. `op[t]` holds the locals of the call thread `t`
is in. The calls of all threads interleave at these points. Reading `next` of
the first node and clearing it are one action, and so are the reading of `last`
and the call: a second thread can act between, but only with effects that the
same thread has one step earlier or later. `raced` is a history of which lists
have seen two calls overlap, and whether these were adds or polls; no action
reads it.

**Threads.** `pc[t]` is the place in `run`. A thread that has not been started
is one that has not been scheduled yet. Test of `finish`, test of `isEmpty()`
and the first access of `poll` are one action: `finish` only rises and only the
owner takes from its list, so a test that was true stays true, and a test that
was false only means that the loop goes round again. The two `setFinish` calls
at the end of Network are one action, since no one reads both flags.

**Semaphores.** `lockQ` is the fair semaphore of ARP, its holder in front. The
others are left out: each is acquired by one thread only, so it makes nobody
wait and keeps nobody out. That is the finding `list_semaphore`.

**Packets.** An object is named by who made it (`L1` for captured ones, `MAIN`,
`ARP`) and a number. Addresses are model values; the fields are those that
steer a packet. That jpcap's class for a packet follows the frame type by which
Network dispatches, so that the casts in Arp and Ip succeed, is the property
`CastsSucceed` of `Wire`.

**Device.** Capture delivers any frame of `Frames`, or nothing (timeout, error,
a frame that is not Ethernet, for which the cast in SelfPacket throws and is
caught). A send succeeds or throws. `Sending` says what a throw costs.

**User.** In `Stack` he chooses, types any address, leaves by option 2, or makes
Scanner throw. In `Console` he types any line at any time: it carries the prompt
at which it was typed, so that a property can say where it was used. A Scanner
with an empty buffer takes all that has arrived (it reads up to its buffer size,
far more than the lines of a dialogue); each dialogue drops its Scanner when it
returns, that of `menu` lives on while `requestIP` has one of its own. `ahead`,
`greedy`, `misread` and `skipped` are histories.

**Pool.** The program opens and closes from one thread at a time, so in `Devices`
each call is one action; what two threads can do to each other there is in
`Capture`. `object` are the references the clients hold; a failed open leaves none, but the ID stays
reserved. 99999, the ID of a raw sender, is any value outside the array.

**Capturing.** Each thread has a stack of calls, because a handler may call the
library again. Opening is a row of actions, `openDevice` to `ReturnCaptor`: the
test of each flag in `reserveID` and the setting of it, the test of `Jpcap`, the
check of `pcds`, the store into `jni_envs`, the store of the handle and the last
look at it, with `opening[t]` the place of the thread. Another thread can act
between any two, so that two threads can get one ID (`sameID`). Closing is two
actions, the native part and `unreserveID`. `captors[id]` counts the objects
that have the ID. An action inside a call is the stretch of a native method between two points at
which another thread can change a static it depends on: a call writes the arrays
and enters pcap, each delivery reads them again, a return deletes the reference
in the array. The model stops at the first fault (`wrong`: a thread uses another
thread's environment, a deleted reference, a handle that is gone, a missing
method ID, no dump file or another's), since anything may happen after it in C;
`misuse` is the history of what the clients did. `Deliver` is one action for the
reads of `jni_envs`, of `jpcap_handlers` and of `jni_envs` once more (in
`get_packet`): whatever another thread could put there between two of them it
could also put there before the first, and the fault is then met there. The
native calls of `JpcapWriter` are single actions.

**Frames.** A frame is a record of the numbers that steer `get_packet`, the words
of its headers and the bytes of its body. Words are as the wire means them;
`ntohs` and `htons` appear only where the code has one too many or too few.
`S16`, `U16` and the others are the casts that the C code makes by its variable
types. Memory that nobody has written holds any value of `Junk`. The walk over IPv6
extension headers is modelled as it goes: `walk` holds the two bytes that each of
its steps after the first would read, whatever they belong to (`Walked`). Headers
have the length that a signed short gives them; of a negative one no array can
be made. Where `packet_ipv6.c:202` makes its word with `|`, `FlowWord` adds: the
operands share no bit if the flow label has its 20 bits, or if the class is 0, as
it is in every object that was received (`HoldsIP`).

Assumption: a write is visible to the next read (sequential consistency).
`finish` and the fields of LinkedList are not volatile; around the sleeps,
semaphores and native calls of these loops this is what a JVM does, but Java does
not promise it.

## 3. Runs

| Run | Shows | Distinct states |
|---|---|---|
| `shared_list` | `SizeInv`: what racing calls can do to `size`; `ExactUntilRaced`: a queue while calls do not overlap; `WedgeIsForever`: a list once wedged stays dead; `EachProducerInOrder`: refines `LossyLink` | 469,000 |
| `stack` | filter, dispatch and stamping seen from the far ends, the lock, needed requests, shutdown order, a thread dies only after a race, the three paths refine `LossyLink`, and the inductive invariant `IInv` | 1,790,000 |
| `stack_live` | `ShutdownCompletes`, `ReplyLearnt` | 196,000 |
| `devices` | `PcapHasID`, `OwnDevice` with clients that close out of turn; `IDsAreLost` with Physical | 1,520,000 |
| `wire` | class, casts, parts, checksums, what arrives | 21,000 |
| `capture` | which misuse each fault needs; overlapping loops never end well; every open handle can still be closed | 1,490,000 |
| `console` | the array of interfaces, octets, who hears what, the way through the dialogues | 666,000 |
| `list_semaphore`, `arp_silent`, `arp_blocked`, `arp_refresh`, `wire_fields` | violations: see section 5 | |

Bounds.

* `shared_list`: two producers, up to three packets each, four together. The
  shortest history that wedges a list takes one add that overlaps the poll of
  the node before, and a second packet uses the dead list again. The shortest
  one in which a producer's packets are overtaken takes three of its own and one
  of another producer: two adds overlap while the list is empty and the owner
  clears `last` between them. That is why `LossyLink` has `ordered`.
* `stack`: `MaxPackets = 2`, both frames, both requests, or one of each, so that
  all five lists and six threads act, the way up races with the way down in L2
  and L3, and two answers for one address can come. Two packets cannot show
  lost order in `Stack`; the links there say `ordered <- InTurn`, for which
  `shared_list` gives the reason. The frames are one of each kind that filter,
  dispatch or ARP treat differently.
* `devices`: three IDs and three objects: one shared, one closed twice and one
  innocent. With Physical, one ID is the captor's and the other two are lost by
  every pattern of failures over open and send; the code has 255, and the
  theorem holds for any number.
* `capture`: two threads, two IDs and two captors, two loops, calls two deep, two
  writers: every fault needs at most two of each. `MaxUses = 3` bounds captors, open
  or being opened, loops and dump files together: an overlap needs a captor and two loops, a lost
  file a captor and two writers, a shared ID two captors and one loop.
* `console`: two lines at most are waiting, so that a Scanner can take one too
  many; none or two adapters, with readable and unreadable addresses.
* `wire`: every object with each field at its edges, frames with lengths just
  below, at and above each check of `get_packet` and of more than a short counts,
  IPv6 with the right version and with others that send the walk on, four values of uninitialised
  memory, among them two protocol numbers, and one more hop after the first.

`CHECK_DEADLOCK FALSE`: the program ends, and the bounds stop producers; in
`capture` and `wire` nothing follows a fault or the last hop.

Fairness. `stack_live`, `arp_blocked`: weak fairness of each thread: the JVM
schedules runnable threads, and the semaphore is created fair. None of the user,
and none for a particular outcome of the device. Main's own steps are fair only
where it does not wait for input. `console`: weak fairness of the main thread; that
the user types the right answer again and again is the premise of
`GetsThrough`, not a claim about the code, and is written as strong fairness
because a full input may keep him from typing.

`ShutdownCompletes` has an exception: if Network has died, IP and ARP are never
told. `ReplyLearnt` has three: the program was told to finish, calls have
raced on some list, or Main has the lock.

## 4. Proofs

TLAPS proves, for every value of the constants:

* `SharedListProofs`: `TypeCorrect`, `SizeInvariance` (`SizeInv`). That `size` stays
  non-negative is not inductive: `SizeBounds` adds that from the
  moment the owner has seen a non-zero size to its own write, `size` and the
  copy it has read are at least 1, because all others only write larger values
  than they read, and those are never negative.
  In the same module `QueueInvariance`, and from it `ImplementsLossyLink`
  (`EachProducerInOrder`); `WedgeStays` (`WedgeIsForever`). No packet comes out
  twice because at most one reference leads to each packet (`Unique`), and none
  to one that has come out: linking is the only step that makes a reference,
  and it makes one to a packet that has none. Order: as long as no two adds
  have overlapped there is a ranking of the packets (an existential in the
  invariant) that agrees with the order in which each producer added, along
  which all references lead upwards, and in which all that came out lies below
  all that is still in the list. A packet that is being added ranks highest,
  which is what a second add at the same time destroys.
  Last, `ExactInvariance`, and from it `ExactWithoutRaces` (`ExactUntilRaced`): until
  two calls overlap, what hangs on `first` is a chain of exactly the packets that
  were linked and not taken, without repetition, and `size` is its length up to
  what the one call under way has still to write (`Holding`, `Counted`, shared
  with the proof for `Stack`). The walk along the list, a recursive function, is
  unfolded step by step (see below) and shown to visit just that chain.
* `StackProofs`: `Invariance` of `IInv`, and from it `TypeCorrect`,
  `TableIsLocked` (`OneInSection`), `RequestsAreNeeded` (`RequestedIsUnknown`)
  and `StopsFromBelow` (`NoAddToFinished`). `IInv` needs: that lists and calls
  hold only packets that exist (`PointersMade`), without which handling one
  could not be typed; that whoever is in the section of ARP is the head of the
  semaphore's queue (`LockInv`); that from lookup to request the table has no
  entry for the address (`RequestInv`), which rests on `LockInv`, since only
  the holder writes the table; and that a flag is raised only by a thread that
  has stopped and is in no call (`ShutdownInv`).
  In the same module `PathInvariance` of `PathInv`, and from it `ProtocolsGetTheirs`
  (`DeliveredIsOurs`) and `SentCarriesHeader` (`SentIsStamped`); and
  `TableKeepsFirst` (`FirstReplyStays`). The layers change a packet after it has
  been through one list and before it goes into the next, without a lock; that
  nobody else sees it meanwhile is `OnePlace`: whatever overlaps, a packet is
  in at most one place, because each access to a list moves a reference from
  one place to another or drops it. Then each list holds only packets that fit
  it (`Fits`, `InPlace`): those on the way up have passed the checks so far,
  those on the way down are marked and, below Logical, stamped.
  Then `CountInvariance`, and from it `OnlyRacesKill` (`DeathNeedsRace`): as long as
  no two calls have overlapped on a list, what hangs on `first` is a segment of
  some sequence of packets, and `size` is its length up to what the call under
  way has still to write (the lemmas of `SharedListProofs`; the sequence is an
  existential in the invariant, so TLC cannot evaluate it). Hence a poll that follows an
  `isEmpty` that said false gets a packet (`Alive`).
  Last, `OrderInvariance`, and from it `PathsKeepOrder` (`PathsInOrder`): each of the
  three paths implements `LossyLink`. The ranking that `SharedListProofs` uses
  for one list is there for each of the five (`Line`), and they are tied
  together by the way of a packet: what is in a list has been taken out of the
  list before and passed on (`Came`, `Passed`), so it ranks above all that
  passed there earlier, and being older there means having been made earlier.
  The thread between two lists keeps the order because it holds one packet at a
  time (`Held`). Only an add that overlaps another add of the same list breaks
  a line (`AloneInTurn`); adds and polls may overlap at will.
* `DevicesProofs`: `DevicesInvariance`, `DevicesTypes` (`DevicesTypeOK`),
  `HandlesHaveIDs`, `OwnersKeepDevices`.
  An ID is free only if there is no handle under it, so a new device gets an ID
  no open object has; and an orderly close empties only the slot of its object,
  because two open objects that each find themselves under their ID have
  different IDs.
  Then `PhysicalIsAClient`: each step of Physical is a step of the pool with
  orderly clients, or none; so it inherits `DevicesInvariance`. With it
  `SendingInvariance`, `FailuresCostIDs` (`IDsAreLost`, a count of a set that
  grows by one with each failure) and `CaptorIsSafe` (`CaptorKeepsDevice`).
* `CaptureProofs`: `CaptureInvariance` of `CaptureInv`, and from it
  `FaultsAreCaused` (`FaultsHaveCauses`), `OverlapsAreFatal` (`OverlapIsFatal`) and
  `NoHandleIsLost` (`HandlesCanBeClosed`). The two dozen actions fall into kinds
  of step (`Kinds`), and each part of the invariant is looked at kind by kind.
  `IDInv` says whose an ID is, until two threads have got the same one: that of
  one captor, or of one thread in the middle of an open or a close, or of nobody;
  so the check for a handle finds none, and the store overwrites none.
  `StackInv` says of every call in progress what it may rely on: its handle
  (`HandleOf`) until somebody closes the captor or a dump file of it, the
  environment in the array (`EnvOf`) until two threads are on one captor, the
  reference in the array (`RefOf`) until two loops are. A fault is the first
  step that finds one of these gone, so its cause is there already
  (`NextCause`). An overlap puts a reference over another in the array; from
  then on one reference is in no array (`LeakInv`), nobody can delete it, and as
  the references are counted by the loops (`CountInv`) the loops cannot all
  come back. The bounds of the model are constants of the theorem.
* `ConsoleProofs`: `ConsoleInvariance` and `PatientUserIsHeard` (`HeardAsTyped`).
  Until somebody types ahead, at most one line is anywhere, and it is for the
  prompt at which the main thread stands (`PendingInv`); until a Scanner has
  taken two lines, only that of the current prompt holds any (`BufferInv`).
  `ListInvariance`, and from it `ListIsComplete` (`ListedAsFound`): `getDeviceList`
  counts the readable addresses of an adapter in one loop, makes the array, and
  fills it in a second loop. Both are recursive functions over the adapter's
  addresses; after each step the array filled so far holds the readable ones
  among those seen, in order, and the count is their number, so that the array
  has neither a hole nor one entry too few. `OctetsAlwaysBytes` (`OctetsAreBytes`):
  the texts that the expression of `isValidIPAddress` lets through are the
  decimal numbers from 0 to 255, and the cast to byte and back keeps each.
* `WireProofs`: `ClassDetermined`, `CastsAlwaysSucceed`, `TransportAlwaysReal`,
  `PartsAlwaysTheDatagram` for every frame of 16-bit lengths and any junk, from
  the invariant `Overhearing`, which only ties the object to its frame; what has
  to be shown is about `get_packet`. `TransportAlwaysReal`: over a header of version
  6 the walk reads a number from 96 to 111 and ends (`VersionEndsWalk`), without a
  next header to walk over it does not start (`NoWalk`), and otherwise the frame
  has misled it (`Misled`). `PartsAlwaysTheDatagram`: the lengths are shorts, hence
  congruent to what they should be (`ShortIsCongruent`); header and data add up
  (`PartsAddUp`), and equal what is due unless the header came out negative.
  Then `PeersAlwaysAccept` (`PeerAccepts`), for every object that can be sent, of any
  length, and every one that was received and sent on or dumped and read:
  1. Arithmetic. `SwapIsRotation`: turning the bytes of a word multiplies it by 256
     modulo 2^16 - 1. So the sum of the words in memory is 256 times the sum
     of those on the wire (`MemorySum`), two foldings are enough for any sum that
     occurs, and the complement closes it (`ComplementCloses`, `ChecksumCloses`).
  2. Sending. `set_ip`, `set_tcp`, `set_udp`, `set_icmp` put a checksum where they had a
     zero; what a receiver adds is what they added plus the checksum
     (`SumWithChecksum`), so it accepts (`SetTCP`, `SetUDP`, `SetICMP`, `HeaderAccepted`).
     It has to find the same bytes: the datagram ends at `len`, before the
     padding of Ethernet (`DatagramIsFound`).
  3. The invariant. A frame is `Sound` if it has no IP options and no extension
     headers, its lengths agree with its parts, its IP checksum is accepted, and
     whenever its protocol and offset say that a TCP, UDP or ICMP message is in
     it, that message is accepted. `NativeIsSound` (and `RawIsSound`): whatever is
     sent is sound. A fragment needs an argument: its offset arrives with its
     bytes turned, and must still be one, or the receiver would look for a
     transport header in it (`FragmentStays`).
  4. Receiving. `GotIsPacket`: the object that `get_packet` makes of a sound frame of
     Ethernet fits the assumption on objects again, so step 2 applies to a packet
     that is sent on. `DumpIsSound`: `writePacket` leaves junk behind what the object
     holds, but the object holds the datagram to its end (`DatagramIsKept`).
  `WireInvariance` is 2 to 4 as an invariant of the steps.

* `ArrivalProofs`: what is sent arrives. The three properties follow a packet through
  sending, capture, dump file and sending on; the argument replaces the steps by
  what a frame says of the object that was first sent.
  1. `Tells` and `Brings`. A frame tells of an object when each number stands in its
     header as the header holds it (the low bits of a number of Java), and brings
     its data when they stand behind the header with nothing but padding behind
     them. `NativeShows` and `RawShows`: whatever is sent does both (fragments,
     unknown ICMP types and data that IPv6 cuts off excepted, part by part).
  2. `ReadsBack` and `DataIsRead`: from any sound frame that tells of an object
     `get_packet` makes an object of which that frame tells too, with the same data;
     so when it is sent on (`ForwardsData`) or dumped (`DumpBrings`), the next frame
     still tells of the first object. Without this step nothing could be said
     after a second hop, since the object sent then is another one than `sent`.
  3. `ArrivalInvariance` of `ArrivalInv`: the frame on the wire and the one received
     tell of `sent` and bring its data. With it `WhatIsSentArrives` (`RoundTrip`): what
     a frame tells, it tells without loss if the numbers fit their places
     (`WhatArrives`), and the data arrive (`DataArrive`). And `WhatIsAlwaysLost`
     (`WhatIsLost`, the other side of the run `wire_fields`): the same frame cannot hold the fragmentation flags, the traffic
     class or the second byte of an echo's identifier, and data beyond a length
     that reads as a smaller one are cut off at the first hop (`EndIsLost`).
  4. `ForwardingIsStable` (`ForwardIsStable`): two sound frames that tell of and bring
     the same object over the same link are read as the same object but for a
     checksum, whatever uninitialised memory held (`ReadAlike`): each field of the
     object is a function of what both frames have. `StableInv` says that the frame,
     read again, would still give what was first received.
  `RoundTrip` asks that the numbers fit the header (`FitsHeader`), because the Java
  fields are wider: an `ident` of 70000 is sent, and 4464 arrives. The checked
  objects all fit. The proof also showed that a protocol above 127 over
  IPv6 arrives negative, since `analyze_ipv6` casts `ip6_nxt` to a signed byte
  (`ProtocolRead`); the run sends one.

Recursive functions (`Sum`, the walk along a list, the loops of `DeviceList`) are
unfolded without the induction theorems of the library, which take operators:
`Least`, that a non-empty set of numbers has a least element, follows from the
well-foundedness of strict inclusion on finite sets; a loop that fails
somewhere fails at a least step, which the step before contradicts (`LoopRuns`,
`PartialIsUnique`). The same argument proves that two loops over one sequence stay
in step.

Assumptions: those the modules name (`ListAssumption`, `SharedListAssumption`,
`ProducersAssumption`, `LayerAssumption`, `NullIsNoPacket`, `DevicesAssumption`,
`SendingAssumption`, `CaptureAssumption`, `ConsoleAssumption`, `JunkAssumption`,
`PacketsAssumption`, `StrangeAssumption`): null is no packet, no address and no
object, the program's threads and lists are these, a list has finitely
many producers, adapters are structures as pcap makes them, the own address is
not the broadcast address. `StrangeAssumption` says what a captured frame is: each
number fits its place, at most 65535 bytes are captured (the length that Physical
asks for), the driver delivers at least the link header, and the bytes that the
walk over an IPv6 header reads are those of `walk`, which goes on to where the
walk ends (`IsFrame`, `IsWalk`). It leaves no content out: any version, any next
header and any lengths may stand in a frame.
`PacketsAssumption` says which objects are sent (`IsPacket`): the fields hold
what their Java types and the header can; the frame fits the buffer of 1600
bytes; the EtherType is that of the class; an `IPPacket` that says TCP, UDP or ICMP
without being of that class is a fragment over IPv4; an `ICMPPacket` goes over
IPv4; data over IPv6 do not begin with an extension header. The ARP requests
that the program itself makes are such, and `GotIsPacket` shows that those it receives
from its like are.

Only model-checked: the liveness properties (`ShutdownCompletes`, `ReplyLearnt`,
`GetsThrough`). They rest on fairness and so on ENABLED, which the prover cannot
handle. Every safety invariant and action property of a passing run is a theorem.
Only proved, not in a run: `TableKeepsFirst` (`FirstReplyStays`), `CaptorIsSafe`
(`CaptorKeepsDevice`) and `WhatIsAlwaysLost`. They say what the code does where a
violating run says what it should do, or follow from `PhysicalIsAClient`.

## 5. Where the code and its documents differ

With a run:

* `list_semaphore`: DEBERINGOS.txt:7 uses a semaphore for sending; `Layer.java:64`
  acquires the sender's own, and two senders are in one list.
* `arp_silent`: DEBERINGOS.txt:50 and `Arp.java:41` answer requests; `Arp.java:42`
  compares references, and no request is ever answered.
* `arp_blocked`: DEBERINGOS.txt:64 wants ARP not to block; `Arp.java:138` takes its
  semaphore before asking the user.
* `arp_refresh`: DEBERINGOS.txt:57 wants the table updated from time to time;
  `Arp.java:55` keeps the first answer for an address, and the branch that would
  replace it (60-63) is commented out.
* `wire_fields`: the comments of `IPPacket.java:19,40-47` and `ICMPPacket.java:222,226`
  name fields that a captured object does not have: the class of IPv6 (the trace),
  the fragmentation flags, identifier and number of an echo; and the end of some
  data over IPv6 is cut off.

What the properties say the code does, and what one would expect otherwise:

* lists: packets get lost, a list can die (`Wedged`), and after two overlapping
  adds a sender's own packets can come out in the wrong order;
* two threads that open at once can get the same ID (`JpcapInstance.java:13-15`); the
  second handle then replaces the first one in `pcds`, and one thread runs on the
  environment of the other (`FaultsHaveCauses`, `HandlesCanBeClosed`);
* `JpcapSender.java:18` says that 255 devices are open when the IDs were lost by
  failures (`IDsAreLost`); after one `close` of a raw sender, `JpcapSender.c:119`
  says for ever that a raw socket is already opened, because
  `nativeCloseRawSocket` leaves `soc_num` as it was;
* `JpcapWriter.java:28` documents `close` as closing the file, and `JpcapWriter.c:47`
  frees the handle of the captor as well (`FaultsHaveCauses` has it as a misuse);
* a header of more than 32767 bytes has a negative length (`JpcapCaptor.c:699,890`),
  and `NewByteArray` makes no array of it (`PartsAreTheDatagram`);
* `get_packet` takes the EtherType's word for the version of IP: a frame of type
  IPv6 with another first byte may become a TCPPacket without a TCP header
  (`TransportIsReal`, `Misled`);
* the fragmentation flags of IPv4 never arrive and the offset arrives with its
  bytes turned; identifier and number of an echo arrive with one byte each; the
  datagram in an ICMP error and the traffic class of IPv6 do not arrive
  (`WhatIsLost`); timestamps and masks of ICMP arrive with their bytes turned;
* a protocol above 127 arrives negative over IPv6 (`packet_ipv6.c:84` casts to a
  signed byte) and positive over IPv4 (`ProtocolRead`);
* the checksum of an echo with an odd number of data bytes is wrong, and so are
  those of TCP and UDP over IPv6, whose pseudo header is read at the places of
  IPv4 (`PeerAccepts` is about the others);
* four reserved bits of a TCP header are whatever the buffer held;
* an ICMP message of a type that `set_icmp` does not know goes out without a
  header; REVARP frames become ARPPackets without fields;
* `getDeviceList` may give null, of which Physical takes the length; a failing
  `socket` leaves the list of pcap allocated; with no interface at all the
  prompt comes back for ever.

## 6. Not modelled, and the plan

Not modelled, and why:

* Windows and BSD branches of `getDeviceList`, the text of descriptions, all
  output: the properties do not depend on them;
* which frames a filter lets through, `updateStat`, timeouts of sockets: the work
  of libpcap and the operating system;
* contents of IP, TCP and IPv6 options, router advertisements, link types that
  `get_packet` treats as unknown;
* data beyond `MAX_PACKET_SIZE`, for which `set_packet` and the set functions clip
  differently; objects whose addresses or data are null;
* setters and `toString` of the packet classes: they copy and print. One of them,
  `IPPacket.setIPv4Parameter` (line 161), assigns a parameter to itself;
* the memory model of Java;
* samples, installers, javadoc, and the headers of WinPcap and libpcap, which are
  vendored: they are most of the C lines of the repository.

Of the plan nothing is left that the prover can reach: all invariants and action
properties of the passing runs are theorems. What could be added is more of the
model: contents of IP and TCP options, and the stamping of extension headers.
