------------------------------- MODULE Console -------------------------------
(***************************************************************************)
(* What the user types, and who reads it.  Physical, Logical and Network   *)
(* ask in configuration, then Main.menu and, from there, Arp.requestIP.    *)
(* Each of them wraps System.in in a Scanner of its own.  A Scanner whose  *)
(* buffer is empty takes everything that has arrived; what it does not use *)
(* is lost with it.  The Scanner of menu lives on while requestIP asks     *)
(* with another one.                                                       *)
(*                                                                         *)
(* A line is what it looks like and the dialogue whose prompt it was typed *)
(* at.                                                                     *)
(***************************************************************************)
EXTENDS DeviceList, FiniteSets, TLC

CONSTANTS
  Adapters,     (* what pcap_findalldevs may report                        *)
  MaxPending    (* bound: lines that have arrived and nobody has taken     *)

Asked   == {"interface", "mac", "ip"}
Prompts == Asked \cup {"menu", "request"}
Texts   == {"0", "1", "2", "mac", "address"}
Line    == [text : Texts, for : Prompts]

ASSUME ConsoleAssumption ==
  /\ MaxPending \in Nat
  /\ NULL \notin Families /\ NULL \notin Listed
  /\ \A ds \in Adapters : ds \in Seq(Adapter)

VARIABLES
  at,         (* the prompt the main thread stands at                      *)
  alldevs,    (* the adapters there are                                    *)
  devices,    (* the array that getDeviceList returned                     *)
  captor,     (* Physical.captor: NULL or "open"                           *)
  input,      (* the lines that have arrived on System.in                  *)
  closed,     (* nothing more will arrive                                  *)
  buffer,     (* what each Scanner has taken and not used                  *)
  ahead,      (* history: a line was typed while another one was pending   *)
  greedy,     (* history: a Scanner took more than one line                *)
  misread,    (* history: a line was used at another prompt than its own   *)
  skipped     (* history: a line was dropped or overtaken                  *)

history == <<ahead, greedy, misread, skipped>>
vars == <<at, alldevs, devices, captor, input, closed, buffer, history>>

(* An octet as isValidIPAddress takes it: 25[0-5], 2[0-4][0-9] or          *)
(* [01]?[0-9][0-9]?; a digit string is a sequence of digits.               *)
OctetLoose(s) ==   \* mutant: 2[0-5][0-9] for the first two alternatives
  \/ Len(s) = 3 /\ s[1] = 2 /\ s[2] \in 0 .. 5
  \/ Len(s) = 3 /\ s[1] \in {0, 1}
  \/ Len(s) \in {1, 2}

Octet(s) ==
  \/ Len(s) = 3 /\ s[1] = 2 /\ s[2] = 5 /\ s[3] \in 0 .. 5
  \/ Len(s) = 3 /\ s[1] = 2 /\ s[2] \in 0 .. 4
  \/ Len(s) = 3 /\ s[1] \in {0, 1}
  \/ Len(s) \in {1, 2}

(* Integer.parseInt, the cast to byte, and b&0xff in byteToStr             *)
parseInt(s) ==
  LET value[i \in 0 .. Len(s)] == IF i = 0 THEN 0 ELSE 10 * value[i - 1] + s[i]
  IN  value[Len(s)]
ToByte(n)   == ((n + 128) % 256) - 128
Unsigned(b) == b % 256

Init ==
  /\ at = "list"
  /\ alldevs \in Adapters
  /\ devices = NULL /\ captor = NULL
  /\ input = <<>> /\ closed = FALSE
  /\ buffer = [d \in Prompts |-> <<>>]
  /\ ahead = FALSE /\ greedy = FALSE /\ misread = FALSE /\ skipped = FALSE

-----------------------------------------------------------------------------
(* The user                                                                *)

Type(text) ==
  /\ at \in Prompts /\ ~closed
  /\ Len(input) < MaxPending
  /\ input' = Append(input, [text |-> text, for |-> at])
  /\ ahead' = (ahead \/ input # <<>> \/ buffer[at] # <<>>)
  /\ UNCHANGED <<at, alldevs, devices, captor, closed, buffer, greedy, misread, skipped>>

CloseInput ==
  /\ ~closed /\ closed' = TRUE
  /\ UNCHANGED <<at, alldevs, devices, captor, input, buffer, history>>

-----------------------------------------------------------------------------
(* The main thread                                                         *)

(* getDeviceList: without a list, devices.length throws.                   *)
List ==
  /\ at = "list"
  /\ \/ ListAll(alldevs, devices') /\ at' = "interface"
     \/ ListNothing(devices') /\ at' = "failed"
     \/ SocketFails(alldevs) /\ at' = "failed" /\ UNCHANGED devices
  /\ UNCHANGED <<alldevs, captor, input, closed, buffer, history>>

(* nextInt and nextLine with an empty buffer: everything that has arrived  *)
Fill ==
  /\ at \in Prompts
  /\ buffer[at] = <<>> /\ input # <<>>
  /\ buffer' = [buffer EXCEPT ![at] = input]
  /\ input' = <<>>
  /\ greedy' = (greedy \/ Len(input) > 1)
  /\ UNCHANGED <<at, alldevs, devices, captor, closed, ahead, misread, skipped>>

(* NoSuchElementException: nobody but main catches it.                     *)
EndOfInput ==
  /\ at \in Prompts
  /\ buffer[at] = <<>> /\ input = <<>> /\ closed
  /\ at' = "failed"
  /\ UNCHANGED <<alldevs, devices, captor, input, closed, buffer, history>>

Answer(d) == Head(buffer[d])

Offered == {i \in 0 .. 2 : i < Len(devices)}
Number(i) == ToString(i)

(* The line has been used and the Scanner goes away with what it holds.    *)
UseLast(d) ==
  /\ buffer' = [buffer EXCEPT ![d] = <<>>]
  /\ misread' = (misread \/ Answer(d).for # d)
  /\ skipped' = (skipped \/ Len(buffer[d]) > 1
                         \/ (d = "request" /\ buffer["menu"] # <<>>))

(* The line has been used and the Scanner is kept.                         *)
Use(d) ==
  /\ buffer' = [buffer EXCEPT ![d] = Tail(@)]
  /\ misread' = (misread \/ Answer(d).for # d)
  /\ skipped' = (skipped \/ (d = "request" /\ buffer["menu"] # <<>>))

AskAgain(d) == Use(d) /\ UNCHANGED <<at, captor>>

(* InputMismatchException: nextInt has left the line, nextLine drops it.   *)
MismatchKept ==   \* mutant: the line stays in the Scanner
  UNCHANGED <<at, captor, buffer, misread, skipped>>
Mismatch == AskAgain("interface")

(* Physical.configuration: any interface that is offered; an openDevice    *)
(* that fails is reported and leaves captor null.                          *)
ChooseInterface ==
  /\ at = "interface" /\ buffer["interface"] # <<>>
  /\ LET text == Answer("interface").text
         valid == \E i \in Offered : text = Number(i)
     IN \/ text \notin {"0", "1", "2"} /\ Mismatch
        \/ text \in {"0", "1", "2"} /\ ~valid /\ AskAgain("interface")
        \/ valid /\ UseLast("interface") /\ at' = "mac" /\ captor' \in {"open", NULL}
  /\ UNCHANGED <<alldevs, devices, input, closed, ahead, greedy>>

(* Logical.configuration, Network.configuration and Arp.requestIP: lines   *)
(* until one has the right form, and then to the prompt that follows.      *)
AskLine(d, form, next) ==
  /\ at = d /\ buffer[d] # <<>>
  /\ \/ Answer(d).text # form /\ AskAgain(d)
     \/ Answer(d).text = form /\ UseLast(d) /\ at' = next /\ UNCHANGED captor
  /\ UNCHANGED <<alldevs, devices, input, closed, ahead, greedy>>

AskMac     == AskLine("mac", "mac", "ip")
AskIP      == AskLine("ip", "address", "menu")
requestIP  == AskLine("request", "address", "menu")

(* Main.menu: what is no number throws out of it, behind setFinish.        *)
menu ==
  /\ at = "menu" /\ buffer["menu"] # <<>>
  /\ Use("menu")
  /\ at' = CASE Answer("menu").text = "1" -> "request"
             [] Answer("menu").text = "2" -> "exit"
             [] Answer("menu").text = "0" -> "menu"
             [] OTHER                     -> "failed"
  /\ UNCHANGED <<alldevs, devices, captor, input, closed, ahead, greedy>>

Reads == Fill \/ EndOfInput \/ ChooseInterface \/ AskMac \/ AskIP \/ requestIP \/ menu
Next == List \/ Reads \/ CloseInput \/ \E text \in Texts : Type(text)

Spec == Init /\ [][Next]_vars

(* The main thread goes on whenever it can, and the user types the right   *)
(* answer again and again, among whatever else.                            *)
RightAnswer == [interface |-> "0", mac |-> "mac", ip |-> "address"]
TypeRight == at \in Asked /\ Type(RightAnswer[at])
FairSpec == Spec /\ WF_vars(List \/ Reads) /\ SF_vars(TypeRight)

-----------------------------------------------------------------------------
(* Whoever answers each prompt before typing on is heard at that prompt,   *)
(* and no line gets lost; typing ahead, a line can be used at a later      *)
(* prompt; lost or overtaken is one only if a Scanner has taken several,   *)
(* and only when its dialogue is left or requestIP reads past the menu's.  *)
(* A refused answer never costs another line.                              *)
HeardAsTyped ==
  [][/\ (misread' \/ skipped' => ahead')
     /\ (skipped' => greedy')
     /\ (at' = at /\ at # "request" => skipped' = skipped)]_vars

(* With an interface to choose, a user who keeps giving the right answers, *)
(* whatever else he types between them, gets through the configuration,    *)
(* or the input ends.                                                      *)
GetsThrough == (at = "interface" /\ Offered # {}) ~> (at \notin Asked)

(* The array of the user's choices has an entry for each adapter, in       *)
(* order, and each entry all the readable addresses of its adapter, in     *)
(* order, and nothing else, although one loop counts them and another one  *)
(* fills in.                                                               *)
ReadableIn(found) == {k \in DOMAIN found : found[k].addr \in {"v4", "v6"}}
Place(found, k) == Cardinality({m \in ReadableIn(found) : m <= k})
ListedAsFound ==
  at \in Prompts =>
    /\ Len(devices) = Len(alldevs)
    /\ \A i \in DOMAIN devices :
         LET found == alldevs[i].addresses
             listed == devices[i].addresses
         IN /\ devices[i].name = alldevs[i].name
            /\ Len(listed) = Cardinality(ReadableIn(found))
            /\ \A j \in DOMAIN listed : listed[j] # NULL
            /\ \A k \in ReadableIn(found) : listed[Place(found, k)].addr = found[k].addr

(* isValidIPAddress takes as an octet exactly the decimal numbers below    *)
(* 256 of at most three digits, and after the cast to byte and the b&0xff  *)
(* of byteToStr the key in the ARP table is the number that was typed.     *)
DigitStrings == UNION {[1 .. n -> 0 .. 9] : n \in 1 .. 3}
OctetsAreBytes ==
  at = "list" =>
    \A s \in DigitStrings :
      /\ Octet(s) <=> parseInt(s) < 256
      /\ Octet(s) => Unsigned(ToByte(parseInt(s))) = parseInt(s)

=============================================================================
