---------------------------- MODULE ConsoleProofs ----------------------------
(***************************************************************************)
(* The theorems about Console, for any adapters and any number of pending  *)
(* lines: whoever waits for each prompt is heard as he typed, the list he  *)
(* chooses from is complete, and an octet he types is a byte.              *)
(***************************************************************************)
EXTENDS Console, FiniteSetTheorems, WellFoundedInduction, TLAPS

Places == Prompts \cup {"list", "failed", "exit"}

ConsoleTypeOK ==
  /\ at \in Places
  /\ input \in Seq(Line)
  /\ buffer \in [Prompts -> Seq(Line)]
  /\ ahead \in BOOLEAN /\ greedy \in BOOLEAN
  /\ misread \in BOOLEAN /\ skipped \in BOOLEAN

(* Until a Scanner takes more than a line, only the one that is asking     *)
(* holds anything, and it holds one line.                                  *)
BufferInv ==
  ~greedy => \A d \in Prompts :
               /\ Len(buffer[d]) <= 1
               /\ d # at => buffer[d] = <<>>

(* Until something is typed ahead, there is one line at most, and it is    *)
(* for the prompt at which the main thread stands.                         *)
PendingInv ==
  ~ahead =>
    /\ ~greedy
    /\ at = "list" => input = <<>>
    /\ at \in Prompts =>
         /\ Len(input) + Len(buffer[at]) <= 1
         /\ \A j \in 1 .. Len(input) : input[j].for = at
         /\ \A j \in 1 .. Len(buffer[at]) : buffer[at][j].for = at

HistoryInv ==
  /\ misread \/ skipped => ahead
  /\ skipped => greedy

ConsoleInv == ConsoleTypeOK /\ BufferInv /\ PendingInv /\ HistoryInv

-----------------------------------------------------------------------------
(* What a dialogue that uses a line does to the Scanners and the history.  *)
Uses(d) ==
  /\ at = d /\ buffer[d] # <<>>
  /\ Use(d) \/ (UseLast(d) /\ at' # at)
  /\ at' \in Places \ {"list"}
  /\ at' # at \/ Use(d)
  /\ UNCHANGED <<input, ahead, greedy>>

(* Using a line keeps the invariant.                                       *)
LEMMA UseKeeps ==
  ASSUME ConsoleInv, NEW d \in Prompts, Uses(d)
  PROVE  ConsoleInv' /\ (at' = at /\ at # "request" => skipped' = skipped)
<1> USE DEF ConsoleInv
<1>1. buffer[d] \in Seq(Line) /\ Len(buffer[d]) \in Nat /\ Len(buffer[d]) >= 1
  BY DEF Uses, ConsoleTypeOK
<1>2. PICK b \in {<<>>, Tail(buffer[d])} : buffer' = [buffer EXCEPT ![d] = b]
  BY DEF Uses, Use, UseLast
<1>3. b \in Seq(Line) /\ Len(b) <= Len(buffer[d]) - 1
  <2>1. CASE b = <<>>
    BY <1>1, <2>1
  <2>2. CASE b = Tail(buffer[d])
    BY <1>1, <2>2
  <2> QED BY <2>1, <2>2
<1>4. misread' = (misread \/ Answer(d).for # d)
  BY Zenon DEF Uses, Use, UseLast
<1>5. /\ skipped => skipped'
      /\ skipped' => \/ skipped
                     \/ Len(buffer[d]) > 1
                     \/ d = "request" /\ buffer["menu"] # <<>>
  BY Zenon DEF Uses, Use, UseLast
<1>6. skipped' \in BOOLEAN /\ misread' \in BOOLEAN
  BY <1>4, Zenon DEF Uses, Use, UseLast
<1>7. ConsoleTypeOK'
  BY <1>2, <1>3, <1>6 DEF Uses, ConsoleTypeOK
<1>8. skipped' => greedy
  BY <1>1, <1>5 DEF HistoryInv, BufferInv, Uses, Prompts, Asked
<1>9. misread' => ahead
  <2>1. CASE ~ahead
    <3>1. buffer[d][1].for = d
      BY <1>1, <2>1 DEF PendingInv, Uses
    <3>2. Answer(d).for = d
      BY <1>1, <3>1 DEF Answer
    <3>3. ~misread
      BY <2>1 DEF HistoryInv
    <3> QED BY <1>4, <3>2, <3>3, Zenon
  <2> QED BY <2>1
<1>10. HistoryInv'
  BY <1>8, <1>9 DEF HistoryInv, PendingInv, Uses
<1>11. BufferInv'
  BY <1>1, <1>2, <1>3 DEF BufferInv, Uses, ConsoleTypeOK
<1>12. PendingInv'
  <2>1. CASE ~ahead
    <3>0. /\ input \in Seq(Line) /\ Len(input) \in Nat /\ ~greedy
          /\ Len(input) + Len(buffer[d]) <= 1
      BY <2>1 DEF PendingInv, Uses, ConsoleTypeOK
    <3>1. Len(buffer[d]) = 1 /\ Len(input) = 0
      <4>1. \A m, n \in Nat : n >= 1 /\ m + n <= 1 => n = 1 /\ m = 0
        OBVIOUS
      <4> QED BY <1>1, <3>0, <4>1, Zenon
    <3>2. b = <<>> /\ input = <<>>
      BY <1>3, <3>0, <3>1
    <3>3. \A c \in Prompts : buffer'[c] = <<>>
      BY <1>2, <3>0, <3>2 DEF BufferInv, Uses, ConsoleTypeOK
    <3> QED BY <3>0, <3>2, <3>3 DEF PendingInv, Uses
  <2> QED BY <2>1 DEF PendingInv, Uses
<1>13. at' = at /\ at # "request" => skipped' = skipped
  <2> SUFFICES ASSUME at' = at, at # "request" PROVE skipped' = skipped
    OBVIOUS
  <2>1. skipped' = (skipped \/ (d = "request" /\ buffer["menu"] # <<>>)) /\ d # "request"
    BY Zenon DEF Uses, Use
  <2>2. skipped \in BOOLEAN
    BY DEF ConsoleTypeOK
  <2> QED BY <2>1, <2>2, Zenon
<1> QED BY <1>7, <1>10, <1>11, <1>12, <1>13

(* Every dialogue uses lines in this way and in no other.                  *)
LEMMA DialoguesUse ==
  ASSUME ConsoleInv,
         ChooseInterface \/ AskMac \/ AskIP \/ requestIP \/ menu
  PROVE  \E d \in Prompts : Uses(d)
<1> USE DEF Uses, Use, Places, Prompts, Asked
<1>1. CASE ChooseInterface
  BY <1>1 DEF ChooseInterface, Mismatch, AskAgain, UseLast
<1>2. CASE AskMac
  BY <1>2 DEF AskMac, AskLine, AskAgain
<1>3. CASE AskIP
  BY <1>3 DEF AskIP, AskLine, AskAgain
<1>4. CASE requestIP
  BY <1>4 DEF requestIP, AskLine, AskAgain
<1>5. CASE menu
  <2>1. at' \in {"request", "exit", "menu", "failed"}
    BY <1>5 DEF menu
  <2> QED BY <1>5, <2>1 DEF menu
<1> QED BY <1>1, <1>2, <1>3, <1>4, <1>5

(* A line that is typed while another one is pending is typed ahead.       *)
LEMMA TypeKeeps ==
  ASSUME ConsoleInv, NEW text \in Texts, Type(text)
  PROVE  ConsoleInv' /\ skipped' = skipped
<1> USE DEF ConsoleInv
<1> DEFINE line == [text |-> text, for |-> at]
<1>1. /\ at \in Prompts /\ line \in Line
      /\ input' = Append(input, line)
      /\ UNCHANGED <<at, buffer, greedy, misread, skipped>>
  BY DEF Type, Line
<1>2. ahead' = (ahead \/ input # <<>> \/ buffer[at] # <<>>)
  BY DEF Type
<1>3. ahead' \in BOOLEAN /\ (ahead => ahead')
  BY <1>2, Zenon
<1>4. ConsoleTypeOK'
  BY <1>1, <1>3 DEF ConsoleTypeOK
<1>5. BufferInv' /\ HistoryInv'
  BY <1>1, <1>3 DEF BufferInv, HistoryInv
<1>6. PendingInv'
  <2> SUFFICES ASSUME ~ahead' PROVE PendingInv'
    BY DEF PendingInv
  <2>1. ~ahead /\ input = <<>> /\ buffer[at] = <<>>
    BY <1>2, Zenon
  <2>2. input' = <<line>>
    BY <1>1, <2>1
  <2> QED BY <1>1, <2>1, <2>2 DEF PendingInv, Prompts, Asked
<1> QED BY <1>1, <1>4, <1>5, <1>6

(* A Scanner that takes all that has arrived takes one line, unless lines  *)
(* were typed ahead.                                                       *)
LEMMA FillKeeps ==
  ASSUME ConsoleInv, Fill
  PROVE  ConsoleInv' /\ skipped' = skipped
<1> USE DEF ConsoleInv
<1>1. /\ at \in Prompts /\ buffer[at] = <<>>
      /\ buffer' = [buffer EXCEPT ![at] = input]
      /\ input' = <<>>
      /\ UNCHANGED <<at, ahead, misread, skipped>>
  BY DEF Fill
<1>2. greedy' = (greedy \/ Len(input) > 1)
  BY DEF Fill
<1>3. greedy' \in BOOLEAN /\ (greedy => greedy')
  BY <1>2, Zenon
<1>4. ConsoleTypeOK'
  BY <1>1, <1>3 DEF ConsoleTypeOK
<1>5. HistoryInv'
  BY <1>1, <1>3 DEF HistoryInv
<1>6. BufferInv'
  <2> SUFFICES ASSUME ~greedy' PROVE BufferInv'
    BY DEF BufferInv
  <2>1. ~greedy /\ ~(Len(input) > 1)
    BY <1>2, Zenon
  <2>2. Len(input) <= 1
    BY <2>1 DEF ConsoleTypeOK
  <2> QED BY <1>1, <2>1, <2>2 DEF BufferInv, ConsoleTypeOK
<1>7. PendingInv'
  <2> SUFFICES ASSUME ~ahead PROVE PendingInv'
    BY <1>1 DEF PendingInv
  <2>1. ~greedy /\ Len(input) + Len(buffer[at]) <= 1
    BY <1>1 DEF PendingInv
  <2>2. Len(input) \in Nat /\ Len(input) <= 1
    BY <1>1, <2>1 DEF ConsoleTypeOK
  <2>3. ~greedy'
    <3>1. ~(Len(input) > 1)
      BY <2>2
    <3> QED BY <1>2, <2>1, <3>1, Zenon
  <2>4. buffer'[at] = input
    BY <1>1 DEF ConsoleTypeOK
  <2> QED BY <1>1, <2>2, <2>3, <2>4 DEF PendingInv, Prompts, Asked
<1> QED BY <1>1, <1>4, <1>5, <1>6, <1>7

-----------------------------------------------------------------------------
(* The Scanners and what is pending are as told above, in every state.     *)
THEOREM ConsoleInvariance == Spec => []ConsoleInv
<1>1. Init => ConsoleInv
  <2> SUFFICES ASSUME Init PROVE ConsoleInv
    OBVIOUS
  <2>1. at = "list" /\ input = <<>> /\ \A d \in Prompts : buffer[d] = <<>> /\ Len(buffer[d]) = 0
    BY DEF Init
  <2>2. ~ahead /\ ~greedy /\ ~misread /\ ~skipped
    BY DEF Init
  <2>3. ConsoleTypeOK
    <3>1. <<>> \in Seq(Line)
      OBVIOUS
    <3>2. buffer \in [Prompts -> Seq(Line)]
      BY <3>1 DEF Init
    <3> QED BY <2>1, <2>2, <3>1, <3>2 DEF Init, ConsoleTypeOK, Places
  <2>4. BufferInv /\ PendingInv /\ HistoryInv
    BY <2>1, <2>2 DEF BufferInv, PendingInv, HistoryInv, Prompts, Asked
  <2> QED BY <2>3, <2>4 DEF ConsoleInv
<1>2. ConsoleInv /\ [Next]_vars => ConsoleInv'
  <2> SUFFICES ASSUME ConsoleInv, [Next]_vars PROVE ConsoleInv'
    OBVIOUS
  <2>1. CASE List
    BY <2>1 DEF List, history, ConsoleInv, ConsoleTypeOK, BufferInv, PendingInv, HistoryInv,
                Places, Prompts, Asked
  <2>2. CASE Fill
    BY <2>2, FillKeeps
  <2>3. CASE EndOfInput
    BY <2>3 DEF EndOfInput, history, ConsoleInv, ConsoleTypeOK, BufferInv, PendingInv,
                HistoryInv, Places, Prompts, Asked
  <2>4. CASE ChooseInterface \/ AskMac \/ AskIP \/ requestIP \/ menu
    BY <2>4, DialoguesUse, UseKeeps
  <2>5. CASE CloseInput \/ UNCHANGED vars
    BY <2>5 DEF CloseInput, vars, history, ConsoleInv, ConsoleTypeOK, BufferInv, PendingInv,
                HistoryInv
  <2>6. ASSUME NEW text \in Texts, Type(text) PROVE ConsoleInv'
    BY <2>6, TypeKeeps
  <2> QED BY <2>1, <2>2, <2>3, <2>4, <2>5, <2>6 DEF Next, Reads
<1> QED BY <1>1, <1>2, PTL DEF Spec

(* HeardAsTyped: however many lines arrive at once, only typing ahead lets *)
(* a line be used at another prompt than its own, and only a Scanner that  *)
(* has taken several lines loses one, when its dialogue is left.           *)
THEOREM PatientUserIsHeard == Spec => HeardAsTyped
<1>1. ConsoleInv /\ ConsoleInv' /\ [Next]_vars =>
        [/\ (misread' \/ skipped' => ahead')
         /\ (skipped' => greedy')
         /\ (at' = at /\ at # "request" => skipped' = skipped)]_vars
  <2> SUFFICES ASSUME ConsoleInv, ConsoleInv', [Next]_vars, ~UNCHANGED vars
               PROVE  /\ (misread' \/ skipped' => ahead')
                      /\ (skipped' => greedy')
                      /\ (at' = at /\ at # "request" => skipped' = skipped)
    OBVIOUS
  <2>1. (misread' \/ skipped' => ahead') /\ (skipped' => greedy')
    BY DEF ConsoleInv, HistoryInv
  <2>2. CASE List \/ EndOfInput \/ CloseInput
    BY <2>1, <2>2 DEF List, EndOfInput, CloseInput, history
  <2>3. CASE Fill
    BY <2>1, <2>3, FillKeeps
  <2>4. CASE ChooseInterface \/ AskMac \/ AskIP \/ requestIP \/ menu
    BY <2>1, <2>4, DialoguesUse, UseKeeps
  <2>5. ASSUME NEW text \in Texts, Type(text) PROVE skipped' = skipped
    BY <2>5, TypeKeeps
  <2> QED BY <2>1, <2>2, <2>3, <2>4, <2>5 DEF Next, Reads
<1> QED BY <1>1, ConsoleInvariance, PTL DEF Spec, HeardAsTyped

-----------------------------------------------------------------------------
(* Loops.                                                                  *)
(* Every non-empty set of natural numbers has a least element.             *)
LEMMA Least ==
  ASSUME NEW S \in SUBSET Nat, S # {}
  PROVE  \E m \in S : \A n \in S : m <= n
<1>1. PICK k \in Nat : k \in S
  OBVIOUS
<1>2. IsFiniteSet(0 .. k)
  BY FS_Interval
<1> DEFINE R == StrictSubsetOrdering(0 .. k)
           F == {0 .. n : n \in {m \in S : m <= k}}
<1>3. IsWellFoundedOn(R, SUBSET (0 .. k))
  <2>1. FiniteSubsetsOf(0 .. k) = SUBSET (0 .. k)
    BY <1>2, FS_FiniteSubsetsOfFinite
  <2>2. IsWellFoundedOn(R, FiniteSubsetsOf(0 .. k))
    BY FS_StrictSubsetOrderingWellFounded
  <2> QED BY <2>1, <2>2
<1>4. F # {} /\ F \subseteq SUBSET (0 .. k)
  BY <1>1
<1>5. \E x \in F : \A y \in F : <<y, x>> \notin R
  <2> HIDE DEF R, F
  <2> QED BY <1>3, <1>4, WFMin
<1>6. PICK m \in S : m <= k /\ \A y \in F : <<y, 0 .. m>> \notin R
  BY <1>5
<1>7. ASSUME NEW n \in S, n < m PROVE FALSE
  <2>1. n \in Nat /\ m \in Nat /\ n <= k /\ 0 .. n \in F
    BY <1>6, <1>7
  <2>2. 0 .. n \subseteq 0 .. m /\ m \in 0 .. m /\ m \notin 0 .. n /\ 0..m \subseteq 0..k
    BY <1>6, <1>7, <2>1
  <2>3. <<0 .. n, 0 .. m>> \in R
    BY <2>2 DEF StrictSubsetOrdering
  <2> QED BY <1>6, <2>1, <2>3
<1> QED BY <1>6, <1>7

(* A loop that goes through positions 1 to N and takes a value to the next *)
(* one as a function tells has values at all of them.                      *)
IsLoop(g, N, S, start, step) ==
  /\ g \in [0 .. N -> S]
  /\ g[0] = start
  /\ \A i \in 1 .. N : g[i] = step[<<g[i - 1], i>>]

LEMMA LoopRuns ==
  ASSUME NEW N \in Nat, NEW S, NEW start, start \in S,
         NEW step, step \in [S \X (1 .. N) -> S]
  PROVE  \E g : IsLoop(g, N, S, start, step)
<1> DEFINE Runs(m, g) == /\ g[0] = start
                         /\ \A i \in 1 .. m : g[i] = step[<<g[i - 1], i>>]
           Stuck == {m \in 0 .. N : ~\E g \in [0 .. m -> S] : Runs(m, g)}
<1>1. Stuck = {}
  <2> SUFFICES ASSUME Stuck # {} PROVE FALSE
    OBVIOUS
  <2>1. PICK m \in Stuck : \A i \in Stuck : m <= i
    <3>1. Stuck \in SUBSET Nat
      OBVIOUS
    <3> HIDE DEF Stuck
    <3> QED BY <3>1, Least
  <2>2. m \in 0 .. N /\ ~\E g \in [0 .. m -> S] : Runs(m, g)
    OBVIOUS
  <2>3. m # 0
    <3> DEFINE g == [i \in 0 .. 0 |-> start]
    <3>1. g \in [0 .. 0 -> S] /\ Runs(0, g)
      OBVIOUS
    <3> QED BY <2>2, <3>1
  <2>4. m - 1 \in 0 .. N /\ m - 1 \notin Stuck
    BY <2>1, <2>2, <2>3
  <2>5. PICK g \in [0 .. m - 1 -> S] : Runs(m - 1, g)
    BY <2>4
  <2> DEFINE h == [i \in 0 .. m |-> IF i = m THEN step[<<g[m - 1], m>>] ELSE g[i]]
  <2>6. g[m - 1] \in S /\ <<g[m - 1], m>> \in S \X (1 .. N)
    BY <2>2, <2>3
  <2>7. h \in [0 .. m -> S]
    BY <2>2, <2>3, <2>6
  <2>8. h[0] = start
    BY <2>2, <2>3, <2>5
  <2>9. ASSUME NEW i \in 1 .. m PROVE h[i] = step[<<h[i - 1], i>>]
    <3>1. h[i - 1] = g[i - 1] /\ i - 1 # m
      BY <2>2
    <3>2. CASE i = m
      <4>1. h[m] = step[<<g[m - 1], m>>]
        BY <2>2
      <4> HIDE DEF h
      <4> QED BY <3>1, <3>2, <4>1, Zenon
    <3>3. CASE i # m
      BY <2>2, <2>5, <3>1, <3>3
    <3> QED BY <3>2, <3>3
  <2> QED BY <2>2, <2>7, <2>8, <2>9
<1>2. N \in 0 .. N
  OBVIOUS
<1>3. \E g \in [0 .. N -> S] : Runs(N, g)
  <2> HIDE DEF Runs
  <2> QED BY <1>1, <1>2
<1> QED BY <1>3 DEF IsLoop

-----------------------------------------------------------------------------
(* The list of interfaces.  Both loops over the addresses of an adapter    *)
(* have values after each of them.                                         *)
IsCount(g, addrs) ==
  g = [k \in 0 .. Len(addrs) |->
         IF k = 0 THEN 0 ELSE IF Readable(addrs[k]) THEN g[k - 1] + 1 ELSE g[k - 1]]

IsFill(g, addrs) ==
  g = [k \in 0 .. Len(addrs) |->
         IF k = 0
         THEN [j |-> 0, array |-> [i \in 1 .. Counted(addrs) |-> NULL]]
         ELSE IF Readable(addrs[k])
         THEN [j     |-> g[k - 1].j + 1,
               array |-> [g[k - 1].array EXCEPT ![g[k - 1].j + 1] = InterfaceAddress(addrs[k])]]
         ELSE g[k - 1]]

(* Those that can be read among the first k.                               *)
Upto(addrs, k) == {m \in ReadableIn(addrs) : m <= k}

LEMMA ReadableMeans ==
  ASSUME NEW addrs, addrs \in Seq(Address), NEW k \in 1 .. Len(addrs)
  PROVE  /\ addrs[k] \in Address
         /\ Readable(addrs[k]) <=> k \in ReadableIn(addrs)
         /\ InterfaceAddress(addrs[k]) \in Listed /\ InterfaceAddress(addrs[k]) # NULL
         /\ Readable(addrs[k]) => InterfaceAddress(addrs[k]).addr = addrs[k].addr
<1>1. addrs[k] \in Address /\ DOMAIN addrs = 1 .. Len(addrs)
  OBVIOUS
<1>2. Readable(addrs[k]) <=> addrs[k].addr \in {"v4", "v6"}
  BY ConsoleAssumption DEF Readable, getAddressByteArray, Families
<1>3. InterfaceAddress(addrs[k]) \in Listed
  BY <1>1 DEF InterfaceAddress, Listed, getAddressByteArray, Bytes, Families, Address
<1>4. InterfaceAddress(addrs[k]) # NULL
  BY <1>3, ConsoleAssumption
<1>5. Readable(addrs[k]) => InterfaceAddress(addrs[k]).addr = addrs[k].addr
  BY <1>2 DEF InterfaceAddress, getAddressByteArray
<1> QED BY <1>1, <1>2, <1>3, <1>4, <1>5 DEF ReadableIn

(* One address more is one more, if it can be read.                        *)
LEMMA UptoGrows ==
  ASSUME NEW addrs, addrs \in Seq(Address)
  PROVE  /\ Upto(addrs, 0) = {}
         /\ \A k \in 0 .. Len(addrs) : IsFiniteSet(Upto(addrs, k)) /\ Cardinality(Upto(addrs, k)) \in Nat
         /\ \A k \in 1 .. Len(addrs) :
              Cardinality(Upto(addrs, k)) =
                Cardinality(Upto(addrs, k - 1)) + IF Readable(addrs[k]) THEN 1 ELSE 0
         /\ Upto(addrs, Len(addrs)) = ReadableIn(addrs)
<1>1. ReadableIn(addrs) \in SUBSET (1 .. Len(addrs)) /\ Len(addrs) \in Nat
  BY DEF ReadableIn
<1>2. \A k \in 0 .. Len(addrs) : IsFiniteSet(Upto(addrs, k)) /\ Cardinality(Upto(addrs, k)) \in Nat
  <2> TAKE k \in 0 .. Len(addrs)
  <2>1. Upto(addrs, k) \subseteq 1 .. Len(addrs) /\ IsFiniteSet(1 .. Len(addrs))
    BY <1>1, FS_Interval DEF Upto
  <2> QED BY <2>1, FS_Subset, FS_CardinalityType
<1>3. ASSUME NEW k \in 1 .. Len(addrs)
      PROVE  Cardinality(Upto(addrs, k)) =
               Cardinality(Upto(addrs, k - 1)) + IF Readable(addrs[k]) THEN 1 ELSE 0
  <2>0. k - 1 \in 0 .. Len(addrs) /\ k \in Nat
    BY <1>1
  <2>1. IsFiniteSet(Upto(addrs, k - 1)) /\ Cardinality(Upto(addrs, k - 1)) \in Nat
    BY <1>2, <2>0
  <2>2. CASE Readable(addrs[k])
    <3>1. Upto(addrs, k) = Upto(addrs, k - 1) \cup {k} /\ k \notin Upto(addrs, k - 1)
      BY <1>1, <2>0, <2>2, ReadableMeans DEF Upto
    <3> QED BY <2>1, <2>2, <3>1, FS_AddElement
  <2>3. CASE ~Readable(addrs[k])
    <3>1. Upto(addrs, k) = Upto(addrs, k - 1)
      BY <1>1, <2>0, <2>3, ReadableMeans DEF Upto
    <3> QED BY <2>1, <2>3, <3>1
  <2> QED BY <2>2, <2>3
<1>4. Upto(addrs, 0) = {} /\ Upto(addrs, Len(addrs)) = ReadableIn(addrs)
  BY <1>1 DEF Upto
<1> QED BY <1>2, <1>3, <1>4

(* The first loop ends with the number of those that can be read.          *)
LEMMA CountsReadable ==
  ASSUME NEW addrs, addrs \in Seq(Address)
  PROVE  Counted(addrs) = Cardinality(ReadableIn(addrs)) /\ Counted(addrs) \in Nat
<1> DEFINE g == [k \in 0 .. Len(addrs) |-> Cardinality(Upto(addrs, k))]
<1>0. Len(addrs) \in Nat
  OBVIOUS
<1>1. \A k \in 0 .. Len(addrs) :
        g[k] = IF k = 0 THEN 0 ELSE IF Readable(addrs[k]) THEN g[k - 1] + 1 ELSE g[k - 1]
  <2> TAKE k \in 0 .. Len(addrs)
  <2>1. CASE k = 0
    BY <2>1, UptoGrows, FS_EmptySet
  <2>2. CASE k # 0
    <3>1. k \in 1 .. Len(addrs) /\ k - 1 \in 0 .. Len(addrs)
      BY <1>0, <2>2
    <3>2. /\ Cardinality(Upto(addrs, k - 1)) \in Nat
          /\ g[k] = g[k - 1] + IF Readable(addrs[k]) THEN 1 ELSE 0
          /\ g[k - 1] \in Nat
      BY <3>1, UptoGrows
    <3> HIDE DEF g
    <3> QED BY <2>2, <3>2
  <2> QED BY <2>1, <2>2
<1>2. IsCount(g, addrs)
  <2>1. g = [k \in 0 .. Len(addrs) |-> g[k]]
    OBVIOUS
  <2> HIDE DEF g
  <2> QED BY <1>1, <2>1 DEF IsCount
<1> DEFINE c == CHOOSE h : IsCount(h, addrs)
<1>3. IsCount(c, addrs)
  <2> HIDE DEF g
  <2> QED BY <1>2, Zenon
<1>4. Counted(addrs) = c[Len(addrs)]
  BY Zenon DEF Counted, IsCount
<1> HIDE DEF c
<1>5. \A k \in 0 .. Len(addrs) :
        c[k] = IF k = 0 THEN 0 ELSE IF Readable(addrs[k]) THEN c[k - 1] + 1 ELSE c[k - 1]
  BY <1>3 DEF IsCount
<1>6. c = g
  <2> DEFINE Differ == {k \in 0 .. Len(addrs) : c[k] # g[k]}
  <2>1. Differ = {}
    <3> SUFFICES ASSUME Differ # {} PROVE FALSE
      OBVIOUS
    <3>1. PICK m \in Differ : \A i \in Differ : m <= i
      <4>1. Differ \in SUBSET Nat
        OBVIOUS
      <4> HIDE DEF Differ
      <4> QED BY <4>1, Least
    <3> HIDE DEF g
    <3>2. m \in 0 .. Len(addrs) /\ c[m] # g[m]
      OBVIOUS
    <3>3. m # 0 /\ m - 1 \in 0 .. Len(addrs)
      BY <1>0, <1>1, <1>5, <3>2
    <3>4. c[m - 1] = g[m - 1]
      BY <3>1, <3>2, <3>3
    <3> QED BY <1>1, <1>5, <3>2, <3>3, <3>4
  <2>2. \A k \in 0 .. Len(addrs) : c[k] = g[k]
    BY <2>1
  <2>3. c = [k \in 0 .. Len(addrs) |-> c[k]]
    BY <1>3 DEF IsCount
  <2> QED BY <2>2, <2>3
<1>7. g[Len(addrs)] = Cardinality(ReadableIn(addrs)) /\ Cardinality(ReadableIn(addrs)) \in Nat
  BY <1>0, UptoGrows
<1> QED BY <1>4, <1>6, <1>7

(* The second loop has values after each address: it is run from an array  *)
(* of NULLs.                                                               *)
LEMMA FillRuns ==
  ASSUME NEW addrs, addrs \in Seq(Address)
  PROVE  \E g : IsFill(g, addrs)
<1> DEFINE N     == Len(addrs)
           Array == [1 .. Counted(addrs) -> Listed \cup {NULL}]
           S     == [j : Nat, array : Array]
           start == [j |-> 0, array |-> [i \in 1 .. Counted(addrs) |-> NULL]]
           after(x, k) ==
             IF Readable(addrs[k])
             THEN [j |-> x.j + 1, array |-> [x.array EXCEPT ![x.j + 1] = InterfaceAddress(addrs[k])]]
             ELSE x
           step  == [y \in S \X (1 .. N) |-> after(y[1], y[2])]
<1>1. N \in Nat /\ start \in S
  OBVIOUS
<1>2. ASSUME NEW x \in S, NEW k \in 1 .. N PROVE after(x, k) \in S
  <2>1. InterfaceAddress(addrs[k]) \in Listed
    BY ReadableMeans
  <2>2. x.j + 1 \in Nat
    OBVIOUS
  <2>3. [x.array EXCEPT ![x.j + 1] = InterfaceAddress(addrs[k])] \in Array
    <3>1. x.array \in Array
      OBVIOUS
    <3> HIDE DEF S
    <3> QED BY <2>1, <3>1
  <2> HIDE DEF Array
  <2> QED BY <2>2, <2>3
<1>3. step \in [S \X (1 .. N) -> S]
  <2> HIDE DEF S, after
  <2> QED BY <1>2
<1>4. PICK g \in [0 .. N -> S] :
        g[0] = start /\ \A i \in 1 .. N : g[i] = step[<<g[i - 1], i>>]
  <2> HIDE DEF N, S, start, step
  <2>1. \E g : IsLoop(g, N, S, start, step)
    BY <1>1, <1>3, LoopRuns
  <2> QED BY <2>1 DEF IsLoop
<1>5. ASSUME NEW i \in 1 .. N PROVE g[i] = after(g[i - 1], i)
  <2>1. <<g[i - 1], i>> \in S \X (1 .. N)
    <3> HIDE DEF S, N
    <3>1. i - 1 \in 0 .. N
      BY <1>1
    <3>2. g[i - 1] \in S
      BY <3>1
    <3> QED BY <3>2
  <2>2. step[<<g[i - 1], i>>] = after(g[i - 1], i)
    <3> HIDE DEF S, after
    <3> QED BY <2>1
  <2> QED BY <1>4, <2>2, Zenon
<1>6. \A k \in 0 .. N : g[k] = IF k = 0 THEN start ELSE after(g[k - 1], k)
  <2> HIDE DEF start, after, step
  <2> QED BY <1>1, <1>4, <1>5
<1>7. g = [k \in 0 .. N |-> IF k = 0 THEN start ELSE after(g[k - 1], k)]
  <2> HIDE DEF start, after, S
  <2> QED BY <1>4, <1>6
<1>8. IsFill(g, addrs)
  BY <1>7, Zenon DEF IsFill
<1> QED BY <1>8

(* It fills the array: each address it can read comes to the place that it *)
(* has among these, and no place is left.                                  *)
LEMMA FillsAll ==
  ASSUME NEW addrs, addrs \in Seq(Address)
  PROVE  /\ Addresses(addrs) \in [1 .. Counted(addrs) -> Listed]
         /\ \A k \in ReadableIn(addrs) : Addresses(addrs)[Place(addrs, k)].addr = addrs[k].addr
<1> DEFINE N     == Len(addrs)
           C     == Counted(addrs)
           Array == [1 .. C -> Listed \cup {NULL}]
           f     == CHOOSE g : IsFill(g, addrs)
           Done(k) ==
             /\ f[k].j = Cardinality(Upto(addrs, k))
             /\ f[k].array \in Array
             /\ \A i \in 1 .. C : i <= f[k].j => f[k].array[i] \in Listed
             /\ \A m \in Upto(addrs, k) : f[k].array[Place(addrs, m)].addr = addrs[m].addr
<1>1. IsFill(f, addrs)
  BY FillRuns, Zenon
<1>2. Addresses(addrs) = f[N].array
  BY Zenon DEF Addresses, IsFill
<1> HIDE DEF f
<1>3. /\ N \in Nat /\ C \in Nat /\ C = Cardinality(ReadableIn(addrs))
  BY CountsReadable
<1>4. f[0].j = 0 /\ f[0].array = [i \in 1 .. C |-> NULL]
  <2>1. f[0] = [j |-> 0, array |-> [i \in 1 .. C |-> NULL]]
    BY <1>1, <1>3 DEF IsFill
  <2> QED BY <2>1
<1>5. ASSUME NEW k \in 1 .. N
      PROVE  IF Readable(addrs[k])
             THEN /\ f[k].j = f[k - 1].j + 1
                  /\ f[k].array = [f[k - 1].array EXCEPT ![f[k - 1].j + 1] = InterfaceAddress(addrs[k])]
             ELSE f[k] = f[k - 1]
  <2>1. f[k] = IF Readable(addrs[k])
               THEN [j     |-> f[k - 1].j + 1,
                     array |-> [f[k - 1].array EXCEPT ![f[k - 1].j + 1] = InterfaceAddress(addrs[k])]]
               ELSE f[k - 1]
    <3>1. k \in 0 .. N /\ k # 0
      BY <1>3
    <3> QED BY <1>1, <3>1 DEF IsFill
  <2> QED BY <2>1
<1>6. Done(0)
  BY <1>3, <1>4, UptoGrows, FS_EmptySet
<1>7. ASSUME NEW k \in 1 .. N, Done(k - 1) PROVE Done(k)
  <2>0. k - 1 \in 0 .. N /\ k \in 0 .. N
    BY <1>3
  <2>1. PICK c : c = Cardinality(Upto(addrs, k - 1)) /\ c \in Nat
    BY <2>0, UptoGrows
  <2>2. CASE ~Readable(addrs[k])
    <3>1. Cardinality(Upto(addrs, k)) = c
      BY <2>1, <2>2, UptoGrows
    <3>2. Upto(addrs, k) = Upto(addrs, k - 1)
      BY <2>0, <2>2, ReadableMeans DEF Upto, ReadableIn
    <3> QED BY <1>5, <1>7, <2>1, <2>2, <3>1, <3>2
  <2>3. CASE Readable(addrs[k])
    <3>1. Cardinality(Upto(addrs, k)) = c + 1
      BY <2>1, <2>3, UptoGrows
    <3>2. Upto(addrs, k) = Upto(addrs, k - 1) \cup {k}
      BY <2>0, <2>3, ReadableMeans DEF Upto, ReadableIn
    <3>3. c + 1 \in 1 .. C
      <4>1. Upto(addrs, k) \subseteq ReadableIn(addrs)
        BY DEF Upto
      <4>2. IsFiniteSet(ReadableIn(addrs))
        BY <1>3, UptoGrows
      <4>3. c + 1 <= C
        BY <1>3, <3>1, <4>1, <4>2, FS_Subset
      <4> QED BY <1>3, <2>1, <4>3
    <3>4. PICK x : x = InterfaceAddress(addrs[k])
      OBVIOUS
    <3>5. x \in Listed /\ x.addr = addrs[k].addr
      BY <2>3, <3>4, ReadableMeans
    <3>6. /\ f[k - 1].j = c /\ f[k - 1].array \in Array
          /\ f[k].j = c + 1 /\ f[k].array = [f[k - 1].array EXCEPT ![c + 1] = x]
      BY <1>5, <1>7, <2>1, <2>3, <3>4
    <3>7. ASSUME NEW i \in 1 .. C, i <= f[k].j PROVE f[k].array[i] \in Listed
      <4>1. CASE i = c + 1
        BY <3>5, <3>6, <4>1
      <4>2. CASE i # c + 1
        <5>1. i <= f[k - 1].j
          BY <2>1, <3>6, <3>7, <4>2
        <5>2. f[k].array[i] = f[k - 1].array[i]
          BY <3>6, <4>2
        <5> QED BY <1>7, <5>1, <5>2
      <4> QED BY <4>1, <4>2
    <3>8. Place(addrs, k) = c + 1
      BY <3>1 DEF Place, Upto
    <3>9. ASSUME NEW m \in Upto(addrs, k - 1)
          PROVE  f[k].array[Place(addrs, m)].addr = addrs[m].addr
      <4>1. Place(addrs, m) = Cardinality(Upto(addrs, m)) /\ m \in 1 .. N /\ m <= k - 1
        BY DEF Place, Upto, ReadableIn
      <4>2. Upto(addrs, m) \subseteq Upto(addrs, k - 1)
        BY <2>0, <4>1 DEF Upto, ReadableIn
      <4>3. Cardinality(Upto(addrs, m)) <= c
        BY <2>0, <2>1, <4>2, UptoGrows, FS_Subset
      <4>4. m \in Upto(addrs, m) /\ Upto(addrs, m) # {}
        BY <4>1 DEF Upto
      <4>5. Cardinality(Upto(addrs, m)) \in Nat /\ Cardinality(Upto(addrs, m)) # 0
        <5>1. m \in 0 .. N
          BY <1>3, <4>1
        <5>2. IsFiniteSet(Upto(addrs, m)) /\ Cardinality(Upto(addrs, m)) \in Nat
          BY <5>1, UptoGrows
        <5> QED BY <4>4, <5>2, FS_EmptySet
      <4>6. Place(addrs, m) \in 1 .. C /\ Place(addrs, m) # c + 1
        BY <1>3, <2>1, <3>3, <4>1, <4>3, <4>5
      <4>7. f[k].array[Place(addrs, m)] = f[k - 1].array[Place(addrs, m)]
        BY <3>6, <4>6
      <4> QED BY <1>7, <4>7
    <3>10. f[k].array[Place(addrs, k)].addr = addrs[k].addr
      BY <3>3, <3>5, <3>6, <3>8
    <3>11. f[k].array \in Array
      BY <3>3, <3>5, <3>6
    <3> QED BY <3>1, <3>2, <3>6, <3>7, <3>9, <3>10, <3>11
  <2> QED BY <2>2, <2>3
<1>8. Done(N)
  <2> HIDE DEF Done, N
  <2> DEFINE Left == {k \in 0 .. N : ~Done(k)}
  <2> SUFFICES ASSUME Left # {} PROVE FALSE
    BY <1>3
  <2>1. PICK m \in Left : \A i \in Left : m <= i
    <3>1. Left \in SUBSET Nat
      OBVIOUS
    <3> HIDE DEF Left
    <3> QED BY <3>1, Least
  <2>2. m \in 1 .. N /\ m - 1 \in 0 .. N /\ m - 1 \notin Left
    BY <1>3, <1>6, <2>1
  <2> QED BY <1>7, <2>2
<1>9. f[N].j = C
  BY <1>3, <1>8, UptoGrows
<1>10. f[N].array \in [1 .. C -> Listed]
  BY <1>3, <1>8, <1>9
<1>11. Upto(addrs, N) = ReadableIn(addrs)
  BY UptoGrows
<1> QED BY <1>2, <1>8, <1>10, <1>11

(* The array that getDeviceList has made is kept as it is.                 *)
ListInv ==
  /\ at \in Places
  /\ alldevs \in Adapters
  /\ at \in Prompts => ListAll(alldevs, devices)

THEOREM ListInvariance == Spec => []ListInv
<1> USE DEF ListInv, Places, Prompts, Asked
<1>1. Init => ListInv
  BY DEF Init
<1>2. ListInv /\ [Next]_vars => ListInv'
  <2> SUFFICES ASSUME ListInv, [Next]_vars PROVE ListInv'
    OBVIOUS
  <2>1. CASE List
    BY <2>1 DEF List, ListAll
  <2>2. ASSUME at \in Prompts, at' \in Places, UNCHANGED <<alldevs, devices>> PROVE ListInv'
    BY <2>2 DEF ListAll
  <2>3. CASE Fill \/ EndOfInput
    BY <2>2, <2>3 DEF Fill, EndOfInput
  <2>4. CASE ChooseInterface
    BY <2>2, <2>4 DEF ChooseInterface, Mismatch, AskAgain
  <2>5. CASE AskMac \/ AskIP \/ requestIP
    BY <2>2, <2>5 DEF AskMac, AskIP, requestIP, AskLine, AskAgain
  <2>6. CASE menu
    <3>1. at' \in {"request", "exit", "menu", "failed"}
      BY <2>6 DEF menu
    <3> QED BY <2>2, <2>6, <3>1 DEF menu
  <2>7. CASE CloseInput \/ UNCHANGED vars
    BY <2>7 DEF CloseInput, vars, ListAll
  <2>8. ASSUME NEW text \in Texts, Type(text) PROVE ListInv'
    BY <2>2, <2>8 DEF Type
  <2> QED BY <2>1, <2>3, <2>4, <2>5, <2>6, <2>7, <2>8 DEF Next, Reads
<1> QED BY <1>1, <1>2, PTL DEF Spec

(* For any adapters with any addresses, the user chooses from all of them  *)
(* in their order, with all the addresses that can be read in theirs.      *)
THEOREM ListIsComplete == Spec => []ListedAsFound
<1>1. ListInv => ListedAsFound
  <2> SUFFICES ASSUME alldevs \in Adapters, ListAll(alldevs, devices)
               PROVE  /\ Len(devices) = Len(alldevs)
                      /\ \A i \in DOMAIN devices :
                           LET found  == alldevs[i].addresses
                               listed == devices[i].addresses
                           IN /\ devices[i].name = alldevs[i].name
                              /\ Len(listed) = Cardinality(ReadableIn(found))
                              /\ \A j \in DOMAIN listed : listed[j] # NULL
                              /\ \A k \in ReadableIn(found) :
                                   listed[Place(found, k)].addr = found[k].addr
    BY DEF ListInv, ListedAsFound
  <2>1. alldevs \in Seq(Adapter)
    BY ConsoleAssumption
  <2>2. PICK n \in Nat : n = Len(alldevs)
    BY <2>1
  <2>3. devices = [i \in 1 .. n |-> NetworkInterface(alldevs[i])]
    BY <2>2 DEF ListAll
  <2>4. Len(devices) = n /\ DOMAIN devices = 1 .. n
    <3> HIDE DEF NetworkInterface
    <3> QED BY <2>3
  <2>5. ASSUME NEW i \in 1 .. n
        PROVE  LET found  == alldevs[i].addresses
                   listed == devices[i].addresses
               IN /\ devices[i].name = alldevs[i].name
                  /\ Len(listed) = Cardinality(ReadableIn(found))
                  /\ \A j \in DOMAIN listed : listed[j] # NULL
                  /\ \A k \in ReadableIn(found) :
                       listed[Place(found, k)].addr = found[k].addr
    <3>1. devices[i] = NetworkInterface(alldevs[i])
      BY <2>3
    <3>2. alldevs[i] \in Adapter
      BY <2>1, <2>2
    <3>3. PICK found : found = alldevs[i].addresses /\ found \in Seq(Address)
      BY <3>2 DEF Adapter
    <3>4. PICK listed : listed = devices[i].addresses /\ listed = Addresses(found)
      BY <3>1, <3>3 DEF NetworkInterface
    <3>5. devices[i].name = alldevs[i].name
      BY <3>1 DEF NetworkInterface
    <3>6. /\ listed \in [1 .. Counted(found) -> Listed]
          /\ \A k \in ReadableIn(found) : listed[Place(found, k)].addr = found[k].addr
      BY <3>3, <3>4, FillsAll
    <3>7. Counted(found) = Cardinality(ReadableIn(found)) /\ Counted(found) \in Nat
      BY <3>3, CountsReadable
    <3>8. Len(listed) = Cardinality(ReadableIn(found))
      BY <3>6, <3>7
    <3>9. \A j \in DOMAIN listed : listed[j] # NULL
      BY <3>6, ConsoleAssumption
    <3> QED BY <3>3, <3>4, <3>5, <3>6, <3>8, <3>9, Zenon
  <2> QED BY <2>2, <2>4, <2>5
<1> QED BY <1>1, ListInvariance, PTL

-----------------------------------------------------------------------------
(* Octets.  parseInt goes through the digits from the left.                *)
IsValue(g, s) == g = [i \in 0 .. Len(s) |-> IF i = 0 THEN 0 ELSE 10 * g[i - 1] + s[i]]

LEMMA ParsesDigits ==
  ASSUME NEW n \in 1 .. 3, NEW s, s \in [1 .. n -> 0 .. 9]
  PROVE  /\ n = 1 => parseInt(s) = s[1]
         /\ n = 2 => parseInt(s) = 10 * s[1] + s[2]
         /\ n = 3 => parseInt(s) = 100 * s[1] + 10 * s[2] + s[3]
<1> DEFINE one   == s[1]
           two   == 10 * s[1] + s[2]
           three == 100 * s[1] + 10 * s[2] + s[3]
           w == [i \in 0 .. n |->
                   IF i = 0 THEN 0 ELSE IF i = 1 THEN one ELSE IF i = 2 THEN two ELSE three]
<1>1. Len(s) = n
  OBVIOUS
<1>2. s[1] \in Int /\ (n >= 2 => s[2] \in Int) /\ (n = 3 => s[3] \in Int)
  OBVIOUS
<1>3. IsValue(w, s)
  <2>1. \A i \in 0 .. n : w[i] = IF i = 0 THEN 0 ELSE 10 * w[i - 1] + s[i]
    BY <1>2
  <2>2. w = [i \in 0 .. n |-> w[i]]
    OBVIOUS
  <2> HIDE DEF w
  <2> QED BY <1>1, <2>1, <2>2 DEF IsValue
<1> DEFINE v == CHOOSE g : IsValue(g, s)
<1>4. IsValue(v, s)
  <2> HIDE DEF w
  <2> QED BY <1>3, Zenon
<1>5. parseInt(s) = v[Len(s)]
  BY Zenon DEF parseInt, IsValue
<1> HIDE DEF v
<1>6. \A i \in 0 .. n : v[i] = IF i = 0 THEN 0 ELSE 10 * v[i - 1] + s[i]
  BY <1>1, <1>4 DEF IsValue
<1>7. v[0] = 0 /\ v[1] = one
  <2>1. v[0] = 0
    BY <1>6
  <2>2. v[1] = 10 * v[0] + s[1]
    BY <1>6
  <2> QED BY <1>2, <2>1, <2>2
<1>8. n >= 2 => v[2] = two
  <2> SUFFICES ASSUME n >= 2 PROVE v[2] = two
    OBVIOUS
  <2>1. v[2] = 10 * v[1] + s[2]
    BY <1>6
  <2> QED BY <1>2, <1>7, <2>1
<1>9. n = 3 => v[3] = three
  <2> SUFFICES ASSUME n = 3 PROVE v[3] = three
    OBVIOUS
  <2>1. v[3] = 10 * v[2] + s[3]
    BY <1>6
  <2>2. v[2] \in Int /\ v[2] = two
    BY <1>2, <1>8
  <2> QED BY <1>2, <2>1, <2>2
<1> QED BY <1>1, <1>5, <1>7, <1>8, <1>9

(* What the address check takes is a byte, and stays the number typed.     *)
LEMMA OctetIsByte ==
  ASSUME NEW n \in 1 .. 3, NEW s, s \in [1 .. n -> 0 .. 9]
  PROVE  /\ Octet(s) <=> parseInt(s) < 256
         /\ Octet(s) => Unsigned(ToByte(parseInt(s))) = parseInt(s)
<1>1. Len(s) = n
  OBVIOUS
<1>2. /\ s[1] \in 0 .. 9
      /\ n >= 2 => s[2] \in 0 .. 9
      /\ n = 3 => s[3] \in 0 .. 9
  OBVIOUS
<1>3. PICK v : v = parseInt(s)
  OBVIOUS
<1>4. /\ n = 1 => v = s[1]
      /\ n = 2 => v = 10 * s[1] + s[2]
      /\ n = 3 => v = 100 * s[1] + 10 * s[2] + s[3]
  BY <1>3, ParsesDigits
<1>5. v \in Nat /\ (Octet(s) <=> v < 256)
  <2>1. CASE n = 1
    <3>1. PICK a \in 0 .. 9 : a = s[1]
      BY <1>2
    <3>2. v = a
      BY <1>4, <2>1, <3>1
    <3> QED BY <1>1, <2>1, <3>2 DEF Octet
  <2>2. CASE n = 2
    <3>1. PICK a, b \in 0 .. 9 : a = s[1] /\ b = s[2]
      BY <1>2, <2>2
    <3>2. v = 10 * a + b
      BY <1>4, <2>2, <3>1
    <3> QED BY <1>1, <2>2, <3>2 DEF Octet
  <2>3. CASE n = 3
    <3>1. PICK a, b, c \in 0 .. 9 : a = s[1] /\ b = s[2] /\ c = s[3]
      BY <1>2, <2>3
    <3>2. v = 100 * a + 10 * b + c
      BY <1>4, <2>3, <3>1
    <3>3. Octet(s) <=> \/ a = 2 /\ b = 5 /\ c \in 0 .. 5
                       \/ a = 2 /\ b \in 0 .. 4
                       \/ a \in {0, 1}
      BY <1>1, <2>3, <3>1 DEF Octet
    <3> QED BY <3>2, <3>3
  <2> QED BY <2>1, <2>2, <2>3
<1>6. v < 256 => Unsigned(ToByte(v)) = v
  BY <1>5 DEF Unsigned, ToByte
<1> QED BY <1>3, <1>5, <1>6

(* Any address that is accepted has octets that are bytes.                 *)
THEOREM OctetsAlwaysBytes == Spec => []OctetsAreBytes
<1>1. OctetsAreBytes
  BY OctetIsByte DEF OctetsAreBytes, DigitStrings
<1> QED BY <1>1, PTL

=============================================================================
