---------------------------- MODULE CaptureProofs ----------------------------
(***************************************************************************)
(* The theorems about Capture, for any number of threads, IDs, captors,    *)
(* calls and writers.                                                      *)
(***************************************************************************)
EXTENDS Capture, FiniteSetTheorems, TLAPS

Activations ==
  [op: {"loop", "get", "got"}, id: IDs, handle: Handles,
   ref: Refs \cup {NULL}, inside: Refs \cup {NULL}]

(* Where a thread may be in an open or a close, and where it has an ID.    *)
Having == {"env", "check", "store", "open", "result", "unreserve"}
Places == {"none", "test", "set"} \cup Having
Has(t, id) == opening[t].at \in Having /\ opening[t].id = id

CaptureTypes ==
  /\ java_env \in {"unset", "setting", "set"}
  /\ instanciatedFlag \in [IDs -> BOOLEAN]
  /\ opening \in [Threads -> [at: Places, id: IDs]]
  /\ captors \in [IDs -> Nat]
  /\ pcds \in [IDs -> Handles \cup {NULL}]
  /\ jni_envs \in [IDs -> Threads \cup {NULL}]
  /\ jpcap_handlers \in [IDs -> Refs \cup {NULL}]
  /\ memory \in [Handles -> {"none", "open", "closed", "freed"}]
  /\ stack \in [Threads -> Seq(Activations)]
  /\ pdt \in Writers \cup {NULL} /\ pcdd \in Handles \cup {NULL}
  /\ writer \in [Writers -> {"none", "open", "closed"}]
  /\ calls \in 0 .. MaxCalls /\ refs \in SUBSET (1 .. calls)

(* The table holds handles that are not closed, each under one ID.         *)
TableInv ==
  /\ \A id \in IDs : pcds[id] # NULL => memory[pcds[id]] \in {"open", "freed"}
  /\ \A i, j \in IDs : pcds[i] = pcds[j] /\ pcds[i] # NULL => i = j

(* Until two threads have got the same ID, it belongs to one captor or to  *)
(* one thread that is opening or closing one, or is free or lost; and the  *)
(* table misses no handle.                                                 *)
IDInv ==
  "sameID" \notin misuse =>
    /\ \A id \in IDs :
         /\ captors[id] \in {0, 1}
         /\ pcds[id] # NULL => instanciatedFlag[id]
         /\ captors[id] = 1 => pcds[id] # NULL
         /\ pcds[id] # NULL =>
              captors[id] = 1 \/ \E t \in Threads : Has(t, id) /\ opening[t].at = "result"
         /\ \A t \in Threads : Has(t, id) =>
              /\ instanciatedFlag[id] /\ captors[id] = 0
              /\ opening[t].at # "result" => pcds[id] = NULL
              /\ \A u \in Threads : Has(u, id) => u = t
    /\ \A h \in Handles : memory[h] \in {"open", "freed"} => \E id \in IDs : pcds[id] = h

(* Only the writers free handles.                                          *)
FreedInv == "dumpClosed" \notin misuse => \A h \in Handles : memory[h] # "freed"

(* A call works on the handle that was under its ID when it began, and has *)
(* it as long as nobody closes the captor or a dump file of it.            *)
HandleOf(a) ==
  /\ memory[a.handle] # "none"
  /\ Valid(a.handle) /\ "sameID" \notin misuse => pcds[a.id] = a.handle
  /\ misuse \cap {"closedInUse", "dumpClosed", "sameID"} = {} => Valid(a.handle)

(* Until two threads have calls on one captor or have got one ID, the      *)
(* environment in the array is that of the thread which relies on it.      *)
EnvOf(t, a) ==
  "shared" \notin misuse =>
    /\ a.op \in {"loop", "got"} /\ Valid(a.handle) /\ "sameID" \notin misuse =>
         jni_envs[a.id] = t
    /\ \A u \in Threads : \A j \in DOMAIN stack[u] : stack[u][j].id = a.id => u = t

(* Each loop has a reference of its own.  Until two loops are on one       *)
(* captor, it is the one in the array.                                     *)
RefOf(t, i, a) ==
  /\ a.op # "loop" => a.inside = NULL
  /\ a.op = "loop" =>
       /\ a.ref \in 1 .. calls
       /\ \A u \in Threads : \A j \in DOMAIN stack[u] :
            stack[u][j].op = "loop" /\ (u # t \/ j # i) =>
              /\ stack[u][j].ref # a.ref
              /\ "overlap" \notin misuse => stack[u][j].id # a.id
       /\ "overlap" \notin misuse =>
            jpcap_handlers[a.id] = a.ref /\ a.ref \in refs /\ a.inside \in {NULL, a.ref}

StackInv ==
  \A t \in Threads : \A i \in DOMAIN stack[t] :
    HandleOf(stack[t][i]) /\ EnvOf(t, stack[t][i]) /\ RefOf(t, i, stack[t][i])

(* After an overlap there is a reference that no array leads to, so that   *)
(* nobody will ever delete it.                                             *)
LeakInv ==
  /\ \A id \in IDs : jpcap_handlers[id] # NULL => jpcap_handlers[id] \in 1 .. calls
  /\ \A i, j \in IDs : jpcap_handlers[i] = jpcap_handlers[j] /\ jpcap_handlers[i] # NULL => i = j
  /\ "overlap" \in misuse /\ wrong = "none" =>
       \E ref \in refs : \A id \in IDs : jpcap_handlers[id] # ref

(* Nobody has a captor before the method IDs are set.                      *)
StartInv ==
  java_env # "set" /\ "startup" \notin misuse =>
    /\ \A id \in IDs : captors[id] = 0
    /\ \A t \in Threads : stack[t] = <<>> /\ opening[t].at \in {"none", "test", "set", "env"}

(* The file in the variable is that of the only writer that is open.       *)
WriterInv ==
  "twoWriters" \notin misuse => \A w \in Writers : writer[w] = "open" => pdt = w

(* The first part of FaultsHaveCauses.                                     *)
CauseInv ==
  /\ wrong = "env" => misuse \cap {"shared", "sameID"} # {}
  /\ wrong = "ref" => "overlap" \in misuse
  /\ wrong = "handle" => misuse \cap {"closedInUse", "dumpClosed", "sameID"} # {}
  /\ wrong \in {"dump", "file"} => "twoWriters" \in misuse
  /\ wrong = "method" => "startup" \in misuse

CaptureInv ==
  /\ CaptureTypes /\ TableInv /\ IDInv /\ FreedInv /\ StackInv /\ LeakInv /\ StartInv
  /\ WriterInv /\ CauseInv

-----------------------------------------------------------------------------
(* The stacks                                                              *)

(* A call begins,                                                          *)
LEMMA Pushed ==
  ASSUME CaptureTypes, NEW t \in Threads, NEW a \in Activations, Push(t, a)
  PROVE  /\ stack' \in [Threads -> Seq(Activations)]
         /\ \A u \in Threads \ {t} : stack'[u] = stack[u]
         /\ \E n : /\ n \notin DOMAIN stack[t] /\ DOMAIN stack'[t] = DOMAIN stack[t] \cup {n}
                   /\ stack'[t][n] = a
                   /\ \A i \in DOMAIN stack[t] : stack'[t][i] = stack[t][i]
<1>1. PICK s \in Seq(Activations) : s = stack[t]
  BY DEF CaptureTypes
<1>2. /\ Append(s, a) \in Seq(Activations) /\ Len(s) \in Nat /\ DOMAIN s = 1 .. Len(s)
      /\ DOMAIN Append(s, a) = 1 .. Len(s) + 1 /\ Append(s, a)[Len(s) + 1] = a
      /\ \A i \in 1 .. Len(s) : Append(s, a)[i] = s[i]
  OBVIOUS
<1>3. stack'[t] = Append(s, a) /\ \A u \in Threads \ {t} : stack'[u] = stack[u]
  BY <1>1 DEF CaptureTypes, Push
<1>4. stack' \in [Threads -> Seq(Activations)]
  BY <1>1, <1>2 DEF CaptureTypes, Push
<1>5. 1 .. Len(s) + 1 = (1 .. Len(s)) \cup {Len(s) + 1} /\ Len(s) + 1 \notin 1 .. Len(s)
  BY <1>2
<1> QED
  BY <1>1, <1>2, <1>3, <1>4, <1>5

(* The innermost call is the last.                                         *)
LEMMA TopIsLast ==
  ASSUME CaptureTypes, NEW t \in Threads, stack[t] # <<>>
  PROVE  /\ Len(stack[t]) \in DOMAIN stack[t] /\ Top(t) = stack[t][Len(stack[t])]
         /\ Top(t) \in Activations
         /\ Front(stack[t]) \in Seq(Activations)
         /\ DOMAIN Front(stack[t]) = DOMAIN stack[t] \ {Len(stack[t])}
         /\ Len(Front(stack[t])) = Len(stack[t]) - 1
         /\ \A i \in DOMAIN Front(stack[t]) : Front(stack[t])[i] = stack[t][i]
<1>1. PICK s \in Seq(Activations) : s = stack[t] /\ s # <<>>
  BY DEF CaptureTypes
<1>2. Len(s) \in Nat /\ Len(s) # 0 /\ DOMAIN s = 1 .. Len(s)
  BY <1>1
<1>3. Front(s) = [i \in 1 .. Len(s) - 1 |-> s[i]]
  BY <1>2 DEF Front
<1>4. /\ Front(s) \in Seq(Activations) /\ DOMAIN Front(s) = 1 .. Len(s) - 1
      /\ Len(Front(s)) = Len(s) - 1
      /\ \A i \in 1 .. Len(s) - 1 : Front(s)[i] = s[i]
  BY <1>2, <1>3
<1>5. 1 .. Len(s) - 1 = (1 .. Len(s)) \ {Len(s)} /\ Len(s) \in 1 .. Len(s)
  BY <1>2
<1>6. Top(t) = s[Len(s)] /\ s[Len(s)] \in Activations
  BY <1>1, <1>5 DEF Top, Last
<1> QED
  BY <1>1, <1>2, <1>4, <1>5, <1>6

(* comes back,                                                             *)
LEMMA Popped ==
  ASSUME CaptureTypes, NEW t \in Threads, stack[t] # <<>>, Pop(t)
  PROVE  /\ stack' \in [Threads -> Seq(Activations)]
         /\ \A u \in Threads \ {t} : stack'[u] = stack[u]
         /\ \E n \in DOMAIN stack[t] :
              /\ stack[t][n] = Top(t) /\ DOMAIN stack'[t] = DOMAIN stack[t] \ {n}
              /\ \A i \in DOMAIN stack'[t] : stack'[t][i] = stack[t][i]
<1>1. stack'[t] = Front(stack[t]) /\ \A u \in Threads \ {t} : stack'[u] = stack[u]
  BY DEF CaptureTypes, Pop
<1>2. stack' \in [Threads -> Seq(Activations)]
  BY TopIsLast DEF CaptureTypes, Pop
<1> QED
  BY <1>1, <1>2, TopIsLast

(* or changes.                                                             *)
LEMMA TopSet ==
  ASSUME CaptureTypes, NEW t \in Threads, stack[t] # <<>>, NEW a \in Activations, SetTop(t, a)
  PROVE  /\ stack' \in [Threads -> Seq(Activations)]
         /\ \A u \in Threads \ {t} : stack'[u] = stack[u]
         /\ \E n \in DOMAIN stack[t] :
              /\ stack[t][n] = Top(t) /\ DOMAIN stack'[t] = DOMAIN stack[t]
              /\ stack'[t][n] = a
              /\ \A i \in DOMAIN stack'[t] \ {n} : stack'[t][i] = stack[t][i]
<1>1. stack'[t] = Append(Front(stack[t]), a) /\ \A u \in Threads \ {t} : stack'[u] = stack[u]
  BY DEF CaptureTypes, SetTop
<1>2. PICK f \in Seq(Activations) : f = Front(stack[t])
  BY TopIsLast
<1>3. PICK n \in DOMAIN stack[t] : n = Len(stack[t])
  BY TopIsLast
<1>4. DOMAIN stack[t] = 1 .. n /\ n \in Nat
  <2>1. PICK s \in Seq(Activations) : s = stack[t]
    BY DEF CaptureTypes
  <2>2. DOMAIN s = 1 .. Len(s) /\ Len(s) \in Nat
    OBVIOUS
  <2> QED
    BY <1>3, <2>1, <2>2
<1>5. Len(f) = n - 1 /\ \A i \in 1 .. n - 1 : f[i] = stack[t][i]
  <2>1. DOMAIN f = 1 .. Len(f)
    OBVIOUS
  <2>2. Len(f) = n - 1 /\ \A i \in DOMAIN f : f[i] = stack[t][i]
    BY <1>2, <1>3, TopIsLast
  <2> QED
    BY <2>1, <2>2
<1>6. /\ Append(f, a) \in Seq(Activations) /\ DOMAIN Append(f, a) = 1 .. n
      /\ Append(f, a)[n] = a /\ \A i \in 1 .. n - 1 : Append(f, a)[i] = f[i]
  BY <1>4, <1>5
<1>7. stack' \in [Threads -> Seq(Activations)]
  BY <1>1, <1>2, <1>6 DEF CaptureTypes, SetTop
<1>8. \A i \in (1 .. n) \ {n} : i \in 1 .. n - 1
  BY <1>4
<1>9. DOMAIN stack'[t] = DOMAIN stack[t] /\ stack'[t][n] = a
  BY <1>1, <1>2, <1>4, <1>6
<1>10. \A i \in DOMAIN stack'[t] \ {n} : stack'[t][i] = stack[t][i]
  BY <1>1, <1>2, <1>4, <1>5, <1>6, <1>8, <1>9
<1>11. stack[t][n] = Top(t)
  BY <1>3, TopIsLast
<1> QED
  BY <1>1, <1>7, <1>9, <1>10, <1>11

-----------------------------------------------------------------------------
(* The steps                                                               *)

(* The steps of opening a captor, and the last one of closing it.          *)
Opening(t) ==
  \/ openDevice(t) \/ TestFlag(t) \/ SetFlag(t) \/ PassJavaEnv(t) \/ CheckHandle(t)
  \/ StoreEnv(t) \/ StoreHandle(t) \/ ReturnCaptor(t) \/ unreserveID(t)

(* The steps of a thread.                                                  *)
Step(t) ==
  \/ EnterJavaEnv(t) \/ LeaveJavaEnv(t) \/ Opening(t)
  \/ Deliver(t) \/ HandlerReturns(t) \/ Return(t)
  \/ GotNothing(t) \/ GotPacket(t) \/ Convert(t)
  \/ \E id \in IDs :
       nativeClose(t, id) \/ Use(t, id) \/ breakLoop(t, id) \/ loopPacket(t, id) \/ getPacket(t, id)
  \/ \E w \in Writers : writePacket(t, w) \/ closeWriter(t, w)
  \/ \E w \in Writers, id \in IDs : openDumpFile(t, w, id)

(* What the steps that go wrong have found, and what the others do: each   *)
(* row is one of them with what it changes.                                *)
Fails(t) ==
  /\ wrong = "none" /\ Goes(wrong')
  /\ \/ wrong' = "handle" /\ \E id \in IDs : captors[id] > 0 /\ ~Valid(pcds[id])
     \/ /\ stack[t] # <<>> /\ wrong' = "handle" /\ ~Valid(Top(t).handle)
     \/ /\ stack[t] # <<>> /\ wrong' = "env" /\ Valid(Top(t).handle)
        /\ Top(t).op \in {"loop", "got"} /\ jni_envs[Top(t).id] # t
     \/ stack[t] # <<>> /\ wrong' = "method" /\ java_env = "setting"
     \/ /\ stack[t] # <<>> /\ wrong' = "ref" /\ Top(t).op = "loop"
        /\ jpcap_handlers[Top(t).id] \notin refs
     \/ \E w \in Writers : writer[w] = "open" /\ pdt # w /\ wrong' \in {"dump", "file"}

SetsUp(t) ==
  /\ java_env' \in {"setting", "set"} /\ (java_env = "set" => java_env' = "set")
  /\ UNCHANGED <<idVars, handleVars, callVars, dumpVars, wrong, misuse>>

Breaks(t) ==
  UNCHANGED <<envVars, idVars, memory, callVars, dumpVars, wrong, misuse>>

Calling(t) ==
  \E id \in IDs, a \in Activations :
    /\ captors[id] > 0 /\ Valid(pcds[id])
    /\ a.id = id /\ a.handle = pcds[id] /\ a.inside = NULL /\ Push(t, a)
    /\ UNCHANGED <<envVars, idVars, handleVars, dumpVars, wrong>>
    /\ \/ loopPacket(t, id) /\ a.op = "loop" /\ a.ref = calls + 1
       \/ getPacket(t, id) /\ a.op = "get"

(* The innermost call changes, but for its ID, handle and reference.       *)
Changing(t) ==
  \E a \in Activations :
    /\ stack[t] # <<>> /\ Top(t) \in Activations /\ SetTop(t, a)
    /\ a.id = Top(t).id /\ a.handle = Top(t).handle /\ a.ref = Top(t).ref
    /\ UNCHANGED <<envVars, idVars, handleVars, jpcap_handlers, refs, calls, dumpVars,
                   wrong, misuse>>
    /\ \/ /\ Top(t).op = "loop" /\ a.op = "loop" /\ UNCHANGED jni_envs
          /\ a.inside = NULL \/ a.inside = jpcap_handlers[a.id]
       \/ /\ Top(t).op = "get" /\ a.op = "got" /\ a.inside = Top(t).inside
          /\ jni_envs' = [jni_envs EXCEPT ![a.id] = t]

(* The innermost call comes back.                                          *)
Returning(t) ==
  /\ stack[t] # <<>> /\ Top(t) \in Activations /\ Pop(t)
  /\ UNCHANGED <<envVars, idVars, memory, jni_envs, jpcap_handlers, calls, dumpVars,
                 wrong, misuse>>
  /\ \/ Top(t).op # "loop" /\ UNCHANGED refs
     \/ /\ Top(t).op = "loop" /\ jpcap_handlers[Top(t).id] \in refs
        /\ refs' = refs \ {jpcap_handlers[Top(t).id]}

(* A writer step that goes on changes no call.                             *)
Writing(t) ==
  /\ UNCHANGED <<envVars, idVars, callVars>>
  /\ \E w \in Writers : closeWriter(t, w) \/ \E id \in IDs : openDumpFile(t, w, id)

(* close takes away what is under the ID.                                  *)
Closes(t, id) ==
  /\ captors[id] > 0 /\ opening[t].at = "none" /\ (pcds[id] = NULL \/ Valid(pcds[id]))
  /\ captors' = [captors EXCEPT ![id] = @ - 1]
  /\ memory' = [h \in Handles |-> IF h = pcds[id] THEN "closed" ELSE memory[h]]
  /\ pcds' = [pcds EXCEPT ![id] = NULL]
  /\ misuse' = misuse \cup Noted(pcds[id] # NULL /\ Users(pcds[id]) # {}, "closedInUse")
  /\ Goto(t, "unreserve", id)
  /\ UNCHANGED <<envVars, instanciatedFlag, broken, callVars, dumpVars, wrong>>

(* Each step is one of these.                                              *)
LEMMA EachStep ==
  ASSUME CaptureTypes, StackInv, NEW t \in Threads, Step(t)
  PROVE  \/ Fails(t) \/ SetsUp(t) \/ Breaks(t) \/ Calling(t) \/ Changing(t) \/ Returning(t)
         \/ Opening(t) \/ (\E id \in IDs : Closes(t, id)) \/ Writing(t)
<1>t. stack[t] # <<>> => Top(t) \in Activations /\ (Top(t).op # "loop" => Top(t).inside = NULL)
  <2> HAVE stack[t] # <<>>
  <2>1. PICK i \in DOMAIN stack[t] : Top(t) = stack[t][i]
    BY TopIsLast
  <2>2. RefOf(t, i, stack[t][i])
    BY DEF StackInv
  <2> QED
    BY <2>1, <2>2, TopIsLast DEF RefOf
<1>n. MaxCalls \in Nat /\ calls \in 0 .. MaxCalls /\ refs \subseteq 1 .. calls
  BY CaptureAssumption DEF CaptureTypes
<1>1. CASE EnterJavaEnv(t) \/ LeaveJavaEnv(t)
  BY <1>1 DEF EnterJavaEnv, LeaveJavaEnv, SetsUp
<1>r. \A ref \in refs : ref \in Refs
  BY <1>n DEF Refs
<1>2. CASE Deliver(t)
  <2>1. PICK a \in Activations : a = Top(t)
    BY <1>2, <1>t DEF Deliver, In
  <2>2. CASE \/ ~Valid(a.handle) \/ jni_envs[a.id] # t \/ java_env = "setting"
             \/ jpcap_handlers[a.id] \notin refs
    BY <1>2, <2>1, <2>2 DEF Deliver, In, Goes, Fails
  <2>3. CASE ~ (\/ ~Valid(a.handle) \/ jni_envs[a.id] # t \/ java_env = "setting"
                \/ jpcap_handlers[a.id] \notin refs)
    <3>1. PICK b : b = [a EXCEPT !.inside = jpcap_handlers[a.id]]
      OBVIOUS
    <3>2. b \in Activations
      BY <1>r, <2>3, <3>1 DEF Activations
    <3>3. a.op = "loop" /\ b.op = "loop" /\ b.inside = jpcap_handlers[a.id] /\ b.id = a.id
          /\ b.ref = a.ref /\ b.handle = a.handle
      BY <1>2, <2>1, <3>1 DEF Deliver, In, Activations
    <3> QED
      BY <1>2, <2>1, <2>3, <3>1, <3>2, <3>3 DEF Deliver, In, Changing
  <2> QED
    BY <2>2, <2>3
<1>3. CASE HandlerReturns(t)
  <2>1. PICK a \in Activations : a = Top(t)
    BY <1>3, <1>t DEF HandlerReturns
  <2>2. PICK b \in Activations : b = [a EXCEPT !.inside = NULL]
    BY DEF Activations
  <2>3. a.op = "loop" /\ b.op = "loop" /\ b.inside = NULL /\ b.id = a.id /\ b.ref = a.ref
        /\ b.handle = a.handle
    BY <1>3, <1>t, <2>1, <2>2 DEF HandlerReturns, CanCall, Activations
  <2> QED
    BY <1>3, <2>1, <2>2, <2>3 DEF HandlerReturns, Changing
<1>4. CASE Return(t)
  BY <1>4, <1>t DEF Return, In, Goes, Fails, Returning
<1>5. CASE GotNothing(t)
  BY <1>5, <1>t DEF GotNothing, In, Goes, Fails, Returning
<1>6. CASE GotPacket(t)
  <2>1. PICK a \in Activations : a = Top(t)
    BY <1>6, <1>t DEF GotPacket, In
  <2>2. PICK b \in Activations : b = [a EXCEPT !.op = "got"]
    BY DEF Activations
  <2>3. a.op = "get" /\ b.op = "got" /\ b.inside = a.inside /\ b.id = a.id /\ b.ref = a.ref
        /\ b.handle = a.handle
    BY <1>6, <1>t, <2>1, <2>2 DEF GotPacket, In, Activations
  <2> QED
    BY <1>6, <2>1, <2>2, <2>3 DEF GotPacket, In, Changing
<1>7. CASE Convert(t)
  BY <1>7, <1>t DEF Convert, In, Goes, Fails, Returning, handleVars
<1>8. ASSUME NEW id \in IDs, nativeClose(t, id) \/ Use(t, id)
      PROVE  Fails(t) \/ Closes(t, id)
  BY <1>8 DEF nativeClose, Use, CanCall, Opened, Goes, Fails, Closes
<1>9. ASSUME NEW id \in IDs, breakLoop(t, id)
      PROVE  Fails(t) \/ Breaks(t)
  BY <1>9 DEF breakLoop, CanCall, Opened, Goes, Fails, Breaks
<1>10. ASSUME NEW id \in IDs, loopPacket(t, id)
       PROVE  Calling(t)
  <2>1. pcds[id] \in Handles /\ calls + 1 \in Refs
    BY <1>10, <1>n DEF loopPacket, Calls, Valid, CaptureTypes, Refs
  <2>2. PICK a \in Activations : a = Activation("loop", id, calls + 1)
    BY <2>1 DEF Activation, Activations
  <2>3. a.id = id /\ a.handle = pcds[id] /\ a.inside = NULL /\ a.op = "loop" /\ a.ref = calls + 1
    BY <2>2 DEF Activation
  <2> QED
    BY <1>10, <2>2, <2>3 DEF loopPacket, Calls, Opened, Calling
<1>11. ASSUME NEW id \in IDs, getPacket(t, id)
       PROVE  Calling(t)
  <2>1. pcds[id] \in Handles
    BY <1>11 DEF getPacket, Valid, CaptureTypes
  <2>2. PICK a \in Activations : a = Activation("get", id, NULL)
    BY <2>1 DEF Activation, Activations
  <2>3. a.id = id /\ a.handle = pcds[id] /\ a.inside = NULL /\ a.op = "get"
    BY <2>2 DEF Activation
  <2> QED
    BY <1>11, <2>2, <2>3 DEF getPacket, Opened, Calling
<1>12. ASSUME NEW w \in Writers, writePacket(t, w)
       PROVE  Fails(t)
  BY <1>12 DEF writePacket, CanCall, Goes, Fails
<1>13. ASSUME NEW w \in Writers, closeWriter(t, w)
       PROVE  Writing(t)
  BY <1>13 DEF closeWriter, Writing
<1>14. ASSUME NEW w \in Writers, NEW id \in IDs, openDumpFile(t, w, id)
       PROVE  Writing(t)
  BY <1>14 DEF openDumpFile, Goes, Writing
<1> QED
  BY <1>1, <1>2, <1>3, <1>4, <1>5, <1>6, <1>7, <1>8, <1>9, <1>10, <1>11, <1>12, <1>13, <1>14
     DEF Step

(* The steps that change neither the table nor the writers.                *)
Plain(t) ==
  Fails(t) \/ SetsUp(t) \/ Breaks(t) \/ Calling(t) \/ Changing(t) \/ Returning(t)

LEMMA PlainKeeps ==
  ASSUME NEW t, Plain(t)
  PROVE  UNCHANGED <<instanciatedFlag, opening, captors, pcds, memory, dumpVars>>
BY DEF Plain, Fails, Goes, SetsUp, Breaks, Calling, Changing, Returning, idVars, handleVars,
       dumpVars

(* A writer opens a file, or fails to;                                     *)
OpensFile(w) ==
  /\ writer[w] = "none"
  /\ \/ pdt' = w /\ writer' = [writer EXCEPT ![w] = "open"]
     \/ pdt' = NULL /\ UNCHANGED writer
  /\ pcdd' \in Handles
  /\ misuse' = misuse \cup Noted(pdt # NULL, "twoWriters")
  /\ UNCHANGED <<envVars, idVars, handleVars, callVars, wrong>>

(* closes it when there is none;                                           *)
ClosesNothing(w) ==
  /\ writer[w] = "open" /\ pdt = NULL
  /\ writer' = [writer EXCEPT ![w] = "closed"]
  /\ UNCHANGED <<envVars, idVars, handleVars, callVars, pdt, pcdd, wrong, misuse>>

(* closes it and frees the handle;                                         *)
FreesHandle(w) ==
  /\ writer[w] = "open" /\ Valid(pcdd)
  /\ memory' = [memory EXCEPT ![pcdd] = "freed"]
  /\ pcdd' = NULL /\ pdt' = NULL
  /\ writer' = [writer EXCEPT ![w] = "closed"]
  /\ misuse' = misuse \cup {"dumpClosed"}
  /\ UNCHANGED <<envVars, idVars, broken, callVars, wrong>>

(* or frees one that is gone.                                              *)
FreesAgain ==
  /\ wrong' = "handle" /\ misuse' = misuse \cup {"dumpClosed"}
  /\ UNCHANGED <<envVars, idVars, handleVars, callVars, dumpVars>>

LEMMA WritingKinds ==
  ASSUME CaptureTypes, NEW t, Writing(t)
  PROVE  \/ Fails(t) \/ FreesAgain
         \/ \E w \in Writers : OpensFile(w) \/ ClosesNothing(w) \/ FreesHandle(w)
<1>1. ASSUME NEW w \in Writers, NEW id \in IDs, openDumpFile(t, w, id), ~Valid(pcds[id])
      PROVE  Fails(t)
  BY <1>1 DEF openDumpFile, CanCall, Opened, Goes, Fails
<1>2. ASSUME NEW w \in Writers, NEW id \in IDs, openDumpFile(t, w, id), Valid(pcds[id])
      PROVE  OpensFile(w)
  BY <1>2 DEF openDumpFile, OpensFile, CaptureTypes, Valid
<1>3. ASSUME NEW w \in Writers, closeWriter(t, w)
      PROVE  ClosesNothing(w) \/ FreesHandle(w) \/ FreesAgain
  <2>1. CASE pdt = NULL
    BY <1>3, <2>1 DEF closeWriter, ClosesNothing
  <2>2. CASE pdt # NULL /\ Valid(pcdd)
    BY <1>3, <2>2 DEF closeWriter, FreesHandle
  <2>3. CASE pdt # NULL /\ ~Valid(pcdd)
    BY <1>3, <2>3 DEF closeWriter, FreesAgain
  <2> QED
    BY <2>1, <2>2, <2>3
<1> QED
  BY <1>1, <1>2, <1>3 DEF Writing

(* All kinds of step.                                                      *)
LEMMA Kinds ==
  ASSUME CaptureTypes, StackInv, [Next]_vars
  PROVE  \/ \E t \in Threads :
              Plain(t) \/ Opening(t) \/ \E id \in IDs : Closes(t, id)
         \/ FreesAgain
         \/ \E w \in Writers : OpensFile(w) \/ ClosesNothing(w) \/ FreesHandle(w)
         \/ UNCHANGED vars
<1>1. CASE Next
  <2>1. PICK t \in Threads : Step(t)
    BY <1>1 DEF Next, Step, Opening
  <2> QED
    BY <2>1, EachStep, WritingKinds DEF Plain
<1> QED
  BY <1>1

-----------------------------------------------------------------------------
(* The parts of the invariant                                              *)

(* What the steps of opening leave alone.                                  *)
LEMMA OpeningKeeps ==
  ASSUME NEW t, Opening(t)
  PROVE  /\ UNCHANGED <<java_env, setter, broken, jpcap_handlers, refs, stack, calls,
                        pdt, pcdd, writer, wrong>>
         /\ wrong = "none"
         /\ misuse \subseteq misuse' /\ misuse' \subseteq misuse \cup {"sameID", "startup"}
BY DEF Opening, openDevice, TestFlag, SetFlag, PassJavaEnv, CheckHandle, StoreEnv, StoreHandle,
       ReturnCaptor, unreserveID, At, CanCall, Noted, envVars, handleVars, callVars, dumpVars

LEMMA OpeningTypes ==
  ASSUME CaptureTypes, NEW t \in Threads, Opening(t)
  PROVE  CaptureTypes'
<1> USE CaptureAssumption DEF CaptureTypes, Places, Having, At, Goto, handleVars, callVars
<1>k. UNCHANGED <<java_env, jpcap_handlers, refs, stack, calls, pdt, pcdd, writer>>
  BY OpeningKeeps
<1>i. opening[t].id \in IDs /\ 0 \in IDs
  BY DEF IDs
<1>1. CASE openDevice(t)
  BY <1>k, <1>i, <1>1 DEF openDevice
<1>2. CASE TestFlag(t)
  <2>1. PICK id \in IDs : id = opening[t].id
    BY <1>i
  <2>2. \E j \in IDs, p \in Places : opening' = [opening EXCEPT ![t] = [at |-> p, id |-> j]]
    BY <1>i, <1>2, <2>1 DEF TestFlag
  <2> QED
    BY <1>k, <1>2, <2>2 DEF TestFlag
<1>3. CASE SetFlag(t)
  BY <1>k, <1>i, <1>3 DEF SetFlag
<1>4. CASE PassJavaEnv(t)
  BY <1>k, <1>i, <1>4 DEF PassJavaEnv
<1>5. CASE CheckHandle(t)
  <2>1. PICK p \in Places, j \in IDs : opening' = [opening EXCEPT ![t] = [at |-> p, id |-> j]]
    BY <1>i, <1>5 DEF CheckHandle
  <2> QED
    BY <1>k, <1>5, <2>1 DEF CheckHandle
<1>6. CASE StoreEnv(t)
  BY <1>k, <1>i, <1>6 DEF StoreEnv
<1>7. CASE StoreHandle(t)
  <2>1. /\ opening' \in [Threads -> [at: Places, id: IDs]]
        /\ UNCHANGED <<instanciatedFlag, captors, jni_envs>>
    BY <1>i, <1>7 DEF StoreHandle
  <2>2. pcds' \in [IDs -> Handles \cup {NULL}]
    BY <1>i, <1>7 DEF StoreHandle
  <2>3. memory' \in [Handles -> {"none", "open", "closed", "freed"}]
    BY <1>7 DEF StoreHandle
  <2> QED
    BY <1>k, <2>1, <2>2, <2>3
<1>8. CASE ReturnCaptor(t)
  BY <1>k, <1>i, <1>8 DEF ReturnCaptor
<1>9. CASE unreserveID(t)
  BY <1>k, <1>i, <1>9 DEF unreserveID
<1> QED
  BY <1>1, <1>2, <1>3, <1>4, <1>5, <1>6, <1>7, <1>8, <1>9 DEF Opening

LEMMA NextTypes ==
  ASSUME CaptureTypes, StackInv, [Next]_vars
  PROVE  CaptureTypes'
<1> USE DEF CaptureTypes, envVars, idVars, handleVars, callVars, dumpVars
<1>1. ASSUME NEW t \in Threads, Plain(t)
      PROVE  CaptureTypes'
  <2>1. CASE Fails(t) \/ Breaks(t)
    BY <2>1 DEF Fails, Goes, Breaks
  <2>2. CASE SetsUp(t)
    BY <2>2 DEF SetsUp
  <2>3. CASE Calling(t)
    <3>1. PICK id \in IDs, a \in Activations :
            /\ Push(t, a) /\ UNCHANGED <<envVars, idVars, handleVars, dumpVars>>
            /\ loopPacket(t, id) \/ getPacket(t, id)
      BY <2>3 DEF Calling
    <3>2. stack' \in [Threads -> Seq(Activations)]
      BY <3>1, Pushed
    <3>3. CASE getPacket(t, id)
      BY <3>1, <3>2, <3>3 DEF getPacket
    <3>4. CASE loopPacket(t, id)
      <4>1. MaxCalls \in Nat /\ calls < MaxCalls /\ calls' = calls + 1 /\ refs' = refs \cup {calls + 1}
        BY <3>4, CaptureAssumption DEF loopPacket, Calls
      <4>2. calls' \in 0 .. MaxCalls /\ calls + 1 \in Refs /\ refs' \in SUBSET (1 .. calls')
        BY <4>1 DEF Refs
      <4>3. jpcap_handlers' \in [IDs -> Refs \cup {NULL}] /\ jni_envs' \in [IDs -> Threads \cup {NULL}]
        BY <3>4, <4>2 DEF loopPacket, Calls
      <4> QED
        BY <3>1, <3>2, <4>2, <4>3
    <3> QED
      BY <3>1, <3>3, <3>4
  <2>4. CASE Changing(t)
    <3>1. PICK a \in Activations : stack[t] # <<>> /\ SetTop(t, a)
      BY <2>4 DEF Changing
    <3>2. stack' \in [Threads -> Seq(Activations)]
      BY <3>1, TopSet
    <3>3. jni_envs' \in [IDs -> Threads \cup {NULL}]
      BY <2>4 DEF Changing
    <3> QED
      BY <2>4, <3>2, <3>3 DEF Changing
  <2>5. CASE Returning(t)
    <3>1. stack' \in [Threads -> Seq(Activations)]
      BY <2>5, Popped DEF Returning
    <3> QED
      BY <2>5, <3>1 DEF Returning
  <2> QED
    BY <1>1, <2>1, <2>2, <2>3, <2>4, <2>5 DEF Plain
<1>2. ASSUME NEW t \in Threads, Opening(t)
      PROVE  CaptureTypes'
  BY <1>2, OpeningTypes
<1>3. ASSUME NEW t \in Threads, NEW id \in IDs, Closes(t, id)
      PROVE  CaptureTypes'
  BY <1>3 DEF Closes, Goto, Places, Having
<1>4. ASSUME NEW w \in Writers, OpensFile(w) \/ ClosesNothing(w) \/ FreesHandle(w)
      PROVE  CaptureTypes'
  BY <1>4 DEF OpensFile, ClosesNothing, FreesHandle
<1>5. CASE FreesAgain
  BY <1>5 DEF FreesAgain
<1>6. CASE UNCHANGED vars
  BY <1>6 DEF vars
<1> QED
  BY <1>1, <1>2, <1>3, <1>4, <1>5, <1>6, Kinds

(* nativeOpenLive stores a new handle or NULL.                             *)
Stores(t, h) ==
  /\ memory[h] = "none"
  /\ memory' = [memory EXCEPT ![h] = "open"]
  /\ pcds' = [pcds EXCEPT ![opening[t].id] = h]

LEMMA OpeningStores ==
  ASSUME CaptureTypes, NEW t \in Threads, Opening(t)
  PROVE  \/ UNCHANGED <<pcds, memory>>
         \/ /\ At(t, "open") /\ Goto(t, "result", opening[t].id)
            /\ UNCHANGED <<instanciatedFlag, captors, jni_envs, misuse>>
            /\ \/ \E h \in Handles : Stores(t, h)
               \/ pcds' = [pcds EXCEPT ![opening[t].id] = NULL] /\ UNCHANGED memory
BY DEF Opening, openDevice, TestFlag, SetFlag, PassJavaEnv, CheckHandle, StoreEnv, StoreHandle,
       ReturnCaptor, unreserveID, Stores, handleVars, callVars

LEMMA NextTable ==
  ASSUME CaptureTypes, StackInv, TableInv, [Next]_vars
  PROVE  TableInv'
<1> USE CaptureAssumption DEF CaptureTypes, TableInv
<1>0. NULL \notin Handles
  BY DEF Handles
<1>1. CASE UNCHANGED <<pcds, memory>>
  BY <1>1
<1>2. ASSUME NEW t \in Threads, Opening(t)
      PROVE  TableInv'
  <2>1. PICK i \in IDs : i = opening[t].id
    OBVIOUS
  <2>2. ASSUME NEW h \in Handles, Stores(t, h)
        PROVE  TableInv'
    BY <1>0, <2>1, <2>2 DEF Stores
  <2>3. CASE pcds' = [pcds EXCEPT ![i] = NULL] /\ UNCHANGED memory
    BY <2>3
  <2> QED
    BY <1>1, <1>2, <2>1, <2>2, <2>3, OpeningStores
<1>3. ASSUME NEW t \in Threads, NEW id \in IDs, Closes(t, id)
      PROVE  TableInv'
  BY <1>0, <1>3 DEF Closes, Valid
<1>4. ASSUME NEW w \in Writers, FreesHandle(w)
      PROVE  TableInv'
  BY <1>4 DEF FreesHandle, Valid, idVars
<1>5. ASSUME NEW t \in Threads, Plain(t)
      PROVE  UNCHANGED <<pcds, memory>>
  BY <1>5, PlainKeeps
<1>6. ASSUME NEW w \in Writers, OpensFile(w) \/ ClosesNothing(w)
      PROVE  UNCHANGED <<pcds, memory>>
  BY <1>6 DEF OpensFile, ClosesNothing, idVars, handleVars
<1>7. FreesAgain \/ UNCHANGED vars => UNCHANGED <<pcds, memory>>
  BY DEF FreesAgain, vars, idVars, handleVars
<1> QED
  BY <1>1, <1>2, <1>3, <1>4, <1>5, <1>6, <1>7, Kinds

(* The plain steps note nothing but calls that meet.                       *)
LEMMA PlainNotes ==
  ASSUME NEW t, Plain(t)
  PROVE  /\ misuse \subseteq misuse' /\ misuse' \subseteq misuse \cup {"shared", "overlap"}
         /\ wrong' = "none" => wrong = "none"
         /\ wrong' = wrong \/ Fails(t)
<1>1. CASE Calling(t)
  BY <1>1 DEF Calling, loopPacket, Calls, getPacket, Noted
<1>2. CASE ~Calling(t)
  BY <1>2 DEF Plain, Fails, Goes, SetsUp, Breaks, Changing, Returning
<1> QED
  BY <1>1, <1>2

LEMMA NextFreed ==
  ASSUME CaptureTypes, StackInv, TableInv, FreedInv, [Next]_vars
  PROVE  FreedInv'
<1> USE DEF CaptureTypes, FreedInv
<1>1. ASSUME NEW t \in Threads, Plain(t)
      PROVE  FreedInv'
  BY <1>1, PlainKeeps, PlainNotes
<1>2. ASSUME NEW t \in Threads, Opening(t)
      PROVE  FreedInv'
  BY <1>2, OpeningKeeps, OpeningStores DEF Stores
<1>3. ASSUME NEW t \in Threads, NEW id \in IDs, Closes(t, id)
      PROVE  FreedInv'
  BY <1>3 DEF Closes, Noted
<1>4. ASSUME NEW w \in Writers, OpensFile(w) \/ ClosesNothing(w) \/ FreesHandle(w)
      PROVE  FreedInv'
  BY <1>4 DEF OpensFile, ClosesNothing, FreesHandle, Noted, handleVars
<1>5. CASE FreesAgain
  BY <1>5 DEF FreesAgain
<1>6. CASE UNCHANGED vars
  BY <1>6 DEF vars
<1> QED
  BY <1>1, <1>2, <1>3, <1>4, <1>5, <1>6, Kinds

(* The IDs and their handles stay with those who have them.                *)
LEMMA IDsStay ==
  ASSUME IDInv, "sameID" \notin misuse, UNCHANGED <<instanciatedFlag, captors, pcds>>,
         \A h \in Handles : memory'[h] \in {"open", "freed"} => memory[h] \in {"open", "freed"},
         \A t \in Threads, id \in IDs :
            /\ Has(t, id)' => Has(t, id)
            /\ Has(t, id)' => (opening'[t].at = "result" <=> opening[t].at = "result")
            /\ Has(t, id) /\ opening[t].at = "result" => Has(t, id)'
  PROVE  IDInv'
<1>1. ASSUME NEW id \in IDs, pcds[id] # NULL, captors[id] # 1
      PROVE  \E t \in Threads : Has(t, id)' /\ opening'[t].at = "result"
  BY <1>1 DEF IDInv
<1>2. ASSUME NEW id \in IDs, NEW t \in Threads, Has(t, id)'
      PROVE  /\ instanciatedFlag[id] /\ captors[id] = 0
             /\ opening'[t].at # "result" => pcds[id] = NULL
             /\ \A u \in Threads : Has(u, id)' => u = t
  BY <1>2 DEF IDInv
<1> QED
  BY <1>1, <1>2 DEF IDInv

(* An ID that nobody has and that is free when its flag is tested may be   *)
(* taken; nothing else happens to the IDs of others.                       *)
LEMMA NextID ==
  ASSUME CaptureTypes, StackInv, TableInv, IDInv, [Next]_vars
  PROVE  IDInv'
<1> SUFFICES ASSUME "sameID" \notin misuse'
             PROVE  IDInv'
  BY DEF IDInv
<1> USE CaptureAssumption DEF CaptureTypes, IDInv, Has, Having
<1>0. NULL \notin Handles
  BY DEF Handles
<1>1. CASE UNCHANGED <<instanciatedFlag, opening, captors, pcds, memory>> /\ misuse \subseteq misuse'
  BY <1>1
<1>2. ASSUME NEW t \in Threads, Opening(t)
      PROVE  IDInv'
  <2>m. "sameID" \notin misuse
    BY <1>2, OpeningKeeps
  <2>i. PICK i \in IDs : i = opening[t].id
    OBVIOUS
  <2> USE DEF At, Goto
  <2>1. CASE openDevice(t) \/ TestFlag(t)
    <3>1. UNCHANGED <<instanciatedFlag, captors, pcds, memory>>
      BY <2>1 DEF openDevice, TestFlag, handleVars
    <3>2. opening'[t].at \in {"none", "test", "set"} /\ opening[t].at \in {"none", "test"}
      BY <2>1 DEF openDevice, TestFlag, CanCall
    <3>3. \A u \in Threads \ {t} : opening'[u] = opening[u]
      BY <2>1 DEF openDevice, TestFlag
    <3>4. \A u \in Threads, j \in IDs :
            Has(u, j)' = Has(u, j) /\ (Has(u, j) => opening'[u].at = opening[u].at)
      BY <3>2, <3>3
    <3> QED
      BY ONLY IDInv, <2>m, <3>1, <3>4, IDsStay
  <2>2. CASE SetFlag(t)
    <3>1. /\ instanciatedFlag[i] = FALSE /\ instanciatedFlag' = [instanciatedFlag EXCEPT ![i] = TRUE]
          /\ opening' = [opening EXCEPT ![t] = [at |-> "env", id |-> i]] /\ opening[t].at = "set"
          /\ UNCHANGED <<captors, pcds, memory>>
      BY <2>2, <2>i DEF SetFlag, Noted, handleVars
    <3>2. pcds[i] = NULL /\ captors[i] = 0 /\ \A u \in Threads : ~Has(u, i)
      BY <2>m, <3>1
    <3> QED
      BY <2>m, <3>1, <3>2
  <2>3. CASE PassJavaEnv(t) \/ StoreEnv(t)
    <3>1. UNCHANGED <<instanciatedFlag, captors, pcds, memory>>
      BY <2>3 DEF PassJavaEnv, StoreEnv, handleVars
    <3>2. /\ opening'[t].id = i /\ opening'[t].at \in {"check", "open"}
          /\ opening[t].at \in {"env", "store"}
      BY <2>3, <2>i DEF PassJavaEnv, StoreEnv
    <3>3. \A u \in Threads \ {t} : opening'[u] = opening[u]
      BY <2>3 DEF PassJavaEnv, StoreEnv
    <3>4. \A u \in Threads, j \in IDs :
            /\ Has(u, j)' <=> Has(u, j)
            /\ opening'[u].at = "result" <=> opening[u].at = "result"
      BY ONLY <2>i, <3>2, <3>3, t \in Threads DEF Has, Having
    <3> QED
      BY ONLY IDInv, <2>m, <3>1, <3>4, IDsStay
  <2>4. CASE CheckHandle(t)
    <3>1. UNCHANGED <<instanciatedFlag, captors, pcds, memory>> /\ opening[t].at = "check"
      BY <2>4 DEF CheckHandle, handleVars
    <3>2. opening' = [opening EXCEPT ![t] = [at |-> "store", id |-> i]]
      BY <2>4, <2>i, <2>m, <3>1 DEF CheckHandle
    <3> QED
      BY <2>m, <2>i, <3>1, <3>2
  <2>5. CASE StoreHandle(t)
    <3>1. /\ opening[t].at = "open" /\ opening' = [opening EXCEPT ![t] = [at |-> "result", id |-> i]]
          /\ UNCHANGED <<instanciatedFlag, captors>>
      BY <2>5, <2>i DEF StoreHandle
    <3>2. pcds[i] = NULL /\ captors[i] = 0 /\ instanciatedFlag[i]
      BY <2>m, <2>i, <3>1
    <3>3. ASSUME NEW h \in Handles, Stores(t, h)
          PROVE  IDInv'
      <4>1. /\ pcds'[i] = h /\ \A j \in IDs \ {i} : pcds'[j] = pcds[j]
            /\ memory'[h] = "open" /\ \A g \in Handles \ {h} : memory'[g] = memory[g]
        BY <2>i, <3>3 DEF Stores
      <4>2. \A g \in Handles : memory'[g] \in {"open", "freed"} => \E j \in IDs : pcds'[j] = g
        <5>1. ASSUME NEW g \in Handles \ {h}, memory[g] \in {"open", "freed"}
              PROVE  \E j \in IDs : pcds'[j] = g
          <6>1. PICK j \in IDs : pcds[j] = g
            BY <2>m, <5>1
          <6>2. j # i
            BY <1>0, <3>2, <6>1
          <6> QED
            BY <4>1, <6>1, <6>2
        <5> QED
          BY <4>1, <5>1
      <4>3. ASSUME NEW j \in IDs
            PROVE  /\ captors'[j] \in {0, 1}
                   /\ pcds'[j] # NULL => instanciatedFlag'[j]
                   /\ captors'[j] = 1 => pcds'[j] # NULL
                   /\ pcds'[j] # NULL =>
                        captors'[j] = 1 \/ \E u \in Threads : Has(u, j)' /\ opening'[u].at = "result"
                   /\ \A u \in Threads : Has(u, j)' =>
                        /\ instanciatedFlag'[j] /\ captors'[j] = 0
                        /\ opening'[u].at # "result" => pcds'[j] = NULL
                        /\ \A v \in Threads : Has(v, j)' => v = u
        BY <2>m, <2>i, <3>1, <3>2, <4>1
      <4> QED
        BY <4>2, <4>3
    <3>4. CASE pcds' = [pcds EXCEPT ![i] = NULL] /\ UNCHANGED memory
      BY <1>0, <2>m, <2>i, <3>1, <3>2, <3>4
    <3> QED
      BY <2>5, <2>i, <3>3, <3>4 DEF StoreHandle, Stores
  <2>6. CASE ReturnCaptor(t)
    <3>1. /\ opening[t].at = "result" /\ opening' = [opening EXCEPT ![t] = [at |-> "none", id |-> 0]]
          /\ captors' = [captors EXCEPT ![i] = IF pcds[i] = NULL THEN @ ELSE @ + 1]
          /\ UNCHANGED <<instanciatedFlag, pcds, memory>>
      BY <2>6, <2>i DEF ReturnCaptor, handleVars
    <3>2. captors[i] = 0 /\ \A u \in Threads : Has(u, i) => u = t
      BY <2>m, <2>i, <3>1
    <3>3. captors'[i] = (IF pcds[i] = NULL THEN 0 ELSE 1)
          /\ \A j \in IDs \ {i} : captors'[j] = captors[j]
      BY <3>1, <3>2
    <3> QED
      BY <2>m, <2>i, <3>1, <3>2, <3>3
  <2>7. CASE unreserveID(t)
    <3>1. /\ opening[t].at = "unreserve"
          /\ opening' = [opening EXCEPT ![t] = [at |-> "none", id |-> 0]]
          /\ instanciatedFlag' = [instanciatedFlag EXCEPT ![i] = FALSE]
          /\ UNCHANGED <<captors, pcds, memory>>
      BY <2>7, <2>i DEF unreserveID, handleVars
    <3> QED
      BY <2>m, <2>i, <3>1
  <2> QED
    BY <1>2, <2>1, <2>2, <2>3, <2>4, <2>5, <2>6, <2>7 DEF Opening
<1>3. ASSUME NEW t \in Threads, NEW id \in IDs, Closes(t, id)
      PROVE  IDInv'
  <2>m. "sameID" \notin misuse
    BY <1>3 DEF Closes
  <2>1. /\ captors[id] > 0 /\ opening[t].at = "none"
        /\ opening' = [opening EXCEPT ![t] = [at |-> "unreserve", id |-> id]]
        /\ captors' = [captors EXCEPT ![id] = @ - 1] /\ pcds' = [pcds EXCEPT ![id] = NULL]
        /\ memory' = [h \in Handles |-> IF h = pcds[id] THEN "closed" ELSE memory[h]]
        /\ UNCHANGED instanciatedFlag
    BY <1>3 DEF Closes, Goto
  <2>2. captors[id] = 1 /\ captors'[id] = 0 /\ \A j \in IDs \ {id} : captors'[j] = captors[j]
    BY <2>m, <2>1
  <2>3. instanciatedFlag[id] /\ \A u \in Threads : ~Has(u, id)
    BY <2>m, <2>2
  <2>4. \A h \in Handles : memory'[h] \in {"open", "freed"} =>
          memory[h] \in {"open", "freed"} /\ h # pcds[id]
    BY <2>1
  <2>5. \A h \in Handles : memory'[h] \in {"open", "freed"} => \E j \in IDs : pcds'[j] = h
    BY <2>m, <2>1, <2>4
  <2>6. ASSUME NEW j \in IDs
        PROVE  /\ captors'[j] \in {0, 1}
               /\ pcds'[j] # NULL => instanciatedFlag'[j]
               /\ captors'[j] = 1 => pcds'[j] # NULL
               /\ pcds'[j] # NULL =>
                    captors'[j] = 1 \/ \E u \in Threads : Has(u, j)' /\ opening'[u].at = "result"
               /\ \A u \in Threads : Has(u, j)' =>
                    /\ instanciatedFlag'[j] /\ captors'[j] = 0
                    /\ opening'[u].at # "result" => pcds'[j] = NULL
                    /\ \A v \in Threads : Has(v, j)' => v = u
    BY <2>m, <2>1, <2>2, <2>3
  <2> QED
    BY <2>5, <2>6
<1>4. ASSUME NEW w \in Writers, FreesHandle(w)
      PROVE  IDInv'
  <2>1. UNCHANGED <<instanciatedFlag, opening, captors, pcds>> /\ misuse \subseteq misuse'
    BY <1>4 DEF FreesHandle, idVars
  <2>2. \A h \in Handles : memory'[h] \in {"open", "freed"} => memory[h] \in {"open", "freed"}
    BY <1>4 DEF FreesHandle, Valid
  <2>3. \A u \in Threads, j \in IDs :
          Has(u, j)' = Has(u, j) /\ opening'[u].at = opening[u].at
    BY <2>1
  <2>4. "sameID" \notin misuse
    BY <2>1
  <2> QED
    BY ONLY IDInv, <2>1, <2>2, <2>3, <2>4, IDsStay
<1>5. ASSUME NEW t \in Threads, Plain(t)
      PROVE  IDInv'
  BY <1>1, <1>5, PlainKeeps, PlainNotes
<1>6. ASSUME NEW w \in Writers, OpensFile(w) \/ ClosesNothing(w)
      PROVE  IDInv'
  BY <1>1, <1>6 DEF OpensFile, ClosesNothing, idVars, handleVars
<1>7. CASE FreesAgain \/ UNCHANGED vars
  BY <1>1, <1>7 DEF FreesAgain, vars, idVars, handleVars
<1> QED
  BY <1>2, <1>3, <1>4, <1>5, <1>6, <1>7, Kinds

(* StackInv when no call begins, ends or changes.                          *)
LEMMA StackStays ==
  ASSUME StackInv, UNCHANGED <<stack, calls, refs, jpcap_handlers>>, misuse \subseteq misuse',
         "overlap" \in misuse' => "overlap" \in misuse,
         \A t \in Threads : \A i \in DOMAIN stack[t] :
            HandleOf(stack[t][i])' /\ EnvOf(t, stack[t][i])'
  PROVE  StackInv'
<1>1. ASSUME NEW t \in Threads, NEW i \in DOMAIN stack[t]
      PROVE  RefOf(t, i, stack[t][i])'
  <2>1. RefOf(t, i, stack[t][i])
    BY DEF StackInv
  <2> QED
    BY <2>1 DEF RefOf
<1> QED
  BY <1>1 DEF StackInv

LEMMA StackOthers ==
  ASSUME CaptureTypes, TableInv, IDInv, StackInv,
         \/ \E t \in Threads : \/ Fails(t) \/ SetsUp(t) \/ Breaks(t) \/ Opening(t)
                               \/ \E id \in IDs : Closes(t, id)
         \/ FreesAgain
         \/ \E w \in Writers : OpensFile(w) \/ ClosesNothing(w) \/ FreesHandle(w)
         \/ UNCHANGED vars
  PROVE  StackInv'
<1> USE DEF callVars, handleVars, idVars
<1>h. ASSUME NEW t \in Threads, NEW i \in DOMAIN stack[t]
      PROVE  /\ HandleOf(stack[t][i]) /\ EnvOf(t, stack[t][i])
             /\ stack[t][i].id \in IDs /\ stack[t][i].handle \in Handles
  <2>1. PICK s \in Seq(Activations) : s = stack[t]
    BY DEF CaptureTypes
  <2>2. s[i] \in Activations
    BY <2>1
  <2> QED
    BY <2>1, <2>2 DEF StackInv, Activations
<1>n. NULL \notin Handles
  BY CaptureAssumption DEF Handles
<1>1. CASE /\ UNCHANGED <<stack, calls, refs, jpcap_handlers, jni_envs, memory, pcds>>
           /\ misuse \subseteq misuse' /\ misuse' \subseteq misuse \cup {"twoWriters", "dumpClosed"}
  <2>1. ASSUME NEW t \in Threads, NEW i \in DOMAIN stack[t]
        PROVE  HandleOf(stack[t][i])' /\ EnvOf(t, stack[t][i])'
    BY <1>1, <1>h DEF HandleOf, EnvOf, Valid
  <2> QED
    BY <1>1, <2>1, StackStays
<1>2. ASSUME NEW t \in Threads, Opening(t)
      PROVE  StackInv'
  <2>0. /\ UNCHANGED <<stack, calls, refs, jpcap_handlers>>
        /\ misuse \subseteq misuse' /\ misuse' \subseteq misuse \cup {"sameID", "startup"}
    BY <1>2, OpeningKeeps
  <2>i. PICK id \in IDs : id = opening[t].id
    BY DEF CaptureTypes
  <2>1. \A g \in Handles : memory[g] # "none" => memory'[g] = memory[g]
    BY <1>2, OpeningStores DEF Stores, CaptureTypes
  <2>2. ASSUME "sameID" \notin misuse
        PROVE  /\ \A j \in IDs : pcds[j] # NULL => pcds'[j] = pcds[j] /\ jni_envs'[j] = jni_envs[j]
    <3>1. At(t, "open") \/ At(t, "store") => pcds[id] = NULL
      BY <2>2, <2>i DEF IDInv, Has, Having, At
    <3>2. UNCHANGED jni_envs \/ (At(t, "store") /\ jni_envs' = [jni_envs EXCEPT ![id] = t])
      BY <1>2, <2>i
         DEF Opening, openDevice, TestFlag, SetFlag, PassJavaEnv, CheckHandle, StoreEnv,
             StoreHandle, ReturnCaptor, unreserveID
    <3>3. \A j \in IDs : pcds[j] # NULL => pcds'[j] = pcds[j]
      BY <1>2, <2>i, <3>1, OpeningStores DEF Stores, CaptureTypes
    <3> QED
      BY <3>1, <3>2, <3>3 DEF CaptureTypes
  <2>3. ASSUME NEW u \in Threads, NEW i \in DOMAIN stack[u]
        PROVE  HandleOf(stack[u][i])' /\ EnvOf(u, stack[u][i])'
    <3>1. PICK a : a = stack[u][i]
      OBVIOUS
    <3>2. HandleOf(a) /\ EnvOf(u, a) /\ a.id \in IDs /\ a.handle \in Handles
      BY <1>h, <3>1
    <3>3. memory'[a.handle] = memory[a.handle] /\ Valid(a.handle)' = Valid(a.handle)
      BY <2>1, <3>2 DEF HandleOf, Valid
    <3>4. Valid(a.handle) /\ "sameID" \notin misuse' =>
            pcds[a.id] = a.handle /\ pcds'[a.id] = a.handle /\ jni_envs'[a.id] = jni_envs[a.id]
      BY <1>n, <2>0, <2>2, <3>2 DEF HandleOf
    <3>5. HandleOf(a)'
      BY <2>0, <3>2, <3>3, <3>4 DEF HandleOf
    <3>6. EnvOf(u, a)'
      BY <2>0, <3>2, <3>3, <3>4 DEF EnvOf
    <3> QED
      BY <2>0, <3>1, <3>5, <3>6
  <2> QED
    BY <2>0, <2>3, StackStays
<1>3. ASSUME NEW t \in Threads, NEW id \in IDs, Closes(t, id)
      PROVE  StackInv'
  <2>0. /\ \A g \in Handles : memory'[g] = IF g = pcds[id] THEN "closed" ELSE memory[g]
        /\ \A j \in IDs \ {id} : pcds'[j] = pcds[j]
        /\ UNCHANGED <<stack, calls, refs, jpcap_handlers, jni_envs>>
        /\ misuse \subseteq misuse' /\ misuse' \subseteq misuse \cup {"closedInUse"}
        /\ pcds[id] # NULL /\ Users(pcds[id]) # {} => "closedInUse" \in misuse'
    BY <1>3 DEF Closes, CaptureTypes, Noted
  <2>1. ASSUME NEW u \in Threads, NEW i \in DOMAIN stack[u]
        PROVE  HandleOf(stack[u][i])' /\ EnvOf(u, stack[u][i])'
    <3>1. PICK a : a = stack[u][i]
      OBVIOUS
    <3>2. HandleOf(a) /\ EnvOf(u, a) /\ a.id \in IDs /\ a.handle \in Handles
      BY <1>h, <3>1
    <3>3. a.handle = pcds[id] => "closedInUse" \in misuse'
      BY <1>n, <2>0, <3>1, <3>2 DEF Users
    <3>4. Valid(a.handle)' <=> Valid(a.handle) /\ a.handle # pcds[id]
      BY <1>n, <2>0, <3>2 DEF Valid
    <3>5. HandleOf(a)'
      BY <2>0, <3>2, <3>3, <3>4 DEF HandleOf
    <3>6. EnvOf(u, a)'
      BY <2>0, <3>2, <3>4 DEF EnvOf
    <3> QED
      BY <2>0, <3>1, <3>5, <3>6
  <2> QED
    BY <2>0, <2>1, StackStays
<1>4. ASSUME NEW w \in Writers, FreesHandle(w)
      PROVE  StackInv'
  <2>0. /\ \A g \in Handles : memory'[g] \in {memory[g], "freed"}
        /\ UNCHANGED <<stack, jni_envs, pcds>> /\ misuse' = misuse \cup {"dumpClosed"}
    BY <1>4 DEF FreesHandle, CaptureTypes
  <2>1. ASSUME NEW u \in Threads, NEW i \in DOMAIN stack[u]
        PROVE  HandleOf(stack[u][i])' /\ EnvOf(u, stack[u][i])'
    <3>1. PICK a : a = stack[u][i]
      OBVIOUS
    <3>2. HandleOf(a) /\ EnvOf(u, a) /\ a.id \in IDs /\ a.handle \in Handles
      BY <1>h, <3>1
    <3>3. Valid(a.handle)' => Valid(a.handle)
      BY <2>0, <3>2 DEF Valid
    <3>4. HandleOf(a)'
      BY <2>0, <3>2, <3>3 DEF HandleOf
    <3>5. EnvOf(u, a)'
      BY <2>0, <3>2, <3>3 DEF EnvOf
    <3> QED
      BY <2>0, <3>1, <3>4, <3>5
  <2> QED
    BY <1>4, <2>0, <2>1, StackStays DEF FreesHandle
<1>5. ASSUME NEW t, Fails(t) \/ SetsUp(t) \/ Breaks(t)
      PROVE  StackInv'
  BY <1>1, <1>5 DEF Fails, Goes, SetsUp, Breaks
<1>6. ASSUME NEW w \in Writers, OpensFile(w) \/ ClosesNothing(w)
      PROVE  StackInv'
  BY <1>1, <1>6 DEF OpensFile, ClosesNothing, Noted
<1>7. CASE FreesAgain \/ UNCHANGED vars
  BY <1>1, <1>7 DEF FreesAgain, vars
<1> QED
  BY <1>2, <1>3, <1>4, <1>5, <1>6, <1>7

(* The calls on the stacks are what their type says.                       *)
LEMMA CallTypes ==
  ASSUME CaptureTypes, StackInv, NEW t \in Threads, NEW i \in DOMAIN stack[t]
  PROVE  /\ stack[t][i] \in Activations /\ i \in Nat
         /\ HandleOf(stack[t][i]) /\ EnvOf(t, stack[t][i]) /\ RefOf(t, i, stack[t][i])
<1>1. PICK s \in Seq(Activations) : s = stack[t]
  BY DEF CaptureTypes
<1>2. s[i] \in Activations /\ i \in Nat
  BY <1>1
<1> QED
  BY <1>1, <1>2 DEF StackInv

(* It is enough to look at the calls one by one.                           *)
LEMMA StackFrom ==
  ASSUME \A t \in Threads : \A i \in DOMAIN stack'[t] : \A c :
           c = stack'[t][i] => HandleOf(c)' /\ EnvOf(t, c)' /\ RefOf(t, i, c)'
  PROVE  StackInv'
<1>1. ASSUME NEW t \in Threads, NEW i \in DOMAIN stack'[t]
      PROVE  /\ HandleOf(stack[t][i])' /\ EnvOf(t, stack[t][i])' /\ RefOf(t, i, stack[t][i])'
  <2>1. PICK c : c = stack'[t][i]
    OBVIOUS
  <2>2. HandleOf(c)' /\ EnvOf(t, c)' /\ RefOf(t, i, c)'
    BY <2>1
  <2>3. HandleOf(stack[t][i])'
    BY <2>1, <2>2 DEF HandleOf
  <2>4. EnvOf(t, stack[t][i])'
    BY <2>1, <2>2 DEF EnvOf
  <2>5. RefOf(t, i, stack[t][i])'
    BY <2>1, <2>2 DEF RefOf
  <2> QED
    BY <2>3, <2>4, <2>5
<1> QED
  BY <1>1 DEF StackInv

LEMMA StackCalling ==
  ASSUME CaptureTypes, TableInv, StackInv, NEW t \in Threads, Calling(t)
  PROVE  StackInv'
<1>1. PICK id \in IDs, a \in Activations :
        /\ captors[id] > 0 /\ Valid(pcds[id])
        /\ a.id = id /\ a.handle = pcds[id] /\ a.inside = NULL /\ Push(t, a)
        /\ UNCHANGED <<idVars, handleVars>>
        /\ \/ loopPacket(t, id) /\ a.op = "loop" /\ a.ref = calls + 1
           \/ getPacket(t, id) /\ a.op = "get"
  BY DEF Calling
<1>2. PICK n : /\ n \notin DOMAIN stack[t] /\ DOMAIN stack'[t] = DOMAIN stack[t] \cup {n}
               /\ stack'[t][n] = a
               /\ \A i \in DOMAIN stack[t] : stack'[t][i] = stack[t][i]
  BY <1>1, Pushed
<1>3. \A u \in Threads \ {t} : stack'[u] = stack[u]
  BY <1>1, Pushed
<1>4. ASSUME NEW u \in Threads, NEW i \in DOMAIN stack'[u]
      PROVE  \/ u = t /\ i = n /\ stack'[u][i] = a
             \/ i \in DOMAIN stack[u] /\ stack'[u][i] = stack[u][i] /\ (u # t \/ i # n)
  BY <1>2, <1>3
<1>c. calls \in Nat
  BY CaptureAssumption DEF CaptureTypes
<1>5. /\ UNCHANGED <<pcds, memory>> /\ calls \in Nat
      /\ misuse \subseteq misuse' /\ misuse' \subseteq misuse \cup {"shared", "overlap"}
      /\ "shared" \notin misuse' => CallsOn(id, Threads \ {t}) = {}
  BY <1>1, <1>c DEF idVars, handleVars, loopPacket, Calls, getPacket, Noted
<1>6. \/ /\ a.op = "loop" /\ a.ref = calls + 1 /\ calls' = calls + 1
         /\ refs' = refs \cup {calls + 1} /\ jpcap_handlers'[id] = calls + 1 /\ jni_envs'[id] = t
         /\ \A j \in IDs \ {id} : /\ jpcap_handlers'[j] = jpcap_handlers[j]
                                  /\ jni_envs'[j] = jni_envs[j]
         /\ "overlap" \notin misuse' => LoopsOn(id) = {}
      \/ /\ a.op = "get" /\ UNCHANGED <<calls, refs, jpcap_handlers, jni_envs>>
         /\ "overlap" \in misuse' => "overlap" \in misuse
  BY <1>1 DEF loopPacket, Calls, getPacket, Noted, CaptureTypes
<1>7. \A h \in Handles \cup {NULL} : Valid(h)' = Valid(h)
  BY <1>5 DEF Valid
<1>8. a.handle \in Handles /\ a.id \in IDs
  BY DEF Activations
<1>9. "shared" \notin misuse' =>
        \A u \in Threads \ {t} : \A i \in DOMAIN stack[u] : stack[u][i].id # id
  BY <1>5 DEF CallsOn
<1>10. a.op = "loop" /\ "overlap" \notin misuse' =>
         \A u \in Threads : \A i \in DOMAIN stack[u] :
           stack[u][i].op = "loop" => stack[u][i].id # id
  BY <1>6 DEF LoopsOn
<1>11. HandleOf(a)' /\ EnvOf(t, a)' /\ RefOf(t, n, a)'
  <2>1. HandleOf(a)'
    BY <1>1, <1>5, <1>7, <1>8 DEF HandleOf, Valid
  <2>2. EnvOf(t, a)'
    BY <1>1, <1>4, <1>6, <1>9 DEF EnvOf
  <2>3. \A u \in Threads : \A j \in DOMAIN stack[u] :
          stack[u][j].op = "loop" => stack[u][j].ref \in 1 .. calls
    BY CallTypes DEF RefOf
  <2>4. ASSUME a.op = "loop", NEW u \in Threads, NEW j \in DOMAIN stack'[u],
               stack'[u][j].op = "loop" /\ (u # t \/ j # n)
        PROVE  /\ stack'[u][j].ref # a.ref
               /\ "overlap" \notin misuse' => stack'[u][j].id # a.id
    <3>1. j \in DOMAIN stack[u] /\ stack'[u][j] = stack[u][j]
      BY <1>4, <2>4
    <3>2. stack[u][j].ref \in 1 .. calls
      BY <2>3, <2>4, <3>1
    <3>3. stack[u][j].ref # calls + 1
      BY <1>5, <3>2
    <3> QED
      BY <1>1, <1>6, <1>10, <2>4, <3>1, <3>3
  <2>5. a.op = "loop" => a.ref \in 1 .. calls' /\ a.ref \in refs' /\ jpcap_handlers'[a.id] = a.ref
    BY <1>1, <1>5, <1>6
  <2> QED
    BY <1>1, <2>1, <2>2, <2>4, <2>5 DEF RefOf
<1>12. ASSUME NEW u \in Threads, NEW i \in DOMAIN stack[u], u # t \/ i # n,
             NEW b, b = stack[u][i]
       PROVE  HandleOf(b)' /\ EnvOf(u, b)' /\ RefOf(u, i, b)'
  <2>1. b \in Activations /\ b = stack[u][i]
    BY <1>12, CallTypes
  <2>2. HandleOf(b) /\ EnvOf(u, b) /\ RefOf(u, i, b) /\ b.handle \in Handles /\ b.id \in IDs
    BY <2>1, CallTypes DEF Activations
  <2>3. HandleOf(b)'
    BY <1>5, <1>7, <2>2 DEF HandleOf
  <2>4. EnvOf(u, b)'
    <3> SUFFICES ASSUME "shared" \notin misuse'
                 PROVE  /\ /\ b.op \in {"loop", "got"} /\ Valid(b.handle)'
                           /\ "sameID" \notin misuse'
                           => jni_envs'[b.id] = u
                        /\ \A v \in Threads : \A j \in DOMAIN stack'[v] :
                             stack'[v][j].id = b.id => v = u
      BY DEF EnvOf
    <3>1. "shared" \notin misuse
      BY <1>5
    <3>2. b.id = id => u = t
      BY <1>9, <2>1
    <3>3. /\ b.op \in {"loop", "got"} /\ Valid(b.handle)'
          /\ "sameID" \notin misuse'
          => jni_envs'[b.id] = u
      BY <1>5, <1>6, <1>7, <2>2, <3>1, <3>2 DEF EnvOf
    <3>4. ASSUME NEW v \in Threads, NEW j \in DOMAIN stack'[v], stack'[v][j].id = b.id
          PROVE  v = u
      BY <1>1, <1>4, <2>2, <3>1, <3>2, <3>4 DEF EnvOf
    <3> QED
      BY <3>3, <3>4
  <2>5. RefOf(u, i, b)'
    <3>1. b.op # "loop" => b.inside = NULL
      BY <2>2 DEF RefOf
    <3>2. ASSUME b.op = "loop"
          PROVE  b.ref \in 1 .. calls' /\ b.ref # calls + 1
      <4>1. b.ref \in 1 .. calls
        BY <2>2, <3>2 DEF RefOf
      <4> QED
        BY <1>5, <1>6, <4>1
    <3>3. ASSUME b.op = "loop", NEW v \in Threads, NEW j \in DOMAIN stack'[v],
                 stack'[v][j].op = "loop" /\ (v # u \/ j # i)
          PROVE  /\ stack'[v][j].ref # b.ref
                 /\ "overlap" \notin misuse' => stack'[v][j].id # b.id
      <4>1. CASE v = t /\ j = n
        <5>1. stack'[v][j] = a
          BY <1>2, <4>1
        <5>2. a.op = "loop" /\ a.ref = calls + 1
          BY <1>6, <3>3, <5>1
        <5>3. "overlap" \notin misuse' => b.id # id
          BY <1>10, <2>1, <3>3, <5>2
        <5> QED
          BY <1>1, <3>2, <3>3, <5>1, <5>2, <5>3
      <4>2. CASE j \in DOMAIN stack[v] /\ stack'[v][j] = stack[v][j]
        BY <1>5, <2>2, <3>3, <4>2 DEF RefOf
      <4> QED
        BY <1>4, <4>1, <4>2
    <3>4. ASSUME b.op = "loop", "overlap" \notin misuse'
          PROVE  /\ jpcap_handlers'[b.id] = b.ref /\ b.ref \in refs'
                 /\ b.inside \in {NULL, b.ref}
      <4>1. jpcap_handlers[b.id] = b.ref /\ b.ref \in refs /\ b.inside \in {NULL, b.ref}
        BY <1>5, <2>2, <3>4 DEF RefOf
      <4>2. a.op = "loop" => b.id # id
        BY <1>10, <2>1, <3>4
      <4> QED
        BY <1>6, <2>2, <4>1, <4>2
    <3> QED
      BY <3>1, <3>2, <3>3, <3>4 DEF RefOf
  <2> QED
    BY <2>3, <2>4, <2>5
<1>13. ASSUME NEW u \in Threads, NEW i \in DOMAIN stack'[u], NEW c, c = stack'[u][i]
       PROVE  HandleOf(c)' /\ EnvOf(u, c)' /\ RefOf(u, i, c)'
  <2>1. CASE u = t /\ i = n /\ c = a
    BY <1>11, <2>1
  <2>2. CASE i \in DOMAIN stack[u] /\ c = stack[u][i] /\ (u # t \/ i # n)
    BY <1>12, <2>2
  <2> QED
    BY <1>4, <1>13, <2>1, <2>2
<1> QED
  BY <1>13, StackFrom

LEMMA StackChanging ==
  ASSUME CaptureTypes, StackInv, NEW t \in Threads, Changing(t)
  PROVE  StackInv'
<1>1. PICK a \in Activations :
        /\ stack[t] # <<>> /\ SetTop(t, a)
        /\ a.id = Top(t).id /\ a.handle = Top(t).handle /\ a.ref = Top(t).ref
        /\ UNCHANGED <<pcds, memory, jpcap_handlers, refs, calls, misuse>>
        /\ \/ /\ Top(t).op = "loop" /\ a.op = "loop" /\ UNCHANGED jni_envs
              /\ a.inside = NULL \/ a.inside = jpcap_handlers[a.id]
           \/ /\ Top(t).op = "get" /\ a.op = "got" /\ a.inside = Top(t).inside
              /\ jni_envs' = [jni_envs EXCEPT ![a.id] = t]
  BY DEF Changing, idVars, handleVars
<1>2. PICK n \in DOMAIN stack[t] :
        /\ stack[t][n] = Top(t) /\ DOMAIN stack'[t] = DOMAIN stack[t] /\ stack'[t][n] = a
        /\ \A i \in DOMAIN stack'[t] \ {n} : stack'[t][i] = stack[t][i]
  BY <1>1, TopSet
<1>3. \A u \in Threads \ {t} : stack'[u] = stack[u]
  BY <1>1, TopSet
<1>4. ASSUME NEW u \in Threads, NEW i \in DOMAIN stack'[u]
      PROVE  /\ i \in DOMAIN stack[u]
             /\ stack'[u][i].id = stack[u][i].id /\ stack'[u][i].ref = stack[u][i].ref
             /\ stack'[u][i].handle = stack[u][i].handle
             /\ stack'[u][i].op = "loop" <=> stack[u][i].op = "loop"
             /\ \/ stack'[u][i] = stack[u][i]
                \/ u = t /\ i = n /\ stack[u][i] = Top(t) /\ stack'[u][i] = a
  <2>1. CASE u = t /\ i = n
    BY <1>1, <1>2, <2>1
  <2>2. CASE ~ (u = t /\ i = n)
    BY <1>2, <1>3, <2>2
  <2> QED
    BY <2>1, <2>2
<1>5. a.id \in IDs /\ \A j \in IDs \ {a.id} : jni_envs'[j] = jni_envs[j]
  BY <1>1 DEF Activations, CaptureTypes
<1>6. jni_envs'[a.id] = t \/ UNCHANGED jni_envs
  BY <1>1, <1>5 DEF CaptureTypes
<1>7. ASSUME NEW u \in Threads, NEW i \in DOMAIN stack'[u], NEW c, c = stack'[u][i]
      PROVE  HandleOf(c)' /\ EnvOf(u, c)' /\ RefOf(u, i, c)'
  <2>1. PICK b : b = stack[u][i]
    OBVIOUS
  <2>2. /\ i \in DOMAIN stack[u] /\ c.id = b.id /\ c.ref = b.ref /\ c.handle = b.handle
        /\ c.op = "loop" <=> b.op = "loop"
        /\ c = b \/ (u = t /\ i = n /\ b = Top(t) /\ c = a)
    BY <1>4, <1>7, <2>1
  <2>3. b \in Activations /\ HandleOf(b) /\ EnvOf(u, b) /\ RefOf(u, i, b)
    BY <2>1, <2>2, CallTypes
  <2>4. HandleOf(c)'
    BY <1>1, <2>2, <2>3 DEF HandleOf, Valid
  <2>5. EnvOf(u, c)'
    <3> SUFFICES ASSUME "shared" \notin misuse'
                 PROVE  /\ /\ c.op \in {"loop", "got"} /\ Valid(c.handle)'
                           /\ "sameID" \notin misuse'
                           => jni_envs'[c.id] = u
                        /\ \A v \in Threads : \A j \in DOMAIN stack'[v] :
                             stack'[v][j].id = c.id => v = u
      BY DEF EnvOf
    <3>1. "shared" \notin misuse /\ Valid(c.handle)' = Valid(b.handle)
      BY <1>1, <2>2 DEF Valid
    <3>2. \A v \in Threads : \A j \in DOMAIN stack[v] : stack[v][j].id = b.id => v = u
      BY <2>3, <3>1 DEF EnvOf
    <3>3. \A v \in Threads : \A j \in DOMAIN stack'[v] : stack'[v][j].id = c.id => v = u
      BY <1>4, <2>2, <3>2
    <3>4. c.id = a.id => u = t
      BY <1>1, <1>2, <2>2, <3>2
    <3>5. ASSUME c.op \in {"loop", "got"}, Valid(b.handle), "sameID" \notin misuse
          PROVE  jni_envs'[c.id] = u
      <4>1. CASE c.op = b.op
        <5>1. jni_envs[b.id] = u
          BY <2>3, <3>1, <3>5, <4>1 DEF EnvOf
        <5>2. b.id \in IDs
          BY <2>3 DEF Activations
        <5> QED
          BY <1>5, <1>6, <2>2, <3>4, <5>1, <5>2
      <4>2. CASE c.op # b.op
        BY <1>1, <1>5, <2>2, <4>2 DEF CaptureTypes
      <4> QED
        BY <4>1, <4>2
    <3> QED
      BY <1>1, <3>1, <3>3, <3>5
  <2>6. RefOf(u, i, c)'
    <3>1. c.op # "loop" => c.inside = NULL
      BY <1>1, <2>2, <2>3 DEF RefOf
    <3>2. c.op = "loop" => c.ref \in 1 .. calls'
      BY <1>1, <2>2, <2>3 DEF RefOf
    <3>3. ASSUME c.op = "loop", NEW v \in Threads, NEW j \in DOMAIN stack'[v],
                 stack'[v][j].op = "loop" /\ (v # u \/ j # i)
          PROVE  /\ stack'[v][j].ref # c.ref
                 /\ "overlap" \notin misuse' => stack'[v][j].id # c.id
      <4>1. /\ j \in DOMAIN stack[v] /\ stack[v][j].op = "loop"
            /\ stack'[v][j].ref = stack[v][j].ref /\ stack'[v][j].id = stack[v][j].id
        BY <1>4, <3>3
      <4> QED
        BY <1>1, <2>2, <2>3, <3>3, <4>1 DEF RefOf
    <3>4. ASSUME c.op = "loop", "overlap" \notin misuse'
          PROVE  /\ jpcap_handlers'[c.id] = c.ref /\ c.ref \in refs'
                 /\ c.inside \in {NULL, c.ref}
      <4>1. jpcap_handlers[b.id] = b.ref /\ b.ref \in refs /\ b.inside \in {NULL, b.ref}
        BY <1>1, <2>2, <2>3, <3>4 DEF RefOf
      <4> QED
        BY <1>1, <2>2, <3>4, <4>1
    <3> QED
      BY <3>1, <3>2, <3>3, <3>4 DEF RefOf
  <2> QED
    BY <2>4, <2>5, <2>6
<1> QED
  BY <1>7, StackFrom

LEMMA StackReturning ==
  ASSUME CaptureTypes, StackInv, NEW t \in Threads, Returning(t)
  PROVE  StackInv'
<1>1. /\ stack[t] # <<>> /\ Pop(t)
      /\ UNCHANGED <<pcds, memory, jni_envs, jpcap_handlers, calls, misuse>>
      /\ \/ UNCHANGED refs
         \/ Top(t).op = "loop" /\ refs' = refs \ {jpcap_handlers[Top(t).id]}
  BY DEF Returning, idVars
<1>2. PICK n \in DOMAIN stack[t] :
        /\ stack[t][n] = Top(t) /\ DOMAIN stack'[t] = DOMAIN stack[t] \ {n}
        /\ \A i \in DOMAIN stack'[t] : stack'[t][i] = stack[t][i]
  BY <1>1, Popped
<1>3. \A u \in Threads \ {t} : stack'[u] = stack[u]
  BY <1>1, Popped
<1>4. \A u \in Threads : \A i \in DOMAIN stack'[u] :
        i \in DOMAIN stack[u] /\ stack'[u][i] = stack[u][i] /\ (u # t \/ i # n)
  BY <1>2, <1>3
<1>5. PICK o : o = Top(t)
  OBVIOUS
<1>6. RefOf(t, n, o)
  BY <1>2, <1>5, CallTypes
<1>7. ASSUME NEW u \in Threads, NEW i \in DOMAIN stack'[u], NEW c, c = stack'[u][i]
      PROVE  HandleOf(c)' /\ EnvOf(u, c)' /\ RefOf(u, i, c)'
  <2>1. i \in DOMAIN stack[u] /\ c = stack[u][i] /\ (u # t \/ i # n)
    BY <1>4, <1>7
  <2>2. HandleOf(c) /\ EnvOf(u, c) /\ RefOf(u, i, c)
    BY <2>1, CallTypes
  <2>3. HandleOf(c)'
    BY <1>1, <2>2 DEF HandleOf, Valid
  <2>4. EnvOf(u, c)'
    BY <1>1, <1>4, <2>2 DEF EnvOf, Valid
  <2>5. c.op = "loop" /\ "overlap" \notin misuse => c.ref \in refs'
    <3> HAVE c.op = "loop" /\ "overlap" \notin misuse
    <3>1. c.ref \in refs
      BY <2>2 DEF RefOf
    <3>2. o.op = "loop" => jpcap_handlers[o.id] = o.ref /\ c.ref # o.ref
      BY <1>6, <2>1 DEF RefOf
    <3> QED
      BY <1>1, <1>5, <3>1, <3>2
  <2>6. RefOf(u, i, c)'
    BY <1>1, <1>4, <2>2, <2>5 DEF RefOf
  <2> QED
    BY <2>3, <2>4, <2>6
<1> QED
  BY <1>7, StackFrom

LEMMA NextStack ==
  ASSUME CaptureTypes, TableInv, IDInv, StackInv, [Next]_vars
  PROVE  StackInv'
BY Kinds, StackCalling, StackChanging, StackReturning, StackOthers DEF Plain

(* A reference that no array leads to stays: what is deleted is in one.    *)
LEMMA NextLeak ==
  ASSUME CaptureTypes, StackInv, LeakInv, [Next]_vars
  PROVE  LeakInv'
<1> USE DEF callVars, idVars, handleVars, dumpVars
<1>n. calls \in Nat /\ refs \subseteq 1 .. calls
  BY CaptureAssumption DEF CaptureTypes
<1>1. CASE /\ UNCHANGED <<jpcap_handlers, calls, refs>>
           /\ "overlap" \in misuse' => "overlap" \in misuse
           /\ wrong' = "none" => wrong = "none"
  BY <1>1 DEF LeakInv
<1>2. ASSUME NEW t \in Threads, Fails(t) \/ SetsUp(t) \/ Breaks(t) \/ Changing(t)
      PROVE  LeakInv'
  BY <1>1, <1>2 DEF Fails, Goes, SetsUp, Breaks, Changing
<1>3. ASSUME NEW t \in Threads, Returning(t)
      PROVE  LeakInv'
  <2>1. /\ UNCHANGED <<jpcap_handlers, calls, misuse, wrong>>
        /\ refs' = refs \/ \E id \in IDs : refs' = refs \ {jpcap_handlers[id]}
    BY <1>3 DEF Returning, Activations
  <2> QED
    BY <2>1 DEF LeakInv
<1>4. ASSUME NEW t \in Threads, Calling(t)
      PROVE  LeakInv'
  <2>1. PICK id \in IDs : \/ /\ UNCHANGED <<jpcap_handlers, calls, refs, wrong>>
                             /\ "overlap" \in misuse' => "overlap" \in misuse
                          \/ loopPacket(t, id) /\ UNCHANGED wrong
    BY <1>4 DEF Calling, getPacket, Noted
  <2>2. CASE loopPacket(t, id) /\ UNCHANGED wrong
    <3>1. /\ calls' = calls + 1 /\ refs' = refs \cup {calls + 1}
          /\ jpcap_handlers'[id] = calls + 1
          /\ \A j \in IDs \ {id} : jpcap_handlers'[j] = jpcap_handlers[j]
          /\ "overlap" \in misuse' => "overlap" \in misuse \/ LoopsOn(id) # {}
      BY <2>2 DEF loopPacket, Calls, Noted, CaptureTypes
    <3>2. \A r \in 1 .. calls : r \in 1 .. calls' /\ r # calls + 1
      BY <1>n, <3>1
    <3>3. calls + 1 \in 1 .. calls' /\ calls + 1 # NULL
      BY <1>n, <3>1, CaptureAssumption
    <3>4. \A j \in IDs : jpcap_handlers'[j] # NULL => jpcap_handlers'[j] \in 1 .. calls'
      BY <3>1, <3>2, <3>3 DEF LeakInv
    <3>5. \A i, j \in IDs :
            jpcap_handlers'[i] = jpcap_handlers'[j] /\ jpcap_handlers'[i] # NULL => i = j
      BY <3>1, <3>2 DEF LeakInv
    <3>6. ASSUME "overlap" \in misuse', wrong' = "none"
          PROVE  \E ref \in refs' : \A j \in IDs : jpcap_handlers'[j] # ref
      <4>1. CASE "overlap" \in misuse
        <5>1. PICK ref \in refs : \A j \in IDs : jpcap_handlers[j] # ref
          BY <2>2, <3>6, <4>1 DEF LeakInv
        <5> QED
          BY <1>n, <3>1, <3>2, <5>1
      <4>2. CASE "overlap" \notin misuse
        <5>1. PICK u \in Threads : \E i \in DOMAIN stack[u] :
                stack[u][i].id = id /\ stack[u][i].op = "loop"
          BY <3>1, <3>6, <4>2 DEF LoopsOn
        <5>2. PICK i \in DOMAIN stack[u] : stack[u][i].id = id /\ stack[u][i].op = "loop"
          BY <5>1
        <5>3. PICK a : a = stack[u][i]
          OBVIOUS
        <5>4. RefOf(u, i, a)
          BY <5>3, CallTypes
        <5>5. jpcap_handlers[id] \in refs
          BY <4>2, <5>2, <5>3, <5>4 DEF RefOf
        <5>6. PICK r \in refs : r = jpcap_handlers[id]
          BY <5>5
        <5>7. r \in 1 .. calls /\ r # calls + 1 /\ r # NULL
          BY <1>n, <3>2, CaptureAssumption
        <5>8. \A j \in IDs : jpcap_handlers'[j] # r
          BY <3>1, <5>6, <5>7 DEF LeakInv
        <5> QED
          BY <3>1, <5>8
      <4> QED
        BY <4>1, <4>2
    <3> QED
      BY <3>4, <3>5, <3>6 DEF LeakInv
  <2> QED
    BY <1>1, <2>1, <2>2
<1>5. ASSUME NEW t \in Threads, Opening(t)
      PROVE  LeakInv'
  BY <1>1, <1>5, OpeningKeeps
<1>6. ASSUME NEW t \in Threads, NEW id \in IDs, Closes(t, id)
      PROVE  LeakInv'
  BY <1>1, <1>6 DEF Closes, Noted
<1>7. ASSUME NEW w \in Writers, OpensFile(w) \/ ClosesNothing(w) \/ FreesHandle(w)
      PROVE  LeakInv'
  BY <1>1, <1>7 DEF OpensFile, ClosesNothing, FreesHandle, Noted
<1>8. CASE FreesAgain \/ UNCHANGED vars
  BY <1>1, <1>8 DEF FreesAgain, vars
<1> QED
  BY <1>2, <1>3, <1>4, <1>5, <1>6, <1>7, <1>8, Kinds DEF Plain

LEMMA NextStart ==
  ASSUME CaptureTypes, StackInv, StartInv, [Next]_vars
  PROVE  StartInv'
<1> USE DEF StartInv, envVars, idVars, handleVars, callVars, dumpVars
<1>1. ASSUME NEW t \in Threads, Fails(t) \/ SetsUp(t) \/ Breaks(t)
      PROVE  StartInv'
  BY <1>1 DEF Fails, Goes, SetsUp, Breaks
<1>2. ASSUME NEW t \in Threads, Calling(t) \/ Changing(t) \/ Returning(t)
      PROVE  StartInv'
  <2>1. java_env = "set" \/ "startup" \in misuse
    BY <1>2 DEF Calling, Changing, Returning, CaptureTypes
  <2>2. java_env' = java_env /\ misuse \subseteq misuse'
    BY <1>2, PlainNotes DEF Plain, Calling, Changing, Returning
  <2> QED
    BY <2>1, <2>2
<1>3. ASSUME NEW t \in Threads, Opening(t)
      PROVE  StartInv'
  <2>1. UNCHANGED <<java_env, stack>> /\ misuse \subseteq misuse'
    BY <1>3, OpeningKeeps
  <2>2. ASSUME java_env # "set", "startup" \notin misuse'
        PROVE  /\ UNCHANGED captors /\ opening'[t].at \in {"none", "test", "set", "env"}
               /\ \A u \in Threads \ {t} : opening'[u] = opening[u]
    <3>1. opening[t].at \in {"none", "test", "set", "env"}
      BY <2>1, <2>2
    <3>2. openDevice(t) \/ TestFlag(t) \/ SetFlag(t)
      BY <1>3, <2>2, <3>1
         DEF Opening, PassJavaEnv, CheckHandle, StoreEnv, StoreHandle, ReturnCaptor,
             unreserveID, At, Noted, CaptureTypes
    <3> QED
      BY <3>2 DEF openDevice, TestFlag, SetFlag, Goto, CaptureTypes
  <2> QED
    BY <2>1, <2>2
<1>4. ASSUME NEW t \in Threads, NEW id \in IDs, Closes(t, id)
      PROVE  StartInv'
  BY <1>4 DEF Closes, CaptureTypes
<1>5. ASSUME NEW w \in Writers, OpensFile(w) \/ ClosesNothing(w) \/ FreesHandle(w)
      PROVE  StartInv'
  BY <1>5 DEF OpensFile, ClosesNothing, FreesHandle
<1>6. CASE FreesAgain \/ UNCHANGED vars
  BY <1>6 DEF FreesAgain, vars
<1> QED
  BY <1>1, <1>2, <1>3, <1>4, <1>5, <1>6, Kinds DEF Plain

LEMMA NextWriter ==
  ASSUME CaptureTypes, StackInv, WriterInv, [Next]_vars
  PROVE  WriterInv'
<1> USE DEF WriterInv, dumpVars
<1>0. NULL \notin Writers
  BY CaptureAssumption
<1>1. ASSUME NEW t \in Threads, Plain(t)
      PROVE  WriterInv'
  BY <1>1, PlainKeeps, PlainNotes
<1>2. ASSUME NEW t \in Threads, Opening(t)
      PROVE  WriterInv'
  BY <1>2, OpeningKeeps
<1>3. ASSUME NEW t \in Threads, NEW id \in IDs, Closes(t, id)
      PROVE  WriterInv'
  BY <1>3 DEF Closes
<1>4. ASSUME NEW w \in Writers, OpensFile(w) \/ ClosesNothing(w) \/ FreesHandle(w)
      PROVE  WriterInv'
  BY <1>0, <1>4 DEF OpensFile, ClosesNothing, FreesHandle, Noted, CaptureTypes
<1>5. CASE FreesAgain \/ UNCHANGED vars
  BY <1>5 DEF FreesAgain, vars
<1> QED
  BY <1>1, <1>2, <1>3, <1>4, <1>5, Kinds

(* The first thing that goes wrong has its cause.                          *)
LEMMA NextCause ==
  ASSUME CaptureInv, [Next]_vars
  PROVE  CauseInv'
<1> USE DEF CaptureInv, CauseInv
<1>1. ASSUME NEW t \in Threads, Fails(t)
      PROVE  CauseInv'
  <2>1. wrong = "none" /\ misuse' = misuse
    BY <1>1 DEF Fails, Goes
  <2>2. ASSUME NEW id \in IDs, captors[id] > 0 /\ ~Valid(pcds[id])
        PROVE  "dumpClosed" \in misuse \/ "sameID" \in misuse
    BY <2>2 DEF TableInv, IDInv, FreedInv, CaptureTypes, Valid
  <2>3. ASSUME stack[t] # <<>>, NEW a, a = Top(t)
        PROVE  /\ ~Valid(a.handle) => misuse \cap {"closedInUse", "dumpClosed", "sameID"} # {}
               /\ Valid(a.handle) /\ a.op \in {"loop", "got"} /\ jni_envs[a.id] # t =>
                    misuse \cap {"shared", "sameID"} # {}
               /\ a.op = "loop" /\ jpcap_handlers[a.id] \notin refs => "overlap" \in misuse
    <3>1. PICK i \in DOMAIN stack[t] : a = stack[t][i]
      BY <2>3, TopIsLast
    <3>2. HandleOf(a) /\ EnvOf(t, a) /\ RefOf(t, i, a)
      BY <3>1, CallTypes
    <3> QED
      BY <3>2 DEF HandleOf, EnvOf, RefOf
  <2>4. ASSUME stack[t] # <<>>, java_env = "setting"
        PROVE  "startup" \in misuse
    BY <2>4 DEF StartInv
  <2>5. ASSUME NEW w \in Writers, writer[w] = "open" /\ pdt # w
        PROVE  "twoWriters" \in misuse
    BY <2>5 DEF WriterInv
  <2> QED
    BY <1>1, <2>1, <2>2, <2>3, <2>4, <2>5 DEF Fails
<1>2. ASSUME misuse \subseteq misuse', wrong' = wrong
      PROVE  CauseInv'
  BY <1>2
<1>3. ASSUME NEW t \in Threads, Plain(t)
      PROVE  CauseInv'
  BY <1>1, <1>2, <1>3, PlainNotes
<1>4. ASSUME NEW t \in Threads, Opening(t)
      PROVE  CauseInv'
  BY <1>2, <1>4, OpeningKeeps
<1>5. ASSUME NEW t \in Threads, NEW id \in IDs, Closes(t, id)
      PROVE  CauseInv'
  BY <1>2, <1>5 DEF Closes
<1>6. ASSUME NEW w \in Writers, OpensFile(w) \/ ClosesNothing(w) \/ FreesHandle(w)
      PROVE  CauseInv'
  BY <1>2, <1>6 DEF OpensFile, ClosesNothing, FreesHandle
<1>7. CASE FreesAgain
  BY <1>7 DEF FreesAgain
<1>8. CASE UNCHANGED vars
  BY <1>2, <1>8 DEF vars
<1> QED
  BY <1>3, <1>4, <1>5, <1>6, <1>7, <1>8, Kinds

LEMMA InitCapture == Init => CaptureInv
<1> HAVE Init
<1> USE CaptureAssumption DEF Init
<1>1. CaptureTypes
  <2>1. <<>> \in Seq(Activations)
    OBVIOUS
  <2> QED
    BY <2>1 DEF CaptureTypes, Places, IDs
<1>2. TableInv /\ IDInv /\ FreedInv /\ LeakInv /\ StartInv /\ WriterInv /\ CauseInv
  BY DEF TableInv, IDInv, Has, Having, FreedInv, LeakInv, StartInv, WriterInv, CauseInv
<1>3. StackInv
  <2>1. \A t \in Threads : DOMAIN stack[t] = {}
    OBVIOUS
  <2> QED
    BY <2>1 DEF StackInv
<1> QED
  BY <1>1, <1>2, <1>3 DEF CaptureInv

(* The invariant, for every value of the constants.                        *)
THEOREM CaptureInvariance == Spec => []CaptureInv
<1>1. CaptureInv /\ [Next]_vars => CaptureInv'
  <2> SUFFICES ASSUME CaptureInv, [Next]_vars
               PROVE  CaptureInv'
    OBVIOUS
  <2>1. CauseInv'
    BY NextCause
  <2> QED
    BY <2>1, NextTypes, NextTable, NextID, NextFreed, NextStack, NextLeak, NextStart, NextWriter
       DEF CaptureInv
<1> QED
  BY <1>1, InitCapture, PTL DEF Spec

(* What goes wrong in the native capturing has one of its six causes,      *)
(* whatever steps of opens, closes and calls meet, and a handler gets its  *)
(* own packets until two loops are on one captor.                          *)
THEOREM FaultsAreCaused == Spec => []FaultsHaveCauses
<1>1. CaptureInv => FaultsHaveCauses
  <2> HAVE CaptureInv
  <2>1. ASSUME NEW t \in Threads, NEW i \in DOMAIN stack[t], NEW a, a = stack[t][i],
               a.inside \notin {NULL, a.ref}
        PROVE  "overlap" \in misuse
    BY <2>1, CallTypes DEF CaptureInv, RefOf
  <2> QED
    BY <2>1 DEF CaptureInv, CauseInv, FaultsHaveCauses
<1> QED
  BY <1>1, CaptureInvariance, PTL

(* No open handle is lost until two threads have got the same ID.          *)
THEOREM NoHandleIsLost == Spec => []HandlesCanBeClosed
<1>1. CaptureInv => HandlesCanBeClosed
  <2> SUFFICES ASSUME CaptureInv, "sameID" \notin misuse, NEW h \in Handles, memory[h] = "open"
               PROVE  \E id \in IDs :
                        /\ pcds[id] = h /\ instanciatedFlag[id]
                        /\ captors[id] + Cardinality({t \in Threads :
                             opening[t] = [at |-> "result", id |-> id]}) = 1
    BY DEF HandlesCanBeClosed
  <2>1. PICK id \in IDs : pcds[id] = h
    BY DEF CaptureInv, IDInv
  <2>2. h # NULL
    BY CaptureAssumption DEF Handles
  <2>3. /\ captors[id] \in {0, 1} /\ instanciatedFlag[id]
        /\ captors[id] = 1 \/ \E t \in Threads : Has(t, id) /\ opening[t].at = "result"
        /\ \A t \in Threads : Has(t, id) =>
             captors[id] = 0 /\ \A u \in Threads : Has(u, id) => u = t
    BY <2>1, <2>2 DEF CaptureInv, IDInv
  <2>4. PICK S : S = {t \in Threads : opening[t] = [at |-> "result", id |-> id]}
    OBVIOUS
  <2>5. captors[id] + Cardinality(S) = 1
    <3>1. CASE captors[id] = 1
      <4>1. S = {}
        BY ONLY <2>3, <2>4, <3>1 DEF Has, Having
      <4>2. Cardinality(S) = 0
        BY ONLY <4>1, FS_EmptySet
      <4> QED
        BY ONLY <3>1, <4>2
    <3>2. CASE captors[id] = 0
      <4>1. PICK t \in Threads : Has(t, id) /\ opening[t].at = "result"
        BY ONLY <2>3, <3>2
      <4>2. opening[t] = [at |-> "result", id |-> id]
        <5>1. opening[t] \in [at: Places, id: IDs]
          BY DEF CaptureInv, CaptureTypes
        <5> QED
          BY ONLY <4>1, <5>1 DEF Has
      <4>3. S = {t}
        BY ONLY <2>3, <2>4, <4>1, <4>2, t \in Threads DEF Has, Having
      <4>4. Cardinality(S) = 1
        BY ONLY <4>3, FS_Singleton
      <4> QED
        BY ONLY <3>2, <4>4
    <3> QED
      BY <2>3, <3>1, <3>2
  <2>6. captors[id] + Cardinality({t \in Threads : opening[t] = [at |-> "result", id |-> id]}) = 1
    BY ONLY <2>4, <2>5, Zenon
  <2> QED
    BY <2>1, <2>3, <2>6, Zenon
<1> QED
  BY <1>1, CaptureInvariance, PTL

-----------------------------------------------------------------------------
(* Counting                                                                *)

(* The loops, by thread and place on its stack.                            *)
Loops ==
  UNION {{<<t, i>> : i \in {k \in DOMAIN stack[t] : stack[t][k].op = "loop"}} : t \in Threads}

CountInv ==
  wrong = "none" => IsFiniteSet(Loops) /\ Cardinality(refs) = Cardinality(Loops)

LEMMA LoopsSame ==
  ASSUME \A u \in Threads :
           /\ DOMAIN stack'[u] = DOMAIN stack[u]
           /\ \A i \in DOMAIN stack[u] : stack'[u][i].op = "loop" <=> stack[u][i].op = "loop"
  PROVE  Loops' = Loops
BY DEF Loops

LEMMA LoopsMore ==
  ASSUME NEW t \in Threads, NEW n, n \notin DOMAIN stack[t],
         DOMAIN stack'[t] = DOMAIN stack[t] \cup {n}, stack'[t][n].op = "loop",
         \A i \in DOMAIN stack[t] : stack'[t][i] = stack[t][i],
         \A u \in Threads \ {t} : stack'[u] = stack[u]
  PROVE  <<t, n>> \notin Loops /\ Loops' = Loops \cup {<<t, n>>}
BY DEF Loops

LEMMA LoopsLess ==
  ASSUME NEW t \in Threads, NEW n \in DOMAIN stack[t], stack[t][n].op = "loop",
         DOMAIN stack'[t] = DOMAIN stack[t] \ {n},
         \A i \in DOMAIN stack'[t] : stack'[t][i] = stack[t][i],
         \A u \in Threads \ {t} : stack'[u] = stack[u]
  PROVE  <<t, n>> \in Loops /\ Loops' = Loops \ {<<t, n>>}
BY DEF Loops

LEMMA RefsFinite ==
  ASSUME CaptureTypes
  PROVE  IsFiniteSet(refs)
<1>1. calls \in Nat /\ refs \subseteq 1 .. calls
  BY CaptureAssumption DEF CaptureTypes
<1>2. PICK n \in Nat : n = calls /\ refs \subseteq 1 .. n
  BY <1>1
<1>3. IsFiniteSet(1 .. n)
  BY FS_Interval
<1> QED
  BY <1>2, <1>3, FS_Subset

(* A loop comes with a reference and takes one along.                      *)
LEMMA NextCount ==
  ASSUME CaptureTypes, StackInv, CountInv, [Next]_vars
  PROVE  CountInv'
<1> USE DEF callVars, idVars, handleVars, dumpVars
<1>1. CASE UNCHANGED <<stack, refs>> /\ (wrong' = "none" => wrong = "none")
  BY <1>1 DEF CountInv, Loops
<1>2. ASSUME NEW t \in Threads, Fails(t) \/ SetsUp(t) \/ Breaks(t)
      PROVE  CountInv'
  BY <1>1, <1>2 DEF Fails, Goes, SetsUp, Breaks
<1>3. ASSUME NEW t \in Threads, Calling(t)
      PROVE  CountInv'
  <2>1. PICK id \in IDs, a \in Activations :
          /\ Push(t, a) /\ UNCHANGED wrong
          /\ \/ a.op = "loop" /\ refs' = refs \cup {calls + 1}
             \/ a.op = "get" /\ refs' = refs
    BY <1>3 DEF Calling, loopPacket, Calls, getPacket
  <2>2. PICK n : /\ n \notin DOMAIN stack[t] /\ DOMAIN stack'[t] = DOMAIN stack[t] \cup {n}
                 /\ stack'[t][n] = a
                 /\ \A i \in DOMAIN stack[t] : stack'[t][i] = stack[t][i]
    BY <2>1, Pushed
  <2>3. \A u \in Threads \ {t} : stack'[u] = stack[u]
    BY <2>1, Pushed
  <2>4. CASE a.op = "loop" /\ refs' = refs \cup {calls + 1}
    <3>1. <<t, n>> \notin Loops /\ Loops' = Loops \cup {<<t, n>>}
      BY <2>2, <2>3, <2>4, LoopsMore
    <3>2. calls + 1 \notin refs
      BY CaptureAssumption DEF CaptureTypes
    <3>3. IsFiniteSet(refs) => Cardinality(refs') = Cardinality(refs) + 1
      BY <2>4, <3>2, FS_AddElement
    <3>4. IsFiniteSet(Loops) =>
            IsFiniteSet(Loops') /\ Cardinality(Loops') = Cardinality(Loops) + 1
      BY <3>1, FS_AddElement
    <3> QED
      BY <2>1, <3>3, <3>4, RefsFinite DEF CountInv
  <2>5. CASE a.op = "get" /\ refs' = refs
    <3>1. Loops' = Loops
      BY <2>2, <2>3, <2>5 DEF Loops
    <3> QED
      BY <2>1, <2>5, <3>1 DEF CountInv
  <2> QED
    BY <2>1, <2>4, <2>5
<1>4. ASSUME NEW t \in Threads, Changing(t)
      PROVE  CountInv'
  <2>1. PICK a \in Activations :
          /\ stack[t] # <<>> /\ SetTop(t, a) /\ (a.op = "loop" <=> Top(t).op = "loop")
          /\ UNCHANGED <<refs, wrong>>
    BY <1>4 DEF Changing
  <2>2. PICK n \in DOMAIN stack[t] :
          /\ stack[t][n] = Top(t) /\ DOMAIN stack'[t] = DOMAIN stack[t] /\ stack'[t][n] = a
          /\ \A i \in DOMAIN stack'[t] \ {n} : stack'[t][i] = stack[t][i]
    BY <2>1, TopSet
  <2>3. \A u \in Threads \ {t} : stack'[u] = stack[u]
    BY <2>1, TopSet
  <2>4. Loops' = Loops
    BY <2>1, <2>2, <2>3, LoopsSame
  <2> QED
    BY <2>1, <2>4 DEF CountInv
<1>5. ASSUME NEW t \in Threads, Returning(t)
      PROVE  CountInv'
  <2>1. PICK n \in DOMAIN stack[t] :
          /\ stack[t][n] = Top(t) /\ DOMAIN stack'[t] = DOMAIN stack[t] \ {n}
          /\ \A i \in DOMAIN stack'[t] : stack'[t][i] = stack[t][i]
    BY <1>5, Popped DEF Returning
  <2>2. \A u \in Threads \ {t} : stack'[u] = stack[u]
    BY <1>5, Popped DEF Returning
  <2>3. CASE Top(t).op # "loop" /\ UNCHANGED refs
    <3>1. Loops' = Loops
      BY <2>1, <2>2, <2>3 DEF Loops
    <3> QED
      BY <1>5, <2>3, <3>1 DEF CountInv, Returning
  <2>4. ASSUME NEW ref \in refs, Top(t).op = "loop", refs' = refs \ {ref}
        PROVE  CountInv'
    <3>1. <<t, n>> \in Loops /\ Loops' = Loops \ {<<t, n>>}
      BY <2>1, <2>2, <2>4, LoopsLess
    <3>2. IsFiniteSet(refs) => Cardinality(refs') = Cardinality(refs) - 1
      BY <2>4, FS_RemoveElement
    <3>3. IsFiniteSet(Loops) =>
            IsFiniteSet(Loops') /\ Cardinality(Loops') = Cardinality(Loops) - 1
      BY <3>1, FS_RemoveElement
    <3>4. UNCHANGED wrong
      BY <1>5 DEF Returning
    <3> QED
      BY <3>2, <3>3, <3>4, RefsFinite DEF CountInv
  <2> QED
    BY <1>5, <2>3, <2>4 DEF Returning
<1>6. ASSUME NEW t \in Threads, Opening(t)
      PROVE  CountInv'
  BY <1>1, <1>6, OpeningKeeps
<1>7. ASSUME NEW t \in Threads, NEW id \in IDs, Closes(t, id)
      PROVE  CountInv'
  BY <1>1, <1>7 DEF Closes
<1>8. ASSUME NEW w \in Writers, OpensFile(w) \/ ClosesNothing(w) \/ FreesHandle(w)
      PROVE  CountInv'
  BY <1>1, <1>8 DEF OpensFile, ClosesNothing, FreesHandle
<1>9. CASE FreesAgain \/ UNCHANGED vars
  BY <1>1, <1>9 DEF FreesAgain, vars
<1> QED
  BY <1>2, <1>3, <1>4, <1>5, <1>6, <1>7, <1>8, <1>9, Kinds DEF Plain

(* Two loops on one captor never both come back: their references would be *)
(* as many as the loops, and one of them stays for good.                   *)
THEOREM OverlapsAreFatal == Spec => []OverlapIsFatal
<1>1. Init => CountInv
  <2> HAVE Init
  <2>1. Loops = {} /\ refs = {}
    BY DEF Init, Loops
  <2> QED
    BY <2>1, FS_EmptySet DEF CountInv
<1>2. CaptureInv /\ CountInv /\ [Next]_vars => CountInv'
  BY NextCount DEF CaptureInv
<1>3. CaptureInv /\ CountInv => OverlapIsFatal
  <2> SUFFICES ASSUME CaptureInv, CountInv, wrong = "none"
               PROVE  /\ Cardinality(refs) = Cardinality(Loops)
                      /\ (\A id \in IDs : LoopsOn(id) = {}) => "overlap" \notin misuse
    BY DEF OverlapIsFatal, Loops
  <2>1. ASSUME \A id \in IDs : LoopsOn(id) = {}, "overlap" \in misuse
        PROVE  FALSE
    <3>1. Loops = {}
      <4>1. ASSUME NEW t \in Threads, NEW i \in DOMAIN stack[t], stack[t][i].op = "loop"
            PROVE  FALSE
        BY <2>1, <4>1, CallTypes DEF LoopsOn, CaptureInv, Activations
      <4> QED
        BY <4>1 DEF Loops
    <3>2. IsFiniteSet(refs) /\ Cardinality(refs) = 0
      BY <3>1, FS_EmptySet, RefsFinite DEF CountInv, CaptureInv
    <3>3. refs = {}
      BY <3>2, FS_EmptySet
    <3> QED
      BY <2>1, <3>3 DEF CaptureInv, LeakInv
  <2> QED
    BY <2>1 DEF CountInv
<1> QED
  BY <1>1, <1>2, <1>3, CaptureInvariance, PTL DEF Spec
=============================================================================
