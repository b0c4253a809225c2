------------------------------- MODULE Capture -------------------------------
(***************************************************************************)
(* Capturing with jpcap from several threads: the native methods keep what *)
(* they need under the ID of the captor, in static arrays that every call  *)
(* writes and every delivery reads again, and JpcapWriter keeps its file   *)
(* in two static variables.  A handler may call the library again, so each *)
(* thread has a stack of calls.  Opening takes as many steps as it has     *)
(* accesses to what the threads share, since nothing excludes two threads  *)
(* from it.  Clients call what they have opened and not closed (Devices is *)
(* about the others); the model stops at the first thing that goes wrong,  *)
(* because anything may happen after it.                                   *)
(***************************************************************************)
EXTENDS Integers, FiniteSets, SequencesExt

CONSTANTS
  Threads,
  Writers,
  MaxInstances,  (* MAX_NUMBER_OF_INSTANCE, 255 in the code                *)
  MaxHandles,    (* bound: how many captors are opened                     *)
  MaxCalls,      (* bound: calls of processPacket and loopPacket           *)
  MaxDepth,      (* bound: calls inside each other                         *)
  MaxUses,       (* bound: captors, those calls and dump files, together;  *)
                 (* captors that are being opened count                    *)
  NULL

ASSUME CaptureAssumption ==
  /\ MaxInstances \in Nat \ {0} /\ MaxHandles \in Nat /\ MaxCalls \in Nat
  /\ MaxDepth \in Nat /\ MaxUses \in Nat
  /\ NULL \notin Threads \cup Writers \cup Nat

IDs     == 0 .. (MaxInstances - 1)
Handles == 1 .. MaxHandles
Refs    == 1 .. MaxCalls

VARIABLES
  java_env,        (* the classes and method IDs: "unset", "setting", "set" *)
  setter,          (* the thread that is setting them                      *)
  instanciatedFlag,
  opening,         (* of each thread: where it is in an open or a close    *)
  captors,         (* of each ID: the open JpcapCaptors that have it       *)
  pcds, jni_envs, jpcap_handlers,
  memory,          (* of each handle: "none", "open", "closed", "freed"    *)
  broken,          (* the handles with the flag of pcap_breakloop          *)
  refs,            (* the global references that exist                     *)
  stack,           (* of each thread: its calls, the last one innermost    *)
  pdt, pcdd,
  writer,          (* of each JpcapWriter: "none", "open", "closed"        *)
  calls,           (* the references made so far                           *)
  wrong,           (* the first thing that has gone wrong                  *)
  misuse           (* history: what the clients have done to deserve it    *)

vars == <<java_env, setter, instanciatedFlag, opening, captors, pcds, jni_envs, jpcap_handlers, memory,
          broken, refs, stack, pdt, pcdd, writer, calls, wrong, misuse>>
envVars    == <<java_env, setter>>
idVars     == <<instanciatedFlag, opening, captors, pcds>>
handleVars == <<memory, broken>>
callVars   == <<jni_envs, jpcap_handlers, refs, stack, calls>>
dumpVars   == <<pdt, pcdd, writer>>

Init ==
  /\ java_env = "unset" /\ setter = NULL
  /\ instanciatedFlag = [id \in IDs |-> FALSE]
  /\ opening = [t \in Threads |-> [at |-> "none", id |-> 0]]
  /\ captors = [id \in IDs |-> 0]
  /\ pcds = [id \in IDs |-> NULL]
  /\ jni_envs = [id \in IDs |-> NULL]
  /\ jpcap_handlers = [id \in IDs |-> NULL]
  /\ memory = [h \in Handles |-> "none"]
  /\ broken = {} /\ refs = {} /\ calls = 0
  /\ stack = [t \in Threads |-> <<>>]
  /\ pdt = NULL /\ pcdd = NULL
  /\ writer = [w \in Writers |-> "none"]
  /\ wrong = "none" /\ misuse = {}

-----------------------------------------------------------------------------
(* A call in progress: "loop" is processPacket or loopPacket, with its     *)
(* reference and, while a handler runs, the reference it was called by;    *)
(* "get" is getPacket, "got" after pcap_next_ex has returned a packet.     *)
Activation(op, id, ref) ==
  [op |-> op, id |-> id, handle |-> pcds[id], ref |-> ref, inside |-> NULL]

Top(t) == Last(stack[t])
Push(t, a) == stack' = [stack EXCEPT ![t] = Append(@, a)]
Pop(t) == stack' = [stack EXCEPT ![t] = Front(@)]
SetTop(t, a) == stack' = [stack EXCEPT ![t] = Append(Front(@), a)]
In(t, op) == wrong = "none" /\ stack[t] # <<>> /\ Top(t).op = op /\ Top(t).inside = NULL
CanCall(t) ==
  /\ wrong = "none" /\ setter # t /\ opening[t].at = "none"
  /\ stack[t] # <<>> => Top(t).inside # NULL
Opened(id) == captors[id] > 0
At(t, place) == wrong = "none" /\ setter # t /\ opening[t].at = place
Goto(t, place, id) == opening' = [opening EXCEPT ![t] = [at |-> place, id |-> id]]
Valid(h) == h # NULL /\ memory[h] = "open"

Goes(what) ==
  /\ wrong' = what
  /\ UNCHANGED <<envVars, idVars, handleVars, callVars, dumpVars, misuse>>

CallsOn(id, threads) ==
  {t \in threads : \E i \in DOMAIN stack[t] : stack[t][i].id = id}
LoopsOn(id) ==
  {t \in Threads : \E i \in DOMAIN stack[t] : stack[t][i].id = id /\ stack[t][i].op = "loop"}
Users(h) == {t \in Threads : \E i \in DOMAIN stack[t] : stack[t][i].handle = h}
Openers == {t \in Threads : opening[t].at \notin {"none", "unreserve"}}
Unused  == {h \in Handles : memory[h] = "none"}
Uses ==
  calls + Cardinality(Handles \ Unused) + Cardinality(Openers)
        + Cardinality({w \in Writers : writer[w] # "none"})
Noted(condition, what) == IF condition THEN {what} ELSE {}

-----------------------------------------------------------------------------
(* set_Java_env sets Jpcap first, which is what the next caller looks at.  *)
(* Opening a sender calls it too.                                          *)
EnterJavaEnv(t) ==
  /\ java_env = "unset" /\ (CanCall(t) \/ At(t, "env"))
  /\ java_env' = "setting" /\ setter' = t
  /\ UNCHANGED <<idVars, handleVars, callVars, dumpVars, wrong, misuse>>

LeaveJavaEnv(t) ==
  /\ wrong = "none" /\ setter = t
  /\ java_env' = "set" /\ setter' = NULL
  /\ UNCHANGED <<idVars, handleVars, callVars, dumpVars, wrong, misuse>>

(* openDevice and openFile: the constructor looks for a free ID,           *)
openDevice(t) ==
  /\ CanCall(t) /\ Uses < MaxUses /\ Cardinality(Openers) < Cardinality(Unused)
  /\ Goto(t, "test", 0)
  /\ UNCHANGED <<envVars, instanciatedFlag, captors, pcds, handleVars, callVars, dumpVars,
                 wrong, misuse>>

TestFlag(t) ==
  /\ At(t, "test")
  /\ LET id == opening[t].id
     IN  CASE ~instanciatedFlag[id] -> Goto(t, "set", id)
           [] instanciatedFlag[id] /\ id + 1 \in IDs -> Goto(t, "test", id + 1)
           [] OTHER -> Goto(t, "none", 0)
  /\ UNCHANGED <<envVars, instanciatedFlag, captors, pcds, handleVars, callVars, dumpVars,
                 wrong, misuse>>

SetFlag(t) ==
  /\ At(t, "set")
  /\ LET id == opening[t].id
     IN  /\ instanciatedFlag' = [instanciatedFlag EXCEPT ![id] = TRUE]
         /\ misuse' = misuse \cup Noted(instanciatedFlag[id], "sameID")
         /\ Goto(t, "env", id)
  /\ UNCHANGED <<envVars, captors, pcds, handleVars, callVars, dumpVars, wrong>>

(* and nativeOpenLive or nativeOpenOffline sets the environment up,        *)
PassJavaEnv(t) ==
  /\ At(t, "env") /\ java_env # "unset"
  /\ misuse' = misuse \cup Noted(java_env = "setting", "startup")
  /\ Goto(t, "check", opening[t].id)
  /\ UNCHANGED <<envVars, instanciatedFlag, captors, pcds, handleVars, callVars, dumpVars,
                 wrong>>

(* refuses an ID with a handle, which stays reserved,                      *)
CheckHandle(t) ==
  /\ At(t, "check")
  /\ IF pcds[opening[t].id] # NULL THEN Goto(t, "none", 0) ELSE Goto(t, "store", opening[t].id)
  /\ UNCHANGED <<envVars, instanciatedFlag, captors, pcds, handleVars, callVars, dumpVars,
                 wrong, misuse>>

StoreEnv(t) ==
  /\ At(t, "store")
  /\ jni_envs' = [jni_envs EXCEPT ![opening[t].id] = t]
  /\ Goto(t, "open", opening[t].id)
  /\ UNCHANGED <<envVars, instanciatedFlag, captors, pcds, handleVars, jpcap_handlers, refs,
                 stack, calls, dumpVars, wrong, misuse>>

(* stores the handle, or NULL,                                             *)
StoreHandle(t) ==
  /\ At(t, "open")
  /\ \/ \E h \in Handles :
          /\ memory[h] = "none" /\ \A g \in Handles : g < h => memory[g] # "none"
          /\ memory' = [memory EXCEPT ![h] = "open"]
          /\ pcds' = [pcds EXCEPT ![opening[t].id] = h]
     \/ pcds' = [pcds EXCEPT ![opening[t].id] = NULL] /\ UNCHANGED memory
  /\ Goto(t, "result", opening[t].id)
  /\ UNCHANGED <<envVars, instanciatedFlag, captors, broken, callVars, dumpVars, wrong, misuse>>

(* and has opened the captor if there is one under the ID now.             *)
ReturnCaptor(t) ==
  /\ At(t, "result")
  /\ LET id == opening[t].id
     IN  captors' = [captors EXCEPT ![id] = IF pcds[id] = NULL THEN @ ELSE @ + 1]
  /\ Goto(t, "none", 0)
  /\ UNCHANGED <<envVars, instanciatedFlag, pcds, handleVars, callVars, dumpVars, wrong, misuse>>

(* close: what is under the ID is closed and forgotten, then the ID free.  *)
nativeCloseForgets(t, id) ==   \* mutant: the handle is forgotten but not closed
  /\ CanCall(t) /\ Opened(id)
  /\ captors' = [captors EXCEPT ![id] = @ - 1]
  /\ pcds' = [pcds EXCEPT ![id] = NULL]
  /\ misuse' = misuse \cup Noted(Users(pcds[id]) # {}, "closedInUse")
  /\ Goto(t, "unreserve", id)
  /\ UNCHANGED <<envVars, instanciatedFlag, handleVars, callVars, dumpVars, wrong>>
nativeClose(t, id) ==
  /\ CanCall(t) /\ Opened(id)
  /\ IF pcds[id] = NULL \/ Valid(pcds[id])
     THEN /\ captors' = [captors EXCEPT ![id] = @ - 1]
          /\ memory' = [h \in Handles |-> IF h = pcds[id] THEN "closed" ELSE memory[h]]
          /\ pcds' = [pcds EXCEPT ![id] = NULL]
          /\ misuse' = misuse \cup Noted(pcds[id] # NULL /\ Users(pcds[id]) # {}, "closedInUse")
          /\ Goto(t, "unreserve", id)
          /\ UNCHANGED <<envVars, instanciatedFlag, broken, callVars, dumpVars, wrong>>
     ELSE Goes("handle")

unreserveID(t) ==
  /\ At(t, "unreserve")
  /\ instanciatedFlag' = [instanciatedFlag EXCEPT ![opening[t].id] = FALSE]
  /\ Goto(t, "none", 0)
  /\ UNCHANGED <<envVars, captors, pcds, handleVars, callVars, dumpVars, wrong, misuse>>

(* setFilter, updateStat, setNonBlockingMode and the others that only use  *)
(* the handle.                                                             *)
Use(t, id) ==
  /\ CanCall(t) /\ Opened(id) /\ ~Valid(pcds[id])
  /\ Goes("handle")

breakLoop(t, id) ==
  /\ CanCall(t) /\ Opened(id)
  /\ IF Valid(pcds[id])
     THEN /\ broken' = broken \cup {pcds[id]}
          /\ UNCHANGED <<envVars, idVars, memory, callVars, dumpVars, wrong, misuse>>
     ELSE Goes("handle")

-----------------------------------------------------------------------------
(* processPacket and loopPacket: the reference to the handler and the      *)
(* environment go into the arrays, over what is there.                     *)
Calls(t, id) ==
  /\ CanCall(t) /\ Opened(id) /\ Valid(pcds[id])
  /\ Len(stack[t]) < MaxDepth /\ calls < MaxCalls /\ Uses < MaxUses
  /\ calls' = calls + 1
  /\ refs' = refs \cup {calls + 1}
  /\ jpcap_handlers' = [jpcap_handlers EXCEPT ![id] = calls + 1]
  /\ Push(t, Activation("loop", id, calls + 1))
  /\ misuse' = misuse \cup Noted(LoopsOn(id) # {}, "overlap")
                      \cup Noted(CallsOn(id, Threads \ {t}) # {}, "shared")
  /\ UNCHANGED <<envVars, idVars, handleVars, dumpVars, wrong>>

loopPacketKeepsEnv(t, id) ==   \* mutant: the environment of the opener stays
  Calls(t, id) /\ UNCHANGED jni_envs
loopPacket(t, id) ==
  Calls(t, id) /\ jni_envs' = [jni_envs EXCEPT ![id] = t]

(* dispatcher_handler: environment and handler are those in the arrays.    *)
Deliver(t) ==
  /\ In(t, "loop")
  /\ LET a == Top(t)   ref == jpcap_handlers[a.id]
     IN  IF ~Valid(a.handle) THEN Goes("handle")
         ELSE /\ a.handle \notin broken
              /\ IF jni_envs[a.id] # t THEN Goes("env")
                 ELSE IF java_env = "setting" THEN Goes("method")
                 ELSE IF ref \notin refs THEN Goes("ref")
                 ELSE /\ SetTop(t, [a EXCEPT !.inside = ref])
                      /\ UNCHANGED <<envVars, idVars, handleVars, jni_envs, jpcap_handlers,
                                     refs, calls, dumpVars, wrong, misuse>>

HandlerReturns(t) ==
  /\ CanCall(t) /\ stack[t] # <<>>
  /\ SetTop(t, [Top(t) EXCEPT !.inside = NULL])
  /\ UNCHANGED <<envVars, idVars, handleVars, jni_envs, jpcap_handlers, refs, calls,
                 dumpVars, wrong, misuse>>

(* The pcap call comes back, for one reason or another, and the reference  *)
(* in the array is deleted.                                                *)
ReturnLeaks(t) ==   \* mutant: DeleteGlobalRef is forgotten
  /\ In(t, "loop") /\ Valid(Top(t).handle)
  /\ broken' = broken \ {Top(t).handle}
  /\ Pop(t)
  /\ UNCHANGED <<envVars, idVars, memory, refs, jni_envs, jpcap_handlers, calls,
                 dumpVars, wrong, misuse>>
Return(t) ==
  /\ In(t, "loop")
  /\ LET a == Top(t)   ref == jpcap_handlers[a.id]
     IN  IF ~Valid(a.handle) THEN Goes("handle")
         ELSE IF ref \notin refs THEN Goes("ref")
         ELSE /\ refs' = refs \ {ref}
              /\ broken' = broken \ {a.handle}
              /\ Pop(t)
              /\ UNCHANGED <<envVars, idVars, memory, jni_envs, jpcap_handlers, calls,
                             dumpVars, wrong, misuse>>

-----------------------------------------------------------------------------
(* getPacket: pcap_next_ex may wait; only then is the environment stored,  *)
(* and get_packet reads it again.                                          *)
getPacket(t, id) ==
  /\ CanCall(t) /\ Opened(id) /\ Valid(pcds[id])
  /\ Len(stack[t]) < MaxDepth
  /\ Push(t, Activation("get", id, NULL))
  /\ misuse' = misuse \cup Noted(CallsOn(id, Threads \ {t}) # {}, "shared")
  /\ UNCHANGED <<envVars, idVars, handleVars, jni_envs, jpcap_handlers, refs, calls,
                 dumpVars, wrong>>

GotNothing(t) ==
  /\ In(t, "get")
  /\ IF Valid(Top(t).handle)
     THEN /\ broken' = broken \ {Top(t).handle}
          /\ Pop(t)
          /\ UNCHANGED <<envVars, idVars, memory, jni_envs, jpcap_handlers, refs, calls,
                         dumpVars, wrong, misuse>>
     ELSE Goes("handle")

GotPacket(t) ==
  /\ In(t, "get") /\ Valid(Top(t).handle) /\ Top(t).handle \notin broken
  /\ jni_envs' = [jni_envs EXCEPT ![Top(t).id] = t]
  /\ SetTop(t, [Top(t) EXCEPT !.op = "got"])
  /\ UNCHANGED <<envVars, idVars, handleVars, jpcap_handlers, refs, calls, dumpVars,
                 wrong, misuse>>

Convert(t) ==
  /\ In(t, "got")
  /\ IF ~Valid(Top(t).handle) THEN Goes("handle")
     ELSE IF jni_envs[Top(t).id] # t THEN Goes("env")
     ELSE IF java_env = "setting" THEN Goes("method")
     ELSE /\ Pop(t)
          /\ UNCHANGED <<envVars, idVars, handleVars, jni_envs, jpcap_handlers, refs, calls,
                         dumpVars, wrong, misuse>>

-----------------------------------------------------------------------------
(* nativeOpenDumpFile: both variables are overwritten, even when the file  *)
(* cannot be opened.                                                       *)
openDumpFile(t, w, id) ==
  /\ CanCall(t) /\ Opened(id) /\ writer[w] = "none" /\ Uses < MaxUses /\ pcds[id] # NULL
  /\ IF Valid(pcds[id])
     THEN /\ pcdd' = pcds[id]
          /\ \/ pdt' = w /\ writer' = [writer EXCEPT ![w] = "open"]
             \/ pdt' = NULL /\ UNCHANGED writer
          /\ misuse' = misuse \cup Noted(pdt # NULL, "twoWriters")
          /\ UNCHANGED <<envVars, idVars, handleVars, callVars, wrong>>
     ELSE Goes("handle")

writePacket(t, w) ==
  /\ CanCall(t) /\ writer[w] = "open" /\ pdt # w
  /\ Goes(IF pdt = NULL THEN "dump" ELSE "file")

(* close of a writer: the file in the variable is closed, and the memory   *)
(* of the captor's handle given back.                                      *)
closeWriter(t, w) ==
  /\ CanCall(t) /\ writer[w] = "open"
  /\ CASE pdt = NULL ->
            /\ writer' = [writer EXCEPT ![w] = "closed"]
            /\ UNCHANGED <<envVars, idVars, handleVars, callVars, pdt, pcdd, wrong, misuse>>
       [] pdt # NULL /\ Valid(pcdd) ->
            /\ memory' = [memory EXCEPT ![pcdd] = "freed"]
            /\ pcdd' = NULL /\ pdt' = NULL
            /\ writer' = [writer EXCEPT ![w] = "closed"]
            /\ misuse' = misuse \cup {"dumpClosed"}
            /\ UNCHANGED <<envVars, idVars, broken, callVars, wrong>>
       [] OTHER ->
            /\ wrong' = "handle" /\ misuse' = misuse \cup {"dumpClosed"}
            /\ UNCHANGED <<envVars, idVars, handleVars, callVars, dumpVars>>

Next ==
  \E t \in Threads :
    \/ EnterJavaEnv(t) \/ LeaveJavaEnv(t)
    \/ openDevice(t) \/ TestFlag(t) \/ SetFlag(t) \/ PassJavaEnv(t) \/ CheckHandle(t)
    \/ StoreEnv(t) \/ StoreHandle(t) \/ ReturnCaptor(t) \/ unreserveID(t)
    \/ Deliver(t) \/ HandlerReturns(t) \/ Return(t)
    \/ GotNothing(t) \/ GotPacket(t) \/ Convert(t)
    \/ \E id \in IDs :
         nativeClose(t, id) \/ Use(t, id) \/ breakLoop(t, id) \/ loopPacket(t, id) \/ getPacket(t, id)
    \/ \E w \in Writers : writePacket(t, w) \/ closeWriter(t, w)
    \/ \E w \in Writers, id \in IDs : openDumpFile(t, w, id)

Spec == Init /\ [][Next]_vars

-----------------------------------------------------------------------------
(* What goes wrong has one of six causes: two threads between the test of  *)
(* a flag and its setting, which get the same ID, and then each its share  *)
(* of the other's environment and handle; another thread's environment,    *)
(* two threads with calls on one captor; a reference that is gone, two     *)
(* loops on one captor; a handle that is gone, its captor closed while a   *)
(* call was on it or a dump file of it closed; no file or another's, two   *)
(* writers; no method ID, two threads opening the first captors.  And no   *)
(* handler gets the packets of another's call but for two loops.           *)
FaultsHaveCauses ==
  /\ wrong = "env" => misuse \cap {"shared", "sameID"} # {}
  /\ wrong = "ref" => "overlap" \in misuse
  /\ wrong = "handle" => misuse \cap {"closedInUse", "dumpClosed", "sameID"} # {}
  /\ wrong \in {"dump", "file"} => "twoWriters" \in misuse
  /\ wrong = "method" => "startup" \in misuse
  /\ \A t \in Threads : \A i \in DOMAIN stack[t] :
       LET a == stack[t][i] IN a.inside \notin {NULL, a.ref} => "overlap" \in misuse

(* The references are as many as the loops, and two loops on one captor,   *)
(* one inside the other or side by side, never both come back: the second  *)
(* one deletes a reference that is gone.                                   *)
OverlapIsFatal ==
  wrong = "none" =>
    /\ Cardinality(refs) =
         Cardinality(UNION {{<<t, i>> : i \in {k \in DOMAIN stack[t] : stack[t][k].op = "loop"}} :
                              t \in Threads})
    /\ (\A id \in IDs : LoopsOn(id) = {}) => "overlap" \notin misuse

(* A handle that is open is under an ID, and there is just one captor that *)
(* can close it or one thread that will have that captor, whatever opens,  *)
(* closes and failures meet, until two threads have got the same ID.       *)
HandlesCanBeClosed ==
  "sameID" \notin misuse =>
    \A h \in Handles : memory[h] = "open" =>
      \E id \in IDs :
        /\ pcds[id] = h /\ instanciatedFlag[id]
        /\ captors[id] + Cardinality({t \in Threads : opening[t] = [at |-> "result", id |-> id]}) = 1
=============================================================================
