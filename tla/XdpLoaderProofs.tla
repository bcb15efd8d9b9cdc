--------------------------- MODULE XdpLoaderProofs ---------------------------
(***************************************************************************)
(* The XDP hook under any number of loaders, detach processes, kills and   *)
(* refused calls: what is on it is complete, nobody removes what is not    *)
(* theirs, and status 0 means that the program is off.                     *)
(***************************************************************************)
EXTENDS XdpLoader, TLAPS

\* What a call of a process leaves of the others, and of the packet at work.
Local(p) ==
  /\ \A q \in Process : q # p => pc'[q] = pc[q] /\ code'[q] = code[q]
  /\ \A l \in Loader : l # p =>
       /\ backends'[l] = backends[l] /\ count'[l] = count[l] /\ valid'[l] = valid[l]
       /\ frozen'[l] = frozen[l] /\ attached'[l] = attached[l] /\ failed'[l] = failed[l]
       /\ unwinding'[l] = unwinding[l]
  /\ packet' = packet

\* Processes are told apart, and a loader's program is not "none".
LEMMA ProcessFacts ==
  /\ \A l \in Loader : l \in Process /\ l \notin Detacher /\ l # "none" /\ l # "other"
  /\ \A d \in Detacher : d \in Process /\ d \notin Loader /\ Target[d] \in Loader
  /\ \A p \in Process : Expected(p) \in Loader
  BY LoaderBounds DEF Process, Expected

\* An entry of the map is a configured backend or empty.
LEMMA EntryType ==
  ASSUME NEW l \in Loader, NEW i \in 1 .. Slots
  PROVE  /\ Entry(l, i) \in Backend \cup {"empty"} /\ Len(Config[l]) \in 0 .. Slots
         /\ i <= Len(Config[l]) => Entry(l, i) # "empty"
<1>1. Config[l] \in Seq(Backend) /\ Len(Config[l]) \in Nat /\ Len(Config[l]) <= Slots
  BY LoaderBounds
<1>2. i <= Len(Config[l]) => Config[l][i] \in Backend
  BY <1>1
<1> QED
  BY <1>1, <1>2, LoaderBounds DEF Entry

\* A call changes the state of its own process only.
LEMMA Locality ==
  ASSUME TypeOK, NEW p \in Process, Run(p) \/ Kill(p)
  PROVE  Local(p)
<1>1. CASE Kill(p)
  BY <1>1 DEF Kill, goto, loaderVars, mapVars, Local, TypeOK
<1>2. CASE p \in Loader /\ (loadObject(p) \/ readBack(p) \/ attachProgram(p) \/ printReady(p) \/ sigwait(p))
  BY <1>2 DEF loadObject, readBack, attachProgram, printReady, sigwait, goto, exit, refuse, unwind,
     syncFails, loaderVars, mapVars, Local, TypeOK
<1>3. CASE p \in Loader /\ (writeBackend(p) \/ writeConfig(p) \/ freezeBackends(p) \/ freezeConfig(p))
  BY <1>3 DEF writeBackend, writeConfig, freezeBackends, freezeConfig, goto, exit, refuse,
     syncFails, loaderVars, mapVars, Local, TypeOK
<1>4. CASE p \in Loader /\ readStatistics(p)
  BY <1>4 DEF readStatistics, returnFromMain, unwind, goto, exit, refuse, mapVars, Local, TypeOK
<1>5. CASE p \in Detacher /\ (detachExpectedProgram(p) \/ bpfProgGetFdById(p) \/ reportDetached(p))
  BY <1>5 DEF detachExpectedProgram, bpfProgGetFdById, reportDetached, goto, exit, loaderVars,
     mapVars, Local, TypeOK
<1>6. CASE queryAttachedProgramId(p)
  BY <1>6 DEF queryAttachedProgramId, detached, notDetached, cleanupFails, goto, exit, mapVars, Local,
     TypeOK
<1>7. CASE bpfXdpDetach(p)
  BY <1>7 DEF bpfXdpDetach, detached, notDetached, cleanupFails, goto, exit, mapVars, Local, TypeOK
<1> QED
  BY <1>1, <1>2, <1>3, <1>4, <1>5, <1>6, <1>7 DEF Run
-----------------------------------------------------------------------------
\* Every call, every packet and everybody else keeps the variables in their types.
LEMMA TypeStep == TypeOK /\ [Next]_vars => TypeOK'
<1> SUFFICES ASSUME TypeOK, [Next]_vars PROVE TypeOK'
  OBVIOUS
<1>1. ASSUME NEW p \in Process, NEW step \in Steps, goto(p, step)
      PROVE  pc' \in [Process -> Steps]
  BY <1>1 DEF TypeOK, goto
<1>2. ASSUME NEW p \in Process, NEW status \in {"0", "1"}, exit(p, status)
      PROVE  pc' \in [Process -> Steps] /\ code' \in [Process -> {"none", "0", "1"}]
  BY <1>2 DEF TypeOK, exit, goto, Steps
<1>3. ASSUME refuse PROVE refusals' \in 0 .. Refusals
  BY <1>3, LoaderBounds DEF refuse, TypeOK
<1>4. ASSUME NEW l \in Loader, NEW status \in {"0", "1"}, unwind(l, status)
      PROVE  /\ pc' \in [Process -> Steps] /\ code' \in [Process -> {"none", "0", "1"}]
             /\ unwinding' \in [Loader -> BOOLEAN]
  BY <1>4, ProcessFacts DEF unwind, goto, TypeOK, Steps
<1>5. CASE UNCHANGED vars \/ OtherUser \/ \E p \in Process : Kill(p)
  BY <1>5 DEF vars, loaderVars, mapVars, OtherUser, Kill, goto, TypeOK, Steps
<1>6. ASSUME NEW l \in Loader, loadObject(l) \/ readBack(l) \/ attachProgram(l) PROVE TypeOK'
  <2>1. pc' \in [Process -> Steps] /\ code' \in [Process -> {"none", "0", "1"}]
    BY <1>1, <1>2, <1>6, ProcessFacts
       DEF loadObject, readBack, attachProgram, syncFails, TypeOK, Steps
  <2>2. refusals' \in 0 .. Refusals
    BY <1>3, <1>6 DEF loadObject, readBack, attachProgram, syncFails, TypeOK
  <2>3. attached' \in [Loader -> BOOLEAN] /\ hook' \in Loader \cup {"none", "other"}
    BY <1>6 DEF loadObject, readBack, attachProgram, loaderVars, TypeOK
  <2> QED
    BY <1>6, <2>1, <2>2, <2>3 DEF loadObject, readBack, attachProgram, loaderVars, mapVars, TypeOK
<1>7. ASSUME NEW l \in Loader, writeBackend(l) PROVE TypeOK'
  <2>1. pc' \in [Process -> Steps] /\ code' \in [Process -> {"none", "0", "1"}]
    BY <1>2, <1>7, ProcessFacts DEF writeBackend, syncFails, TypeOK
  <2>2. refusals' \in 0 .. Refusals
    BY <1>3, <1>7 DEF writeBackend, syncFails, TypeOK
  <2>3. at[l] \in 1 .. Slots /\ at[l] + 1 \in 1 .. Slots + 1
    BY <1>7, LoaderBounds DEF writeBackend, moreEntries, TypeOK
  <2>4. at' \in [Loader -> 1 .. Slots + 1]
    BY <1>7, <2>3 DEF writeBackend, TypeOK
  <2>5. backends' \in [Loader -> [1 .. Slots -> Backend \cup {"empty"}]]
    <3> DEFINE row == [backends[l] EXCEPT ![at[l]] = Entry(l, at[l])]
    <3>1. Entry(l, at[l]) \in Backend \cup {"empty"}
      BY <2>3, EntryType
    <3>2. row \in [1 .. Slots -> Backend \cup {"empty"}]
      BY <2>3, <3>1 DEF TypeOK
    <3>3. backends' = backends \/ backends' = [backends EXCEPT ![l] = row]
      BY <1>7 DEF writeBackend
    <3> HIDE DEF row
    <3> QED
      BY <3>2, <3>3 DEF TypeOK
  <2> QED
    BY <1>7, <2>1, <2>2, <2>4, <2>5 DEF writeBackend, TypeOK
<1>8. ASSUME NEW l \in Loader, writeConfig(l) \/ freezeBackends(l) \/ freezeConfig(l) PROVE TypeOK'
  <2>1. pc' \in [Process -> Steps] /\ code' \in [Process -> {"none", "0", "1"}]
    BY <1>1, <1>2, <1>8, ProcessFacts
       DEF writeConfig, freezeBackends, freezeConfig, syncFails, TypeOK, Steps
  <2>2. refusals' \in 0 .. Refusals
    BY <1>3, <1>8 DEF writeConfig, freezeBackends, freezeConfig, syncFails, TypeOK
  <2>3. Len(Config[l]) \in 0 .. Slots
    BY LoaderBounds
  <2>4. /\ count' \in [Loader -> 0 .. Slots] /\ valid' \in [Loader -> BOOLEAN]
        /\ frozen' \in [Loader -> SUBSET {"backends", "config"}]
    <3>1. count' = count \/ count' = [count EXCEPT ![l] = Len(Config[l])]
      BY <1>8 DEF writeConfig, freezeBackends, freezeConfig
    <3>2. valid' = valid \/ valid' = [valid EXCEPT ![l] = TRUE]
      BY <1>8 DEF writeConfig, freezeBackends, freezeConfig
    <3>3. frozen' = frozen \/ \E m \in {"backends", "config"} :
                                frozen' = [frozen EXCEPT ![l] = frozen[l] \cup {m}]
      BY <1>8 DEF writeConfig, freezeBackends, freezeConfig
    <3>4. count' \in [Loader -> 0 .. Slots]
      BY <2>3, <3>1 DEF TypeOK
    <3>5. valid' \in [Loader -> BOOLEAN]
      BY <3>2 DEF TypeOK
    <3>6. frozen' \in [Loader -> SUBSET {"backends", "config"}]
      <4> DEFINE Maps == SUBSET {"backends", "config"}
      <4>1. frozen \in [Loader -> Maps]
        BY DEF TypeOK
      <4>2. \A m \in {"backends", "config"} : frozen[l] \cup {m} \in Maps
        BY <4>1
      <4> HIDE DEF Maps
      <4>3. frozen' \in [Loader -> Maps]
        BY <3>3, <4>1, <4>2
      <4> QED
        BY <4>3 DEF Maps
    <3> QED
      BY <3>4, <3>5, <3>6
  <2> QED
    BY <1>8, <2>1, <2>2, <2>4 DEF writeConfig, freezeBackends, freezeConfig, TypeOK
<1>9. ASSUME NEW l \in Loader, printReady(l) \/ sigwait(l) PROVE TypeOK'
  <2>1. /\ pc' \in [Process -> Steps] /\ code' \in [Process -> {"none", "0", "1"}]
        /\ unwinding' \in [Loader -> BOOLEAN]
    BY <1>1, <1>4, <1>9, ProcessFacts DEF printReady, sigwait, TypeOK, Steps
  <2>2. refusals' \in 0 .. Refusals
    BY <1>3, <1>9 DEF printReady, sigwait, TypeOK
  <2>3. signal' \in [Loader -> {"none", "TERM", "PIPE"}]
    <3>1. signal' = signal \/ \E s \in {"TERM", "PIPE"} : signal' = [signal EXCEPT ![l] = s]
      BY <1>9 DEF printReady, sigwait
    <3> QED
      BY <3>1 DEF TypeOK
  <2> QED
    BY <1>9, <2>1, <2>2, <2>3 DEF printReady, sigwait, mapVars, TypeOK
<1>10. ASSUME NEW l \in Loader, readStatistics(l) PROVE TypeOK'
  <2>1. PICK status \in {"0", "1"} : returnFromMain(l, status)
    BY <1>10 DEF readStatistics
  <2>2. /\ pc' \in [Process -> Steps] /\ code' \in [Process -> {"none", "0", "1"}]
        /\ unwinding' \in [Loader -> BOOLEAN]
    <3>1. CASE unwind(l, status)
      BY <1>4, <3>1
    <3>2. CASE exit(l, status) /\ UNCHANGED unwinding
      <4>1. pc' \in [Process -> Steps] /\ code' \in [Process -> {"none", "0", "1"}]
        BY <1>2, <3>2, ProcessFacts
      <4> QED
        BY <3>2, <4>1 DEF TypeOK
    <3> QED
      BY <2>1, <3>1, <3>2 DEF returnFromMain
  <2>3. refusals' \in 0 .. Refusals
    BY <1>3, <1>10 DEF readStatistics, TypeOK
  <2> QED
    BY <1>10, <2>2, <2>3 DEF readStatistics, mapVars, TypeOK
<1>11. ASSUME NEW d \in Detacher,
              detachExpectedProgram(d) \/ bpfProgGetFdById(d) \/ reportDetached(d)
       PROVE  TypeOK'
  <2>1. pc' \in [Process -> Steps] /\ code' \in [Process -> {"none", "0", "1"}]
    BY <1>1, <1>2, <1>11, ProcessFacts
       DEF detachExpectedProgram, bpfProgGetFdById, reportDetached, TypeOK, Steps
  <2>2. refusals' \in 0 .. Refusals
    BY <1>3, <1>11 DEF detachExpectedProgram, bpfProgGetFdById, reportDetached, TypeOK
  <2> QED
    BY <1>11, <2>1, <2>2 DEF detachExpectedProgram, bpfProgGetFdById, reportDetached, loaderVars,
       mapVars, TypeOK
<1>12. ASSUME NEW p \in Process, detached(p) \/ notDetached(p)
       PROVE  /\ pc' \in [Process -> Steps] /\ code' \in [Process -> {"none", "0", "1"}]
              /\ attached' \in [Loader -> BOOLEAN] /\ failed' \in [Loader -> BOOLEAN]
              /\ unwinding' \in [Loader -> BOOLEAN]
  BY <1>1, <1>2, <1>12 DEF detached, notDetached, cleanupFails, TypeOK, Steps
<1>13. ASSUME NEW p \in Process, queryAttachedProgramId(p) \/ bpfXdpDetach(p) PROVE TypeOK'
  <2>1. /\ pc' \in [Process -> Steps] /\ code' \in [Process -> {"none", "0", "1"}]
        /\ attached' \in [Loader -> BOOLEAN] /\ failed' \in [Loader -> BOOLEAN]
        /\ unwinding' \in [Loader -> BOOLEAN]
    BY <1>1, <1>12, <1>13 DEF queryAttachedProgramId, bpfXdpDetach, TypeOK, Steps
  <2>2. refusals' \in 0 .. Refusals /\ hook' \in Loader \cup {"none", "other"}
    BY <1>3, <1>13 DEF queryAttachedProgramId, bpfXdpDetach, TypeOK
  <2> QED
    BY <1>13, <2>1, <2>2 DEF queryAttachedProgramId, bpfXdpDetach, mapVars, TypeOK
<1>14. CASE ReadConfig \/ RedirectPacket
  <2> DEFINE Packets == [step : {"none", "select"}, program : Loader \cup {"none"},
                         count : 0 .. Slots,
                         verdict : Backend \cup {"none", "pass", "drop", "invalid"}]
  <2>1. \A v \in Backend \cup {"none", "pass", "drop", "invalid"} :
          Answer(v) \in Packets /\ Answer(v).step = "none"
    BY LoaderBounds DEF Answer
  <2>2. ASSUME ReadConfig
        PROVE  packet' \in Packets /\ (packet'.step = "select" => packet'.program \in Loader)
    <3>1. hook \in Loader /\ count[hook] \in 0 .. Slots
      BY <2>2 DEF ReadConfig, TypeOK
    <3>2. hook \in Loader /\ [step |-> "select", program |-> hook, count |-> count[hook],
                              verdict |-> "none"] \in Packets
      BY <3>1
    <3>3. \/ packet' \in Packets /\ packet'.step = "none"
          \/ packet' = [step |-> "select", program |-> hook, count |-> count[hook], verdict |-> "none"]
      BY <2>1, <2>2 DEF ReadConfig, Answer
    <3> QED
      BY <3>2, <3>3
  <2>3. ASSUME RedirectPacket
        PROVE  packet' \in Packets /\ (packet'.step = "select" => packet'.program \in Loader)
    <3>1. PICK key \in 1 .. packet.count :
            \/ packet' = Answer(IF backends[packet.program][key] = "empty" THEN "invalid"
                                ELSE backends[packet.program][key])
            \/ packet' = Answer("drop")
      BY <2>3 DEF RedirectPacket
    <3>2. packet.program \in Loader /\ packet.count \in 0 .. Slots
      BY <2>3 DEF RedirectPacket, TypeOK
    <3>3. backends[packet.program][key] \in Backend \cup {"empty"}
      BY <3>2, LoaderBounds DEF TypeOK
    <3> QED
      BY <2>1, <3>1, <3>3 DEF Answer
  <2> QED
    BY <1>14, <2>2, <2>3 DEF ReadConfig, RedirectPacket, processesUnchanged, loaderVars, mapVars, TypeOK
<1> QED
  BY <1>5, <1>6, <1>7, <1>8, <1>9, <1>10, <1>11, <1>13, <1>14 DEF Next, Run
-----------------------------------------------------------------------------
\* The interface changes in two ways only while a process takes a step.
LEMMA HookStep ==
  ASSUME TypeOK, NEW p \in Process, Run(p) \/ Kill(p)
  PROVE  \/ hook' = hook
         \/ hook = Expected(p) /\ hook' = "none"
         \/ p \in Loader /\ pc[p] = "attach" /\ hook = "none" /\ hook' = p
<1>1. CASE bpfXdpDetach(p)
  BY <1>1 DEF bpfXdpDetach, comparesEqual
<1>2. CASE p \in Loader /\ attachProgram(p)
  BY <1>2 DEF attachProgram, updateIfNoExist
<1>3. CASE Kill(p) \/ queryAttachedProgramId(p)
  BY <1>3 DEF Kill, queryAttachedProgramId
<1>4. CASE p \in Detacher /\ (detachExpectedProgram(p) \/ bpfProgGetFdById(p) \/ reportDetached(p))
  BY <1>4 DEF detachExpectedProgram, bpfProgGetFdById, reportDetached
<1>5. CASE p \in Loader /\ (loadObject(p) \/ writeBackend(p) \/ writeConfig(p) \/ readBack(p))
  BY <1>5 DEF loadObject, writeBackend, writeConfig, readBack
<1>6. CASE p \in Loader /\ (freezeBackends(p) \/ freezeConfig(p) \/ printReady(p) \/ sigwait(p)
                            \/ readStatistics(p))
  BY <1>6 DEF freezeBackends, freezeConfig, printReady, sigwait, readStatistics
<1> QED
  BY <1>1, <1>2, <1>3, <1>4, <1>5, <1>6 DEF Run

\* The initial state has its type.
LEMMA TypeInit == Init => TypeOK
<1> SUFFICES ASSUME Init PROVE TypeOK
  OBVIOUS
<1>1. pc \in [Process -> Steps] /\ code \in [Process -> {"none", "0", "1"}]
  BY DEF Init, Steps
<1>2. at \in [Loader -> 1 .. Slots + 1] /\ count \in [Loader -> 0 .. Slots]
  BY LoaderBounds DEF Init
<1>3. backends \in [Loader -> [1 .. Slots -> Backend \cup {"empty"}]]
  BY DEF Init
<1>4. valid \in [Loader -> BOOLEAN] /\ frozen \in [Loader -> SUBSET {"backends", "config"}]
  BY DEF Init
<1>5. /\ attached \in [Loader -> BOOLEAN] /\ failed \in [Loader -> BOOLEAN]
      /\ unwinding \in [Loader -> BOOLEAN]
  BY DEF Init
<1>6. signal \in [Loader -> {"none", "TERM", "PIPE"}] /\ hook \in Loader \cup {"none", "other"}
  BY DEF Init
<1>7. /\ packet \in [step : {"none", "select"}, program : Loader \cup {"none"}, count : 0 .. Slots,
                     verdict : Backend \cup {"none", "pass", "drop", "invalid"}]
      /\ packet.step # "select"
  BY LoaderBounds DEF Init, Answer
<1>8. refusals \in 0 .. Refusals
  BY LoaderBounds DEF Init
<1> QED
  BY <1>1, <1>2, <1>3, <1>4, <1>5, <1>6, <1>7, <1>8 DEF TypeOK

\* Every variable of every process keeps its type, for any number of loaders,
\* detach processes and map entries (XdpAttachment.cpp, main.cpp).
THEOREM TypeCorrect == Spec => []TypeOK
  BY TypeInit, TypeStep, PTL DEF Spec

\* Whoever is on the interface is removed only by the process whose program it is
\* or that was told its id, and replaced by nobody (detachExpectedProgramFd,
\* attachProgram).
THEOREM HookSafe == Spec => HookIsRespected
<1>1. ASSUME TypeOK, [Next]_vars, NEW q \in Process, pc'[q] # pc[q], hook' # hook
      PROVE  \/ hook = "none" /\ hook' = q
             \/ hook = Expected(q) /\ hook' = "none"
  <2>1. PICK p \in Process : Run(p) \/ Kill(p)
    BY <1>1 DEF Next, vars, ReadConfig, RedirectPacket, processesUnchanged, OtherUser
  <2>2. p = q
    BY <1>1, <2>1, Locality DEF Local
  <2> QED
    BY <1>1, <2>1, <2>2, HookStep
<1>2. TypeOK /\ [Next]_vars =>
        [\A p \in Process : pc'[p] # pc[p] /\ hook' # hook =>
           \/ hook = "none" /\ hook' = p
           \/ hook = Expected(p) /\ hook' = "none"]_vars
  BY <1>1
<1> QED
  BY <1>2, TypeCorrect, PTL DEF Spec, HookIsRespected
-----------------------------------------------------------------------------
(***************************************************************************)
(* The inductive invariant: a loader that has passed its attach step, or   *)
(* whose program is on the hook or at work on a packet, changes its maps   *)
(* no more, so what was read back and frozen before stays as it is.        *)
(***************************************************************************)

Past == {"ready", "wait", "query", "clear", "statistics", "exit", "killed"}

InUse(l) == hook = l \/ (packet.step = "select" /\ packet.program = l)

Complete(l) == Written(l) /\ frozen[l] = {"backends", "config"}

\* What the maps hold at each stage.
Filled(l) ==
  Profile[l] # "legacy" =>
    /\ pc[l] = "freezeBackends" => Written(l)
    /\ pc[l] = "freezeConfig" => Written(l) /\ "backends" \in frozen[l]
    /\ pc[l] = "attach" \/ InUse(l) => Complete(l)

\* Where the loader is while its program is on the hook, or may be.
Placed(l) ==
  /\ attached[l] => pc[l] \in Past
  /\ InUse(l) => pc[l] \in Past
  /\ hook = l => attached[l]

\* What its status says of the program.
Reported(l) ==
  /\ pc[l] = "statistics" => ~unwinding[l] /\ (attached[l] => failed[l])
  /\ unwinding[l] => code[l] = "1"
  /\ pc[l] = "exit" /\ code[l] = "0" => ~attached[l]

\* A detach process starts after the attach step, and ends well without the program.
Removed(d) ==
  /\ pc[d] \in {"open", "query", "clear", "report", "exit"} => pc[Target[d]] \in Past
  /\ pc[d] = "report" => hook # Target[d]
  /\ pc[d] = "exit" /\ code[d] = "0" => hook # Target[d]

\* The packet was let in by a program that is complete.
Answered ==
  /\ packet.verdict # "invalid"
  /\ packet.step = "select" =>
       Profile[packet.program] = "dsr" /\ packet.count = Len(Config[packet.program])

Inv ==
  /\ TypeOK /\ Answered
  /\ \A l \in Loader : Filled(l) /\ Placed(l) /\ Reported(l)
  /\ \A d \in Detacher : Removed(d)

\* Nothing in a loader's maps changes.
SameMaps(l) ==
  /\ backends'[l] = backends[l] /\ count'[l] = count[l] /\ valid'[l] = valid[l]
  /\ frozen'[l] = frozen[l]

\* What a loader has written depends on its own maps only.
LEMMA MapsStay ==
  ASSUME NEW l \in Loader, SameMaps(l)
  PROVE  Written(l)' = Written(l) /\ Complete(l)' = Complete(l)
  BY DEF SameMaps, Written, Complete, Entry

\* A step of another process.
LEMMA OthersStay ==
  ASSUME TypeOK, NEW p \in Process, Run(p) \/ Kill(p), NEW l \in Loader, l # p,
         Filled(l), Placed(l), Reported(l)
  PROVE  Filled(l)' /\ Placed(l)' /\ Reported(l)'
<1>1. /\ pc'[l] = pc[l] /\ code'[l] = code[l] /\ SameMaps(l) /\ attached'[l] = attached[l]
      /\ failed'[l] = failed[l] /\ unwinding'[l] = unwinding[l] /\ packet' = packet
  BY Locality, ProcessFacts DEF Local, SameMaps
<1>2. hook' = l => hook = l
  BY HookStep, ProcessFacts
<1>3. InUse(l)' => InUse(l)
  BY <1>1, <1>2 DEF InUse
<1>4. Filled(l)'
  BY <1>1, <1>3, MapsStay DEF Filled, SameMaps
<1>5. Placed(l)'
  BY <1>1, <1>2, <1>3 DEF Placed
<1>6. Reported(l)'
  BY <1>1 DEF Reported
<1> QED
  BY <1>4, <1>5, <1>6

\* A loader that fills its maps is not in use, and says nothing yet.
LEMMA WritingStep ==
  ASSUME TypeOK, NEW l \in Loader, Filled(l), Placed(l), Reported(l),
         \/ loadObject(l) \/ writeBackend(l) \/ writeConfig(l)
         \/ readBack(l) \/ freezeBackends(l) \/ freezeConfig(l),
         TypeOK'
  PROVE  Filled(l)' /\ Placed(l)' /\ Reported(l)'
<1>1. /\ pc[l] \in {"load", "write", "verify", "freezeBackends", "freezeConfig"}
      /\ hook' = hook /\ packet' = packet /\ attached' = attached /\ failed' = failed
      /\ unwinding' = unwinding
  BY DEF loadObject, writeBackend, writeConfig, readBack, freezeBackends, freezeConfig, loaderVars
<1>2. ~attached[l] /\ ~InUse(l) /\ hook # l
  BY <1>1 DEF Placed, Past
<1>3. ~attached'[l] /\ ~InUse(l)' /\ hook' # l
  BY <1>1, <1>2 DEF InUse
<1>4. Placed(l)'
  BY <1>3 DEF Placed
<1>5. \/ code' = code \/ code' = [code EXCEPT ![l] = "1"]
  BY DEF loadObject, writeBackend, writeConfig, readBack, freezeBackends, freezeConfig, syncFails, exit
<1>6. code'[l] = code[l] \/ code'[l] = "1"
  BY <1>5, ProcessFacts DEF TypeOK
<1>7. Reported(l)'
  <2>1. pc'[l] # "statistics"
    <3>1. ASSUME NEW step, goto(l, step) PROVE pc'[l] = step
      BY <3>1, ProcessFacts DEF goto, TypeOK
    <3>2. pc' = pc \/ \E step \in {"write", "verify", "freezeBackends", "freezeConfig", "attach", "exit"} :
                       goto(l, step)
      BY DEF loadObject, writeBackend, writeConfig, readBack, freezeBackends, freezeConfig, syncFails, exit
    <3> QED
      BY <1>1, <3>1, <3>2
  <2> QED
    BY <1>1, <1>3, <1>6, <2>1 DEF Reported
<1>8. Filled(l)'
  <2>1. CASE loadObject(l) \/ writeBackend(l) \/ writeConfig(l)
    <3>1. pc'[l] \in {"write", "verify", "exit"} \/ Profile[l] = "legacy"
      BY <2>1, ProcessFacts DEF loadObject, writeBackend, writeConfig, goto, syncFails, exit, TypeOK
    <3> QED
      BY <1>3, <3>1 DEF Filled
  <2>2. CASE readBack(l)
    <3>1. SameMaps(l)
      BY <2>2 DEF readBack, loaderVars, mapVars, SameMaps
    <3>2. pc'[l] = "exit" \/ (pc'[l] = "freezeBackends" /\ Written(l))
      BY <2>2, ProcessFacts DEF readBack, goto, syncFails, exit, TypeOK
    <3> QED
      BY <1>3, <3>1, <3>2, MapsStay DEF Filled
  <2>3. CASE freezeBackends(l)
    <3>1. Written(l)' = Written(l)
      BY <2>3 DEF freezeBackends, Written, Entry
    <3>2. \/ pc'[l] = "exit"
          \/ pc'[l] = "freezeConfig" /\ "backends" \in frozen'[l]
      BY <2>3, ProcessFacts DEF freezeBackends, goto, syncFails, exit, TypeOK
    <3>3. Profile[l] # "legacy" => Written(l)
      BY <2>3 DEF Filled, freezeBackends
    <3> QED
      BY <1>3, <3>1, <3>2, <3>3 DEF Filled
  <2>4. CASE freezeConfig(l)
    <3>1. Written(l)' = Written(l)
      BY <2>4 DEF freezeConfig, Written, Entry
    <3>2. \/ pc'[l] = "exit"
          \/ pc'[l] = "attach" /\ frozen'[l] = frozen[l] \cup {"config"}
      BY <2>4, ProcessFacts DEF freezeConfig, goto, syncFails, exit, TypeOK
    <3>3. Profile[l] # "legacy" => Written(l) /\ "backends" \in frozen[l]
      BY <2>4 DEF Filled, freezeConfig
    <3>4. frozen[l] \subseteq {"backends", "config"}
      BY DEF TypeOK
    <3>5. Profile[l] # "legacy" /\ pc'[l] = "attach" => Complete(l)'
      BY <3>1, <3>2, <3>3, <3>4 DEF Complete
    <3> QED
      BY <1>3, <3>2, <3>5 DEF Filled
  <2> QED
    BY <2>1, <2>2, <2>3, <2>4
<1> QED
  BY <1>4, <1>7, <1>8

\* The loader attaches to an empty hook, after its maps are complete, or exits with 1.
LEMMA AttachStep ==
  ASSUME TypeOK, NEW l \in Loader, Filled(l), Placed(l), Reported(l), attachProgram(l)
  PROVE  Filled(l)' /\ Placed(l)' /\ Reported(l)'
<1>1. /\ pc[l] = "attach" /\ SameMaps(l) /\ packet' = packet /\ failed' = failed
      /\ unwinding' = unwinding
  BY DEF attachProgram, mapVars, SameMaps
<1>2. ~attached[l] /\ ~InUse(l)
  BY <1>1 DEF Placed, Past
<1>3. \/ hook' = l /\ attached'[l] /\ pc'[l] = "ready" /\ code'[l] = code[l]
      \/ hook' = hook /\ attached' = attached /\ pc'[l] = "exit" /\ code'[l] = "1"
  BY ProcessFacts DEF attachProgram, goto, exit, TypeOK
<1>4. Filled(l)'
  BY <1>1, <1>3, MapsStay DEF Filled, InUse
<1>5. Placed(l)'
  BY <1>1, <1>2, <1>3 DEF Placed, InUse, Past
<1>6. Reported(l)'
  BY <1>1, <1>2, <1>3 DEF Reported
<1> QED
  BY <1>4, <1>5, <1>6

\* After the attach step, or when it is killed, a loader leaves its maps alone.
LEMMA PastStays ==
  ASSUME NEW l \in Loader, Filled(l), SameMaps(l), packet' = packet, hook' = l => hook = l,
         pc'[l] \in Past
  PROVE  Filled(l)'
<1>1. InUse(l)' => InUse(l)
  BY DEF InUse
<1>2. pc'[l] # "freezeBackends" /\ pc'[l] # "freezeConfig" /\ pc'[l] # "attach"
  BY DEF Past
<1> QED
  BY <1>1, <1>2, MapsStay DEF Filled

\* A killed loader leaves its maps and its program where they are.
LEMMA KillStep ==
  ASSUME TypeOK, NEW l \in Loader, Filled(l), Placed(l), Reported(l), Kill(l)
  PROVE  Filled(l)' /\ Placed(l)' /\ Reported(l)'
<1>1. /\ SameMaps(l) /\ packet' = packet /\ hook' = hook /\ attached' = attached /\ code' = code
      /\ unwinding' = unwinding
  BY DEF Kill, loaderVars, mapVars, SameMaps
<1>2. pc'[l] = "killed" /\ pc'[l] \in Past
  BY ProcessFacts DEF Kill, goto, TypeOK, Past
<1>3. Placed(l)'
  BY <1>1, <1>2 DEF Placed, InUse
<1>4. Reported(l)'
  BY <1>1, <1>2 DEF Reported
<1> QED
  BY <1>1, <1>2, <1>3, <1>4, PastStays

\* A loader that is attached, or has left main for its destructor.
LEMMA AttachedStep ==
  ASSUME TypeOK, NEW l \in Loader, Filled(l), Placed(l), Reported(l),
         printReady(l) \/ sigwait(l) \/ readStatistics(l)
  PROVE  Filled(l)' /\ Placed(l)' /\ Reported(l)'
<1>1. /\ SameMaps(l) /\ packet' = packet /\ hook' = hook /\ attached' = attached /\ failed' = failed
  BY DEF printReady, sigwait, readStatistics, mapVars, SameMaps
<1>2. CASE printReady(l) \/ sigwait(l)
  <2>1. \/ pc'[l] \in {"wait", "query"} /\ unwinding'[l] = unwinding[l] /\ code'[l] = code[l]
        \/ pc'[l] = "query" /\ code'[l] = "1"
    BY <1>2, ProcessFacts DEF printReady, sigwait, goto, unwind, TypeOK
  <2>2. pc'[l] \in Past
    BY <2>1 DEF Past
  <2>3. Placed(l)'
    BY <1>1, <2>2 DEF Placed, InUse
  <2>4. Reported(l)'
    BY <1>1, <2>1 DEF Reported
  <2> QED
    BY <1>1, <2>2, <2>3, <2>4, PastStays
<1>3. CASE readStatistics(l)
  <2>1. PICK status \in {"0", "1"} : returnFromMain(l, status) /\ (failed[l] => status = "1")
    BY <1>3 DEF readStatistics
  <2>2. ~unwinding[l] /\ (attached[l] => failed[l])
    BY <1>3 DEF readStatistics, Reported
  <2>3. \/ pc'[l] = "query" /\ code'[l] = "1"
        \/ pc'[l] = "exit" /\ ~attached[l] /\ unwinding'[l] = unwinding[l] /\ code'[l] = status
    BY <2>1, <2>2, ProcessFacts DEF returnFromMain, goto, exit, unwind, TypeOK
  <2>4. pc'[l] \in Past
    BY <2>3 DEF Past
  <2>5. Placed(l)'
    BY <1>1, <2>4 DEF Placed, InUse
  <2>6. Reported(l)'
    BY <1>1, <2>2, <2>3 DEF Reported
  <2> QED
    BY <1>1, <2>4, <2>5, <2>6, PastStays
<1> QED
  BY <1>2, <1>3

\* A loader on its way out clears the hook of no program but its own.
LEMMA LoaderDetachStep ==
  ASSUME TypeOK, NEW l \in Loader, Filled(l), Placed(l), Reported(l),
         queryAttachedProgramId(l) \/ bpfXdpDetach(l)
  PROVE  Filled(l)' /\ Placed(l)' /\ Reported(l)'
<1>1. SameMaps(l) /\ packet' = packet /\ code' = code
  BY ProcessFacts DEF queryAttachedProgramId, bpfXdpDetach, detached, notDetached, mapVars, SameMaps
<1>2. hook' = hook \/ hook' = "none"
  BY DEF queryAttachedProgramId, bpfXdpDetach
<1>3. hook' = l => hook = l
  BY <1>2, ProcessFacts
<1>4. unwinding' = unwinding
  BY ProcessFacts DEF queryAttachedProgramId, bpfXdpDetach, detached, notDetached
<1>5. \/ /\ ~attached'[l] /\ hook' # l
         /\ \/ pc'[l] = "exit"
            \/ pc'[l] = "statistics" /\ ~unwinding[l]
      \/ /\ attached' = attached
         /\ \/ pc'[l] = "clear"
            \/ pc'[l] = "statistics" /\ ~unwinding[l] /\ failed'[l]
            \/ pc'[l] = "exit" /\ unwinding[l]
  <2>1. ASSUME detached(l)
        PROVE  ~attached'[l] /\ (pc'[l] = "exit" \/ (pc'[l] = "statistics" /\ ~unwinding[l]))
    BY <2>1, ProcessFacts DEF detached, goto, TypeOK
  <2>2. ASSUME notDetached(l)
        PROVE  /\ attached' = attached
               /\ \/ pc'[l] = "statistics" /\ ~unwinding[l] /\ failed'[l]
                  \/ pc'[l] = "exit" /\ unwinding[l]
    BY <2>2, ProcessFacts DEF notDetached, cleanupFails, goto, TypeOK
  <2>3. CASE queryAttachedProgramId(l)
    <3>1. ASSUME goto(l, "clear") PROVE pc'[l] = "clear"
      BY <3>1, ProcessFacts DEF goto, TypeOK
    <3>2. \/ hook' = "none" /\ detached(l)
          \/ notDetached(l)
          \/ goto(l, "clear") /\ attached' = attached
      BY <2>3 DEF queryAttachedProgramId
    <3> QED
      BY <2>1, <2>2, <3>1, <3>2, ProcessFacts
  <2>4. CASE bpfXdpDetach(l)
    <3>1. (hook' = "none" /\ detached(l)) \/ notDetached(l)
      BY <2>4 DEF bpfXdpDetach
    <3> QED
      BY <2>1, <2>2, <3>1, ProcessFacts
  <2> QED
    BY <2>3, <2>4
<1>6. pc'[l] \in Past
  BY <1>5 DEF Past
<1>7. Placed(l)'
  BY <1>3, <1>5, <1>6 DEF Placed
<1>8. Reported(l)'
  BY <1>1, <1>4, <1>5 DEF Reported
<1> QED
  BY <1>1, <1>3, <1>6, <1>7, <1>8, PastStays

\* Every step of a process keeps what is known of all loaders.
LEMMA LoadersStep ==
  ASSUME TypeOK, TypeOK', NEW p \in Process, Run(p) \/ Kill(p),
         NEW l \in Loader, Filled(l), Placed(l), Reported(l)
  PROVE  Filled(l)' /\ Placed(l)' /\ Reported(l)'
<1>1. CASE l # p
  BY <1>1, OthersStay
<1>2. CASE l = p
  <2>1. l \notin Detacher
    BY ProcessFacts
  <2> QED
    BY <1>2, <2>1, WritingStep, AttachStep, KillStep, AttachedStep, LoaderDetachStep DEF Run
<1> QED
  BY <1>1, <1>2
-----------------------------------------------------------------------------
\* A loader that is past its attach step stays so.
LEMMA PastForGood ==
  ASSUME TypeOK, NEW p \in Process, Run(p) \/ Kill(p), NEW l \in Loader, pc[l] \in Past
  PROVE  pc'[l] \in Past
<1>1. CASE l # p
  BY <1>1, Locality, ProcessFacts DEF Local
<1>2. CASE l = p
  <2>1. ASSUME NEW step, goto(l, step) PROVE pc'[l] = step
    BY <2>1, ProcessFacts DEF goto, TypeOK
  <2>2. CASE Kill(l)
    BY <2>1, <2>2 DEF Kill, Past
  <2>3. CASE printReady(l) \/ sigwait(l) \/ readStatistics(l)
    <3>1. \E step \in {"wait", "query", "exit"} : goto(l, step)
      BY <2>3 DEF printReady, sigwait, readStatistics, returnFromMain, unwind, exit
    <3> QED
      BY <2>1, <3>1 DEF Past
  <2>4. CASE queryAttachedProgramId(l) \/ bpfXdpDetach(l)
    <3>1. l \notin Detacher
      BY ProcessFacts
    <3>2. \E step \in {"clear", "statistics", "exit"} : goto(l, step)
      BY <2>4, <3>1 DEF queryAttachedProgramId, bpfXdpDetach, detached, notDetached, exit
    <3> QED
      BY <2>1, <3>2 DEF Past
  <2>5. l \notin Detacher
    BY ProcessFacts
  <2>6. ~(\/ loadObject(l) \/ writeBackend(l) \/ writeConfig(l) \/ readBack(l)
          \/ freezeBackends(l) \/ freezeConfig(l) \/ attachProgram(l))
    BY DEF Past, loadObject, writeBackend, writeConfig, readBack, freezeBackends, freezeConfig,
       attachProgram
  <2> QED
    BY <1>2, <2>2, <2>3, <2>4, <2>5, <2>6 DEF Run
<1> QED
  BY <1>1, <1>2

\* What a detach process has removed does not come back.
LEMMA DetachersStep ==
  ASSUME Inv, NEW p \in Process, Run(p) \/ Kill(p), NEW d \in Detacher
  PROVE  Removed(d)'
<1> DEFINE t == Target[d]
<1>1. TypeOK /\ Removed(d) /\ t \in Loader /\ d \in Process /\ d \notin Loader /\ Placed(t)
  BY ProcessFacts DEF Inv
<1>2. pc[t] \in Past => pc'[t] \in Past
  BY <1>1, PastForGood
<1>3. pc[t] \in Past /\ hook # t => hook' # t
  BY <1>1, HookStep, ProcessFacts DEF Past
<1> HIDE DEF t
<1>4. CASE p # d
  <2>1. pc'[d] = pc[d] /\ code'[d] = code[d]
    BY <1>1, <1>4, Locality DEF Local
  <2> QED
    BY <1>1, <1>2, <1>3, <2>1 DEF Removed, t
<1>5. CASE p = d
  <2>1. ASSUME NEW step, goto(d, step) PROVE pc'[d] = step
    BY <1>1, <2>1 DEF goto, TypeOK
  <2>2. ASSUME NEW status, exit(d, status) PROVE pc'[d] = "exit" /\ code'[d] = status
    BY <1>1, <2>2 DEF exit, goto, TypeOK
  <2>3. t # "none"
    BY <1>1, ProcessFacts
  <2>4. CASE Kill(d)
    BY <2>1, <2>4 DEF Kill, Removed
  <2>5. CASE detachExpectedProgram(d)
    <3>1. pc[t] \in Past
      BY <1>1, <2>5 DEF detachExpectedProgram, HasAttached, Placed, Past, t
    <3>2. hook' = hook /\ ((hook = "none" /\ goto(d, "report")) \/ goto(d, "open") \/ exit(d, "1"))
      BY <2>5 DEF detachExpectedProgram
    <3> QED
      BY <1>2, <2>1, <2>2, <2>3, <3>1, <3>2 DEF Removed, t
  <2>6. CASE bpfProgGetFdById(d)
    <3>1. pc[t] \in Past
      BY <1>1, <2>6 DEF bpfProgGetFdById, Removed, t
    <3>2. goto(d, "query") \/ exit(d, "1")
      BY <2>6 DEF bpfProgGetFdById
    <3> QED
      BY <1>2, <2>1, <2>2, <3>1, <3>2 DEF Removed, t
  <2>7. CASE reportDetached(d)
    <3>1. pc[t] \in Past /\ hook # t
      BY <1>1, <2>7 DEF reportDetached, Removed, t
    <3>2. hook' = hook /\ \E status \in {"0", "1"} : exit(d, status)
      BY <2>7 DEF reportDetached
    <3> QED
      BY <1>2, <2>2, <3>1, <3>2 DEF Removed, t
  <2>8. CASE queryAttachedProgramId(d) \/ bpfXdpDetach(d)
    <3>1. pc[t] \in Past
      BY <1>1, <2>8 DEF queryAttachedProgramId, bpfXdpDetach, Removed, t
    <3>2. \/ hook' = "none" /\ goto(d, "report")
          \/ exit(d, "1")
          \/ goto(d, "clear")
      BY <1>1, <2>8 DEF queryAttachedProgramId, bpfXdpDetach, detached, notDetached
    <3> QED
      BY <1>2, <2>1, <2>2, <2>3, <3>1, <3>2 DEF Removed, t
  <2> QED
    BY <1>1, <1>5, <2>4, <2>5, <2>6, <2>7, <2>8 DEF Run
<1> QED
  BY <1>4, <1>5
-----------------------------------------------------------------------------
\* A packet that the program of a complete loader takes in is answered from the
\* configuration.
LEMMA PacketStep ==
  ASSUME Inv, ReadConfig \/ RedirectPacket
  PROVE  Answered' /\ \A l \in Loader : InUse(l)' => InUse(l)
<1>1. hook' = hook
  BY DEF ReadConfig, RedirectPacket, processesUnchanged
<1>2. \A v : Answer(v).verdict = v /\ Answer(v).step = "none"
  BY DEF Answer
<1>3. CASE ReadConfig
  <2>1. hook \in Loader /\ Profile[hook] = "dsr"
    BY <1>3 DEF ReadConfig
  <2>2. Complete(hook)
    BY <2>1 DEF Inv, Filled, InUse
  <2>3. valid[hook] /\ count[hook] = Len(Config[hook])
    BY <2>2 DEF Complete, Written
  <2>4. \/ packet' = Answer("pass")
        \/ packet' = [step |-> "select", program |-> hook, count |-> count[hook], verdict |-> "none"]
    BY <1>3, <2>3 DEF ReadConfig
  <2>5. CASE packet' = Answer("pass")
    BY <1>1, <1>2, <2>5 DEF Answered, InUse
  <2>6. CASE packet' = [step |-> "select", program |-> hook, count |-> count[hook],
                        verdict |-> "none"]
    <3>1. /\ packet'.step = "select" /\ packet'.program = hook /\ packet'.count = count[hook]
          /\ packet'.verdict = "none"
      BY <2>6
    <3> QED
      BY <1>1, <2>1, <2>3, <3>1 DEF Answered, InUse
  <2> QED
    BY <2>4, <2>5, <2>6
<1>4. CASE RedirectPacket
  <2>1. PICK key \in 1 .. packet.count :
          \/ packet' = Answer(IF backends[packet.program][key] = "empty" THEN "invalid"
                              ELSE backends[packet.program][key])
          \/ packet' = Answer("drop")
    BY <1>4 DEF RedirectPacket
  <2> DEFINE l == packet.program
  <2>2. l \in Loader /\ Profile[l] = "dsr" /\ packet.count = Len(Config[l]) /\ InUse(l)
    BY <1>4 DEF RedirectPacket, Inv, TypeOK, Answered, InUse
  <2>3. Complete(l)
    BY <2>2 DEF Inv, Filled
  <2> HIDE DEF l
  <2>4. Len(Config[l]) \in Nat /\ Len(Config[l]) <= Slots /\ Slots \in Nat
    BY <2>2, LoaderBounds
  <2>5. key \in 1 .. Slots /\ key <= Len(Config[l])
    BY <2>1, <2>2, <2>4
  <2>6. backends[l][key] = Entry(l, key)
    BY <2>3, <2>5 DEF Complete, Written
  <2>7. Entry(l, key) \in Backend /\ Entry(l, key) # "empty"
    BY <2>2, <2>5, EntryType
  <2>8. backends[l][key] # "empty" /\ backends[l][key] # "invalid"
    BY <2>6, <2>7, LoaderBounds
  <2>9. packet' = Answer(backends[l][key]) \/ packet' = Answer("drop")
    BY <2>1, <2>8 DEF l
  <2>10. packet'.verdict # "invalid" /\ packet'.step = "none"
    BY <1>2, <2>8, <2>9
  <2> QED
    BY <1>1, <2>10 DEF Answered, InUse
<1> QED
  BY <1>3, <1>4

\* Packets and other users of the interface take no process anywhere.
LEMMA EnvironmentStep ==
  ASSUME Inv, ReadConfig \/ RedirectPacket \/ OtherUser \/ UNCHANGED vars, TypeOK'
  PROVE  Inv'
<1>1. UNCHANGED <<pc, backends, count, valid, frozen, attached, failed, unwinding, code>>
  BY DEF ReadConfig, RedirectPacket, processesUnchanged, OtherUser, vars, loaderVars, mapVars
<1>2. Answered' /\ \A l \in Loader : (InUse(l)' => InUse(l)) /\ (hook' = l => hook = l)
  <2>1. CASE ReadConfig \/ RedirectPacket
    <3>1. hook' = hook
      BY <2>1 DEF ReadConfig, RedirectPacket, processesUnchanged
    <3> QED
      BY <2>1, <3>1, PacketStep
  <2>2. CASE OtherUser \/ UNCHANGED vars
    <3>1. packet' = packet /\ (hook' = hook \/ hook' = "none" \/ hook' = "other")
      BY <2>2 DEF OtherUser, vars
    <3>2. Answered'
      BY <3>1 DEF Inv, Answered
    <3> QED
      BY <3>1, <3>2, ProcessFacts DEF InUse
  <2> QED
    BY <2>1, <2>2
<1>3. \A l \in Loader : SameMaps(l)
  BY <1>1 DEF SameMaps
<1>4. ASSUME NEW l \in Loader PROVE Filled(l)' /\ Placed(l)' /\ Reported(l)'
  <2>1. Filled(l) /\ Placed(l) /\ Reported(l)
    BY DEF Inv
  <2>2. Filled(l)'
    BY <1>1, <1>2, <1>3, <2>1, MapsStay DEF Filled
  <2>3. Placed(l)' /\ Reported(l)'
    BY <1>1, <1>2, <2>1 DEF Placed, Reported
  <2> QED
    BY <2>2, <2>3
<1>5. ASSUME NEW d \in Detacher PROVE Removed(d)'
  <2>1. Removed(d) /\ Target[d] \in Loader
    BY ProcessFacts DEF Inv
  <2> QED
    BY <1>1, <1>2, <2>1 DEF Removed
<1> QED
  BY <1>2, <1>4, <1>5 DEF Inv

\* No process has started and the hook may hold a program of an outsider.
LEMMA InvInit == Init => Inv
<1> SUFFICES ASSUME Init PROVE Inv
  OBVIOUS
<1>1. TypeOK
  BY TypeInit
<1>2. packet = Answer("none") /\ packet.step = "none" /\ packet.verdict = "none"
  BY DEF Init, Answer
<1>3. ASSUME NEW l \in Loader
      PROVE  pc[l] = "load" /\ ~attached[l] /\ ~unwinding[l] /\ ~InUse(l) /\ hook # l
  BY <1>2, ProcessFacts DEF Init, InUse
<1>4. ASSUME NEW d \in Detacher PROVE pc[d] = "start"
  BY ProcessFacts DEF Init
<1>5. ASSUME NEW l \in Loader PROVE Filled(l) /\ Placed(l) /\ Reported(l)
  <2>1. pc[l] = "load" /\ ~attached[l] /\ ~unwinding[l] /\ ~InUse(l) /\ hook # l
    BY <1>3
  <2>2. Filled(l)
    BY <2>1 DEF Filled
  <2> QED
    BY <2>1, <2>2 DEF Placed, Reported
<1>6. \A d \in Detacher : Removed(d)
  BY <1>4 DEF Removed
<1> QED
  BY <1>1, <1>2, <1>5, <1>6 DEF Inv, Answered

\* Every step of every process, packet and kill preserves the invariant.
LEMMA InvStep == Inv /\ [Next]_vars => Inv'
<1> SUFFICES ASSUME Inv, [Next]_vars PROVE Inv'
  OBVIOUS
<1>1. TypeOK /\ TypeOK'
  BY TypeStep DEF Inv
<1>2. CASE \E p \in Process : Run(p) \/ Kill(p)
  <2>1. PICK p \in Process : Run(p) \/ Kill(p)
    BY <1>2
  <2>2. \A l \in Loader : Filled(l)' /\ Placed(l)' /\ Reported(l)'
    BY <1>1, <2>1, LoadersStep DEF Inv
  <2>3. \A d \in Detacher : Removed(d)'
    BY <2>1, DetachersStep
  <2>4. packet' = packet
    BY <1>1, <2>1, Locality DEF Local
  <2>5. Answered'
    BY <2>4 DEF Inv, Answered
  <2> QED
    BY <1>1, <2>2, <2>3, <2>5 DEF Inv
<1>3. CASE ReadConfig \/ RedirectPacket \/ OtherUser \/ UNCHANGED vars
  BY <1>1, <1>3, EnvironmentStep
<1> QED
  BY <1>2, <1>3 DEF Next

\* The interface runs only programs whose maps are complete and frozen, and no
\* packet is answered from anything else (synchronizeDsrConfig before
\* attachProgram), whoever is killed and whatever call fails.
THEOREM MapsSafe == Spec => []AttachedIsComplete
<1>1. Inv => AttachedIsComplete
  BY DEF Inv, Filled, InUse, Complete, Answered, AttachedIsComplete
<1> QED
  BY <1>1, InvInit, InvStep, PTL DEF Spec

\* An attach or detach process that exits with status 0 has its program off the
\* interface (main, detachExpectedProgram), and it does not come back.
THEOREM StatusSafe == Spec => []ZeroMeansOff
<1>1. Inv => ZeroMeansOff
  BY ProcessFacts DEF Inv, Placed, Reported, Removed, ZeroMeansOff, Process, Expected
<1> QED
  BY <1>1, InvInit, InvStep, PTL DEF Spec
==============================================================================
