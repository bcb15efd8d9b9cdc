------------------------------ MODULE XdpLoader ------------------------------
(***************************************************************************)
(* l4lb-xdp in its static modes: `attach` processes that load a program,   *)
(* fill its maps, attach it and wait for a signal, and `detach --prog-id`  *)
(* processes that clear up after one that was killed (src/xdp/main.cpp,    *)
(* XdpAttachment.cpp, MapStore.cpp, DsrMapStore.cpp,                       *)
(* src/control/XdpConfigSync.cpp, DsrConfigSync.cpp), with the program     *)
(* that reads the maps (src/xdp/xdp_udp_dsr.bpf.c).                        *)
(*                                                                         *)
(* The processes share the XDP hook of one interface with each other and   *)
(* with tools that know nothing of them, and any of them may be killed     *)
(* between two of its system calls.                                        *)
(***************************************************************************)
EXTENDS Naturals, Sequences

CONSTANTS
  Loader,         \* attach processes; a loader's name stands for its program's id
  Detacher,       \* detach processes
  Target,         \* detacher -> the loader whose program id it was given
  Profile,        \* loader -> "legacy", "maps" or "dsr"
  Config,         \* loader -> its backends, in the order of the command line
  Slots,          \* entries of the backend map
  Refusals        \* bound: kernel calls that fail although nothing is wrong

Process == Loader \cup Detacher
Backend == UNION {{Config[l][i] : i \in DOMAIN Config[l]} : l \in Loader}

ASSUME LoaderBounds ==
  /\ Target \in [Detacher -> Loader] /\ Profile \in [Loader -> {"legacy", "maps", "dsr"}]
  /\ Loader \cap Detacher = {} /\ "none" \notin Loader /\ "other" \notin Loader
  /\ Slots \in Nat \ {0} /\ Refusals \in Nat
  /\ \A l \in Loader : Config[l] \in Seq(Backend) /\ Len(Config[l]) <= Slots
  /\ "empty" \notin Backend /\ "invalid" \notin Backend

VARIABLES
  pc,             \* next step of each process
  at,             \* loader: the backend entry to be written
  backends,       \* loader: its backend map
  count, valid,   \* loader: its configuration map
  frozen,         \* loader: which of the two are frozen
  attached,       \* loader: attached_
  failed,         \* loader: cleanupFailed
  unwinding,      \* loader: the attempt to detach is the destructor's
  signal,         \* loader: what sigwait returned
  code,           \* exit status, once it is decided
  hook,           \* the program on the interface
  packet,         \* the program at work on a packet: its maps, count and verdict
  refusals        \* failures that may still come

mapVars == <<backends, count, valid, frozen>>
loaderVars == <<at, mapVars, attached, failed, unwinding, signal>>
vars == <<pc, loaderVars, code, hook, packet, refusals>>

\* No packet is at work, and the last one had this verdict.
Answer(verdict) == [step |-> "none", program |-> "none", count |-> 0, verdict |-> verdict]

\* The signals are blocked and the interface is resolved.
Init ==
  /\ pc = [p \in Process |-> IF p \in Loader THEN "load" ELSE "start"]
  /\ at = [l \in Loader |-> 1] /\ backends = [l \in Loader |-> [i \in 1 .. Slots |-> "empty"]]
  /\ count = [l \in Loader |-> 0] /\ valid = [l \in Loader |-> FALSE]
  /\ frozen = [l \in Loader |-> {}]
  /\ attached = [l \in Loader |-> FALSE] /\ failed = [l \in Loader |-> FALSE]
  /\ unwinding = [l \in Loader |-> FALSE] /\ signal = [l \in Loader |-> "none"]
  /\ code = [p \in Process |-> "none"] /\ hook \in {"none", "other"} /\ packet = Answer("none")
  /\ refusals = Refusals

goto(p, step) == pc' = [pc EXCEPT ![p] = step]
exit(p, status) == goto(p, "exit") /\ code' = [code EXCEPT ![p] = status]

\* A call fails for reasons of its own.
refuse == refusals > 0 /\ refusals' = refusals - 1
-----------------------------------------------------------------------------
(***************************************************************************)
(* attach: the maps are complete before the program is on the hook         *)
(***************************************************************************)

\* loadObject, up to bpf_object__load.
loadObject(l) ==
  /\ pc[l] = "load"
  /\ \/ /\ goto(l, IF Profile[l] = "legacy" THEN "attach" ELSE "write")
        /\ UNCHANGED <<code, refusals>>
     \/ refuse /\ exit(l, "1")
  /\ UNCHANGED <<loaderVars, hook, packet>>

Entry(l, i) == IF i <= Len(Config[l]) THEN Config[l][i] ELSE "empty"

\* A failed call in synchronizeXdpConfig or synchronizeDsrConfig: the process ends.
MutPressOn(l) == UNCHANGED code /\ refuse /\ goto(l, "attach")      \* mutant: it is only a warning
syncFails(l) == refuse /\ exit(l, "1")

moreEntries(l) == at[l] <= Slots

\* All entries are written, those beyond the configured ones as empty.
writeBackend(l) ==
  /\ pc[l] = "write" /\ moreEntries(l)
  /\ \/ /\ backends' = [backends EXCEPT ![l] = [@ EXCEPT ![at[l]] = Entry(l, at[l])]]
        /\ at' = [at EXCEPT ![l] = @ + 1] /\ UNCHANGED <<pc, code, refusals>>
     \/ syncFails(l) /\ UNCHANGED <<backends, at>>
  /\ UNCHANGED <<count, valid, frozen, attached, failed, unwinding, signal, hook, packet>>

writeConfig(l) ==
  /\ pc[l] = "write" /\ ~moreEntries(l)
  /\ \/ /\ count' = [count EXCEPT ![l] = Len(Config[l])] /\ valid' = [valid EXCEPT ![l] = TRUE]
        /\ goto(l, "verify") /\ UNCHANGED <<code, refusals>>
     \/ syncFails(l) /\ UNCHANGED <<count, valid>>
  /\ UNCHANGED <<at, backends, frozen, attached, failed, unwinding, signal, hook, packet>>

Written(l) ==
  /\ valid[l] /\ count[l] = Len(Config[l])
  /\ \A i \in 1 .. Slots : backends[l][i] = Entry(l, i)

\* Everything is read back and compared; a difference is one more failure.
readBack(l) ==
  /\ pc[l] = "verify"
  /\ \/ Written(l) /\ goto(l, "freezeBackends") /\ UNCHANGED <<code, refusals>>
     \/ syncFails(l)
  /\ UNCHANGED <<loaderVars, hook, packet>>

freezeBackends(l) ==
  /\ pc[l] = "freezeBackends"
  /\ \/ /\ frozen' = [frozen EXCEPT ![l] = @ \cup {"backends"}] /\ goto(l, "freezeConfig")
        /\ UNCHANGED <<code, refusals>>
     \/ syncFails(l) /\ UNCHANGED frozen
  /\ UNCHANGED <<at, backends, count, valid, attached, failed, unwinding, signal, hook, packet>>

freezeConfig(l) ==
  /\ pc[l] = "freezeConfig"
  /\ \/ /\ frozen' = [frozen EXCEPT ![l] = @ \cup {"config"}] /\ goto(l, "attach")
        /\ UNCHANGED <<code, refusals>>
     \/ syncFails(l) /\ UNCHANGED frozen
  /\ UNCHANGED <<at, backends, count, valid, attached, failed, unwinding, signal, hook, packet>>

\* XDP_FLAGS_UPDATE_IF_NOEXIST
updateIfNoExist == hook = "none"

attachProgram(l) ==
  /\ pc[l] = "attach"
  /\ \/ /\ updateIfNoExist /\ hook' = l /\ attached' = [attached EXCEPT ![l] = TRUE]
        /\ goto(l, "ready") /\ UNCHANGED <<code, refusals>>
     \/ ~updateIfNoExist /\ exit(l, "1") /\ UNCHANGED <<hook, attached, refusals>>
     \/ refuse /\ exit(l, "1") /\ UNCHANGED <<hook, attached>>
  /\ UNCHANGED <<at, mapVars, failed, unwinding, signal, packet>>

\* main is left, by a return or an exception, while the program is attached: the
\* destructor detaches it, and the status stands.
unwind(l, status) ==
  /\ goto(l, "query") /\ unwinding' = [unwinding EXCEPT ![l] = TRUE]
  /\ code' = [code EXCEPT ![l] = status]

\* The READY line; its reader may be gone.
printReady(l) ==
  /\ pc[l] = "ready"
  /\ \/ goto(l, "wait") /\ UNCHANGED <<unwinding, code, refusals>>
     \/ refuse /\ unwind(l, "1")
  /\ UNCHANGED <<at, mapVars, attached, failed, signal, hook, packet>>

\* The signals were blocked from the start, so none is lost.
sigwait(l) ==
  /\ pc[l] = "wait"
  /\ \/ /\ signal' \in {[signal EXCEPT ![l] = s] : s \in {"TERM", "PIPE"}}
        /\ goto(l, "query") /\ UNCHANGED <<unwinding, code, refusals>>
     \/ refuse /\ unwind(l, "1") /\ UNCHANGED signal
  /\ UNCHANGED <<at, mapVars, attached, failed, hook, packet>>
-----------------------------------------------------------------------------
(***************************************************************************)
(* Detaching: by a loader, in main and in the destructor, and by a         *)
(* detach process                                                          *)
(***************************************************************************)

\* The program that p may remove.
Expected(p) == IF p \in Loader THEN p ELSE Target[p]

\* detachExpectedProgramFd has returned, or thrown.
detached(p) ==
  \/ /\ p \in Loader /\ attached' = [attached EXCEPT ![p] = FALSE]
     /\ goto(p, IF unwinding[p] THEN "exit" ELSE "statistics") /\ UNCHANGED <<failed, unwinding, code>>
  \/ p \in Detacher /\ goto(p, "report") /\ UNCHANGED <<attached, failed, unwinding, code>>

MutForgive(p) == UNCHANGED failed                 \* mutant: the failure leaves no trace
cleanupFails(p) == failed' = [failed EXCEPT ![p] = TRUE]

notDetached(p) ==
  \/ /\ p \in Loader /\ UNCHANGED <<attached, unwinding, code>>
     /\ \/ ~unwinding[p] /\ goto(p, "statistics") /\ cleanupFails(p)
        \/ unwinding[p] /\ goto(p, "exit") /\ UNCHANGED failed
  \/ p \in Detacher /\ exit(p, "1") /\ UNCHANGED <<attached, failed, unwinding>>

MutSwapped(p) == hook = Expected(p)               \* mutant: == for !=
foreign(p) == hook # Expected(p)

queryAttachedProgramId(p) ==
  /\ pc[p] = "query"
  /\ \/ hook = "none" /\ detached(p) /\ UNCHANGED refusals
     \/ hook # "none" /\ foreign(p) /\ notDetached(p) /\ UNCHANGED refusals
     \/ /\ hook # "none" /\ ~foreign(p) /\ goto(p, "clear")
        /\ UNCHANGED <<attached, failed, unwinding, code, refusals>>
     \/ refuse /\ notDetached(p)
  /\ UNCHANGED <<at, mapVars, signal, hook, packet>>

\* Mutant: the descriptor 0 of a process whose stdin is closed is passed on, and
\* libbpf compares nothing.
MutDescriptorZero(p) == TRUE

\* The kernel compares the descriptor with what is on the hook now; it was moved
\* above 2 because libbpf takes 0 for none.
comparesEqual(p) == hook = Expected(p)

\* An interface that is gone has nothing on it.
bpfXdpDetach(p) ==
  /\ pc[p] = "clear"
  /\ \/ (comparesEqual(p) \/ hook = "none") /\ hook' = "none" /\ detached(p) /\ UNCHANGED refusals
     \/ ~comparesEqual(p) /\ notDetached(p) /\ UNCHANGED <<hook, refusals>>
     \/ refuse /\ notDetached(p) /\ UNCHANGED hook
  /\ UNCHANGED <<at, mapVars, signal, packet>>

\* A loader that is still attached tries once more, in the destructor.
returnFromMain(l, status) ==
  \/ attached[l] /\ unwind(l, status)
  \/ ~attached[l] /\ exit(l, status) /\ UNCHANGED unwinding

\* Statistics, and the DETACHED line unless something failed.
readStatistics(l) ==
  /\ pc[l] = "statistics"
  /\ \/ returnFromMain(l, IF failed[l] \/ signal[l] = "PIPE" THEN "1" ELSE "0") /\ UNCHANGED refusals
     \/ refuse /\ returnFromMain(l, "1")
  /\ UNCHANGED <<at, mapVars, attached, failed, signal, hook, packet>>

\* A program exists while its loader runs or it is attached.
Exists(l) == pc[l] \notin {"load", "exit", "killed"} \/ hook = l

\* The program has been attached, or never will be.
HasAttached(l) == attached[l] \/ pc[l] \in {"statistics", "exit", "killed"}

\* detach --prog-id, with the id that its loader printed.  Nothing on the
\* interface is as good as detached.
detachExpectedProgram(d) ==
  /\ pc[d] = "start" /\ HasAttached(Target[d])
  /\ \/ hook = "none" /\ goto(d, "report") /\ UNCHANGED <<code, refusals>>
     \/ hook # "none" /\ goto(d, "open") /\ UNCHANGED <<code, refusals>>
     \/ refuse /\ exit(d, "1")
  /\ UNCHANGED <<loaderVars, hook, packet>>

bpfProgGetFdById(d) ==
  /\ pc[d] = "open"
  /\ \/ Exists(Target[d]) /\ goto(d, "query") /\ UNCHANGED <<code, refusals>>
     \/ ~Exists(Target[d]) /\ exit(d, "1") /\ UNCHANGED refusals
     \/ refuse /\ exit(d, "1")
  /\ UNCHANGED <<loaderVars, hook, packet>>

\* The DETACHED line; its reader may be gone.
reportDetached(d) ==
  /\ pc[d] = "report"
  /\ \/ exit(d, "0") /\ UNCHANGED refusals
     \/ refuse /\ exit(d, "1")
  /\ UNCHANGED <<loaderVars, hook, packet>>
-----------------------------------------------------------------------------
(***************************************************************************)
(* xdp_udp_dsr, for a well-formed packet to the VIP                        *)
(***************************************************************************)

processesUnchanged == UNCHANGED <<pc, loaderVars, code, hook, refusals>>

\* The program keeps its maps while it runs, whatever becomes of the hook.
ReadConfig ==
  /\ packet.step = "none" /\ hook \in Loader /\ Profile[hook] = "dsr"
  /\ packet' = IF ~valid[hook] THEN Answer("invalid")
               ELSE IF count[hook] = 0 THEN Answer("pass")
               ELSE [step |-> "select", program |-> hook, count |-> count[hook], verdict |-> "none"]
  /\ processesUnchanged

\* A hash picks an entry below the count; a redirect may be refused.
RedirectPacket ==
  /\ packet.step = "select"
  /\ \E key \in 1 .. packet.count :
       LET backend == backends[packet.program][key] IN
       \/ packet' = Answer(IF backend = "empty" THEN "invalid" ELSE backend)
       \/ backend # "empty" /\ packet' = Answer("drop")
  /\ processesUnchanged
-----------------------------------------------------------------------------
(***************************************************************************)
(* The others                                                              *)
(***************************************************************************)

\* Another tool replaces or removes what is there, or the interface goes away.
OtherUser ==
  /\ hook' \in {"none", "other"} \ {hook}
  /\ UNCHANGED <<pc, loaderVars, code, packet, refusals>>

\* SIGKILL: the hook and the maps of an attached program stay as they are.
Kill(p) ==
  /\ pc[p] \notin {"exit", "killed"} /\ goto(p, "killed")
  /\ UNCHANGED <<loaderVars, code, hook, packet, refusals>>

Run(p) ==
  \/ p \in Loader /\ \/ loadObject(p) \/ writeBackend(p) \/ writeConfig(p) \/ readBack(p)
                     \/ freezeBackends(p) \/ freezeConfig(p) \/ attachProgram(p)
                     \/ printReady(p) \/ sigwait(p) \/ readStatistics(p)
  \/ p \in Detacher /\ (detachExpectedProgram(p) \/ bpfProgGetFdById(p) \/ reportDetached(p))
  \/ queryAttachedProgramId(p) \/ bpfXdpDetach(p)

Next ==
  \/ \E p \in Process : Run(p) \/ Kill(p)
  \/ ReadConfig \/ RedirectPacket \/ OtherUser

Spec == Init /\ [][Next]_vars

\* No call of a process blocks but sigwait, and a signal comes in the end.
FairSpec == Spec /\ \A p \in Process : WF_vars(Run(p))
-----------------------------------------------------------------------------
(***************************************************************************)
(* Properties                                                              *)
(***************************************************************************)

Steps == {"load", "write", "verify", "freezeBackends", "freezeConfig", "attach", "ready", "wait",
          "query", "clear", "statistics", "start", "open", "report", "exit", "killed"}

\* Every variable has its type.
TypeOK ==
  /\ pc \in [Process -> Steps] /\ at \in [Loader -> 1 .. Slots + 1]
  /\ backends \in [Loader -> [1 .. Slots -> Backend \cup {"empty"}]]
  /\ count \in [Loader -> 0 .. Slots] /\ valid \in [Loader -> BOOLEAN]
  /\ frozen \in [Loader -> SUBSET {"backends", "config"}]
  /\ attached \in [Loader -> BOOLEAN] /\ failed \in [Loader -> BOOLEAN]
  /\ unwinding \in [Loader -> BOOLEAN] /\ signal \in [Loader -> {"none", "TERM", "PIPE"}]
  /\ code \in [Process -> {"none", "0", "1"}] /\ hook \in Loader \cup {"none", "other"}
  /\ packet \in [step : {"none", "select"}, program : Loader \cup {"none"}, count : 0 .. Slots,
                 verdict : Backend \cup {"none", "pass", "drop", "invalid"}]
  /\ packet.step = "select" => packet.program \in Loader
  /\ refusals \in 0 .. Refusals

\* The interface never runs a program whose maps are not complete and frozen,
\* whichever call failed while they were filled and whoever was killed since; so
\* no packet is answered from anything but the configuration.
AttachedIsComplete ==
  /\ \A l \in Loader : hook = l /\ Profile[l] # "legacy" =>
       Written(l) /\ frozen[l] = {"backends", "config"}
  /\ packet.verdict # "invalid"

\* A process only ever takes an empty hook, and only ever clears it of its own
\* program or of the one it was told to remove, although the interface may change
\* hands between its query and its detach.
HookIsRespected ==
  [][\A p \in Process :
       pc'[p] # pc[p] /\ hook' # hook =>
         \/ hook = "none" /\ hook' = p
         \/ hook = Expected(p) /\ hook' = "none"]_vars

\* Status 0 means that the program is off: a loader's own, or the one that a
\* detach process was given, even if it raced with the loader's own detaching.
ZeroMeansOff == \A p \in Process : pc[p] = "exit" /\ code[p] = "0" => hook # Expected(p)

\* A detach process that is neither killed nor refused by the kernel clears the
\* hook of a loader that was killed, whatever else happens to the interface.
DetachRecovers ==
  \A d \in Detacher :
    pc[Target[d]] = "killed" /\ pc[d] = "start" /\ refusals = 0
      ~> hook # Target[d] \/ pc[d] = "killed"
==============================================================================
