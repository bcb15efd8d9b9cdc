------------------------------ MODULE RuntimeDsr ------------------------------
(***************************************************************************)
(* The runtime DSR mode of l4lb-xdp: the control loop                      *)
(* (src/control/RuntimeDsrService.cpp), the map store it publishes through *)
(* (src/xdp/RuntimeMapStore.cpp), the program's attachment to the          *)
(* interface (src/xdp/XdpAttachment.cpp), and the XDP program that reads   *)
(* the maps on every CPU (src/xdp/xdp_udp_runtime.bpf.c).                  *)
(*                                                                         *)
(* The loop is one thread.  Signals, edits of the configuration file, the  *)
(* clock, packets, and others who use the interface come between any two   *)
(* of its system calls; the process may be killed at any of them.          *)
(***************************************************************************)
EXTENDS Naturals, Sequences, FiniteSets

CONSTANTS
  Cpu,            \* CPUs that run the XDP program
  Target,         \* targets, each with its id, link and probe endpoint
  Link,           \* target -> its backend entry: egress interface and MACs
  Configs,        \* contents of a well-formed file: sequences of targets
  None,           \* the contents of a file that does not load
  Signals,        \* the signals that are sent, out of AllSignals
  Outsiders,      \* whether others touch the interface's XDP hook
  MaxGeneration,  \* the largest generation number
  MaxRefusals     \* bound: reloads and publishes that fail before the commit

StopSignals == {"TERM", "PIPE"}      \* SIGINT is handled as SIGTERM is
AllSignals  == StopSignals \cup {"HUP"}

ASSUME RuntimeBounds ==
  /\ MaxGeneration \in Nat \ {0} /\ MaxRefusals \in Nat
  /\ IsFiniteSet(Cpu) /\ Configs # {} /\ Configs \subseteq Seq(Target)
  /\ None \notin Configs /\ Signals \subseteq AllSignals /\ Outsiders \in BOOLEAN

\* Maps that can be alive together: the active one, a candidate, and one per
\* packet under way.  A map's name is used again once nothing refers to it.
Inner == 0 .. Cardinality(Cpu) + 1

VARIABLES
  pc, attempt,                      \* next step; which of the three detach attempts
  pending, sig,                     \* signals not yet taken; SignalState
  file, configuration, candidate,   \* on disk; in force; about to be in force
  healthy, up,                      \* the checker's healthy targets; history: last reports
  due, nowDue,                      \* the clock has passed nextPublish: in fact, at `now`
  reason,                           \* of the publish under way
  generation, prepared,             \* of the store: generation_, the candidate map
  outer, inner,                     \* kernel: the active map; contents of the maps
  applied,                          \* the snapshot the loop believes is in force
  hook, attached, refused,          \* program on the interface; attached_; history
  exitCode,
  reader, verdict,                  \* the XDP program on each CPU; its answer, when idle
  asked,                            \* history: a HUP was sent after the file was last read
  refusals                          \* failures that may still come

loopVars   == <<pc, attempt, sig, configuration, candidate, healthy, up, nowDue, reason>>
storeVars  == <<generation, prepared, outer, inner, applied, refusals>>
hookVars   == <<hook, attached, refused, exitCode>>
packetVars == <<reader, verdict>>
vars == <<loopVars, pending, file, due, storeVars, hookVars, packetVars, asked>>

Idle == [at |-> "idle", map |-> 0, count |-> 0]

\* loadObject has published generation 1, from a checker that has probed
\* nothing; the program is not attached yet.
Init ==
  /\ pc = "attach" /\ attempt = "stop" /\ pending = {}
  /\ sig = [reload |-> FALSE, stop |-> FALSE, brokenPipe |-> FALSE]
  /\ file \in Configs /\ configuration = file /\ candidate = file
  /\ healthy = {} /\ up = {} /\ due = FALSE /\ nowDue = FALSE /\ reason = "health"
  /\ generation = 1 /\ prepared = 0 /\ outer = 0
  /\ applied = [generation |-> 1, links |-> <<>>]
  /\ inner = [i \in Inner |-> [generation |-> IF i = 0 THEN 1 ELSE 0, links |-> <<>>]]
  /\ hook \in (IF Outsiders THEN {"none", "other"} ELSE {"none"})
  /\ attached = FALSE /\ refused = 0 /\ exitCode = "none"
  /\ reader = [c \in Cpu |-> Idle] /\ verdict = [c \in Cpu |-> "none"]
  /\ asked = FALSE /\ refusals = MaxRefusals
-----------------------------------------------------------------------------
(***************************************************************************)
(* Signals, and the ways out of the loop                                   *)
(***************************************************************************)

\* Mutant: HUP is read before the stop signals are looked at.
MutHupFirst ==
  IF "HUP" \in pending
  THEN pending' = pending \ {"HUP"} /\ sig' = [sig EXCEPT !.reload = TRUE]
  ELSE \/ \E s \in pending \cap StopSignals :
            /\ pending' = pending \ {s}
            /\ sig' = [sig EXCEPT !.stop = TRUE, !.brokenPipe = @ \/ s = "PIPE"]
       \/ pending = {} /\ UNCHANGED <<pending, sig>>

\* One stop signal is taken before anything else, or else every other one.
consumeRuntimeSignals ==
  \/ \E s \in pending \cap StopSignals :
       /\ pending' = pending \ {s}
       /\ sig' = [sig EXCEPT !.stop = TRUE, !.brokenPipe = @ \/ s = "PIPE"]
  \/ /\ pending \cap StopSignals = {} /\ pending' = {}
     /\ sig' = [sig EXCEPT !.reload = @ \/ "HUP" \in pending]

\* After the signals are read the loop goes on, unless it is to stop.
continueAt(step) ==
  pc' = IF sig'.stop THEN "query" ELSE step

\* An exception reaches the loop's catch clause, which detaches again.
throw == pc' = "query" /\ attempt' = "catch"

\* Output that cannot be queued or written, a signal or poll call that fails,
\* a checker that is broken.
ControlFails ==
  /\ pc \in {"top", "poll", "check", "admit", "health", "wait"} /\ throw
  /\ candidate' = configuration
  /\ UNCHANGED <<sig, configuration, healthy, up, nowDue, reason,
                 pending, file, due, storeVars, hookVars, packetVars, asked>>
-----------------------------------------------------------------------------
(***************************************************************************)
(* The loop, up to a publish                                               *)
(***************************************************************************)

\* Only an empty hook is taken; any refusal of the kernel ends the process.
attachProgram ==
  /\ pc = "attach"
  /\ \/ /\ hook = "none" /\ hook' = "own" /\ attached' = TRUE /\ pc' = "top"
        /\ UNCHANGED exitCode
     \/ pc' = "exit" /\ exitCode' = "error" /\ UNCHANGED <<hook, attached>>
  /\ UNCHANGED <<attempt, sig, configuration, candidate, healthy, up, nowDue, reason,
                 pending, file, due, storeVars, refused, packetVars, asked>>

\* The clock is read once, for the probes and for the reload.
LoopTop ==
  /\ pc = "top" /\ consumeRuntimeSignals /\ continueAt("poll") /\ nowDue' = due
  /\ UNCHANGED <<attempt, configuration, candidate, healthy, up, reason,
                 file, due, storeVars, hookVars, packetVars, asked>>

Targets(config) == {config[i] : i \in DOMAIN config}

\* The checker may report any of its targets healthy or not.
pollProbeTransitions ==
  /\ pc = "poll" /\ pc' = "check"
  /\ \E h \in SUBSET Targets(configuration) : healthy' = h /\ up' = h
  /\ UNCHANGED <<attempt, sig, configuration, candidate, nowDue, reason,
                 pending, file, due, storeVars, hookVars, packetVars, asked>>

CheckSignals ==
  /\ pc = "check" /\ consumeRuntimeSignals
  /\ continueAt(IF sig'.reload /\ nowDue THEN "reload" ELSE "health")
  /\ UNCHANGED <<attempt, configuration, candidate, healthy, up, nowDue, reason,
                 file, due, storeVars, hookVars, packetVars, asked>>

\* Mutant: the generation number is not checked against its limit.
MutNeverExhausted == FALSE

exhausted == applied.generation = MaxGeneration

\* What the file says, target by target: whether it loads and is in force already.
loadRuntimeConfig == file # None
sameRuntimeConfig == file = configuration

\* The request is taken before the file is read, so that a HUP that comes
\* later asks for another reload.  A file that does not load, or that says
\* what is in force, changes nothing.
ReloadFile ==
  /\ pc = "reload" /\ sig' = [sig EXCEPT !.reload = FALSE] /\ asked' = FALSE
  /\ \/ /\ ~loadRuntimeConfig \/ sameRuntimeConfig
        /\ pc' = "health"
        /\ UNCHANGED <<attempt, candidate, reason, refusals>>
     \/ \* the file changes while it is read, or a probe socket does not open
        /\ pc' = "health" /\ refusals > 0 /\ refusals' = refusals - 1
        /\ UNCHANGED <<attempt, candidate, reason>>
     \/ /\ loadRuntimeConfig /\ ~sameRuntimeConfig /\ exhausted /\ throw
        /\ UNCHANGED <<candidate, reason, refusals>>
     \/ /\ loadRuntimeConfig /\ ~sameRuntimeConfig /\ ~exhausted /\ pc' = "admit"
        /\ candidate' = file /\ reason' = "reload" /\ UNCHANGED <<attempt, refusals>>
  /\ UNCHANGED <<configuration, healthy, up, nowDue, pending, file, due, generation, prepared,
                 outer, inner, applied, hookVars, packetVars>>

\* Mutant: health is inherited by link, whatever the probe endpoint.
MutInheritByLink(config) ==
  {t \in Targets(config) : \E u \in healthy : Link[u] = Link[t]}

\* A target of the new configuration keeps its health only if all of its
\* identity is the same; any other is Unknown.
inherited(config) == healthy \cap Targets(config)

\* The healthy targets' links, in the order of the file.
buildRuntimeSnapshot(config) ==
  LET active   == {i \in DOMAIN config : config[i] \in inherited(config)}
      place(i) == Cardinality({j \in active : j <= i})
  IN [generation |-> applied.generation + 1,
      links |-> [k \in 1 .. Cardinality(active) |->
                   Link[config[CHOOSE i \in active : place(i) = k]]]]

\* Mutant: a target that is gone is not noticed.
MutOnlyAdded(first, second) ==
  \A i \in DOMAIN first.links : \E j \in DOMAIN second.links : first.links[i] = second.links[j]

haveSameActiveTargets(first, second) == first.links = second.links

\* Mutant: the answer of the last signal check is not looked at.
MutIgnoreStop == pc' = "prepare"

\* The last look at the signals before a publish; an attempt starts the
\* second in which there is no other.
admitPublish == continueAt("prepare")

AdmitReload ==
  /\ pc = "admit" /\ consumeRuntimeSignals /\ admitPublish
  /\ due' = (due /\ sig'.stop)
  /\ candidate' = IF sig'.stop THEN configuration ELSE candidate
  /\ UNCHANGED <<attempt, configuration, healthy, up, nowDue, reason,
                 file, storeVars, hookVars, packetVars, asked>>

publishChangedHealthySnapshot ==
  /\ pc = "health"
  /\ \/ /\ due => ~exhausted /\ haveSameActiveTargets(buildRuntimeSnapshot(configuration), applied)
        /\ pc' = "wait" /\ UNCHANGED <<attempt, sig, pending, due, reason>>
     \/ /\ due /\ exhausted /\ throw /\ UNCHANGED <<sig, pending, due, reason>>
     \/ /\ due /\ ~exhausted
        /\ ~haveSameActiveTargets(buildRuntimeSnapshot(configuration), applied)
        /\ consumeRuntimeSignals /\ admitPublish /\ due' = sig'.stop
        /\ reason' = "health" /\ UNCHANGED attempt
  /\ UNCHANGED <<configuration, candidate, healthy, up, nowDue,
                 file, storeVars, hookVars, packetVars, asked>>

\* What is left of the iteration: output, and up to 20 ms of waiting.
waitForRuntimeSignalsOrOutput ==
  /\ pc = "wait" /\ pc' = "top"
  /\ UNCHANGED <<attempt, sig, configuration, candidate, healthy, up, nowDue, reason,
                 pending, file, due, storeVars, hookVars, packetVars, asked>>
-----------------------------------------------------------------------------
(***************************************************************************)
(* publishSnapshot                                                         *)
(***************************************************************************)

Held(i) == \E c \in Cpu : reader[c].at # "idle" /\ reader[c].map = i

\* Mutant: two maps are used in turn.
MutDoubleBuffer == CHOOSE i \in Inner : i # outer

\* A map of its own for each snapshot, which the kernel keeps while it is
\* referred to.
candidateMap == CHOOSE i \in Inner : i # outer /\ ~Held(i)

afterPublish == pc' = IF reason = "reload" THEN "health" ELSE "wait"

\* Nothing was committed: the old snapshot stays, and the loop goes on.
rejectPublish ==
  /\ afterPublish /\ refusals > 0 /\ refusals' = refusals - 1
  /\ candidate' = configuration /\ prepared' = outer

\* What can be wrong with a snapshot that the loop built is its generation.
validateCandidateSnapshot(snapshot) == snapshot.generation = generation + 1

\* The candidate is created, written, read back and frozen.
PrepareSnapshot ==
  /\ pc = "prepare"
  /\ \/ /\ validateCandidateSnapshot(buildRuntimeSnapshot(candidate))
        /\ prepared' = candidateMap
        /\ inner' = [inner EXCEPT ![candidateMap] = buildRuntimeSnapshot(candidate)]
        /\ pc' = "commit" /\ UNCHANGED <<candidate, refusals>>
     \/ rejectPublish /\ UNCHANGED inner
  /\ UNCHANGED <<attempt, sig, configuration, healthy, up, nowDue, reason, pending, file, due,
                 generation, outer, applied, hookVars, packetVars, asked>>

\* The one commit: the outer map takes the candidate.
CommitSnapshot ==
  /\ pc = "commit"
  /\ \/ /\ outer' = prepared /\ generation' = applied.generation + 1
        /\ pc' = "readback" /\ UNCHANGED <<candidate, prepared, refusals>>
     \/ rejectPublish /\ UNCHANGED <<outer, generation>>
  /\ UNCHANGED <<attempt, sig, configuration, healthy, up, nowDue, reason, pending, file, due,
                 inner, applied, hookVars, packetVars, asked>>

\* Mutant: the error is handled as if nothing had been committed.
MutRejectAnyway == afterPublish /\ candidate' = configuration /\ UNCHANGED attempt

\* After the commit there is no way back: an error ends the process.
throwCommitted == throw /\ candidate' = configuration

\* Mutant: the reload request is cleared when the reload is done.
MutClearLate ==
  /\ applied' = inner[outer] /\ configuration' = candidate /\ healthy' = inherited(candidate)
  /\ up' = up \cap Targets(candidate) /\ sig' = [sig EXCEPT !.reload = FALSE] /\ afterPublish

\* The snapshot, the configuration and the checker are replaced together.
acceptPublish ==
  /\ applied' = inner[outer] /\ configuration' = candidate /\ healthy' = inherited(candidate)
  /\ up' = up \cap Targets(candidate) /\ UNCHANGED sig /\ afterPublish

ReadBack ==
  /\ pc = "readback"
  /\ \/ acceptPublish /\ UNCHANGED <<attempt, candidate>>
     \/ throwCommitted /\ UNCHANGED <<sig, applied, configuration, healthy, up>>
  /\ UNCHANGED <<nowDue, reason, pending, file, due, generation, prepared, outer, inner,
                 refusals, hookVars, packetVars, asked>>
-----------------------------------------------------------------------------
(***************************************************************************)
(* Detaching: on the way out of the loop, in its catch clause, and in the  *)
(* destructor of the attachment                                            *)
(***************************************************************************)

exitAs(how) == pc' = "exit" /\ exitCode' = how

detached ==
  \/ attempt = "stop" /\ pc' = "statistics" /\ UNCHANGED <<attempt, exitCode>>
  \/ attempt # "stop" /\ exitAs("error") /\ UNCHANGED attempt

notDetached ==
  /\ refused' = refused + 1
  /\ \/ attempt = "stop" /\ throw /\ UNCHANGED exitCode
     \/ attempt = "catch" /\ attempt' = "destructor" /\ pc' = "query" /\ UNCHANGED exitCode
     \/ attempt = "destructor" /\ exitAs("error") /\ UNCHANGED attempt

\* The hook is empty, or holds another program, or is to be cleared.
queryAttachedProgramId ==
  /\ pc = "query"
  /\ \/ /\ (~attached \/ hook = "none") /\ attached' = FALSE /\ detached /\ UNCHANGED refused
     \/ /\ attached /\ hook # "own" /\ hook # "none" /\ notDetached /\ UNCHANGED attached
     \/ /\ attached /\ hook = "own" /\ pc' = "clear"
        /\ UNCHANGED <<attempt, attached, refused, exitCode>>
     \/ attached /\ notDetached /\ UNCHANGED attached    \* the query fails
  /\ UNCHANGED <<sig, configuration, candidate, healthy, up, nowDue, reason,
                 pending, file, due, storeVars, hook, packetVars, asked>>

\* The kernel clears the hook only if it still holds this program; an
\* interface that is gone has nothing to clear.
bpfXdpDetach == hook \in {"own", "none"} /\ hook' = "none"

\* Mutant: the attachment counts as gone although the kernel refused.
MutForget == attached' = FALSE

keepAttached == UNCHANGED attached

detachProgram ==
  /\ pc = "clear"
  /\ \/ bpfXdpDetach /\ attached' = FALSE /\ detached /\ UNCHANGED refused
     \/ notDetached /\ keepAttached /\ UNCHANGED hook
  /\ UNCHANGED <<sig, configuration, candidate, healthy, up, nowDue, reason,
                 pending, file, due, storeVars, packetVars, asked>>

\* Statistics and the last lines; the drain of the output may time out.
FinishOutput ==
  /\ pc = "statistics"
  /\ \/ /\ exitAs(IF sig.brokenPipe THEN "error" ELSE "ok") /\ UNCHANGED attempt
     \/ throw /\ UNCHANGED exitCode
  /\ UNCHANGED <<sig, configuration, candidate, healthy, up, nowDue, reason, pending, file, due,
                 storeVars, hook, attached, refused, packetVars, asked>>
-----------------------------------------------------------------------------
(***************************************************************************)
(* xdp_udp_rt, for a well-formed packet to the VIP                         *)
(***************************************************************************)

loaderUnchanged ==
  UNCHANGED <<loopVars, pending, file, due, storeVars, hookVars, asked>>

\* The outer map is read once.
LookupSnapshot(c) ==
  /\ hook = "own" /\ reader[c].at = "idle"
  /\ reader' = [reader EXCEPT ![c] = [at |-> "config", map |-> outer, count |-> 0]]
  /\ verdict' = [verdict EXCEPT ![c] = "none"] /\ loaderUnchanged

answer(c, v) ==
  reader' = [reader EXCEPT ![c] = Idle] /\ verdict' = [verdict EXCEPT ![c] = v]

\* An invalid snapshot passes the packet, one without backends drops it.
ReadCount(c) ==
  /\ reader[c].at = "config"
  /\ LET config == inner[reader[c].map] IN
     \/ /\ config.generation = 0 \/ Len(config.links) = 0
        /\ answer(c, IF config.generation = 0 THEN "pass" ELSE "drop")
     \/ /\ config.generation # 0 /\ Len(config.links) # 0 /\ UNCHANGED verdict
        /\ reader' = [reader EXCEPT ![c] =
                        [at |-> "select", map |-> @.map, count |-> Len(config.links)]]
  /\ loaderUnchanged

\* The hash picks a slot below the count; an empty slot passes the packet, and
\* a redirect that the helper refuses drops it.
ReadBackend(c) ==
  /\ reader[c].at = "select"
  /\ LET links == inner[reader[c].map].links IN
     \E key \in 1 .. reader[c].count :
       \/ answer(c, IF key > Len(links) THEN "pass" ELSE links[key])
       \/ key <= Len(links) /\ answer(c, "drop")
  /\ loaderUnchanged
-----------------------------------------------------------------------------
(***************************************************************************)
(* The others                                                              *)
(***************************************************************************)

Alive == pc \notin {"exit", "killed"}

SendSignal(s) ==
  /\ Alive /\ s \notin pending /\ pending' = pending \cup {s}
  /\ asked' = (asked \/ s = "HUP")
  /\ UNCHANGED <<loopVars, file, due, storeVars, hookVars, packetVars>>

\* A signal that is already pending is merged with the one that is sent.
RepeatHup ==
  /\ Alive /\ "HUP" \in pending /\ ~asked /\ asked' = TRUE
  /\ UNCHANGED <<loopVars, pending, file, due, storeVars, hookVars, packetVars>>

ReplaceFile ==
  /\ Alive /\ file' \in (Configs \cup {None}) \ {file}
  /\ UNCHANGED <<loopVars, pending, due, storeVars, hookVars, packetVars, asked>>

SecondPasses ==
  /\ Alive /\ ~due /\ due' = TRUE
  /\ UNCHANGED <<loopVars, pending, file, storeVars, hookVars, packetVars, asked>>

\* Somebody else replaces or removes what is on the interface.
OtherUser ==
  /\ Outsiders /\ hook' \in {"none", "other"} \ {hook}
  /\ UNCHANGED <<loopVars, pending, file, due, storeVars, attached, refused, exitCode,
                 packetVars, asked>>

\* SIGKILL: the program and its maps stay as they are.
Kill ==
  /\ Alive /\ pc' = "killed"
  /\ UNCHANGED <<attempt, sig, configuration, candidate, healthy, up, nowDue, reason,
                 pending, file, due, storeVars, hookVars, packetVars, asked>>

Loader ==
  \/ attachProgram \/ LoopTop \/ pollProbeTransitions \/ CheckSignals
  \/ ReloadFile \/ AdmitReload \/ publishChangedHealthySnapshot
  \/ waitForRuntimeSignalsOrOutput \/ ControlFails
  \/ PrepareSnapshot \/ CommitSnapshot \/ ReadBack
  \/ queryAttachedProgramId \/ detachProgram \/ FinishOutput

XdpProgram == \E c \in Cpu : LookupSnapshot(c) \/ ReadCount(c) \/ ReadBackend(c)

Environment ==
  \/ \E s \in Signals : SendSignal(s)
  \/ RepeatHup \/ ReplaceFile \/ SecondPasses \/ OtherUser \/ Kill

Next == Loader \/ XdpProgram \/ Environment

Spec == Init /\ [][Next]_vars

\* The loop never blocks for more than 20 ms, and the clock runs.
FairSpec == Spec /\ WF_vars(Loader) /\ WF_vars(SecondPasses)
-----------------------------------------------------------------------------
(***************************************************************************)
(* Properties                                                              *)
(***************************************************************************)

Running == {"top", "poll", "check", "reload", "admit", "health", "prepare", "commit", "wait"}

Snapshots == [generation : 0 .. MaxGeneration, links : Seq({Link[t] : t \in Target})]

\* Every variable of the loader, the kernel's maps and the XDP program has its
\* type; the generation stays below the limit that publishSnapshot checks.
TypeOK ==
  /\ pc \in Running \cup {"attach", "readback", "query", "clear", "statistics", "exit", "killed"}
  /\ attempt \in {"stop", "catch", "destructor"} /\ pending \subseteq AllSignals
  /\ sig \in [reload : BOOLEAN, stop : BOOLEAN, brokenPipe : BOOLEAN]
  /\ file \in Configs \cup {None} /\ configuration \in Configs /\ candidate \in Configs
  /\ healthy \subseteq Targets(configuration) /\ up \subseteq Target
  /\ due \in BOOLEAN /\ nowDue \in BOOLEAN /\ reason \in {"reload", "health"}
  /\ generation \in 1 .. MaxGeneration /\ prepared \in Inner /\ outer \in Inner
  /\ inner \in [Inner -> Snapshots] /\ applied \in Snapshots
  /\ hook \in {"none", "own", "other"} /\ attached \in BOOLEAN /\ refused \in 0 .. 3
  /\ exitCode \in {"none", "ok", "error"} /\ asked \in BOOLEAN /\ refusals \in 0 .. MaxRefusals
  /\ reader \in [Cpu -> [at : {"idle", "config", "select"}, map : Inner, count : Nat]]
  /\ verdict \in [Cpu -> {Link[t] : t \in Target} \cup {"none", "drop", "pass"}]

\* While the loop runs, the snapshot it believes is in force is the one the
\* kernel forwards by, and the store will accept its successor: whichever
\* step of a publish failed, an uncommitted one left nothing behind and a
\* committed one did not let the loop go on with the old generation.
AppliedIsActive ==
  pc \in Running => inner[outer] = applied /\ generation = applied.generation

\* A HUP that was sent after the file was last read is never forgotten, even
\* if it arrives and is taken from the signalfd in the middle of the reload
\* that an earlier HUP asked for: it is pending or it is recorded.
ReloadNotLost ==
  asked /\ Alive => "HUP" \in pending \/ sig.reload \/ sig.stop \/ attempt # "stop"

\* Nothing is committed once a stop signal was taken, in the middle of a
\* reload or of a health publish too.
StopIsFinal == [][sig.stop => outer' = outer]_vars

\* The links are those of config's targets in S, each once and in file order.
InFileOrder(links, config, S) ==
  LET active == {i \in DOMAIN config : config[i] \in S} IN
  \E from \in [DOMAIN links -> active] :
    /\ \A k, l \in DOMAIN links : k < l => from[k] < from[l]
    /\ \A i \in active : \E k \in DOMAIN links : from[k] = i
    /\ \A k \in DOMAIN links : links[k] = Link[config[from[k]]]

\* A commit puts in force the links of all the targets that the checker last
\* reported healthy, in file order; a reload gives no target the health of
\* another one with the same link.
PublishedAreHealthy ==
  [][outer' # outer => InFileOrder(inner'[outer'].links, candidate, up)]_vars

\* The program stays on the interface of a process that ended by itself only
\* if the kernel refused at least two detach attempts, and then the process
\* does not report success.
LeftOnlyIfRefused ==
  pc = "exit" /\ hook = "own" => refused >= 2 /\ exitCode = "error"

HeldBy(c) == IF reader[c].at = "idle" THEN <<>> ELSE <<inner[reader[c].map]>>

Abstract == INSTANCE SnapshotTable WITH table <- inner[outer], held <- [c \in Cpu |-> HeldBy(c)]

\* The maps and the XDP program implement one table that is replaced as a
\* whole, generation by generation, with every packet answered from a single
\* version: through publishes that fail at any step, detaching, and a kill.
AtomicSnapshots == Abstract!Spec

\* A stop signal ends the process, however many HUPs arrive with it.
StopTerminates == pending \cap StopSignals # {} ~> ~Alive

Quiet == buildRuntimeSnapshot(configuration).links = applied.links

\* The data plane never lags behind the checker for ever: again and again its
\* links are the healthy targets', or the process has ended.  Publishes that
\* failed are made up for.
HealthIsPublished == []<>(Quiet \/ ~Alive)

\* A HUP puts the file in force, if the file stays as it is, nothing fails,
\* and health changes do not take the loop's one publish per second.
ReloadTakesEffect ==
  \A f \in Configs :
    [](asked /\ refusals = 0 /\ [](file = f /\ (pc = "health" /\ configuration # f => Quiet))
         => <>(configuration = f \/ ~Alive))
==============================================================================
