----------------------------- MODULE ProxyService -----------------------------
(***************************************************************************)
(* The life of the user-space proxy (src/control/TcpService.cpp and        *)
(* UdpService.cpp) with metrics = stderr: the backend selection, the       *)
(* statistics that the reactor reports, and the snapshots that a reader of *)
(* stderr sees (src/control/MetricsService.cpp, src/metrics/Metrics.cpp).  *)
(*                                                                         *)
(* Everything runs on the reactor's thread, in its callbacks.  Of the      *)
(* reactor there is the number of its sessions or flows; its own modules   *)
(* say how they come and go.  Of the totals there are the created and the  *)
(* closed sessions, and one for all the others.                            *)
(***************************************************************************)
EXTENDS HealthSelection

CONSTANTS
  MaxSessions,    \* maxSessions, maxFlows: the reactor's limit
  GaugeLimit,     \* what sessionsActive may reach in recordStatEvent
  CounterMax      \* the largest 64-bit number

\* Both limits are 1024, in files that know nothing of each other.
ASSUME ServiceBounds ==
  /\ MaxSessions \in Nat \ {0} /\ GaugeLimit \in Nat /\ MaxSessions <= GaugeLimit
  /\ CounterMax \in Nat \ {0}

VARIABLES
  protocol,       \* of the configuration
  step,           \* of the service's life
  sessions,       \* open in the reactor
  data,           \* the collector's gauge and totals
  output,         \* MetricsOutput: seq_, readyEmitted_, finalized_, enabled_
  due,            \* the clock has passed nextSnapshotTime_
  shown, torn     \* history: last whole line on stderr; part of a line came after it

selectionVars == vars
metricsVars == <<data, output, due, shown, torn>>
serviceVars == <<selectionVars, protocol, step, sessions, metricsVars>>

ServiceInit ==
  /\ Init /\ protocol \in {"tcp", "udp"} /\ step = "start" /\ sessions = 0
  /\ data = [active |-> 0, created |-> 0, closed |-> 0, others |-> 0, saturated |-> FALSE]
  /\ output = [seq |-> 0, ready |-> FALSE, finalized |-> FALSE, enabled |-> TRUE]
  /\ due = FALSE /\ shown = [phase |-> "none", seq |-> 0] /\ torn = FALSE
-----------------------------------------------------------------------------
(***************************************************************************)
(* Statistics                                                              *)
(***************************************************************************)

\* A total stays at the largest number, and from then on the snapshots say so.
addSaturatingCounter(value, amount) ==
  IF amount >= CounterMax - value THEN CounterMax ELSE value + amount

saturates(value, amount) == amount >= CounterMax - value

\* Mutant: off by one at the limit of the gauge.
MutBelowLimit(d) ==
  IF d.active + 1 >= GaugeLimit THEN d
  ELSE [active |-> d.active + 1, created |-> addSaturatingCounter(d.created, 1),
        closed |-> d.closed, others |-> d.others, saturated |-> d.saturated \/ saturates(d.created, 1)]

\* recordStatEvent, kCreated: beyond the limit the event is refused.
recordCreated(d) ==
  IF d.active >= GaugeLimit THEN d
  ELSE [active |-> d.active + 1, created |-> addSaturatingCounter(d.created, 1),
        closed |-> d.closed, others |-> d.others, saturated |-> d.saturated \/ saturates(d.created, 1)]

\* recordStatEvent, kClosed, n times; a session too many would be refused.
recordClosed(d, n) ==
  LET k == IF n <= d.active THEN n ELSE d.active
  IN IF k = 0 THEN d
     ELSE [active |-> d.active - k, created |-> d.created,
           closed |-> addSaturatingCounter(d.closed, k), others |-> d.others,
           saturated |-> d.saturated \/ saturates(d.closed, k)]

\* recordStatEvent for any other kind.
recordOther(d) ==
  [active |-> d.active, created |-> d.created, closed |-> d.closed,
   others |-> addSaturatingCounter(d.others, 1), saturated |-> d.saturated \/ saturates(d.others, 1)]
-----------------------------------------------------------------------------
(***************************************************************************)
(* Snapshots                                                               *)
(***************************************************************************)

disable(o) == [o EXCEPT !.enabled = FALSE]

\* emitSnapshot: the line is written as a whole, or in part, or not at all, and
\* after anything but success there is no other.
emitSnapshot(o, phase) ==
  \/ ~o.enabled /\ output' = o /\ UNCHANGED <<shown, torn>>
  \/ /\ o.enabled
     /\ LET numbered == [o EXCEPT !.seq = addSaturatingCounter(@, 1)] IN
        \/ output' = numbered /\ shown' = [phase |-> phase, seq |-> numbered.seq] /\ UNCHANGED torn
        \/ output' = disable(numbered) /\ torn' = TRUE /\ UNCHANGED shown
        \/ output' = disable(numbered) /\ UNCHANGED <<shown, torn>>

emitReadySnapshot ==
  /\ ~output.ready /\ ~output.finalized /\ emitSnapshot([output EXCEPT !.ready = TRUE], "ready")
  /\ due' = FALSE

\* Mutant: the output is tried again a second after it failed.
MutRetry ==
  \/ /\ output.ready /\ ~output.finalized /\ due
     /\ emitSnapshot([output EXCEPT !.enabled = TRUE], "periodic") /\ due' = FALSE
  \/ ~due /\ UNCHANGED <<output, shown, torn, due>>

emitPeriodicSnapshotIfDue ==
  \/ /\ output.ready /\ ~output.finalized /\ output.enabled /\ due
     /\ emitSnapshot(output, "periodic") /\ due' = FALSE
  \/ /\ ~(output.ready /\ ~output.finalized /\ output.enabled /\ due)
     /\ UNCHANGED <<output, shown, torn, due>>

\* Mutant: an exception is counted but not reported.
MutSilentError(error) ==
  /\ ~output.finalized
  /\ \/ error /\ data' = recordOther(data) /\ output' = [output EXCEPT !.finalized = TRUE]
        /\ UNCHANGED <<shown, torn>>
     \/ ~error /\ emitSnapshot([output EXCEPT !.finalized = TRUE], "final") /\ UNCHANGED data

\* finishMetrics and emitFinalSnapshot, once: the exception that ended the service
\* is counted before the totals are shown.
finishMetrics(error) ==
  /\ ~output.finalized
  /\ emitSnapshot([output EXCEPT !.finalized = TRUE], IF error THEN "error" ELSE "final")
  /\ data' = IF error THEN recordOther(data) ELSE data
-----------------------------------------------------------------------------
(***************************************************************************)
(* The service                                                             *)
(***************************************************************************)

\* The selection, the listener and the signals are set up; ready is the first
\* thing that the reactor's loop reports.
startService ==
  /\ step = "start"
  /\ \/ step' = "run" /\ emitReadySnapshot
     \/ step' = "catch" /\ UNCHANGED <<output, shown, torn, due>>
  /\ UNCHANGED <<selectionVars, protocol, sessions, data>>

\* onMaintenance, in every round of the loop that is not draining.
onMaintenance ==
  /\ step = "run" /\ emitPeriodicSnapshotIfDue
  /\ IF HealthCheck THEN pollHealthProbes ELSE UNCHANGED selectionVars
  /\ UNCHANGED <<protocol, step, sessions, data>>

\* A client that finds the table full is rejected before the selection.
rejectAtCapacity ==
  /\ step = "run" /\ sessions >= MaxSessions /\ data' = recordOther(data)
  /\ UNCHANGED <<selectionVars, protocol, step, sessions, output, due, shown, torn>>

\* A new client: no backend for it, no sockets for it, or a session.
acceptClient ==
  /\ step = "run" /\ sessions < MaxSessions /\ selectBackend
  /\ \/ /\ eligible' = {} /\ data' = recordOther(data) /\ UNCHANGED sessions
     \/ /\ eligible' # {} /\ protocol = "udp" /\ data' = recordOther(data) /\ UNCHANGED sessions
     \/ /\ eligible' # {} /\ data' = recordCreated(data) /\ sessions' = sessions + 1
  /\ UNCHANGED <<protocol, step, output, due, shown, torn>>

closeSession ==
  /\ step \in {"run", "drain"} /\ sessions > 0 /\ sessions' = sessions - 1
  /\ data' = recordClosed(data, 1)
  /\ UNCHANGED <<selectionVars, protocol, step, output, due, shown, torn>>

\* Bytes, datagrams, drops, errors and timeouts.
Traffic ==
  /\ step \in {"run", "drain"} /\ data' = recordOther(data)
  /\ UNCHANGED <<selectionVars, protocol, step, sessions, output, due, shown, torn>>

\* closeAllSessions, closeAllFlows: each one is reported.
closeAllSessions == sessions' = 0 /\ data' = recordClosed(data, sessions)

\* The first stop signal: TCP starts to drain, UDP is through.
stopSignal ==
  /\ step = "run"
  /\ \/ protocol = "tcp" /\ step' = "drain" /\ UNCHANGED <<sessions, data>>
     \/ protocol = "udp" /\ step' = "return" /\ closeAllSessions
  /\ UNCHANGED <<selectionVars, protocol, output, due, shown, torn>>

\* Nothing is left to drain, the deadline has come, or a second signal.
endDrain ==
  /\ step = "drain" /\ step' = "return" /\ closeAllSessions
  /\ UNCHANGED <<selectionVars, protocol, output, due, shown, torn>>

\* An exception leaves the loop; the reactor's destructor closes the sessions
\* before the service catches it.
reactorThrows ==
  /\ step \in {"run", "drain"} /\ step' = "catch" /\ closeAllSessions
  /\ UNCHANGED <<selectionVars, protocol, output, due, shown, torn>>

runServiceLifecycle ==
  /\ \/ step = "return" /\ finishMetrics(FALSE) /\ step' = "exit"
     \/ step = "catch" /\ finishMetrics(TRUE) /\ step' = "error exit"
  /\ UNCHANGED <<selectionVars, protocol, sessions, due>>

SecondPasses ==
  /\ step = "run" /\ ~due /\ due' = TRUE
  /\ UNCHANGED <<selectionVars, protocol, step, sessions, data, output, shown, torn>>

ServiceNext ==
  \/ startService \/ onMaintenance \/ rejectAtCapacity \/ acceptClient \/ closeSession
  \/ Traffic \/ stopSignal \/ endDrain \/ reactorThrows \/ runServiceLifecycle \/ SecondPasses

ServiceSpec == ServiceInit /\ [][ServiceNext]_serviceVars
-----------------------------------------------------------------------------
(***************************************************************************)
(* Properties                                                              *)
(***************************************************************************)

Phase  == {"none", "ready", "periodic", "final", "error"}
Data   == [active : 0 .. GaugeLimit, created : 0 .. CounterMax, closed : 0 .. CounterMax,
           others : 0 .. CounterMax, saturated : BOOLEAN]
Output == [seq : 0 .. CounterMax, ready : BOOLEAN, finalized : BOOLEAN, enabled : BOOLEAN]

\* Every variable has its type; no total goes beyond its width.
ServiceTypeOK ==
  /\ TypeOK /\ protocol \in {"tcp", "udp"}
  /\ step \in {"start", "run", "drain", "return", "catch", "exit", "error exit"}
  /\ sessions \in 0 .. MaxSessions /\ data \in Data /\ output \in Output
  /\ due \in BOOLEAN /\ shown \in [phase : Phase, seq : 0 .. CounterMax] /\ torn \in BOOLEAN

\* n sessions are open according to d.
Balanced(d, n) ==
  /\ d.active = n
  /\ ~d.saturated => d.created = d.closed + n
  /\ (d.created = CounterMax \/ d.closed = CounterMax) => d.saturated

\* The gauge is the number of sessions at all times, and the totals account for
\* it until one of them has reached its limit, which the snapshots then tell.
GaugeIsSessions == Balanced(data, sessions)

May(before, after) ==
  \/ before = "none" /\ after \in {"ready", "error"}
  \/ before \in {"ready", "periodic"} /\ after \in {"periodic", "final", "error"}

\* A reader sees the snapshots in order and without a gap, nothing after a line
\* that was cut off, and nothing after the last one: whatever failed in between.
SnapshotsInSequence ==
  [][shown' # shown =>
       /\ ~torn /\ May(shown.phase, shown'.phase)
       /\ shown'.seq = shown.seq + 1 \/ shown'.seq = CounterMax]_serviceVars

\* Every way out of the service ends in one last snapshot, unless an earlier one
\* could not be written; it tells an error from a stop, and shows that all
\* sessions were closed and counted, those that an exception left behind too.
LastSnapshotIsBalanced ==
  step \in {"exit", "error exit"} =>
    /\ output.enabled => shown.phase = (IF step = "exit" THEN "final" ELSE "error")
    /\ data.active = 0 /\ (~data.saturated => data.created = data.closed)
==============================================================================
