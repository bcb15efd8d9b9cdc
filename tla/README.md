# TLA+ development for the L4 load balancer

This directory holds a formal model of the load balancer's own code: two
programs that share configuration formats but no process. Source paths are
relative to the repository's `src/` directory.

* `l4lb` is a user-space proxy. One thread runs a level-triggered epoll reactor
  that relays TCP sessions or UDP datagrams to a list of backends, with optional
  TCP connect probes and optional metrics on standard error.
* `l4lb-xdp` loads an XDP program, attaches it to an interface, and waits. In its
  runtime DSR mode it also probes targets and replaces the table the program
  forwards by.

The modules are checked with TLC (`tlc -config X.cfg MCModule`), the proofs with
TLAPS (`tlapm Module.tla`). `PROJECT.json` lists components, runs, mutants, the
map from definitions to source lines, hazards and theorems.

## Inventory

| component | state | operations | interacts with |
|---|---|---|---|
| TCP reactor (`net/TcpReactor.cpp`, `TcpState.h`) | sessions, tokens, two byte rings and two endpoint states per session, listener state, drain state, deadlines | event loop, accept, connect, relay, half-close, deadlines, drain, stop | sockets and signals of the kernel; callbacks for selection, maintenance, statistics |
| UDP reactor (`net/UdpReactor.cpp`, `core/UdpFlow.h`) | flows by token, tokens by client key, idle deadlines, next token | event loop, receive, resolve or create a flow, send, expire, stop | the same |
| TCP health checker (`health/TcpHealthChecker.cpp`, `HealthState.h`) | per backend: probe token, deadline or next start, counters, status | start, complete, poll | polled on the reactor's thread |
| Backend selection (`control/HealthSelection.cpp`, `core/RoundRobinScheduler.h`) | next index | select after a poll | called by both reactors |
| Metrics (`metrics/Metrics.cpp`, `control/MetricsService.cpp`) | counters, session gauge, output enabled or not | record, periodic and final snapshot | statistics callback of the reactors |
| Runtime control loop (`control/RuntimeDsrService.cpp`) | signal state, configuration, checker, applied snapshot, next publish time, output queue | signals, probes, reload, health publish, detach | all of the below |
| Runtime configuration (`control/RuntimeDsrConfig.cpp`) | none | read, parse, compare | the file an operator replaces |
| UDP probe checker (`health/UdpProbeChecker.cpp`) | per target: nonce, deadline, counters, state; receive cursor | send, receive within a budget, inherit health | the control loop |
| Runtime map store (`xdp/RuntimeMapStore.cpp`) | active map, generation | create, write, freeze, commit, read back | kernel maps |
| XDP attachment (`xdp/XdpAttachment.cpp`) | attached or not, expected program | attach, query, detach, destructor | the interface's XDP hook, which others use too |
| Runtime XDP program (`xdp/xdp_udp_runtime.bpf.c`) | none of its own | one packet on one CPU | reads the maps while they are replaced |
| Static XDP modes (`xdp/main.cpp`, `control/*ConfigSync.cpp`, `xdp/MapStore.cpp`, `DsrMapStore.cpp`) | maps written once, attached or not, exit status | load, write, read back, freeze, attach, wait, detach; detach by program id | the same hook |
| Static XDP programs (`xdp/xdp_*.bpf.c`) | none of their own | one packet | maps that are frozen before they are attached |
| Service lifecycles (`control/TcpService.cpp`, `UdpService.cpp`) | selection, metrics | start, callbacks, two ways out | reactor, selection, metrics |
| Command line and configuration (`cli/main.cpp`, `config/Config.cpp`) | none | parse, validate | start-up only |

What is hard in this code, and what makes each part correct:

* **Reactors.** A signal is taken in the middle of a handler that holds references
  into a table; an event in a batch may name what an earlier event closed; the
  poll masks are recomputed from five conditions and a wrong one strands a session
  silently; a FIN must wait for buffered data; the boundary cases of the buffers
  look like end of stream. Correct means: no dangling reference, nothing lost or
  reordered or stranded, what is reported is true, and a stop ends the process.
* **Health.** Answers and deadlines race within one poll, and events are matched to
  probes by token only. Correct means that a status is what the last results say,
  that only a connection which exists is a success, and that no backend starves.
* **UDP probes.** Tokens tell this probe's answer from an earlier one's, the clock is
  read before and after each receive, and all targets share one receive budget.
  Correct means that a success answers this probe in time, that a noisy target
  starves nobody, and that a reload can always take over the counters.
* **Metrics and lifecycle.** Sessions end in many places, an exception among them,
  totals saturate, and output may fail at any line. Correct means that the gauge is
  the table, and that a reader sees numbered lines in order which end with one that
  accounts for everything.
* **Static XDP modes.** Processes that know nothing of each other share a hook, each
  may be killed between two system calls, and each call may fail. Correct means that
  only complete maps are ever attached, that nobody removes another's program, that
  exit status 0 means off, and that a kill can be cleared up after.
* **Runtime control.** Signals arrive between any two system calls, a publish has a
  point of no return in its middle, packets on other CPUs read while it happens,
  and others use the interface. Correct means atomic replacement, agreement between
  the loop and the kernel after every failure, no lost reload, no publish after a
  stop, and never removing somebody else's program.

The hazards, line by line, are in `PROJECT.json`.

## Modules

| module | models | kind |
|---|---|---|
| `TcpReactor` | the TCP reactor | specification |
| `UdpReactor` | the UDP reactor, the gauge of the metrics collector | specification |
| `TcpHealthChecker` | the TCP health checker | specification |
| `HealthSelection` | round robin over eligible backends | specification |
| `ProxyService` | service lifecycle and metrics around `HealthSelection` | composed specification |
| `UdpProbeChecker` | the UDP echo prober of the runtime mode | specification |
| `SnapshotTable` | what the runtime data plane promises | abstract specification |
| `RuntimeDsr` | control loop, map store, attachment and XDP program together | composed specification, refines `SnapshotTable` |
| `XdpLoader` | `attach` and `detach` processes of the static modes, the hook, the DSR program | composed specification |
| `MC…` | instances for TLC | |
| `…Proofs` | theorems about the module of that name (`TcpRelayProofs`: the relay, table, wakeups and drain of `TcpReactor`; `ProxyServiceProofs`: `HealthSelection` too) | proofs |

Definitions carry the names of the functions they model where TLA+ allows it.
`Mut…` definitions are plausible errors in one of them: put in place of the
definition that follows, each makes one property fail, which shows that the
property can see such an error.

### TcpReactor

The thread is a program counter. A step ends at each system call where a signal,
a peer or the clock may intervene; `consumeStopSignals` is part of every step that
calls it, so the first or second signal can be taken in the middle of a relay.
`pending[e]` counts the bytes read from endpoint `e` and not yet sent on;
`sock[e]` is the kernel's side: unread bytes, FIN, error, room to write. The loop
variables `scan` and `events` hold what a scan or a batch has still to do.
`sessions_` is the set of ids whose `status` is `connecting` or `established`;
for a session that is gone `status` is the reason it was reported with.

* Time: a comparison of the clock with a deadline is a timer (`armed`, `due`); the
  environment makes it due at any point allowed to it, so every order of expiries
  is included. Progress re-arms it. The deferral timer of an endpoint is one such
  timer.
* The read budget equals the capacity of the buffer, so it cannot run out before
  the buffer is full; it is left out. The write budget is kept.
* `shutdown` is not interrupted on Linux, and its EINTR loop is left out.
* A failure outside the sessions (`ServiceError`) is possible in any step; the
  destructor then closes every session.
* `EnvPoints` says at which values of `pc` peers and session timers act. Runs
  confine them to the wait (`WhileWaiting`) or to the points between handlers
  (`BetweenHandlers`) for the sake of the state space; what a socket does while
  a handler runs is otherwise seen by the next one, since polling is
  level-triggered. Signals and the drain deadline are confined in no run. The
  theorems hold for every choice of `EnvPoints`, all points included.

### UdpReactor

Receives and polls are as open as possible: any registered socket may be reported
ready in any way, any receive may return any key, nothing, or an error of each
class the code tells apart. `flows` and `flowTokensByKey` are the two indexes,
`hand` is the key of the datagram being handled, `verdicts` counts the reports
for the last datagram received, `active` is the collector's gauge with its limit;
`ReportsBalance` ties the last two to the table and to the datagrams.
The four attempts of a send show only their outcome.

An exception (`unwind`, `throwError`) comes from a system call that fails for good
or from a flow, diagnostic or observation callback; `closeFlow` finishes its work
and rethrows such a failure. Most of these leave no datagram unreported: the
statistics come first, or a `catch` adds the drop. The exception to this is the
`closeFlow` of an expired flow in `resolveFlowTokenForDatagram`
(`UdpReactor.cpp:610`), which stands before the `try`; see "Runs" below. The
statistics callback is `noexcept` in `control/UdpService.cpp`.

### TcpHealthChecker and HealthSelection

A poll reads the clock and the ready tokens once and visits the backends in turn,
so connections may complete and deadlines pass within it; `conn` is the kernel's
connection and `up` the backend. An SO_ERROR query of a pending connection reads
as success, as it does in the kernel: only the token match stands in between.
`HealthSelection` lets every poll change the eligible set as it likes.
`passedOver` counts how often others were chosen while a backend stayed eligible.

### ProxyService

The service around the reactor: start, the maintenance callback, clients that are
rejected, dropped or get a session, a stop in TCP's two stages or UDP's one, an
exception out of the loop, and the two ways out. Of the reactor there is only the
number of its sessions; `acceptClient` includes `selectBackend` of
`HealthSelection`, which the module extends. `data` is the collector, `output` the
writer. `shown` and `torn` are what a reader of stderr has seen, since a line may be
written in full, in part or not at all. All totals but those of the sessions are one
number. 1024 appears twice in the source, as the reactors' limit and as the gauge's;
`ServiceBounds` states the relation that the code relies on.

### UdpProbeChecker

A poll is a loop of steps, one for each receive, so that answers, strays and the
clock come between any two. Only two things about a datagram matter: which socket
it is on and whether it carries the last token; drawing a new token turns whatever
is queued into strays. `age` is the time since the probe's poll, up to the interval;
deadline and next probe are at fixed ages. `passed` counts the polls that left a
readable answer unread, `answered` says that the target answered the probe awaited.
`replaceChecker` is the constructor as a reload calls it, with the identity of any
set of targets kept. After a failed poll the checker is dead (`cancelled`): the
control loop then ends, which is why the run does not check for deadlock.

### XdpLoader

Each process is a program counter that stops before each system call, and any of
them may be killed there. `hook` is the program on the interface, named for the
loader that brought it; outsiders put "other" there or take what is there away.
`at`, `backends`, `count`, `valid` and `frozen` are a loader's maps as they are
filled. `unwinding` says that the attempt to detach is the destructor's. A packet
reads the configuration and then an entry, in two steps, while the program may
leave the hook. `Refusals` bounds the calls that fail for reasons of their own;
exit status "1" stands for every status but 0. A detach process starts once there
is a program id to give it.

### RuntimeDsr

One module composes four parts because their properties are about all of them: a
publish is a step of the loop, a sequence of map operations, and a race with the
packets. A map is a number; `inner[i]` is its content; a number is used again only
when neither the outer map nor a packet refers to it, which is what the kernel's
reference counts do. `reader[c]` is the packet on CPU `c`, with the three reads of
the program as separate steps. `due` says that the second between two publishes
has passed, `nowDue` that it had when the iteration read its clock: a reload uses
the value read before the probes are polled, a health publish reads the clock
itself. Hence a reload can lose its turn to a health publish, for as long as health
changes every second; `ReloadTakesEffect` states the condition.

`hook` is the program on the interface: none, ours, or another's. Detaching is a
query and then a conditional detach, tried on the way out, in the catch clause and
in the destructor. `Kill` stops the process in any state and leaves the hook and
the maps as they are.

Left out: statistics, the content of output lines and the queue they wait in (any
step that writes may fail instead, `ControlFails`), header parsing in the program,
file syntax. The probes are abstracted: a poll may report any health.
`MaxRefusals` bounds the publishes and reloads that fail before the commit.

## Runs

| run | bounds | shows |
|---|---|---|
| `TcpRelay` | 1 session, buffer 3, low water 1, 2 bytes unread per socket, 1 reset | an end of stream is real and in order, a full buffer is paused, no lost wakeup, "drained" is complete |
| `TcpHalfClose` | 1 session, buffer 2, fair | half-close propagates, listener recovers |
| `TcpStop` | 1 session, buffer 1, repeated signals, fair reactor and clock only | no dangling session, a drain only flushes, a stop ends the reactor |
| `UdpFlows` | 3 keys, 2 flows, 3 tokens, budget 2, batches of 2, fair reactor | indexes, gauge and verdicts, tokens; idle flows close and are not revived, a stop ends the reactor |
| `HealthProbes` | 2 backends, 2 probes in flight over time | a success is real, a status follows results |
| `HealthDead` | 1 backend, 4 probes in flight over time, fair poll and clock | a dead backend leaves |
| `Service` | TCP and UDP, 3 backends with health check, 2 sessions, gauge limit 2, totals up to 4 | no starvation, gauge is table, last snapshot balances, snapshots in sequence |
| `RuntimeControl` | 3 targets, two with the same link; 3 files and a broken one; HUP, TERM, PIPE; 3 generations; 1 refusal; no packets | agreement with the kernel, no lost HUP, no publish after a stop, health is not inherited by the wrong target |
| `RuntimeSnapshots` | 1 CPU, 2 targets, others on the interface, 3 generations | atomic snapshots (refinement), left only if refused |
| `RuntimeProgress` | 2 files, HUP and TERM without end, 3 generations, fair loop and clock | health and reloads take effect, a stop ends the process |
| `UdpProbes` | 2 targets, 1 noisy, budget 2, queues of 2, timeout 1 and interval 2 ticks, fair poll and clock | a success is current, answers are read, counters are importable, a dead target leaves |
| `XdpHook` | a DSR loader with 2 backends, a loader without maps, 1 detach process, outsiders, 3 map entries, 2 refused calls, kills | attached is complete, status 0 is off, others are respected, a detach recovers |

Why the bounds are enough to meet the cases: buffer 3 with low water 1 has an
empty, a low, a high and a full level; the two endpoints of a session share a
batch, so that one handler closes what the next event names; three keys and two
slots make a table that is full and expired, and the third token a flow that
replaces another; three generations include the exhausted counter
(the limit of the source is 2^64 - 1, so exhaustion is checked here at 3); a probe
that ends at once takes no token, so probing goes on when tokens have run out;
one CPU suffices for readers since readers do not affect each other, and the proof
covers any number. The TCP runs have one client only, but tokens, scans and batches
outlive its session, which is what `NoDanglingSession` is about; the theorem covers
any number. Totals up to 4 and two sessions saturate within a run. A budget of 2
with queues of 2 lets the noisy target use up a whole poll. Two backends in three
entries leave one entry to be written as empty, and two refusals let both attempts
to detach fail.

Deadlock is checked except in `Service`, `UdpProbes`, `XdpHook` and the runtime runs:
there processes end, and then nothing has to happen. The reactors have an explicit
step for the ended state.

Fairness. The reactor thread and the control loop are always runnable: each wait
has a timeout (100 ms and 20 ms), so weak fairness of their steps is what the
scheduler gives. Not every `epoll_wait` is interrupted (strong fairness of
`EpollWait` in `TcpHalfClose` only). Clocks run, so timers become due. In
`TcpHalfClose` a connected peer goes on reading and a handshake ends; the strong
fairness there is due to `EnvPoints`, as `pc` visits those points only now and
then. `TcpStop` asks nothing of the peers. In `RuntimeProgress` failures are
finitely many (`MaxRefusals`); without that neither health nor a reload need ever
take effect. In `UdpProbes` the control loop polls every 20 ms and the clock ticks;
nothing is asked of the targets. In `XdpHook` each process runs on, as no call of it
blocks but `sigwait`; a kill may end it at any time, and `DetachRecovers` allows for
that.

No run is expected to fail. One place where the code does less than the documents
say was met while modelling, and `ReportsBalance` states it as it is
(`LostToException`). `docs/specs/metrics.md:18` counts each datagram that was
received and not forwarded as dropped once, and `tests/metrics_udp_test.cpp:74` says
"received packet exactly one drop including exception" of the failures it provokes.
If the next datagram of a client finds its flow expired, and the notification of
that flow's end throws (`onFlow` formats text, so memory may run out), the exception
leaves `resolveFlowTokenForDatagram` at `UdpReactor.cpp:610`, before the `try` whose
`catch` reports the drop: the service ends with one datagram received and neither
sent nor dropped. Everywhere else an exception leaves the counts complete.

## Theorems

All constants are arbitrary within the named assumptions (`Bounds`,
`UdpBounds`, `CheckerBounds`, `ProbeBounds`, `SelectionBounds`, `ServiceBounds`,
`RuntimeBounds`, `LoaderBounds`), which TLC evaluates in each run. Every invariant
and every action property that a run checks is the statement of a theorem.

* `TcpReactorProofs!TypeCorrect`: `Spec => []TypeOK`. Inductive as it stands, with
  the conjunct that ids drawn and connections waiting do not exceed those that
  arrived; without it `status[nextSessionId]` could leave its domain.
* `TcpRelayProofs!SessionsSafe`, `RelaySafe`, `DrainedSafe`, `DrainSafe`. The
  inductive invariant `SafetyInv` has three parts. `SessionInv` ties handler, scan,
  tokens and registered endpoints to the table, and makes closed sessions blank,
  which is what lets `closeSession` in one place be safe for all others. `RelayInv`,
  which is `StreamsInOrder` itself, says that a full buffer is paused, that eof comes only after FIN and an empty
  socket, and that a shut down side has a finished and flushed source. `DrainCloses`
  says that the listener stays closed once the drain began. The action properties
  follow from it step by step.
* `TcpRelayProofs!WakeupSafe`: `NoLostWakeup` speaks of the moment the reactor blocks
  and is not inductive, as a handler leaves its session without interests for many
  steps. `WakeInv` states it of every state: every endpoint but those of the session
  in hand is `Wakeable` (`Awake`), and for the session in hand `AtHand` says at each
  stage of the handler what the stages before have settled: after the second write
  each direction is resumed if it may be, after `finishSessionIo` every end of data
  is passed on, and then `updateSessionInterests` asks for the rest. Outside a drain
  only, because a drain reads nothing more and has the deadline as its timer.
* `UdpReactorProofs!TypeCorrect`, `TableSafe`, `ReportsSafe`, `TokensSafe`. `Inv` adds
  to the properties what a handler knows between its steps (`HandlerInv`): from the
  lookup to the insertion the key has no flow, without which the insertion could
  index a second one, and the flow of a send is still in the table. It also says that
  the loop has no datagram in hand, so that `ReportsSafe` excepts exactly the datagram
  lost at `UdpReactor.cpp:610` and no other end of the service. The gauge is a
  cardinality, so each insertion and removal is a fact about finite sets.
* `TcpHealthCheckerProofs!TypeCorrect`, `SuccessSafe`, `StatusSafe`.
  `ProbesAreDistinct`: probes in flight have tokens of their own, and a token found
  ready in this poll belongs to a connection that has ended, so that a probe started
  later in the same poll cannot be completed by it. `CountersAreRuns`: the counters
  are the lengths of the runs at the end of the results. Each result extends one run
  and ends the other (`RunGrows`), which carries the equivalence over a step.
* `UdpProbeCheckerProofs!TypeCorrect`, `AnswersSafe`, `SnapshotsSafe`, `SuccessSafe`.
  `RepliesAreCurrent`: a reply on the socket of an awaited probe answers that probe.
  `Approaches` bounds the polls that passed a target over by the places its turn has
  come nearer; it needs `FirstIsServed`, by which a poll that begins with a target
  cannot end before the target's answer is read, because the answer lies within what
  is left of the budget.
* `ProxyServiceProofs!Fairness`, about `HealthSelection` alone: the invariant
  `Approaches` bounds `passedOver[b]` by how far the pointer has come towards `b`; the
  bound of the property alone is not inductive.
* `ProxyServiceProofs!MetricsSafe`, `LastSafe`, `SnapshotsSafe`. The invariant adds to the
  properties what the writer's state says about the lines seen (`seq` is the number
  of the last one as long as output is enabled, a torn line has disabled it, no
  final line before `finalized_`) and that a service past its loop has no sessions.
  `MetricsSafe` includes `NoStarvation` of the composed selection.
* `RuntimeDsrProofs!LoopSafe`, `ReloadSafe`, `DetachSafe`, `StopSafe`, `Refinement`. The invariant `Inv`
  says for each stage of a publish how store, kernel and loop differ
  (`Publishing`), that a packet's map is one the store will not write (`Reading`,
  with `CandidateIsFree`, a pigeonhole argument: with n CPUs, n + 2 maps leave a
  free one), that no stage of a publish is reached with a stop recorded
  (`NotStopped`), and that our program on the hook means `attached_` is set and the
  destructor's attempt follows a refusal (`Detaching`).
  `Refinement` maps the table to `inner[outer]` and what a CPU holds to the
  content of its map, and shows each step to be a step of `SnapshotTable` or a
  stutter.
* `RuntimeDsrProofs!TypeCorrect`, `HealthSafe`. `FullInv` extends `Inv` by what the
  other variables can be: a publish begins only below the largest generation
  (`Store`), each of the three attempts to detach is refused at most once
  (`Attempts`), and what the checker holds healthy is what was last reported of the
  targets in force (`Health`), which a reload must carry over by identity.
  `PublishedAreHealthy` says what a committed list is without saying how it is
  built: in file order, with each healthy target's link once. That the filter of
  `buildRuntimeSnapshot` makes such a list (`SnapshotInOrder`) is shown without
  induction: the rank of an index in a finite set of indices, the number of its
  members up to it, is a bijection onto 1 .. n that keeps the order (`Ranks`).
* `XdpLoaderProofs!TypeCorrect`, `HookSafe`, `MapsSafe`, `StatusSafe`.
  `HookSafe` needs only the types: the kernel compares the expected program in the
  same call that changes the hook. The other two rest on `Inv`. `Filled`: what a
  loader has written at each of its stages; once it is at its attach step, or its
  program is on the hook or at a packet, its maps are complete and change no more.
  `Placed`: a loader whose program is on the hook is past its attach step and has
  `attached_` set. `Reported`: unwinding means status 1, and status 0 means that
  `attached_` was reset. `Removed`: a detach process that was started has a target
  past its attach step, so a program it found gone cannot come back.

Only model-checked: liveness under fairness, which is out of the prover's reach:
`HalfClosePropagates`, `ListenerRecovers`, `StopTerminates`, `IdleFlowsClose`,
`DeadBackendLeaves`, `HealthIsPublished`, `ReloadTakesEffect`, `DeadTargetLeaves` and
`DetachRecovers`.

## Not modelled

Parsing of the command line, configuration text, addresses and MACs, and all
formatting: sequential, stateless, and in reach of unit tests. Packet parsing,
checksums, hashing and rewriting in the BPF programs use no shared state, and the
sums over per-CPU statistics are exact or wrong for every input alike. The output
queue of the runtime loop is a failure that any step may meet. Tests, benchmarks
and scripts are not part of the system.

## Plan

1. Done: both reactors, health checker, selection, runtime control with its abstract
   table, UDP prober, metrics and lifecycles, static XDP modes; the theorems above.
2. Done: a theorem for every invariant and action property of the runs.
3. Proofs: the safety half of the liveness properties, that is the invariants which
   say that the awaited step is possible and the measures it makes smaller (a stop
   shrinks the scan, a poll brings a deadline nearer).
4. The runtime output queue with its limit and its drain deadline.
