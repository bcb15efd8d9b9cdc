--------------------------- MODULE TcpHealthChecker --------------------------
(***************************************************************************)
(* The TCP connect prober of the user-space proxy                          *)
(* (src/health/TcpHealthChecker.cpp) and the counters that turn its        *)
(* results into a status (src/health/HealthState.h).                       *)
(*                                                                         *)
(* It runs on the reactor's thread, without blocking: a poll reads        *)
(* the clock and the ready sockets once and then visits the backends in    *)
(* turn, while connections complete and deadlines pass.                    *)
(***************************************************************************)
EXTENDS Naturals, Sequences

CONSTANTS
  N,          \* backends in the configuration
  LastToken   \* bound: probes that are ever in flight

ASSUME CheckerBounds == N \in Nat \ {0} /\ LastToken \in Nat

Backend == 0 .. N - 1
Status  == {"Unknown", "Healthy", "Unhealthy"}

VARIABLES
  pc, at,           \* inside pollHealthProbes or not; backend it visits next
  ready, expired,   \* what this poll read: reported tokens, timers that had run out
  state,            \* HealthState of each backend
  token, nextProbeToken,
  timer,            \* probeDeadline while a probe is in flight, else nextProbeTime
  conn,             \* the kernel's side of the probe's connection
  up,               \* whether the backend accepts connections
  results           \* history: the last three results, newest last

checkerVars == <<state, token, nextProbeToken, timer, conn, results>>
pollVars    == <<pc, at, ready, expired>>
vars == <<pollVars, checkerVars, up>>

Init ==
  /\ pc = "idle" /\ at = 0 /\ ready = {} /\ expired = {}
  /\ state = [b \in Backend |-> [status |-> "Unknown", successes |-> 0, failures |-> 0]]
  /\ token = [b \in Backend |-> 0] /\ nextProbeToken = 1
  /\ timer = [b \in Backend |-> "due"] /\ conn = [b \in Backend |-> "none"]
  /\ up \in [Backend -> BOOLEAN] /\ results = [b \in Backend |-> <<>>]
-----------------------------------------------------------------------------
(***************************************************************************)
(* Probes                                                                  *)
(***************************************************************************)

Least(m, n) == IF m < n THEN m ELSE n

\* Mutant: a success does not break a run of failures.
MutApplyProbeResult(st, success) ==
  LET successes == IF success THEN Least(st.successes + 1, 2) ELSE 0
      failures  == IF success THEN st.failures ELSE Least(st.failures + 1, 3)
  IN [status |-> IF success /\ successes = 2 THEN "Healthy"
                 ELSE IF ~success /\ failures = 3 THEN "Unhealthy" ELSE st.status,
      successes |-> successes, failures |-> failures]

\* Two successes in a row make a backend Healthy, three failures Unhealthy.
applyProbeResult(st, success) ==
  LET successes == IF success THEN Least(st.successes + 1, 2) ELSE 0
      failures  == IF success THEN 0 ELSE Least(st.failures + 1, 3)
  IN [status |-> IF successes = 2 THEN "Healthy"
                 ELSE IF failures = 3 THEN "Unhealthy" ELSE st.status,
      successes |-> successes, failures |-> failures]

LastThree(seq) == IF Len(seq) > 3 THEN Tail(seq) ELSE seq

\* The probe gives up its identity and its socket before the result counts.
completeBackendProbe(b, success) ==
  /\ token' = [token EXCEPT ![b] = 0] /\ timer' = [timer EXCEPT ![b] = "armed"]
  /\ conn' = [conn EXCEPT ![b] = "none"]
  /\ state' = [state EXCEPT ![b] = applyProbeResult(@, success)]
  /\ results' = [results EXCEPT ![b] = LastThree(Append(@, success))]
  /\ UNCHANGED nextProbeToken

MutSameToken == UNCHANGED nextProbeToken        \* mutant: probes share a token
drawToken == nextProbeToken' = nextProbeToken + 1

startBackendProbe(b) ==
  \/ \* no socket, refused at once, or no epoll registration
     completeBackendProbe(b, FALSE)
  \/ up[b] /\ completeBackendProbe(b, TRUE)
  \/ /\ nextProbeToken <= LastToken /\ drawToken
     /\ token' = [token EXCEPT ![b] = nextProbeToken]
     /\ timer' = [timer EXCEPT ![b] = "armed"] /\ conn' = [conn EXCEPT ![b] = "pending"]
     /\ UNCHANGED <<state, results>>

\* The descriptors the checker's epoll instance reports.
ReadyTokens == {token[b] : b \in {c \in Backend : conn[c] \in {"ok", "error"}}}

\* epoll_wait does not wait; when it is interrupted nothing is polled.
pollHealthProbes ==
  /\ pc = "idle" /\ pc' = "poll" /\ at' = 0 /\ ready' = ReadyTokens
  /\ expired' = {b \in Backend : timer[b] = "due"}
  /\ UNCHANGED <<checkerVars, up>>

MutNoTimeout(b) == FALSE                        \* mutant: a probe waits for ever
timedOut(b) == token[b] # 0 /\ b \in expired

\* One turn of the loop.  A deadline that has run out beats a late answer; SO_ERROR
\* of a connection that is still pending would read as success.
pollBackend ==
  /\ pc = "poll" /\ at < N /\ at' = at + 1
  /\ \/ timedOut(at) /\ completeBackendProbe(at, FALSE)
     \/ /\ token[at] # 0 /\ ~timedOut(at) /\ token[at] \in ready
        /\ \/ completeBackendProbe(at, conn[at] # "error")
           \/ completeBackendProbe(at, FALSE)           \* getsockopt failed
     \/ /\ token[at] = 0 /\ at \in expired /\ startBackendProbe(at)
     \/ /\ IF token[at] = 0 THEN at \notin expired ELSE ~timedOut(at) /\ token[at] \notin ready
        /\ UNCHANGED checkerVars
  /\ UNCHANGED <<pc, ready, expired, up>>

endPoll ==
  /\ pc = "poll" /\ at = N /\ pc' = "idle" /\ at' = 0 /\ ready' = {} /\ expired' = {}
  /\ UNCHANGED <<checkerVars, up>>
-----------------------------------------------------------------------------
(***************************************************************************)
(* Environment: the network, the backends and the clock                    *)
(***************************************************************************)

ConnectEnds(b) ==
  /\ conn[b] = "pending"
  /\ \E outcome \in {"ok", "error"} :
       /\ outcome = "ok" => up[b]
       /\ conn' = [conn EXCEPT ![b] = outcome]
  /\ UNCHANGED <<pollVars, state, token, nextProbeToken, timer, results, up>>

TimerElapses(b) ==
  /\ timer[b] = "armed" /\ timer' = [timer EXCEPT ![b] = "due"]
  /\ UNCHANGED <<pollVars, state, token, nextProbeToken, conn, results, up>>

BackendChanges(b) ==
  /\ up' = [up EXCEPT ![b] = ~@]
  /\ UNCHANGED <<pollVars, checkerVars>>

Checker == pollHealthProbes \/ pollBackend \/ endPoll

Next == Checker \/ (\E b \in Backend : ConnectEnds(b) \/ TimerElapses(b) \/ BackendChanges(b))

Spec == Init /\ [][Next]_vars

\* The reactor's maintenance callback polls in every round, and time passes.
FairSpec == Spec /\ WF_vars(Checker) /\ \A b \in Backend : WF_vars(TimerElapses(b))
-----------------------------------------------------------------------------
(***************************************************************************)
(* Properties                                                              *)
(***************************************************************************)

\* Every variable has its type.
TypeOK ==
  /\ pc \in {"idle", "poll"} /\ at \in 0..N
  /\ ready \subseteq Nat /\ expired \subseteq Backend
  /\ state \in [Backend -> [status : Status, successes : 0..2, failures : 0..3]]
  /\ token \in [Backend -> Nat] /\ nextProbeToken \in 1 .. LastToken + 1
  /\ timer \in [Backend -> {"armed", "due"}]
  /\ conn \in [Backend -> {"none", "pending", "ok", "error"}]
  /\ up \in [Backend -> BOOLEAN]
  /\ results \in [Backend -> Seq(BOOLEAN)]

\* A success is counted only for a connection that was established: an event of
\* another probe never completes one that is still pending.
SuccessIsReal ==
  [][\A b \in Backend :
       token[b] # 0 /\ token'[b] = 0 /\ state'[b].failures = 0 => conn[b] = "ok"]_vars

\* The last n results of b are all equal to success.
LastAre(b, n, success) ==
  Len(results[b]) >= n /\ \A i \in 0 .. n - 1 : results[b][Len(results[b]) - i] = success

\* The status is what the run of results says, not what it once was: two successes
\* in a row always make it Healthy, three failures Unhealthy, and only they do.
StatusFollowsResults ==
  [][\A b \in Backend :
       /\ LastAre(b, 2, TRUE)' => state'[b].status = "Healthy"
       /\ LastAre(b, 3, FALSE)' => state'[b].status = "Unhealthy"
       /\ state'[b].status # state[b].status =>
            \/ state'[b].status = "Healthy" /\ LastAre(b, 2, TRUE)'
            \/ state'[b].status = "Unhealthy" /\ LastAre(b, 3, FALSE)']_vars

\* A backend that stays down leaves the rotation, although its probes may hang.
DeadBackendLeaves ==
  \A b \in Backend : <>[](~up[b]) => <>[](state[b].status # "Healthy")
=============================================================================
