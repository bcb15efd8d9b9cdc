------------------------ MODULE TcpHealthCheckerProofs -----------------------
(***************************************************************************)
(* The TCP prober counts a success only for a connection that was made,    *)
(* and the status of a backend is what its last results say, for any       *)
(* number of backends and probes.                                          *)
(***************************************************************************)
EXTENDS TcpHealthChecker, SequenceTheorems, TLAPS

HealthState == [status : Status, successes : 0..2, failures : 0..3]

\* A probe in flight has a token of its own, and a token that this poll found
\* ready is that of a connection that has ended: no later probe shares it.
ProbesAreDistinct ==
  /\ \A b \in Backend : token[b] < nextProbeToken /\ (conn[b] # "none" => token[b] # 0)
  /\ \A b, c \in Backend : token[b] # 0 /\ token[b] = token[c] => b = c
  /\ \A r \in ready : r < nextProbeToken
  /\ \A b \in Backend : token[b] # 0 /\ token[b] \in ready => conn[b] \in {"ok", "error"}

\* The counters are the lengths of the runs at the end of the results.
Agrees(b) ==
  /\ Len(results[b]) \in 0..3
  /\ \A n \in 1..2 : LastAre(b, n, TRUE) <=> state[b].successes >= n
  /\ \A n \in 1..3 : LastAre(b, n, FALSE) <=> state[b].failures >= n
  /\ state[b].successes = 2 => state[b].status = "Healthy"
  /\ state[b].failures = 3 => state[b].status = "Unhealthy"
CountersAreRuns == \A b \in Backend : Agrees(b)

Inv == TypeOK /\ ProbesAreDistinct /\ CountersAreRuns
-----------------------------------------------------------------------------
(***************************************************************************)
(* Results                                                                 *)
(***************************************************************************)

\* HealthState::applyProbeResult.
LEMMA Application ==
  ASSUME NEW s \in HealthState, NEW success \in BOOLEAN
  PROVE  LET a == applyProbeResult(s, success) IN
         /\ a \in HealthState
         /\ \A n \in 1..2 : a.successes >= n <=> success /\ (n = 1 \/ s.successes >= n - 1)
         /\ \A n \in 1..3 : a.failures >= n <=> ~success /\ (n = 1 \/ s.failures >= n - 1)
         /\ a.successes = 2 => a.status = "Healthy"
         /\ a.failures = 3 => a.status = "Unhealthy"
         /\ a.status # s.status => \/ a.status = "Healthy" /\ a.successes = 2
                                   \/ a.status = "Unhealthy" /\ a.failures = 3
  BY DEF HealthState, Status, applyProbeResult, Least

\* The last n of the values s are all v.
Run(s, n, v) == Len(s) >= n /\ \A i \in 0 .. n - 1 : s[Len(s) - i] = v

\* A run grows by one with an equal value, and ends with another one.
LEMMA RunGrows ==
  ASSUME NEW S, NEW s \in Seq(S), Len(s) \in 0..3, NEW x \in S, NEW v \in S, NEW n \in 1..3
  PROVE  /\ LastThree(Append(s, x)) \in Seq(S) /\ Len(LastThree(Append(s, x))) \in 0..3
         /\ Run(LastThree(Append(s, x)), n, v) <=> x = v /\ (n = 1 \/ Run(s, n - 1, v))
<1> DEFINE a == Append(s, x)
           r == LastThree(a)
           l == Len(r)
           m == Len(s)
<1>1. /\ m \in 0..3 /\ r \in Seq(S)
      /\ l = (IF m < 3 THEN m + 1 ELSE m) /\ r[l] = x
      /\ \A i \in 1..2 : i < l => r[l - i] = s[m - (i - 1)]
  <2>1. /\ m \in 0..3 /\ a \in Seq(S) /\ Len(a) = m + 1
        /\ a[m + 1] = x /\ \A i \in 1 .. m : a[i] = s[i]
    OBVIOUS
  <2> HIDE DEF a, r, m
  <2>2. CASE m < 3
    <3>1. r = a
      BY <2>1, <2>2 DEF LastThree, r
    <3> QED
      BY <2>1, <2>2, <3>1
  <2>3. CASE ~(m < 3)
    <3>1. r = Tail(a) /\ a # <<>>
      BY <2>1, <2>3 DEF LastThree, r
    <3>2. /\ Tail(a) \in Seq(S) /\ Len(Tail(a)) = Len(a) - 1
          /\ \A i \in 1 .. Len(Tail(a)) : Tail(a)[i] = a[i + 1]
      BY <2>1, <3>1, HeadTailProperties
    <3>3. r \in Seq(S) /\ Len(r) = m /\ \A i \in 1 .. m : r[i] = a[i + 1]
      BY <2>1, <3>1, <3>2
    <3> QED
      BY <2>1, <2>3, <3>3
  <2> QED
    BY <2>2, <2>3
<1>2. Run(r, n, v) <=> l >= n /\ \A i \in 0 .. n - 1 : r[l - i] = v
  BY DEF Run
<1>3. Run(s, n - 1, v) <=> m >= n - 1 /\ \A j \in 0 .. n - 2 : s[m - j] = v
  <2>1. n - 1 - 1 = n - 2
    OBVIOUS
  <2> QED
    BY <2>1 DEF Run
<1> HIDE DEF a, r, l, m
<1>4. l \in 0..3 /\ (l >= n <=> m >= n - 1)
  BY <1>1
<1>5. ASSUME l >= n
      PROVE  (\A i \in 0 .. n - 1 : r[l - i] = v)
               <=> x = v /\ \A j \in 0 .. n - 2 : s[m - j] = v
  <2>1. r[l - 0] = x
    BY <1>1, <1>4
  <2>2. \A i \in 1 .. n - 1 : r[l - i] = s[m - (i - 1)]
    BY <1>1, <1>4, <1>5
  <2>3. ASSUME \A i \in 0 .. n - 1 : r[l - i] = v
        PROVE  x = v /\ \A j \in 0 .. n - 2 : s[m - j] = v
    <3>1. ASSUME NEW j \in 0 .. n - 2
          PROVE  s[m - j] = v
      <4>1. j + 1 \in 1 .. n - 1 /\ j + 1 \in 0 .. n - 1 /\ (j + 1) - 1 = j
        OBVIOUS
      <4> QED
        BY <2>2, <2>3, <4>1
    <3>2. 0 \in 0 .. n - 1
      OBVIOUS
    <3> QED
      BY <2>1, <2>3, <3>1, <3>2
  <2>4. ASSUME x = v, \A j \in 0 .. n - 2 : s[m - j] = v, NEW i \in 0 .. n - 1
        PROVE  r[l - i] = v
    <3>1. CASE i = 0
      BY <2>1, <2>4, <3>1
    <3>2. CASE i # 0
      <4>1. i \in 1 .. n - 1 /\ i - 1 \in 0 .. n - 2
        BY <3>2
      <4> QED
        BY <2>2, <2>4, <4>1
    <3> QED
      BY <3>1, <3>2
  <2> QED
    BY <2>3, <2>4
<1>6. n = 1 => m >= n - 1 /\ \A j \in 0 .. n - 2 : s[m - j] = v
  BY <1>1
<1>7. Run(r, n, v) <=> x = v /\ (n = 1 \/ Run(s, n - 1, v))
  BY <1>2, <1>3, <1>4, <1>5, <1>6
<1> QED
  BY <1>1, <1>4, <1>7 DEF a, r, l
-----------------------------------------------------------------------------
(***************************************************************************)
(* The steps                                                               *)
(***************************************************************************)

\* A new result moves the counters as it moves the runs.
LEMMA ResultCounted ==
  ASSUME Inv, NEW b \in Backend, NEW success \in BOOLEAN,
         state'[b] = applyProbeResult(state[b], success),
         results'[b] = LastThree(Append(results[b], success))
  PROVE  Agrees(b)' /\ state'[b] \in HealthState /\ results'[b] \in Seq(BOOLEAN)
<1>1. /\ state[b] \in HealthState /\ results[b] \in Seq(BOOLEAN) /\ Len(results[b]) \in 0..3
      /\ \A n \in 1..2 : LastAre(b, n, TRUE) <=> state[b].successes >= n
      /\ \A n \in 1..3 : LastAre(b, n, FALSE) <=> state[b].failures >= n
  BY DEF Inv, TypeOK, CountersAreRuns, Agrees, HealthState
<1>2. \A n \in 1..3, v \in BOOLEAN :
        /\ results'[b] \in Seq(BOOLEAN) /\ Len(results'[b]) \in 0..3
        /\ LastAre(b, n, v)' <=> success = v /\ (n = 1 \/ LastAre(b, n - 1, v))
  <2> SUFFICES ASSUME NEW n \in 1..3, NEW v \in BOOLEAN
               PROVE  /\ results'[b] \in Seq(BOOLEAN) /\ Len(results'[b]) \in 0..3
                      /\ LastAre(b, n, v)' <=> success = v /\ (n = 1 \/ LastAre(b, n - 1, v))
    OBVIOUS
  <2>1. /\ results'[b] \in Seq(BOOLEAN) /\ Len(results'[b]) \in 0..3
        /\ Run(results'[b], n, v) <=> success = v /\ (n = 1 \/ Run(results[b], n - 1, v))
    <3> DEFINE r == LastThree(Append(results[b], success))
               B == BOOLEAN
    <3>1. success \in B /\ v \in B /\ results[b] \in Seq(B) /\ Len(results[b]) \in 0..3
      BY <1>1
    <3> HIDE DEF B
    <3>2. /\ r \in Seq(B) /\ Len(r) \in 0..3
          /\ Run(r, n, v) <=> success = v /\ (n = 1 \/ Run(results[b], n - 1, v))
      BY ONLY <3>1, n \in 1..3, RunGrows, Zenon
    <3> QED
      BY <3>2, Zenon DEF B
  <2>2. LastAre(b, n, v)' <=> Run(results'[b], n, v)
    BY DEF LastAre, Run
  <2>3. LastAre(b, n - 1, v) <=> Run(results[b], n - 1, v)
    BY DEF LastAre, Run
  <2> QED
    BY <2>1, <2>2, <2>3, Zenon
<1> DEFINE a == state'[b]
<1>3. /\ a \in HealthState
      /\ \A n \in 1..2 : a.successes >= n <=> success /\ (n = 1 \/ state[b].successes >= n - 1)
      /\ \A n \in 1..3 : a.failures >= n <=> ~success /\ (n = 1 \/ state[b].failures >= n - 1)
      /\ a.successes = 2 => a.status = "Healthy"
      /\ a.failures = 3 => a.status = "Unhealthy"
  BY <1>1, Application
<1>4. ASSUME NEW n \in 1..2
      PROVE  LastAre(b, n, TRUE)' <=> a.successes >= n
  <2>1. n = 1 \/ n - 1 \in 1..2
    OBVIOUS
  <2>2. n \in 1..3
    OBVIOUS
  <2>3. LastAre(b, n, TRUE)' <=> success = TRUE /\ (n = 1 \/ LastAre(b, n - 1, TRUE))
    BY <1>2, <2>2, Zenon
  <2> QED
    BY <1>1, <1>3, <2>1, <2>3, Zenon
<1>5. ASSUME NEW n \in 1..3
      PROVE  LastAre(b, n, FALSE)' <=> a.failures >= n
  <2>1. n = 1 \/ n - 1 \in 1..3
    OBVIOUS
  <2>2. LastAre(b, n, FALSE)' <=> success = FALSE /\ (n = 1 \/ LastAre(b, n - 1, FALSE))
    BY <1>2, Zenon
  <2> QED
    BY <1>1, <1>3, <2>1, <2>2, Zenon
<1>6. Len(results'[b]) \in 0..3 /\ results'[b] \in Seq(BOOLEAN)
  <2>1. 1 \in 1..3
    OBVIOUS
  <2> QED
    BY <1>2, <2>1, Zenon
<1> QED
  BY <1>3, <1>4, <1>5, <1>6, Zenon DEF Agrees

CheckerTypes ==
  /\ state \in [Backend -> HealthState] /\ token \in [Backend -> Nat]
  /\ nextProbeToken \in 1 .. LastToken + 1 /\ timer \in [Backend -> {"armed", "due"}]
  /\ conn \in [Backend -> {"none", "pending", "ok", "error"}]
  /\ results \in [Backend -> Seq(BOOLEAN)]
PollTypes == pc \in {"idle", "poll"} /\ at \in 0..N /\ ready \subseteq Nat /\ expired \subseteq Backend

UpTypes == up \in [Backend -> BOOLEAN]

\* The invariant gives each group of variables its type.
LEMMA Types == Inv => CheckerTypes /\ PollTypes /\ UpTypes
  BY DEF Inv, TypeOK, CheckerTypes, PollTypes, UpTypes, HealthState

\* The invariant holds after a step that preserves its parts.
LEMMA Together ==
  ASSUME CheckerTypes', PollTypes', UpTypes', ProbesAreDistinct', CountersAreRuns'
  PROVE  Inv'
  BY DEF Inv, TypeOK, CheckerTypes, PollTypes, UpTypes, HealthState

\* A result that was not touched still agrees with its counters.
LEMMA SameResults ==
  ASSUME NEW b \in Backend, Agrees(b), state'[b] = state[b], results'[b] = results[b]
  PROVE  Agrees(b)'
  BY DEF Agrees, LastAre

\* Applying a probe's result keeps the counters the length of the run they count.
LEMMA CompleteStep ==
  ASSUME Inv, NEW b \in Backend, NEW success \in BOOLEAN, completeBackendProbe(b, success),
         UNCHANGED ready
  PROVE  CheckerTypes' /\ ProbesAreDistinct' /\ CountersAreRuns'
<1>1. CheckerTypes
  BY Types
<1>2. /\ state' = [state EXCEPT ![b] = applyProbeResult(state[b], success)]
      /\ results' = [results EXCEPT ![b] = LastThree(Append(results[b], success))]
      /\ token' = [token EXCEPT ![b] = 0] /\ conn' = [conn EXCEPT ![b] = "none"]
      /\ timer' = [timer EXCEPT ![b] = "armed"] /\ nextProbeToken' = nextProbeToken
  BY DEF completeBackendProbe
<1>3. state'[b] = applyProbeResult(state[b], success)
        /\ results'[b] = LastThree(Append(results[b], success))
  BY <1>1, <1>2 DEF CheckerTypes
<1>4. Agrees(b)' /\ state'[b] \in HealthState /\ results'[b] \in Seq(BOOLEAN)
  BY <1>3, ResultCounted
<1>5. \A c \in Backend : c # b => state'[c] = state[c] /\ results'[c] = results[c]
  BY <1>1, <1>2 DEF CheckerTypes
<1>6. CountersAreRuns'
  BY <1>4, <1>5, SameResults DEF Inv, CountersAreRuns
<1>7. state' \in [Backend -> HealthState] /\ results' \in [Backend -> Seq(BOOLEAN)]
  BY <1>1, <1>2, <1>4 DEF CheckerTypes
<1>8. CheckerTypes'
  BY <1>1, <1>2, <1>7 DEF CheckerTypes
<1>9. ProbesAreDistinct'
  BY <1>1, <1>2, CheckerBounds DEF Inv, ProbesAreDistinct, CheckerTypes
<1> QED
  BY <1>6, <1>8, <1>9

\* A new probe draws a token that no probe in flight has, or fails at once.
LEMMA StartStep ==
  ASSUME Inv, NEW b \in Backend, startBackendProbe(b), UNCHANGED ready
  PROVE  CheckerTypes' /\ ProbesAreDistinct' /\ CountersAreRuns'
<1>1. CheckerTypes /\ ready \subseteq Nat
  BY Types DEF PollTypes
<1>2. CASE completeBackendProbe(b, FALSE) \/ completeBackendProbe(b, TRUE)
  BY <1>2, CompleteStep
<1>3. CASE /\ nextProbeToken <= LastToken /\ drawToken
           /\ token' = [token EXCEPT ![b] = nextProbeToken]
           /\ timer' = [timer EXCEPT ![b] = "armed"] /\ conn' = [conn EXCEPT ![b] = "pending"]
           /\ UNCHANGED <<state, results>>
  <2>1. nextProbeToken' = nextProbeToken + 1 /\ nextProbeToken \in Nat \ {0}
          /\ nextProbeToken' \in 1 .. LastToken + 1
    BY <1>1, <1>3, CheckerBounds DEF drawToken, CheckerTypes
  <2>2. CheckerTypes'
    BY <1>1, <1>3, <2>1 DEF CheckerTypes
  <2>3. \A c \in Backend : token'[c] = IF c = b THEN nextProbeToken ELSE token[c]
    BY <1>1, <1>3 DEF CheckerTypes
  <2>4. \A c \in Backend : conn'[c] = IF c = b THEN "pending" ELSE conn[c]
    BY <1>1, <1>3 DEF CheckerTypes
  <2>5. \A c \in Backend : token[c] \in Nat /\ token[c] < nextProbeToken
    BY <1>1 DEF Inv, ProbesAreDistinct, CheckerTypes
  <2>6. ProbesAreDistinct'
    BY <1>1, <2>1, <2>3, <2>4, <2>5 DEF Inv, ProbesAreDistinct
  <2>7. CountersAreRuns'
    BY <1>3, SameResults DEF Inv, CountersAreRuns
  <2> QED
    BY <2>2, <2>6, <2>7
<1> QED
  BY <1>2, <1>3 DEF startBackendProbe

\* The poll's visit to one backend: its result, its timeout or its next probe.
LEMMA PollBackendStep ==
  ASSUME Inv, pollBackend
  PROVE  Inv'
<1>1. at \in Backend /\ PollTypes' /\ UpTypes' /\ ready' = ready
  <2>1. PollTypes /\ UpTypes
    BY Types
  <2> QED
    BY <2>1, CheckerBounds DEF PollTypes, UpTypes, pollBackend, Backend
<1>2. CASE \E success \in BOOLEAN : completeBackendProbe(at, success)
  <2>1. CheckerTypes' /\ ProbesAreDistinct' /\ CountersAreRuns'
    BY <1>1, <1>2, CompleteStep
  <2> QED
    BY <1>1, <2>1, Together
<1>3. CASE startBackendProbe(at)
  <2>1. CheckerTypes' /\ ProbesAreDistinct' /\ CountersAreRuns'
    BY <1>1, <1>3, StartStep
  <2> QED
    BY <1>1, <2>1, Together
<1>4. CASE UNCHANGED checkerVars
  <2>1. CheckerTypes' /\ ProbesAreDistinct'
    BY <1>1, <1>4, Types DEF Inv, CheckerTypes, ProbesAreDistinct, checkerVars
  <2>2. CountersAreRuns'
    BY <1>4, SameResults DEF Inv, CountersAreRuns, checkerVars
  <2> QED
    BY <1>1, <2>1, <2>2, Together
<1>5. (conn[at] # "error") \in BOOLEAN
  OBVIOUS
<1> QED
  BY <1>2, <1>3, <1>4, <1>5 DEF pollBackend

\* The start and the end of a poll touch only the set of ready tokens.
LEMMA PollStep ==
  ASSUME Inv, pollHealthProbes \/ endPoll
  PROVE  Inv'
<1>1. UNCHANGED <<checkerVars, up>>
  BY DEF pollHealthProbes, endPoll
<1>2. CheckerTypes /\ PollTypes /\ UpTypes
  BY Types
<1>3. ready' \in {{}, ReadyTokens}
  BY DEF pollHealthProbes, endPoll
<1>4. ReadyTokens \subseteq Nat
  BY <1>2 DEF ReadyTokens, CheckerTypes
<1>5. CheckerTypes' /\ UpTypes'
  BY <1>1, <1>2 DEF CheckerTypes, UpTypes, checkerVars
<1>6. PollTypes'
  <2>1. pc' \in {"idle", "poll"} /\ at' = 0 /\ expired' \subseteq Backend
    BY DEF pollHealthProbes, endPoll
  <2>2. ready' \subseteq Nat
    BY <1>3, <1>4
  <2>3. 0 \in 0..N
    BY CheckerBounds
  <2> QED
    BY <2>1, <2>2, <2>3 DEF PollTypes
<1>7. ProbesAreDistinct'
  BY <1>1, <1>3 DEF Inv, ProbesAreDistinct, ReadyTokens, checkerVars
<1>8. CountersAreRuns'
  BY <1>1, SameResults DEF Inv, CountersAreRuns, checkerVars
<1> QED
  BY <1>5, <1>6, <1>7, <1>8, Together

\* Connects, timers and backends change nothing that the checker counts.
LEMMA EnvironmentStep ==
  ASSUME Inv, \/ UNCHANGED vars
              \/ \E b \in Backend : ConnectEnds(b) \/ TimerElapses(b) \/ BackendChanges(b)
  PROVE  Inv'
<1>1. UNCHANGED <<pollVars, state, token, nextProbeToken, results>>
  BY DEF ConnectEnds, TimerElapses, BackendChanges, vars, checkerVars
<1>2. CheckerTypes /\ PollTypes /\ UpTypes
  BY Types
<1>3. /\ conn' \in [Backend -> {"none", "pending", "ok", "error"}]
      /\ \A b \in Backend : conn'[b] = conn[b] \/ (conn[b] = "pending" /\ conn'[b] \in {"ok", "error"})
  BY <1>2 DEF ConnectEnds, TimerElapses, BackendChanges, vars, checkerVars, CheckerTypes
<1>4. timer' \in [Backend -> {"armed", "due"}]
  BY <1>2 DEF ConnectEnds, TimerElapses, BackendChanges, vars, checkerVars, CheckerTypes
<1>5. UpTypes'
  BY <1>2 DEF UpTypes, ConnectEnds, TimerElapses, BackendChanges, vars, checkerVars
<1>6. CheckerTypes' /\ PollTypes'
  BY <1>1, <1>2, <1>3, <1>4 DEF CheckerTypes, PollTypes, pollVars
<1>7. ProbesAreDistinct'
  BY <1>1, <1>3 DEF Inv, ProbesAreDistinct, pollVars
<1>8. CountersAreRuns'
  BY <1>1, SameResults DEF Inv, CountersAreRuns
<1> QED
  BY <1>5, <1>6, <1>7, <1>8, Together

\* The checker starts with no probe in flight and no result counted.
LEMMA InvInit == Init => Inv
<1> SUFFICES ASSUME Init PROVE Inv
  OBVIOUS
<1>1. CheckerTypes /\ PollTypes /\ UpTypes
  <2>1. UpTypes
    BY DEF Init, UpTypes
  <2>2. results \in [Backend -> Seq(BOOLEAN)]
    BY DEF Init
  <2> QED
    BY <2>1, <2>2, CheckerBounds DEF Init, CheckerTypes, PollTypes, HealthState, Status
<1>2. ProbesAreDistinct
  BY DEF Init, ProbesAreDistinct
<1>3. CountersAreRuns
  BY DEF Init, CountersAreRuns, Agrees, LastAre
<1> QED
  BY <1>1, <1>2, <1>3 DEF Inv, TypeOK, CheckerTypes, PollTypes, UpTypes, HealthState

\* Every step preserves the invariant.
LEMMA InvStep == Inv /\ [Next]_vars => Inv'
  BY PollBackendStep, PollStep, EnvironmentStep DEF Next, Checker

\* Types, identities of the probes and counters hold together in every state.
THEOREM CheckerSafe == Spec => []Inv
  BY InvInit, InvStep, PTL DEF Spec
-----------------------------------------------------------------------------
(***************************************************************************)
(* What a step may do                                                      *)
(***************************************************************************)

\* Only a completed probe or a new one changes a result or ends a probe.
LEMMA StepKinds ==
  ASSUME Inv, [Next]_vars
  PROVE  \/ \E success \in BOOLEAN : pollBackend /\ completeBackendProbe(at, success)
         \/ /\ UNCHANGED <<state, results>>
            /\ \A b \in Backend : token'[b] = token[b] \/ token'[b] # 0
<1>1. CheckerTypes /\ PollTypes
  BY Types
<1>2. CASE pollBackend
  <2>1. at \in Backend
    BY <1>1, <1>2, CheckerBounds DEF pollBackend, PollTypes, Backend
  <2>2. CASE \E success \in BOOLEAN : completeBackendProbe(at, success)
    BY <1>2, <2>2
  <2>3. CASE startBackendProbe(at)
    <3>1. CASE completeBackendProbe(at, FALSE) \/ completeBackendProbe(at, TRUE)
      BY <1>2, <3>1
    <3>2. CASE token' = [token EXCEPT ![at] = nextProbeToken] /\ UNCHANGED <<state, results>>
      BY <1>1, <3>2 DEF CheckerTypes
    <3> QED
      BY <2>3, <3>1, <3>2 DEF startBackendProbe
  <2>4. CASE UNCHANGED checkerVars
    BY <2>4 DEF checkerVars
  <2>5. (conn[at] # "error") \in BOOLEAN
    OBVIOUS
  <2> QED
    BY <1>2, <2>2, <2>3, <2>4, <2>5 DEF pollBackend
<1>3. CASE ~pollBackend
  BY <1>3 DEF Next, Checker, pollHealthProbes, endPoll, ConnectEnds, TimerElapses,
              BackendChanges, vars, checkerVars
<1> QED
  BY <1>2, <1>3

\* TcpHealthChecker::finishReadyProbe and the deadline in pollHealthProbes: a probe
\* in flight is completed with success only when its own connection was established.
LEMMA SuccessStep ==
  ASSUME Inv, [Next]_vars, NEW b \in Backend,
         token[b] # 0, token'[b] = 0, state'[b].failures = 0
  PROVE  conn[b] = "ok"
<1>1. CheckerTypes /\ PollTypes
  BY Types
<1>2. PICK success \in BOOLEAN : pollBackend /\ completeBackendProbe(at, success)
  BY StepKinds
<1>3. at \in Backend
  BY <1>1, <1>2, CheckerBounds DEF pollBackend, PollTypes, Backend
<1>4. b = at
  BY <1>1, <1>2, <1>3 DEF completeBackendProbe, CheckerTypes
<1>5. ASSUME completeBackendProbe(at, FALSE)
      PROVE  FALSE
  <2>1. state[at] \in HealthState /\ state'[at] = applyProbeResult(state[at], FALSE)
    BY <1>1, <1>3, <1>5 DEF completeBackendProbe, CheckerTypes
  <2>2. state'[at].failures >= 1
    BY <2>1 DEF applyProbeResult, Least, HealthState
  <2> QED
    BY <1>4, <2>2
<1>6. token[at] \in ready /\ completeBackendProbe(at, conn[at] # "error")
  <2>1. token' # token
    BY <1>4
  <2> QED
    BY <1>2, <1>4, <1>5, <2>1 DEF pollBackend, checkerVars
<1>7. conn[at] \in {"ok", "error"}
  BY <1>3, <1>4, <1>6 DEF Inv, ProbesAreDistinct
<1>8. conn[at] # "error"
  <2>1. CASE conn[at] = "error"
    <3>1. (conn[at] # "error") = FALSE
      BY <2>1
    <3>2. completeBackendProbe(at, FALSE)
      BY <1>6, <3>1
    <3> QED
      BY <1>5, <3>2
  <2> QED
    BY <2>1
<1> QED
  BY <1>4, <1>7, <1>8

\* HealthState::applyProbeResult: the status is the one that the run of results
\* demands, and no other step moves it.
LEMMA StatusStep ==
  ASSUME Inv, [Next]_vars, NEW b \in Backend
  PROVE  /\ LastAre(b, 2, TRUE)' => state'[b].status = "Healthy"
         /\ LastAre(b, 3, FALSE)' => state'[b].status = "Unhealthy"
         /\ state'[b].status # state[b].status =>
              \/ state'[b].status = "Healthy" /\ LastAre(b, 2, TRUE)'
              \/ state'[b].status = "Unhealthy" /\ LastAre(b, 3, FALSE)'
<1>1. CheckerTypes /\ CheckerTypes' /\ PollTypes /\ Agrees(b)'
  <2>1. Inv'
    BY InvStep
  <2>2. CheckerTypes' /\ Agrees(b)'
    BY <2>1 DEF Inv, TypeOK, CheckerTypes, CountersAreRuns, HealthState
  <2> QED
    BY <2>2, Types
<1>2. state'[b] \in HealthState
  BY <1>1 DEF CheckerTypes
<1>3. /\ LastAre(b, 2, TRUE)' <=> state'[b].successes = 2
      /\ LastAre(b, 3, FALSE)' <=> state'[b].failures = 3
  <2>1. 2 \in 1..2 /\ 3 \in 1..3
    OBVIOUS
  <2>2. /\ LastAre(b, 2, TRUE)' <=> state'[b].successes >= 2
        /\ LastAre(b, 3, FALSE)' <=> state'[b].failures >= 3
    BY <1>1, <2>1, Zenon DEF Agrees
  <2>3. /\ state'[b].successes >= 2 <=> state'[b].successes = 2
        /\ state'[b].failures >= 3 <=> state'[b].failures = 3
    BY <1>2 DEF HealthState
  <2> QED
    BY <2>2, <2>3, Zenon
<1>4. /\ state'[b].successes = 2 => state'[b].status = "Healthy"
      /\ state'[b].failures = 3 => state'[b].status = "Unhealthy"
  BY <1>1, Zenon DEF Agrees
<1>5. ASSUME state'[b].status # state[b].status
      PROVE  \/ state'[b].status = "Healthy" /\ state'[b].successes = 2
             \/ state'[b].status = "Unhealthy" /\ state'[b].failures = 3
  <2>1. PICK success \in BOOLEAN : completeBackendProbe(at, success)
    BY <1>5, StepKinds
  <2>2. state[b] \in HealthState /\ state'[b] = applyProbeResult(state[b], success)
    BY <1>1, <1>5, <2>1 DEF completeBackendProbe, CheckerTypes
  <2> QED
    BY <1>5, <2>2, Application
<1> QED
  BY <1>3, <1>4, <1>5, Zenon
-----------------------------------------------------------------------------
(***************************************************************************)
(* The theorems                                                            *)
(***************************************************************************)

\* Whatever the network answers and whenever the poll looks, every variable keeps
\* its type: the counters of HealthState stop at two and at three.
THEOREM TypeCorrect == Spec => []TypeOK
  BY CheckerSafe, PTL DEF Inv

\* A probe that was in flight ends as a success only when its own connection was
\* established: neither a reused token nor a late event completes a pending one.
THEOREM SuccessSafe == Spec => SuccessIsReal
<1>1. Inv /\ [Next]_vars =>
        [\A b \in Backend :
           token[b] # 0 /\ token'[b] = 0 /\ state'[b].failures = 0 => conn[b] = "ok"]_vars
  BY SuccessStep
<1> QED
  BY <1>1, CheckerSafe, PTL DEF Spec, SuccessIsReal

\* Two successes in a row always make a backend Healthy and three failures
\* Unhealthy, and nothing else moves its status.
THEOREM StatusSafe == Spec => StatusFollowsResults
<1>1. Inv /\ [Next]_vars =>
        [\A b \in Backend :
           /\ LastAre(b, 2, TRUE)' => state'[b].status = "Healthy"
           /\ LastAre(b, 3, FALSE)' => state'[b].status = "Unhealthy"
           /\ state'[b].status # state[b].status =>
                \/ state'[b].status = "Healthy" /\ LastAre(b, 2, TRUE)'
                \/ state'[b].status = "Unhealthy" /\ LastAre(b, 3, FALSE)']_vars
  BY StatusStep
<1> QED
  BY <1>1, CheckerSafe, PTL DEF Spec, StatusFollowsResults
=============================================================================
