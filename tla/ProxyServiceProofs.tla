-------------------------- MODULE ProxyServiceProofs --------------------------
(***************************************************************************)
(* The metrics of the proxy tell the truth, and its selection stays fair,  *)
(* for every limit, number of backends and way the service may end.        *)
(***************************************************************************)
EXTENDS ProxyService, TLAPS
-----------------------------------------------------------------------------
(***************************************************************************)
(* The selection                                                           *)
(***************************************************************************)

\* Places between the scheduler's next backend and b.
Distance(n, b) == IF b >= n THEN b - n ELSE b - n + N

\* The inductive invariant: a backend that was passed over p times is at most
\* N - 1 - p places away, because each selection that does not choose it moves the
\* scheduler towards it and never past it.
Approaches ==
  \A b \in Backend : passedOver[b] + Distance(nextBackendIndex, b) <= N - 1

Inv == TypeOK /\ Approaches

\* Choosing the first eligible backend brings every other eligible one nearer.
LEMMA Nearer ==
  ASSUME NEW n \in Backend, nextBackendIndex = n, NEW k \in 0 .. N - 1, NEW b \in Backend, b # Ahead(k),
         \A j \in 0 .. k - 1 : Ahead(j) # b
  PROVE  /\ Ahead(k) \in Backend /\ selectNextBackendIndex(Ahead(k)) \in Backend
         /\ Distance(selectNextBackendIndex(Ahead(k)), b) < Distance(n, b)
<1> DEFINE d == Distance(n, b)
<1>1. d \in 0 .. N - 1 /\ Ahead(d) = b
  BY SelectionBounds DEF Backend, Distance, Ahead
<1>2. d > k
  BY <1>1
<1>3. Ahead(k) \in Backend /\ selectNextBackendIndex(Ahead(k)) \in Backend
  BY SelectionBounds DEF Backend, Ahead, selectNextBackendIndex
<1>4. Distance(selectNextBackendIndex(Ahead(k)), b) < d
  BY <1>2, SelectionBounds DEF Backend, Ahead, selectNextBackendIndex, Distance
<1> QED
  BY <1>3, <1>4

\* No backend is further away than all the others.
LEMMA DistanceRange ==
  ASSUME NEW n \in Backend, NEW b \in Backend
  PROVE  Distance(n, b) \in 0 .. N - 1
  BY SelectionBounds DEF Backend, Distance

\* Selections and polls keep the invariant.
LEMMA InvStep == Inv /\ [Next]_vars => Inv'
<1> SUFFICES ASSUME Inv, [Next]_vars PROVE Inv'
  OBVIOUS
<1> nextBackendIndex \in Backend /\ passedOver \in [Backend -> Nat] /\ N \in Nat \ {0}
  BY SelectionBounds DEF Inv, TypeOK
<1>1. CASE UNCHANGED vars
  BY <1>1 DEF Inv, TypeOK, Approaches, vars
<1>2. CASE pollHealthProbes
  <2>1. TypeOK'
    BY <1>2 DEF pollHealthProbes, Polled, Inv, TypeOK
  <2>2. ASSUME NEW b \in Backend
        PROVE  passedOver'[b] + Distance(nextBackendIndex', b) <= N - 1
    <3>1. passedOver'[b] <= passedOver[b] /\ passedOver'[b] \in Nat /\ passedOver[b] \in Nat
      BY <1>2 DEF pollHealthProbes
    <3>2. passedOver[b] + Distance(nextBackendIndex, b) <= N - 1
      BY DEF Inv, Approaches
    <3>3. Distance(nextBackendIndex, b) \in 0 .. N - 1 /\ nextBackendIndex' = nextBackendIndex
      BY <1>2, DistanceRange DEF pollHealthProbes
    <3> QED
      BY <3>1, <3>2, <3>3
  <2> QED
    BY <2>1, <2>2 DEF Inv, Approaches
<1>3. CASE selectBackend
  <2>1. CASE eligible' = {} /\ UNCHANGED nextBackendIndex /\ passedOver' = [b \in Backend |-> 0]
    <3>1. \A b \in Backend : Distance(nextBackendIndex, b) \in 0 .. N - 1
      BY DistanceRange
    <3>2. TypeOK'
      BY <2>1 DEF TypeOK
    <3>3. ASSUME NEW b \in Backend
          PROVE  passedOver'[b] + Distance(nextBackendIndex', b) <= N - 1
      BY <2>1, <3>1
    <3> QED
      BY <3>2, <3>3 DEF Inv, Approaches
  <2>2. ASSUME NEW k \in 0 .. N - 1, eligible' \in SUBSET Backend,
               Ahead(k) \in eligible', \A j \in 0 .. k - 1 : Ahead(j) \notin eligible',
               nextBackendIndex' = selectNextBackendIndex(Ahead(k)),
               passedOver' = [b \in Backend |->
                               IF b \in eligible' /\ b # Ahead(k) THEN passedOver[b] + 1 ELSE 0]
        PROVE  Inv'
    <3>1. nextBackendIndex' \in Backend
      <4>1. Ahead(k) \in Backend
        BY <2>2
      <4>2. \A b \in Backend : selectNextBackendIndex(b) \in Backend
        BY SelectionBounds DEF selectNextBackendIndex, Backend
      <4> QED
        BY <2>2, <4>1, <4>2
    <3>2. TypeOK'
      BY <2>2, <3>1 DEF TypeOK
    <3>3. ASSUME NEW b \in Backend
          PROVE  passedOver'[b] + Distance(nextBackendIndex', b) <= N - 1
      <4>1. CASE b \in eligible' /\ b # Ahead(k)
        <5>1. Distance(nextBackendIndex', b) < Distance(nextBackendIndex, b)
          BY <2>2, <4>1, Nearer
        <5>2. passedOver[b] + Distance(nextBackendIndex, b) <= N - 1 /\ passedOver[b] \in Nat
          BY DEF Inv, Approaches
        <5>3. Distance(nextBackendIndex', b) \in 0 .. N - 1 /\ Distance(nextBackendIndex, b) \in 0 .. N - 1
          BY <3>1, DistanceRange
        <5>4. passedOver'[b] = passedOver[b] + 1
          BY <2>2, <4>1
        <5> QED
          BY <5>1, <5>2, <5>3, <5>4
      <4>2. CASE ~(b \in eligible' /\ b # Ahead(k))
        <5>1. passedOver'[b] = 0
          BY <2>2, <4>2
        <5> QED
          BY <3>1, <5>1, DistanceRange
      <4> QED
        BY <4>1, <4>2
    <3> QED
      BY <3>2, <3>3 DEF Inv, Approaches
  <2> QED
    BY <1>3, <2>1, <2>2 DEF selectBackend, selectEligibleBackendIndex, Polled
<1> QED
  BY <1>1, <1>2, <1>3 DEF Next

\* The scheduler starts at the first backend, with nobody passed over.
LEMMA InitInv == Init => Inv
<1> SUFFICES ASSUME Init PROVE Inv
  OBVIOUS
<1>1. TypeOK
  BY SelectionBounds DEF Init, TypeOK, Backend
<1>2. \A b \in Backend : Distance(0, b) \in 0 .. N - 1
  BY DistanceRange, SelectionBounds DEF Backend
<1> QED
  BY <1>1, <1>2, SelectionBounds DEF Init, Inv, Approaches

\* A distance is never negative, so the invariant bounds the passes.
LEMMA InvSuffices == Inv => NoStarvation
<1> SUFFICES ASSUME Inv, NEW b \in Backend PROVE passedOver[b] < N
  BY DEF NoStarvation
<1>1. Distance(nextBackendIndex, b) \in 0 .. N - 1 /\ passedOver[b] \in Nat
  BY DistanceRange DEF Inv, TypeOK
<1>2. passedOver[b] + Distance(nextBackendIndex, b) <= N - 1
  BY DEF Inv, Approaches
<1> QED
  BY <1>1, <1>2, SelectionBounds

\* selectEligibleBackendIndex chooses a backend that stays Healthy at least once in
\* every N selections.
THEOREM Fairness == Spec => []NoStarvation
  BY InitInv, InvStep, InvSuffices, PTL DEF Spec
-----------------------------------------------------------------------------
(***************************************************************************)
(* The service and its metrics                                             *)
(***************************************************************************)

Over   == {"return", "catch", "exit", "error exit"}
Exited == {"exit", "error exit"}

\* Sessions are there only while the reactor runs: it has closed them before the
\* service learns that it is over.
ClosedWhenOver == step \notin {"run", "drain"} => sessions = 0

\* What has been shown follows from the output's flags, which follow the service.
OutputInStep ==
  /\ step = "start" => ~output.ready
  /\ step \in {"run", "drain", "return", "exit"} => output.ready
  /\ output.finalized <=> step \in Exited
  /\ output.enabled => ~torn /\ shown.seq = output.seq
  /\ output.enabled /\ ~output.finalized =>
       shown.phase \in (IF output.ready THEN {"ready", "periodic"} ELSE {"none"})
  /\ output.enabled /\ step \in Exited => shown.phase = (IF step = "exit" THEN "final" ELSE "error")

ServiceInv == Inv /\ ServiceTypeOK /\ GaugeIsSessions /\ ClosedWhenOver /\ OutputInStep

\* Counting one event keeps the totals within their width, and says when one is full.
LEMMA Counters ==
  ASSUME NEW v \in 0 .. CounterMax, NEW n \in Nat
  PROVE  /\ addSaturatingCounter(v, n) \in 0 .. CounterMax
         /\ ~saturates(v, n) => addSaturatingCounter(v, n) = v + n /\ v + n < CounterMax
         /\ saturates(v, n) <=> addSaturatingCounter(v, n) = CounterMax
  BY ServiceBounds DEF addSaturatingCounter, saturates

\* The fields of the collector's data.
LEMMA DataFields ==
  ASSUME NEW d \in Data
  PROVE  /\ d.active \in 0 .. GaugeLimit /\ d.created \in 0 .. CounterMax
         /\ d.closed \in 0 .. CounterMax /\ d.others \in 0 .. CounterMax /\ d.saturated \in BOOLEAN
  BY DEF Data

\* recordStatEvent, kCreated, below the limit of the gauge.
LEMMA CreatedBalances ==
  ASSUME NEW d \in Data, NEW n \in Nat, n < GaugeLimit, Balanced(d, n)
  PROVE  recordCreated(d) \in Data /\ Balanced(recordCreated(d), n + 1)
<1> DEFINE c == addSaturatingCounter(d.created, 1)
           r == [active |-> d.active + 1, created |-> c, closed |-> d.closed, others |-> d.others,
                 saturated |-> d.saturated \/ saturates(d.created, 1)]
<1>1. d.active = n /\ ~(d.active >= GaugeLimit)
  BY ServiceBounds DEF Balanced
<1>2. recordCreated(d) = r
  BY <1>1, Zenon DEF recordCreated
<1>3. n + 1 \in 0 .. GaugeLimit
  BY ServiceBounds
<1>4. /\ c \in 0 .. CounterMax
      /\ ~saturates(d.created, 1) => c = d.created + 1 /\ c < CounterMax
      /\ saturates(d.created, 1) <=> c = CounterMax
  BY DataFields, Counters
<1> HIDE DEF c
<1>5. /\ r \in Data /\ r.active = n + 1 /\ r.created = c /\ r.closed = d.closed
      /\ (r.saturated <=> d.saturated \/ saturates(d.created, 1))
  BY <1>1, <1>3, <1>4 DEF saturates, Data
<1> HIDE DEF r
<1>6. ~r.saturated => r.created = r.closed + (n + 1)
  BY <1>4, <1>5, DataFields DEF Balanced
<1>7. r.created = CounterMax \/ r.closed = CounterMax => r.saturated
  BY <1>4, <1>5 DEF Balanced
<1> QED
  BY <1>2, <1>5, <1>6, <1>7 DEF Balanced

\* recordStatEvent, kClosed, for some of the sessions that are open.
LEMMA ClosedBalances ==
  ASSUME NEW d \in Data, NEW n \in Nat, NEW k \in 0 .. n, Balanced(d, n)
  PROVE  recordClosed(d, k) \in Data /\ Balanced(recordClosed(d, k), n - k)
<1> DEFINE c == addSaturatingCounter(d.closed, k)
           r == [active |-> d.active - k, created |-> d.created, closed |-> c, others |-> d.others,
                 saturated |-> d.saturated \/ saturates(d.closed, k)]
<1>1. d.active = n /\ k <= d.active
  BY DEF Balanced
<1>2. CASE k = 0
  BY <1>1, <1>2 DEF recordClosed
<1>3. CASE k # 0
  <2>1. recordClosed(d, k) = r
    BY <1>1, <1>3, Zenon DEF recordClosed
  <2>2. n - k \in 0 .. GaugeLimit
    BY <1>1, DataFields, ServiceBounds
  <2>3. /\ c \in 0 .. CounterMax
        /\ ~saturates(d.closed, k) => c = d.closed + k /\ c < CounterMax
        /\ saturates(d.closed, k) <=> c = CounterMax
    BY DataFields, Counters
  <2> HIDE DEF c
  <2>4. /\ r \in Data /\ r.active = n - k /\ r.created = d.created /\ r.closed = c
        /\ (r.saturated <=> d.saturated \/ saturates(d.closed, k))
    BY <1>1, <2>2, <2>3 DEF saturates, Data
  <2> HIDE DEF r
  <2>5. ASSUME ~r.saturated PROVE r.created = r.closed + (n - k)
    <3>1. d.created = d.closed + n /\ c = d.closed + k
      BY <2>3, <2>4, <2>5 DEF Balanced
    <3> QED
      BY <2>4, <3>1, DataFields
  <2>6. r.created = CounterMax \/ r.closed = CounterMax => r.saturated
    BY <2>3, <2>4 DEF Balanced
  <2> QED
    BY <2>1, <2>4, <2>5, <2>6 DEF Balanced
<1> QED
  BY <1>2, <1>3

\* recordStatEvent for the kinds that open and close nothing.
LEMMA OtherBalances ==
  ASSUME NEW d \in Data, NEW n \in Nat, Balanced(d, n)
  PROVE  recordOther(d) \in Data /\ Balanced(recordOther(d), n)
<1>1. recordOther(d) \in Data
  BY Counters, ServiceBounds DEF recordOther, saturates, Data
<1>2. Balanced(recordOther(d), n)
  BY Counters, ServiceBounds DEF recordOther, Balanced, Data
<1> QED
  BY <1>1, <1>2
-----------------------------------------------------------------------------
Shown == [phase : Phase, seq : 0 .. CounterMax]

\* emitSnapshot writes the whole line, with the next number, or is disabled.
LEMMA EmitStep ==
  ASSUME NEW o \in Output, NEW phase \in Phase, emitSnapshot(o, phase),
         torn \in BOOLEAN, shown \in Shown, o.enabled => ~torn /\ shown.seq = o.seq
  PROVE  /\ output' \in Output /\ torn' \in BOOLEAN /\ shown' \in Shown
         /\ output'.ready = o.ready /\ output'.finalized = o.finalized
         /\ output'.enabled => ~torn' /\ shown'.phase = phase /\ shown'.seq = output'.seq
         /\ shown' # shown =>
              ~torn /\ shown'.phase = phase /\ shown'.seq = addSaturatingCounter(shown.seq, 1)
<1> DEFINE c == addSaturatingCounter(o.seq, 1)
           numbered == [o EXCEPT !.seq = c]
<1>1. c \in 0 .. CounterMax
  BY Counters DEF Output
<1> HIDE DEF c
<1>2. /\ numbered \in Output /\ numbered.seq = c /\ numbered.enabled = o.enabled
      /\ numbered.ready = o.ready /\ numbered.finalized = o.finalized
  BY <1>1 DEF Output
<1>3. CASE ~o.enabled /\ output' = o /\ UNCHANGED <<shown, torn>>
  BY <1>3
<1>4. CASE /\ o.enabled /\ output' = numbered /\ shown' = [phase |-> phase, seq |-> numbered.seq]
           /\ UNCHANGED torn
  <2>1. shown' \in Shown /\ shown'.phase = phase /\ shown'.seq = c
    BY <1>1, <1>2, <1>4 DEF Shown
  <2> QED
    BY <1>2, <1>4, <2>1 DEF c
<1>5. CASE o.enabled /\ output' = disable(numbered) /\ UNCHANGED shown /\ torn' \in BOOLEAN
  <2> HIDE DEF numbered
  <2>1. /\ disable(numbered) \in Output /\ ~disable(numbered).enabled
        /\ disable(numbered).ready = o.ready /\ disable(numbered).finalized = o.finalized
    BY <1>2 DEF disable, Output
  <2> QED
    BY <1>5, <2>1
<1> QED
  BY <1>3, <1>4, <1>5 DEF emitSnapshot, c
-----------------------------------------------------------------------------
\* Whatever the service does, the selection takes one of its own steps or none.
LEMMA SelectionStep == [ServiceNext]_serviceVars => [Next]_vars
  BY DEF ServiceNext, serviceVars, selectionVars, metricsVars, Next, startService, onMaintenance,
         rejectAtCapacity, acceptClient, closeSession, Traffic, stopSignal, endDrain, reactorThrows,
         runServiceLifecycle, SecondPasses

\* Every event of the reactor and of the service keeps the invariant.
LEMMA ServiceStep == ServiceInv /\ [ServiceNext]_serviceVars => ServiceInv'
<1> SUFFICES ASSUME ServiceInv, [ServiceNext]_serviceVars PROVE ServiceInv'
  OBVIOUS
<1>1. Inv' /\ TypeOK'
  BY SelectionStep, InvStep DEF ServiceInv, Inv
<1>2. /\ data \in Data /\ sessions \in 0 .. MaxSessions /\ Balanced(data, sessions)
      /\ output \in Output /\ due \in BOOLEAN /\ shown \in Shown /\ torn \in BOOLEAN
      /\ output.enabled => ~torn /\ shown.seq = output.seq
      /\ protocol \in {"tcp", "udp"} /\ ClosedWhenOver /\ OutputInStep
      /\ step \in {"start", "run", "drain"} \cup Over
  BY DEF Over, ServiceInv, ServiceTypeOK, GaugeIsSessions, OutputInStep, Shown
<1>3. ASSUME step \in {"run", "drain"}, UNCHANGED <<protocol, step, output, due, shown, torn>>,
             data' \in Data, sessions' \in 0 .. MaxSessions, Balanced(data', sessions')
      PROVE  ServiceInv'
  BY <1>1, <1>2, <1>3 DEF ServiceInv, ServiceTypeOK, GaugeIsSessions, ClosedWhenOver, OutputInStep,
     Over, Exited, Shown
<1>4. recordOther(data) \in Data /\ Balanced(recordOther(data), sessions)
  BY <1>2, OtherBalances, ServiceBounds
<1>5. recordClosed(data, sessions) \in Data /\ Balanced(recordClosed(data, sessions), 0)
  BY <1>2, ClosedBalances, ServiceBounds
<1>6. CASE rejectAtCapacity \/ Traffic
  BY <1>2, <1>3, <1>4, <1>6 DEF rejectAtCapacity, Traffic
<1>7. CASE acceptClient
  <2>1. CASE data' = recordOther(data) /\ UNCHANGED sessions
    BY <1>2, <1>3, <1>4, <1>7, <2>1 DEF acceptClient
  <2>2. CASE data' = recordCreated(data) /\ sessions' = sessions + 1
    <3>1. sessions \in Nat /\ sessions < GaugeLimit /\ sessions + 1 \in 0 .. MaxSessions
      BY <1>2, <1>7, ServiceBounds DEF acceptClient
    <3>2. data' \in Data /\ Balanced(data', sessions + 1)
      BY <1>2, <2>2, <3>1, CreatedBalances
    <3> QED
      BY <1>3, <1>7, <2>2, <3>1, <3>2 DEF acceptClient
  <2> QED
    BY <1>7, <2>1, <2>2 DEF acceptClient
<1>8. CASE closeSession
  <2>1. sessions \in Nat /\ 1 \in 0 .. sessions /\ sessions - 1 \in 0 .. MaxSessions
    BY <1>2, <1>8, ServiceBounds DEF closeSession
  <2>2. data' \in Data /\ Balanced(data', sessions - 1)
    BY <1>2, <1>8, <2>1, ClosedBalances DEF closeSession
  <2> QED
    BY <1>3, <1>8, <2>1, <2>2 DEF closeSession
<1>9. CASE stopSignal \/ endDrain \/ reactorThrows
  <2>1. /\ step \in {"run", "drain"} /\ step' \in {"drain", "return", "catch"}
        /\ UNCHANGED <<protocol, output, due, shown, torn>>
    BY <1>9 DEF stopSignal, endDrain, reactorThrows
  <2>2. /\ data' \in Data /\ sessions' \in 0 .. MaxSessions /\ Balanced(data', sessions')
        /\ step' # "drain" => sessions' = 0
    BY <1>2, <1>5, <1>9, ServiceBounds DEF stopSignal, endDrain, reactorThrows, closeAllSessions
  <2> QED
    BY <1>1, <1>2, <2>1, <2>2 DEF ServiceInv, ServiceTypeOK, GaugeIsSessions, ClosedWhenOver,
       OutputInStep, Over, Exited, Shown
<1>10. CASE SecondPasses \/ UNCHANGED serviceVars
  <2>1. UNCHANGED <<protocol, step, sessions, data, output, shown, torn>> /\ due' \in BOOLEAN
    BY <1>2, <1>10 DEF SecondPasses, serviceVars, metricsVars
  <2>2. ServiceTypeOK'
    BY <1>1, <1>2, <2>1 DEF ServiceTypeOK, Over, Shown
  <2>3. GaugeIsSessions' /\ ClosedWhenOver' /\ OutputInStep'
    BY <1>2, <2>1 DEF GaugeIsSessions, ClosedWhenOver, OutputInStep
  <2> QED
    BY <1>1, <2>2, <2>3 DEF ServiceInv
<1>11. CASE startService
  <2>1. UNCHANGED <<protocol, sessions, data>> /\ step = "start" /\ sessions = 0
    BY <1>2, <1>11 DEF startService, ClosedWhenOver
  <2>2. CASE step' = "run" /\ emitReadySnapshot
    <3> DEFINE o == [output EXCEPT !.ready = TRUE]
    <3>1. o \in Output /\ o.ready /\ ~o.finalized /\ o.enabled = output.enabled /\ o.seq = output.seq
      BY <1>2, <2>2 DEF Output, emitReadySnapshot
    <3> HIDE DEF o
    <3>2. "ready" \in Phase /\ emitSnapshot(o, "ready") /\ due' = FALSE
      BY <2>2 DEF o, Phase, emitReadySnapshot
    <3>3. /\ output' \in Output /\ torn' \in BOOLEAN /\ shown' \in Shown
          /\ output'.ready /\ ~output'.finalized
          /\ output'.enabled => ~torn' /\ shown'.phase = "ready" /\ shown'.seq = output'.seq
      BY <1>2, <3>1, <3>2, EmitStep
    <3> QED
      BY <1>1, <1>2, <2>1, <2>2, <3>2, <3>3 DEF ServiceInv, ServiceTypeOK, GaugeIsSessions,
         ClosedWhenOver, OutputInStep, Over, Exited, Shown
  <2>3. CASE step' = "catch" /\ UNCHANGED <<output, shown, torn, due>>
    BY <1>1, <1>2, <2>1, <2>3 DEF ServiceInv, ServiceTypeOK, GaugeIsSessions, ClosedWhenOver,
       OutputInStep, Over, Exited, Shown
  <2> QED
    BY <1>11, <2>2, <2>3 DEF startService
<1>12. CASE onMaintenance
  <2>1. UNCHANGED <<protocol, step, sessions, data>> /\ step = "run"
    BY <1>12 DEF onMaintenance
  <2>2. CASE UNCHANGED <<output, shown, torn, due>>
    BY <1>2, <1>3, <2>1, <2>2
  <2>3. CASE /\ output.ready /\ ~output.finalized /\ emitSnapshot(output, "periodic")
             /\ due' = FALSE
    <3>1. "periodic" \in Phase
      BY DEF Phase
    <3>2. /\ output' \in Output /\ torn' \in BOOLEAN /\ shown' \in Shown
          /\ output'.ready /\ ~output'.finalized
          /\ output'.enabled => ~torn' /\ shown'.phase = "periodic" /\ shown'.seq = output'.seq
      BY <1>2, <2>3, <3>1, EmitStep
    <3> QED
      BY <1>1, <1>2, <2>1, <2>3, <3>2 DEF ServiceInv, ServiceTypeOK, GaugeIsSessions,
         ClosedWhenOver, OutputInStep, Over, Exited, Shown
  <2> QED
    BY <1>12, <2>2, <2>3 DEF onMaintenance, emitPeriodicSnapshotIfDue
<1>13. CASE runServiceLifecycle
  <2>1. UNCHANGED <<protocol, sessions, due>> /\ sessions = 0 /\ step \in {"return", "catch"}
    BY <1>2, <1>13 DEF runServiceLifecycle, ClosedWhenOver, Over
  <2>2. PICK error \in BOOLEAN : /\ finishMetrics(error)
                                 /\ step' = IF error THEN "error exit" ELSE "exit"
                                 /\ step = IF error THEN "catch" ELSE "return"
    BY <1>13 DEF runServiceLifecycle
  <2> DEFINE o == [output EXCEPT !.finalized = TRUE]
             phase == IF error THEN "error" ELSE "final"
  <2>3. o \in Output /\ o.finalized /\ o.ready = output.ready /\ o.enabled = output.enabled
        /\ o.seq = output.seq
    BY <1>2 DEF Output
  <2>4. phase \in Phase /\ emitSnapshot(o, phase)
    BY <2>2 DEF Phase, finishMetrics
  <2> HIDE DEF o
  <2>5. /\ output' \in Output /\ torn' \in BOOLEAN /\ shown' \in Shown
        /\ output'.finalized /\ output'.ready = output.ready
        /\ output'.enabled => ~torn' /\ shown'.phase = phase /\ shown'.seq = output'.seq
    BY <1>2, <2>3, <2>4, EmitStep
  <2>6. data' \in Data /\ Balanced(data', sessions')
    BY <1>2, <1>4, <2>1, <2>2 DEF finishMetrics
  <2> QED
    BY <1>1, <1>2, <2>1, <2>2, <2>5, <2>6 DEF ServiceInv, ServiceTypeOK, GaugeIsSessions,
       ClosedWhenOver, OutputInStep, Over, Exited, Shown
<1> QED
  BY <1>6, <1>7, <1>8, <1>9, <1>10, <1>11, <1>12, <1>13 DEF ServiceNext

\* The service starts with nothing open and nothing shown.
LEMMA ServiceInitInv == ServiceInit => ServiceInv
<1> SUFFICES ASSUME ServiceInit PROVE ServiceInv
  OBVIOUS
<1>1. Inv /\ TypeOK
  BY InitInv DEF ServiceInit, Inv
<1>2. ServiceTypeOK
  <2>1. data \in Data
    BY ServiceBounds DEF ServiceInit, Data
  <2>2. output \in Output
    BY ServiceBounds DEF ServiceInit, Output
  <2>3. shown \in [phase : Phase, seq : 0 .. CounterMax]
    BY ServiceBounds DEF ServiceInit, Phase
  <2>4. sessions \in 0 .. MaxSessions
    BY ServiceBounds DEF ServiceInit
  <2> QED
    BY <1>1, <2>1, <2>2, <2>3, <2>4 DEF ServiceInit, ServiceTypeOK
<1>3. GaugeIsSessions
  BY ServiceBounds DEF ServiceInit, GaugeIsSessions, Balanced
<1>4. ClosedWhenOver /\ OutputInStep
  BY DEF ServiceInit, ClosedWhenOver, OutputInStep, Exited
<1> QED
  BY <1>1, <1>2, <1>3, <1>4 DEF ServiceInv

\* The gauge is the number of sessions, the totals account for it as long as none
\* of them is full, and the last snapshot shows that everything was closed, for
\* every limit, number of backends and way the service may end; and the selection
\* that it makes for its reactor starves no backend.
THEOREM MetricsSafe ==
  ServiceSpec => [](ServiceTypeOK /\ GaugeIsSessions /\ LastSnapshotIsBalanced /\ NoStarvation)
<1>1. ServiceInv => ServiceTypeOK /\ GaugeIsSessions /\ NoStarvation
  BY InvSuffices DEF ServiceInv
<1>2. ServiceInv => LastSnapshotIsBalanced
  <2> SUFFICES ASSUME ServiceInv, step \in Exited
               PROVE  /\ output.enabled => shown.phase = (IF step = "exit" THEN "final" ELSE "error")
                      /\ data.active = 0 /\ (~data.saturated => data.created = data.closed)
    BY DEF LastSnapshotIsBalanced, Exited
  <2>1. output.enabled => shown.phase = (IF step = "exit" THEN "final" ELSE "error")
    BY DEF ServiceInv, OutputInStep
  <2>2. Balanced(data, 0)
    BY DEF ServiceInv, GaugeIsSessions, ClosedWhenOver, Exited
  <2>3. data \in Data
    BY DEF ServiceInv, ServiceTypeOK
  <2> QED
    BY <2>1, <2>2, <2>3, DataFields DEF Balanced
<1> QED
  BY <1>1, <1>2, ServiceInitInv, ServiceStep, PTL DEF ServiceSpec

\* runServiceLifecycle: whichever way the service ends, the last snapshot tells an
\* error from a stop and accounts for every session.
THEOREM LastSafe == ServiceSpec => []LastSnapshotIsBalanced
  BY MetricsSafe, PTL
-----------------------------------------------------------------------------
\* A line that appears is the next one, of a phase that may come next.
LEMMA ShownStep ==
  ASSUME ServiceInv, ServiceNext, shown' # shown
  PROVE  /\ ~torn /\ May(shown.phase, shown'.phase)
         /\ shown'.seq = shown.seq + 1 \/ shown'.seq = CounterMax
<1>1. /\ output \in Output /\ shown \in Shown /\ torn \in BOOLEAN /\ OutputInStep
      /\ output.enabled => ~torn /\ shown.seq = output.seq
  BY DEF ServiceInv, ServiceTypeOK, OutputInStep, Shown
<1>2. ASSUME NEW o \in Output, NEW phase \in Phase, emitSnapshot(o, phase),
             o.enabled = output.enabled, o.seq = output.seq
      PROVE  /\ ~torn /\ shown'.phase = phase /\ output.enabled
             /\ shown'.seq = shown.seq + 1 \/ shown'.seq = CounterMax
  <2>1. ~torn /\ shown'.phase = phase /\ shown'.seq = addSaturatingCounter(shown.seq, 1)
    BY <1>1, <1>2, EmitStep
  <2>2. output.enabled
    BY <1>2 DEF emitSnapshot
  <2>3. shown.seq \in 0 .. CounterMax
    BY <1>1 DEF Shown
  <2> QED
    BY <2>1, <2>2, <2>3, Counters
<1>3. (startService /\ emitReadySnapshot) \/ onMaintenance \/ runServiceLifecycle
  BY DEF ServiceNext, startService, rejectAtCapacity, acceptClient, closeSession, Traffic,
     stopSignal, endDrain, reactorThrows, SecondPasses
<1>4. CASE startService /\ emitReadySnapshot
  <2> DEFINE o == [output EXCEPT !.ready = TRUE]
  <2>1. o \in Output /\ o.enabled = output.enabled /\ o.seq = output.seq
    BY <1>1 DEF Output
  <2>2. "ready" \in Phase /\ emitSnapshot(o, "ready") /\ ~output.finalized /\ ~output.ready
    BY <1>4 DEF Phase, emitReadySnapshot
  <2> HIDE DEF o
  <2>3. /\ ~torn /\ shown'.phase = "ready" /\ output.enabled
        /\ shown'.seq = shown.seq + 1 \/ shown'.seq = CounterMax
    BY <1>2, <2>1, <2>2
  <2>4. shown.phase = "none"
    BY <1>1, <2>2, <2>3 DEF OutputInStep
  <2> QED
    BY <2>3, <2>4 DEF May
<1>5. CASE onMaintenance
  <2>1. /\ "periodic" \in Phase /\ emitSnapshot(output, "periodic")
        /\ output.ready /\ ~output.finalized
    BY <1>5 DEF Phase, onMaintenance, emitPeriodicSnapshotIfDue
  <2>2. /\ ~torn /\ shown'.phase = "periodic" /\ output.enabled
        /\ shown'.seq = shown.seq + 1 \/ shown'.seq = CounterMax
    BY <1>1, <1>2, <2>1
  <2>3. shown.phase \in {"ready", "periodic"}
    BY <1>1, <2>1, <2>2 DEF OutputInStep
  <2> QED
    BY <2>2, <2>3 DEF May
<1>6. CASE runServiceLifecycle
  <2>1. PICK error \in BOOLEAN : finishMetrics(error) /\ step = IF error THEN "catch" ELSE "return"
    BY <1>6 DEF runServiceLifecycle
  <2> DEFINE o == [output EXCEPT !.finalized = TRUE]
             phase == IF error THEN "error" ELSE "final"
  <2>2. o \in Output /\ o.enabled = output.enabled /\ o.seq = output.seq
    BY <1>1 DEF Output
  <2>3. phase \in Phase /\ emitSnapshot(o, phase) /\ ~output.finalized
    BY <2>1 DEF Phase, finishMetrics
  <2> HIDE DEF o
  <2>4. /\ ~torn /\ shown'.phase = phase /\ output.enabled
        /\ shown'.seq = shown.seq + 1 \/ shown'.seq = CounterMax
    BY <1>2, <2>2, <2>3
  <2>5. shown.phase \in (IF output.ready THEN {"ready", "periodic"} ELSE {"none"})
    BY <1>1, <2>3, <2>4 DEF OutputInStep
  <2>6. CASE error
    BY <2>4, <2>5, <2>6 DEF May
  <2>7. CASE ~error
    <3>1. output.ready
      BY <1>1, <2>1, <2>7 DEF OutputInStep
    <3> QED
      BY <2>4, <2>5, <2>7, <3>1 DEF May
  <2> QED
    BY <2>6, <2>7
<1> QED
  BY <1>3, <1>4, <1>5, <1>6

\* emitSnapshot and the three operations that call it never skip a number, never
\* write after a line that was cut off, and end with one final line.
THEOREM SnapshotsSafe == ServiceSpec => SnapshotsInSequence
<1>1. ServiceInv /\ [ServiceNext]_serviceVars =>
        [shown' # shown =>
           /\ ~torn /\ May(shown.phase, shown'.phase)
           /\ shown'.seq = shown.seq + 1 \/ shown'.seq = CounterMax]_serviceVars
  BY ShownStep
<1> QED
  BY <1>1, ServiceInitInv, ServiceStep, PTL DEF ServiceSpec, SnapshotsInSequence
==============================================================================
