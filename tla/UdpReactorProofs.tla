-------------------------- MODULE UdpReactorProofs --------------------------
(***************************************************************************)
(* The flow table of the UDP reactor stays consistent, and its reports add *)
(* up, for any number of clients, backends, tokens and flows, and any      *)
(* batch sizes and budgets.                                                *)
(***************************************************************************)
EXTENDS UdpReactor, FiniteSetTheorems, TLAPS

InHand == {"resolve", "create", "admit", "sendRequest"}   \* a client datagram is
Sending == {"sendRequest", "sendReply"}
\* The places of the running loop where no flow or datagram is.
AtLarge == {"top", "poll", "polled", "dispatch", "listener", "backend"}

TableTypes ==
  /\ nextFlowToken \in Token \cup {LastToken + 1}
  /\ flowTokensByKey \in [Key -> Token \cup {NoToken}]
  /\ flows \in [Token -> Flow \cup {NoFlow}] /\ ended \subseteq Token
  /\ active \in Nat

ThreadTypes ==
  /\ pc \in {"top", "poll", "polled", "dispatch", "listener", "resolve", "create", "admit",
             "backend", "sendRequest", "sendReply", "done"}
  /\ stopping \in BOOLEAN /\ events \subseteq Event
  /\ cur \in {NoToken, ListenerToken} \cup Token /\ attempt \in 0..ReadBudget
  /\ hand \in Key \cup {NoKey} /\ verdicts \in Nat

\* What holds of the table whatever the handlers do.
Indexed ==
  /\ \A k \in Key : flowTokensByKey[k] # NoToken =>
        flowTokensByKey[k] \in Open /\ flows[flowTokensByKey[k]].key = k
  /\ \A t \in Open : flowTokensByKey[flows[t].key] = t
Counted == active = Cardinality(Open) /\ active <= MaxFlows
Drawn ==
  /\ ended \cap Open = {}
  /\ \A t \in ended \cup Open : t < nextFlowToken
TableInv == TableTypes /\ Indexed /\ Counted /\ Drawn

\* What a handler knows of the flow it works for.  Between the lookup and the
\* insertion the key has no flow: without this a second one could be indexed.  The
\* loop has no datagram in hand, so one that is in hand at the end was lost.
HandlerInv ==
  /\ pc \in InHand => hand \in Key
  /\ pc \in AtLarge \cup {"sendReply"} => hand = NoKey
  /\ pc \in {"create", "admit"} => flowTokensByKey[hand] = NoToken
  /\ pc \in Sending => cur \in Open
  /\ pc = "sendRequest" => flows[cur].key = hand
Reported ==
  verdicts = IF pc \in {"resolve", "create", "admit", "sendRequest", "sendReply"} \/ LostToException
             THEN 0 ELSE 1
Known == \A ev \in events : ev.token \in Token => ev.token \in ended \cup Open

Inv == ThreadTypes /\ TableInv /\ HandlerInv /\ Reported /\ Known

-----------------------------------------------------------------------------
(***************************************************************************)
(* The flow table                                                          *)
(***************************************************************************)

\* The tokens are bounded, so the flows can be counted.
LEMMA OpenIsFinite == IsFiniteSet(Open) /\ Cardinality(Open) \in Nat
<1>1. IsFiniteSet(Token)
  BY UdpBounds, FS_Interval DEF Token
<1>2. Open \in SUBSET Token
  BY DEF Open
<1> QED
  BY <1>1, <1>2, FS_Subset, FS_CardinalityType

\* A token of the table names a flow, which is none of the sentinels.
LEMMA OpenFlow ==
  ASSUME TableTypes, NEW t \in Open
  PROVE  t \in Token /\ flows[t] \in Flow /\ flows[t].key \in Key /\ flows[t].due \in BOOLEAN
<1>1. t \in Token /\ flows[t] # NoFlow
  BY DEF Open
<1>2. flows[t] \in Flow
  BY <1>1 DEF TableTypes
<1> QED
  BY <1>1, <1>2 DEF Flow

\* closeFlow takes flows out of both indexes and reports each of them; the rest
\* of the table stays.
LEMMA CloseTable ==
  ASSUME TableInv, NEW gone \in SUBSET Open, closeFlows(gone)
  PROVE  /\ TableInv' /\ Open' = Open \ gone /\ ended' = ended \cup gone
         /\ \A t \in Open' : flows'[t] = flows[t]
         /\ \A k \in Key : flowTokensByKey[k] = NoToken => flowTokensByKey'[k] = NoToken
<1> USE DEF TableInv
<1>1. NoFlow \notin Flow /\ NoToken \notin Token
  BY UdpBounds DEF Flow, Token, NoToken
<1>2. gone \subseteq Token
  BY DEF Open
<1>3. Open' = Open \ gone
  BY <1>2 DEF closeFlows, Open
<1>4. \A t \in Open' : t \notin gone /\ t \in Open /\ flows'[t] = flows[t]
  BY <1>3 DEF closeFlows, Open
<1>5. ended' = ended \cup gone
  BY DEF closeFlows
<1>6. TableTypes'
  <2>1. flowTokensByKey' \in [Key -> Token \cup {NoToken}]
    BY DEF TableTypes, closeFlows, unindex
  <2>2. flows' \in [Token -> Flow \cup {NoFlow}]
    BY DEF TableTypes, closeFlows
  <2>3. active' \in Nat
    BY <1>3, OpenIsFinite, FS_Subset, FS_CardinalityType
       DEF TableTypes, closeFlows, recordClosed
  <2> QED
    BY <1>2, <2>1, <2>2, <2>3 DEF TableTypes, closeFlows
<1>7. Indexed'
  <2>1. ASSUME NEW k \in Key, flowTokensByKey'[k] # NoToken
        PROVE  flowTokensByKey'[k] \in Open' /\ flows'[flowTokensByKey'[k]].key = k
    <3>1. flowTokensByKey'[k] = flowTokensByKey[k] /\ flowTokensByKey[k] \notin gone
      BY <2>1 DEF closeFlows, unindex
    <3> QED
      BY <2>1, <3>1, <1>3, <1>4 DEF Indexed
  <2>2. ASSUME NEW t \in Open'
        PROVE  flowTokensByKey'[flows'[t].key] = t
    <3>1. t \in Open /\ t \notin gone /\ flows'[t] = flows[t] /\ flows[t].key \in Key
      BY <1>4, OpenFlow
    <3>2. flowTokensByKey[flows[t].key] = t
      BY <3>1 DEF Indexed
    <3> QED
      BY <3>1, <3>2 DEF closeFlows, unindex
  <2> QED
    BY <2>1, <2>2 DEF Indexed
<1>8. Counted'
  <2>1. Cardinality(Open') = Cardinality(Open) - Cardinality(gone) /\ Cardinality(gone) <= Cardinality(Open)
        /\ Cardinality(gone) \in Nat
    <3>1. Open \cap gone = gone
      OBVIOUS
    <3>2. Cardinality(Open \ gone) = Cardinality(Open) - Cardinality(Open \cap gone)
      BY OpenIsFinite, FS_Difference
    <3>3. IsFiniteSet(gone) /\ Cardinality(gone) <= Cardinality(Open)
      BY OpenIsFinite, FS_Subset
    <3> QED
      BY <1>3, <3>1, <3>2, <3>3, FS_CardinalityType
  <2> QED
    BY <2>1, OpenIsFinite, UdpBounds DEF Counted, closeFlows, recordClosed
<1>9. Drawn'
  BY <1>3, <1>5 DEF Drawn, closeFlows
<1>10. \A k \in Key : flowTokensByKey[k] = NoToken => flowTokensByKey'[k] = NoToken
  BY DEF closeFlows, unindex
<1> QED
  BY <1>3, <1>4, <1>5, <1>6, <1>7, <1>8, <1>9, <1>10

\* A step that leaves the table alone preserves all that is said of it.
LEMMA SameTable ==
  ASSUME TableInv, UNCHANGED tableVars
  PROVE  TableInv' /\ Open' = Open /\ ended' = ended /\ flows' = flows
           /\ flowTokensByKey' = flowTokensByKey
<1>1. Open' = Open
  BY DEF tableVars, Open
<1> QED
  BY <1>1 DEF TableInv, TableTypes, Indexed, Counted, Drawn, tableVars

\* The deadline of a flow is its own affair.
LEMMA DeadlineTable ==
  ASSUME TableInv, NEW t \in Open, NEW d \in BOOLEAN,
         flows' = [flows EXCEPT ![t].due = d],
         UNCHANGED <<nextFlowToken, flowTokensByKey, ended, active>>
  PROVE  TableInv' /\ Open' = Open /\ \A u \in Open : flows'[u].key = flows[u].key
<1> USE DEF TableInv
<1>1. NoFlow \notin Flow
  BY UdpBounds DEF Flow
<1>2. t \in Token /\ flows[t] \in Flow
  BY OpenFlow
<1>3. flows' = [flows EXCEPT ![t] = [flows[t] EXCEPT !.due = d]]
  OBVIOUS
<1>4. [flows[t] EXCEPT !.due = d] \in Flow /\ [flows[t] EXCEPT !.due = d].key = flows[t].key
  BY <1>2 DEF Flow
<1>5. flows' \in [Token -> Flow \cup {NoFlow}]
  BY <1>2, <1>3, <1>4 DEF TableTypes
<1>6. \A u \in Token : flows'[u] = IF u = t THEN [flows[t] EXCEPT !.due = d] ELSE flows[u]
  BY <1>2, <1>3 DEF TableTypes
<1>7. Open' = Open
  BY <1>1, <1>2, <1>4, <1>6 DEF Open
<1>8. \A u \in Open : flows'[u].key = flows[u].key
  BY <1>4, <1>6 DEF Open
<1> QED
  BY <1>5, <1>7, <1>8 DEF TableTypes, Indexed, Counted, Drawn

\* registerFlowIndexesAndSocket puts the new flow into both indexes under a token
\* that no flow had before.
LEMMA CreateTable ==
  ASSUME TableInv, NEW b \in Backend, hand \in Key, flowTokensByKey[hand] = NoToken,
         ~isFull(Cardinality(Open)), drawToken,
         flowTokensByKey' = [flowTokensByKey EXCEPT ![hand] = nextFlowToken],
         flows' = [flows EXCEPT ![nextFlowToken] = [key |-> hand, backend |-> b, due |-> FALSE]],
         active' = recordCreated(active), UNCHANGED ended
  PROVE  /\ TableInv' /\ Open' = Open \cup {nextFlowToken}
         /\ nextFlowToken \in Token /\ flows'[nextFlowToken].key = hand
<1> USE DEF TableInv
<1> DEFINE f == [key |-> hand, backend |-> b, due |-> FALSE]
<1>1. NoFlow \notin Flow /\ NoToken \notin Token
  BY UdpBounds DEF Flow, Token, NoToken
<1>2. nextFlowToken \in Token /\ nextFlowToken' = nextFlowToken + 1
        /\ nextFlowToken' \in Token \cup {LastToken + 1}
  BY UdpBounds DEF TableTypes, drawToken, Token
<1>3. f \in Flow /\ f.key = hand
  BY DEF Flow
<1>4. nextFlowToken \notin Open /\ nextFlowToken \notin ended
  BY <1>2 DEF Drawn, Token
<1>5. \A u \in Token : flows'[u] = IF u = nextFlowToken THEN f ELSE flows[u]
  BY <1>2 DEF TableTypes
<1>6. Open' = Open \cup {nextFlowToken}
  BY <1>1, <1>2, <1>3, <1>5 DEF Open
<1>7. \A k \in Key : flowTokensByKey'[k] = IF k = hand THEN nextFlowToken ELSE flowTokensByKey[k]
  BY DEF TableTypes
<1>8. TableTypes'
  <2>1. flowTokensByKey' \in [Key -> Token \cup {NoToken}]
    BY <1>2 DEF TableTypes
  <2>2. flows' \in [Token -> Flow \cup {NoFlow}]
    BY <1>2, <1>3 DEF TableTypes
  <2> QED
    BY <1>2, <2>1, <2>2, UdpBounds DEF TableTypes, recordCreated
<1>9. Indexed'
  <2>1. ASSUME NEW k \in Key, flowTokensByKey'[k] # NoToken
        PROVE  flowTokensByKey'[k] \in Open' /\ flows'[flowTokensByKey'[k]].key = k
    <3>1. CASE k = hand
      BY <3>1, <1>2, <1>3, <1>5, <1>6, <1>7
    <3>2. CASE k # hand
      <4>1. flowTokensByKey'[k] = flowTokensByKey[k] /\ flowTokensByKey[k] \in Open
        BY <2>1, <3>2, <1>7 DEF Indexed
      <4>2. flowTokensByKey[k] \in Token /\ flowTokensByKey[k] # nextFlowToken
        BY <4>1, <1>4 DEF Open
      <4> QED
        BY <2>1, <4>1, <4>2, <1>5, <1>6 DEF Indexed
    <3> QED
      BY <3>1, <3>2
  <2>2. ASSUME NEW t \in Open'
        PROVE  flowTokensByKey'[flows'[t].key] = t
    <3>1. CASE t = nextFlowToken
      BY <3>1, <1>2, <1>3, <1>5, <1>7
    <3>2. CASE t # nextFlowToken
      <4>1. t \in Open /\ t \in Token /\ flows[t].key \in Key /\ flows'[t] = flows[t]
        BY <3>2, <1>5, <1>6, OpenFlow
      <4>2. flowTokensByKey[flows[t].key] = t /\ flows[t].key # hand
        BY <4>1, <1>1 DEF Indexed
      <4> QED
        BY <4>1, <4>2, <1>7
    <3> QED
      BY <3>1, <3>2
  <2> QED
    BY <2>1, <2>2 DEF Indexed
<1>10. Counted'
  <2>1. Cardinality(Open') = Cardinality(Open) + 1
    BY <1>4, <1>6, OpenIsFinite, FS_AddElement
  <2> QED
    BY <2>1, OpenIsFinite, UdpBounds DEF Counted, recordCreated, isFull
<1>11. Drawn'
  BY <1>2, <1>4, <1>6 DEF Drawn, Token, Open, TableTypes
<1> QED
  BY <1>2, <1>3, <1>5, <1>6, <1>8, <1>9, <1>10, <1>11

\* A token that was drawn and given up is never used.
LEMMA RollBackTable ==
  ASSUME TableInv, drawToken, UNCHANGED <<flowTokensByKey, flows, ended, active>>
  PROVE  TableInv' /\ Open' = Open
<1>1. Open' = Open
  BY DEF Open
<1>2. nextFlowToken' = nextFlowToken + 1 /\ nextFlowToken' \in Token \cup {LastToken + 1}
        /\ nextFlowToken \in Nat
  BY UdpBounds DEF TableInv, TableTypes, drawToken, Token
<1>3. Drawn'
  BY <1>1, <1>2 DEF TableInv, TableTypes, Drawn, Open, Token
<1> QED
  BY <1>1, <1>2, <1>3 DEF TableInv, TableTypes, Indexed, Counted
-----------------------------------------------------------------------------
(***************************************************************************)
(* The steps                                                               *)
(***************************************************************************)

\* No event is lost track of while tokens only move from the table to history.
LEMMA StillKnown ==
  ASSUME Known, events' \subseteq events, Open \subseteq Open' \cup ended', ended \subseteq ended'
  PROVE  Known'
  BY DEF Known

\* A step into the loop, or to its end, with the table in order and the datagram
\* reported.
LEMMA BackAtLarge ==
  ASSUME ThreadTypes', TableInv', Known', pc' \in AtLarge \cup {"done"}, hand' = NoKey, verdicts' = 1
  PROVE  Inv'
  BY DEF Inv, HandlerInv, Reported, LostToException, AtLarge, InHand, Sending

\* No report is missing in the loop.
LEMMA AtLargeReported ==
  ASSUME Inv, pc \in AtLarge
  PROVE  verdicts = 1 /\ hand = NoKey
  BY DEF Inv, HandlerInv, Reported, LostToException, AtLarge

\* The destructor closes what is there.
LEMMA UnwindTable ==
  ASSUME Inv, unwind, hand' \in Key \cup {NoKey}, verdicts' \in Nat
  PROVE  ThreadTypes' /\ TableInv' /\ Known' /\ pc' = "done"
<1>1. TableInv'
  BY CloseTable DEF Inv, unwind
<1>2. ThreadTypes' /\ Known' /\ pc' = "done"
  BY UdpBounds DEF Inv, ThreadTypes, Known, unwind
<1> QED
  BY <1>1, <1>2

\* An exception that leaves no datagram unreported.
LEMMA ThrowStep ==
  ASSUME Inv, throwError, verdicts' = 1
  PROVE  Inv'
  BY UnwindTable, BackAtLarge DEF throwError

\* The expiry scans and the stop close flows, and nothing else happens.
LEMMA ScanStep ==
  ASSUME Inv, NEW gone \in SUBSET Open, closeFlows(gone), pc \in AtLarge,
         pc' \in AtLarge \cup {"done"}, stopping' \in BOOLEAN, events' \subseteq events, UNCHANGED <<cur, attempt, hand, verdicts>>
  PROVE  Inv'
<1>1. TableInv' /\ Open' = Open \ gone /\ ended' = ended \cup gone
  BY CloseTable DEF Inv
<1>2. Known'
  BY <1>1, StillKnown DEF Inv
<1>3. ThreadTypes'
  BY DEF Inv, ThreadTypes, AtLarge
<1> QED
  BY <1>1, <1>2, <1>3, AtLargeReported, BackAtLarge

\* A step of a handler that leaves the table alone.
LEMMA HandlerStep ==
  ASSUME Inv, UNCHANGED tableVars, events' \subseteq events, pc' \in AtLarge, hand' = NoKey,
         verdicts' = 1, ThreadTypes'
  PROVE  Inv'
<1>1. TableInv' /\ Open' = Open /\ ended' = ended
  BY SameTable DEF Inv
<1>2. Known'
  BY <1>1, StillKnown DEF Inv
<1> QED
  BY <1>1, <1>2, BackAtLarge

\* Stops, expiry, poll outcomes and errors come between datagrams: none is in hand.
LEMMA LoopSteps ==
  ASSUME Inv, consumeStopSignals \/ expireIdleFlows \/ EpollInterrupted \/ AfterPoll
                \/ ServiceError \/ EndOfBatch
  PROVE  Inv'
<1>1. Due \in SUBSET Open /\ Open \in SUBSET Open
  BY DEF Due
<1>2. CASE consumeStopSignals
  BY <1>1, <1>2, ScanStep DEF consumeStopSignals, AtLarge
<1>3. CASE expireIdleFlows
  BY <1>1, <1>3, ScanStep DEF expireIdleFlows, AtLarge, Inv, ThreadTypes
<1>4. CASE AfterPoll
  BY <1>1, <1>4, ScanStep DEF AfterPoll, AtLarge, Inv, ThreadTypes
<1>5. CASE EpollInterrupted
  <2>1. verdicts = 1 /\ hand = NoKey
    BY <1>5, AtLargeReported DEF EpollInterrupted, AtLarge
  <2>2. ThreadTypes'
    BY <1>5 DEF EpollInterrupted, Inv, ThreadTypes
  <2> QED
    BY <1>5, <2>1, <2>2, HandlerStep DEF EpollInterrupted, AtLarge
<1>6. CASE EndOfBatch
  <2>1. verdicts = 1 /\ hand = NoKey
    BY <1>6, AtLargeReported DEF EndOfBatch, AtLarge
  <2>2. ThreadTypes'
    BY <1>6 DEF EndOfBatch, Inv, ThreadTypes
  <2> QED
    BY <1>6, <2>1, <2>2, HandlerStep DEF EndOfBatch, AtLarge
<1>7. CASE ServiceError
  BY <1>7, AtLargeReported, ThrowStep DEF ServiceError, AtLarge
<1> QED
  BY <1>2, <1>3, <1>4, <1>5, <1>6, <1>7

\* epoll reports only what is registered.
LEMMA EpollStep ==
  ASSUME Inv, EpollWait
  PROVE  Inv'
<1>1. PICK ready \in SUBSET (Open \cup {ListenerToken, SignalToken}) :
        \E flags \in [ready -> {f \in [err : BOOLEAN, hup : BOOLEAN, in : BOOLEAN] :
                                  f.err \/ f.hup \/ f.in}] :
          events' = {[token |-> t, err |-> flags[t].err, hup |-> flags[t].hup,
                      in |-> flags[t].in] : t \in ready}
  BY DEF EpollWait
<1>2. PICK flags \in [ready -> [err : BOOLEAN, hup : BOOLEAN, in : BOOLEAN]] :
        events' = {[token |-> t, err |-> flags[t].err, hup |-> flags[t].hup,
                    in |-> flags[t].in] : t \in ready}
  BY <1>1
<1>3. TableInv' /\ Open' = Open /\ ended' = ended
  BY SameTable DEF Inv, EpollWait
<1>4. events' \subseteq Event
  BY <1>2 DEF Event, Open
<1>5. Known'
  BY <1>2, <1>3 DEF Known, Token, ListenerToken, SignalToken
<1>6. ThreadTypes'
  BY <1>4 DEF Inv, ThreadTypes, EpollWait
<1>7. verdicts' = 1 /\ hand' = NoKey /\ pc' \in AtLarge
  BY AtLargeReported DEF EpollWait, AtLarge
<1> QED
  BY <1>3, <1>5, <1>6, <1>7, BackAtLarge

\* An event closes the flow it is for, ends the service, or calls a handler.
LEMMA DispatchStep ==
  ASSUME Inv, dispatchFlowEvent
  PROVE  Inv'
<1>1. verdicts = 1 /\ hand = NoKey /\ pc = "dispatch"
  BY AtLargeReported DEF dispatchFlowEvent, AtLarge
<1>2. PICK ev \in events :
        \/ /\ events' = events \ {ev}
           /\ UNCHANGED <<pc, stopping, cur, attempt, hand, tableVars, verdicts>>
        \/ dispatchListener(ev)
        \/ ev.token \in Open /\ dispatchBackend(ev)
  BY DEF dispatchFlowEvent
<1>3. CASE events' = events \ {ev} /\ UNCHANGED <<pc, stopping, cur, attempt, hand, tableVars, verdicts>>
  <2>1. ThreadTypes'
    BY <1>3 DEF Inv, ThreadTypes
  <2> QED
    BY <1>1, <1>3, <2>1, HandlerStep DEF AtLarge
<1>4. CASE throwError /\ UNCHANGED verdicts
  BY <1>1, <1>4, ThrowStep
<1>5. CASE /\ ev.token \in Open /\ closeFlow(ev.token) /\ events' = events \ {ev}
           /\ UNCHANGED <<pc, stopping, cur, attempt, hand, verdicts>>
  BY <1>1, <1>5, ScanStep DEF closeFlow, AtLarge, Inv, ThreadTypes
<1>6. ASSUME NEW t \in {ListenerToken} \cup Open, NEW at \in {"listener", "backend"},
             pc' = (IF ev.in THEN at ELSE "dispatch"), attempt' = 0,
             cur' = (IF ev.in THEN t ELSE NoToken),
             UNCHANGED <<stopping, hand, tableVars, verdicts>>, events' = events \ {ev}
      PROVE  Inv'
  <2>1. ThreadTypes'
    BY <1>6, UdpBounds DEF Inv, ThreadTypes, Open
  <2> QED
    BY <1>1, <1>6, <2>1, HandlerStep DEF AtLarge
<1> QED
  BY <1>2, <1>3, <1>4, <1>5, <1>6 DEF dispatchListener, dispatchBackend

\* A datagram from a client finds its flow, asks for one or is dropped.
LEMMA ListenerStep ==
  ASSUME Inv, handleListenerRead
  PROVE  Inv'
<1>1. verdicts = 1 /\ hand = NoKey /\ pc = "listener"
  BY AtLargeReported DEF handleListenerRead, AtLarge
<1>2. CASE endHandler /\ UNCHANGED <<stopping, events, hand, tableVars, verdicts>>
  <2>1. ThreadTypes'
    BY <1>2, UdpBounds DEF Inv, ThreadTypes, endHandler
  <2> QED
    BY <1>1, <1>2, <2>1, HandlerStep DEF AtLarge, endHandler
<1>3. CASE /\ mayReceive /\ countAttempt /\ verdicts' = 1
           /\ UNCHANGED <<pc, cur, stopping, events, hand, tableVars>>
  <2>1. ThreadTypes'
    BY <1>3, UdpBounds DEF Inv, ThreadTypes, mayReceive, countAttempt
  <2> QED
    BY <1>1, <1>3, <2>1, HandlerStep DEF AtLarge
<1>4. CASE throwError /\ UNCHANGED verdicts
  BY <1>1, <1>4, ThrowStep
<1>5. ASSUME NEW k \in Key, mayReceive, countAttempt, verdicts' = 0, pc' = "resolve", hand' = k,
             UNCHANGED <<cur, stopping, events, tableVars>>
      PROVE  Inv'
  <2>1. ThreadTypes'
    BY <1>5, UdpBounds DEF Inv, ThreadTypes, mayReceive, countAttempt
  <2>2. TableInv' /\ Open' = Open /\ ended' = ended
    BY <1>5, SameTable DEF Inv
  <2>3. Known'
    BY <1>5, <2>2, StillKnown DEF Inv
  <2> QED
    BY <1>5, <2>1, <2>2, <2>3 DEF Inv, HandlerInv, Reported, LostToException, AtLarge, Sending
<1> QED
  BY <1>1, <1>2, <1>3, <1>4, <1>5 DEF handleListenerRead

\* After the lookup the client either has a live flow of its own, or none.
LEMMA ResolveStep ==
  ASSUME Inv, resolveFlowTokenForDatagram
  PROVE  Inv'
<1> DEFINE t == flowTokensByKey[hand]
<1>1. hand \in Key /\ verdicts = 0 /\ pc = "resolve" /\ hand' = hand /\ verdicts' = 0
  BY DEF Inv, HandlerInv, Reported, LostToException, resolveFlowTokenForDatagram, InHand
<1>2. t # NoToken => t \in Open /\ flows[t].key = hand /\ t \in Token
  BY <1>1 DEF Inv, TableInv, Indexed, Open
<1>3. CASE /\ t # NoToken /\ pc' = "sendRequest" /\ cur' = t
           /\ UNCHANGED <<stopping, events, attempt, tableVars>>
  <2>1. TableInv' /\ Open' = Open /\ ended' = ended /\ flows' = flows
    BY <1>3, SameTable DEF Inv
  <2>2. Known'
    BY <1>3, <2>1, StillKnown DEF Inv
  <2>3. ThreadTypes'
    BY <1>1, <1>2, <1>3 DEF Inv, ThreadTypes
  <2>4. HandlerInv' /\ Reported'
    BY <1>1, <1>2, <1>3, <2>1 DEF HandlerInv, Reported, LostToException, AtLarge
  <2> QED
    BY <2>1, <2>2, <2>3, <2>4 DEF Inv
<1>4. CASE /\ t # NoToken /\ pc' = "create" /\ closeFlow(t)
           /\ UNCHANGED <<stopping, events, cur, attempt>>
  <2>1. TableInv' /\ Open' = Open \ {t} /\ ended' = ended \cup {t}
    BY <1>2, <1>4, CloseTable DEF Inv, closeFlow
  <2>2. Known'
    BY <1>4, <2>1, StillKnown DEF Inv
  <2>3. ThreadTypes'
    BY <1>1, <1>4 DEF Inv, ThreadTypes
  <2>4. flowTokensByKey'[hand] = NoToken
    BY <1>1, <1>4 DEF closeFlow, closeFlows, unindex
  <2>5. HandlerInv' /\ Reported'
    BY <1>1, <1>4, <2>4 DEF HandlerInv, Reported, LostToException, AtLarge, Sending
  <2> QED
    BY <2>1, <2>2, <2>3, <2>5 DEF Inv
<1>5. CASE t = NoToken /\ pc' = "create" /\ UNCHANGED <<stopping, events, cur, attempt, tableVars>>
  <2>1. TableInv' /\ Open' = Open /\ ended' = ended /\ flowTokensByKey' = flowTokensByKey
    BY <1>5, SameTable DEF Inv
  <2>2. Known'
    BY <1>5, <2>1, StillKnown DEF Inv
  <2>3. ThreadTypes'
    BY <1>1, <1>5 DEF Inv, ThreadTypes
  <2>4. HandlerInv' /\ Reported'
    BY <1>1, <1>5, <2>1 DEF HandlerInv, Reported, LostToException, AtLarge, Sending
  <2> QED
    BY <2>1, <2>2, <2>3, <2>4 DEF Inv
<1>6. CASE unwind
  <2>1. ThreadTypes' /\ TableInv' /\ Known' /\ pc' = "done"
    BY <1>1, <1>6, UnwindTable
  <2>2. LostToException'
    BY <1>1, <2>1, UdpBounds DEF LostToException
  <2>3. HandlerInv' /\ Reported'
    BY <1>1, <2>1, <2>2 DEF HandlerInv, Reported, LostToException, AtLarge, InHand, AtLarge, Sending
  <2> QED
    BY <2>1, <2>3 DEF Inv
<1> QED
  BY <1>1, <1>3, <1>4, <1>5, <1>6 DEF resolveFlowTokenForDatagram

\* The scan before the insertion cannot give the client a flow.
LEMMA CreateScanStep ==
  ASSUME Inv, createExpired
  PROVE  Inv'
<1>1. Due \in SUBSET Open
  BY DEF Due
<1>2. hand \in Key /\ flowTokensByKey[hand] = NoToken /\ verdicts = 0
  BY DEF Inv, HandlerInv, Reported, createExpired, InHand
<1>3. CASE throwError /\ report(1)
  BY <1>2, <1>3, ThrowStep DEF report
<1>4. CASE /\ closeFlows(Due) /\ pc' = "admit"
           /\ UNCHANGED <<stopping, events, cur, attempt, hand, verdicts>>
  <2>1. /\ TableInv' /\ Open' = Open \ Due /\ ended' = ended \cup Due
        /\ \A k \in Key : flowTokensByKey[k] = NoToken => flowTokensByKey'[k] = NoToken
    BY <1>1, <1>4, CloseTable DEF Inv
  <2>2. Known'
    BY <1>1, <1>4, <2>1, StillKnown DEF Inv
  <2>3. ThreadTypes'
    BY <1>4 DEF Inv, ThreadTypes
  <2>4. HandlerInv' /\ Reported'
    BY <1>2, <1>4, <2>1 DEF HandlerInv, Reported, LostToException, AtLarge, Sending
  <2> QED
    BY <2>1, <2>2, <2>3, <2>4 DEF Inv
<1> QED
  BY <1>3, <1>4 DEF createExpired

\* A new flow enters both indexes and the count together, or its datagram is dropped.
LEMMA CreateStep ==
  ASSUME Inv, createFlow
  PROVE  Inv'
<1>1. hand \in Key /\ flowTokensByKey[hand] = NoToken /\ verdicts = 0
  BY DEF Inv, HandlerInv, Reported, createFlow, InHand
<1>2. CASE dropDatagram /\ UNCHANGED tableVars
  <2>1. ThreadTypes'
    BY <1>2 DEF Inv, ThreadTypes, dropDatagram, report
  <2> QED
    BY <1>1, <1>2, <2>1, HandlerStep DEF dropDatagram, report, AtLarge
<1>3. CASE dropDatagram /\ drawToken /\ UNCHANGED <<flowTokensByKey, flows, ended, active>>
  <2>1. ThreadTypes'
    BY <1>3 DEF Inv, ThreadTypes, dropDatagram, report
  <2>2. TableInv' /\ Open' = Open
    BY <1>3, RollBackTable DEF Inv
  <2>3. Known'
    BY <1>3, <2>2, StillKnown DEF Inv, dropDatagram
  <2> QED
    BY <1>1, <1>3, <2>1, <2>2, <2>3, BackAtLarge DEF dropDatagram, report, AtLarge
<1>4. CASE throwError /\ report(1)
  BY <1>1, <1>4, ThrowStep DEF report
<1>5. ASSUME NEW b \in Backend, ~isFull(Cardinality(Open)), drawToken,
             flowTokensByKey' = [flowTokensByKey EXCEPT ![hand] = nextFlowToken],
             flows' = [flows EXCEPT ![nextFlowToken] = [key |-> hand, backend |-> b, due |-> FALSE]],
             active' = recordCreated(active), pc' = "sendRequest", cur' = nextFlowToken,
             UNCHANGED <<stopping, events, attempt, hand, ended, verdicts>>
      PROVE  Inv'
  <2>1. /\ TableInv' /\ Open' = Open \cup {nextFlowToken}
        /\ nextFlowToken \in Token /\ flows'[nextFlowToken].key = hand
    BY <1>1, <1>5, CreateTable DEF Inv
  <2>2. ThreadTypes'
    BY <1>5, <2>1 DEF Inv, ThreadTypes
  <2>3. Known'
    BY <1>5, <2>1, StillKnown DEF Inv
  <2>4. HandlerInv' /\ Reported'
    BY <1>1, <1>5, <2>1 DEF HandlerInv, Reported, LostToException, AtLarge
  <2> QED
    BY <2>1, <2>2, <2>3, <2>4 DEF Inv
<1> QED
  BY <1>2, <1>3, <1>4, <1>5 DEF createFlow

\* A reply is taken from a flow of the table, which a failure removes.
LEMMA BackendStep ==
  ASSUME Inv, handleBackendRead
  PROVE  Inv'
<1>1. verdicts = 1 /\ hand = NoKey /\ pc = "backend"
  BY AtLargeReported DEF handleBackendRead, AtLarge
<1>2. CASE endHandler /\ UNCHANGED <<stopping, events, hand, tableVars, verdicts>>
  <2>1. ThreadTypes'
    BY <1>2, UdpBounds DEF Inv, ThreadTypes, endHandler
  <2> QED
    BY <1>1, <1>2, <2>1, HandlerStep DEF AtLarge, endHandler
<1>3. CASE cur \in Open /\ closeFlow(cur) /\ endHandler /\ UNCHANGED <<stopping, events, hand, verdicts>>
  <2>1. TableInv' /\ Open' = Open \ {cur} /\ ended' = ended \cup {cur}
    BY <1>3, CloseTable DEF Inv, closeFlow
  <2>2. Known'
    BY <1>3, <2>1, StillKnown DEF Inv
  <2>3. ThreadTypes'
    BY <1>3, UdpBounds DEF Inv, ThreadTypes, endHandler
  <2> QED
    BY <1>1, <1>3, <2>1, <2>2, <2>3, BackAtLarge DEF AtLarge, endHandler
<1>4. CASE throwError /\ UNCHANGED verdicts
  BY <1>1, <1>4, ThrowStep
<1>5. CASE /\ mayReceive /\ countAttempt /\ verdicts' = 1
           /\ UNCHANGED <<pc, cur, stopping, events, hand, tableVars>>
  <2>1. ThreadTypes'
    BY <1>5, UdpBounds DEF Inv, ThreadTypes, mayReceive, countAttempt
  <2> QED
    BY <1>1, <1>5, <2>1, HandlerStep DEF AtLarge
<1>6. CASE /\ cur \in Open /\ mayReceive /\ countAttempt /\ verdicts' = 0 /\ pc' = "sendReply"
           /\ UNCHANGED <<cur, stopping, events, hand, tableVars>>
  <2>1. ThreadTypes'
    BY <1>6, UdpBounds DEF Inv, ThreadTypes, mayReceive, countAttempt
  <2>2. TableInv' /\ Open' = Open /\ ended' = ended
    BY <1>6, SameTable DEF Inv
  <2>3. Known'
    BY <1>6, <2>2, StillKnown DEF Inv
  <2> QED
    BY <1>1, <1>6, <2>1, <2>2, <2>3 DEF Inv, HandlerInv, Reported, LostToException, AtLarge, InHand
<1> QED
  BY <1>1, <1>2, <1>3, <1>4, <1>5, <1>6 DEF handleBackendRead

\* Each datagram in hand is reported once, whether it was sent or dropped.
LEMMA SendStep ==
  ASSUME Inv, sendFlowDatagram
  PROVE  Inv'
<1>1. cur \in Open /\ verdicts = 0 /\ pc \in Sending
  BY DEF Inv, HandlerInv, Reported, sendFlowDatagram, Sending
<1>2. ASSUME resumeLoop, report(1)
      PROVE  ThreadTypes' /\ pc' \in AtLarge /\ hand' = NoKey /\ verdicts' = 1 /\ events' = events
  <2>1. pc' \in {"backend", "listener"} /\ verdicts' = 1 /\ events' = events
    BY <1>1, <1>2 DEF resumeLoop, report
  <2> QED
    BY <1>2, <2>1 DEF Inv, ThreadTypes, resumeLoop, report, AtLarge
<1>3. CASE resumeLoop /\ report(1) /\ recordSubmission
  <2>1. TableInv' /\ Open' = Open /\ ended' = ended
    BY <1>1, <1>3, DeadlineTable DEF Inv, recordSubmission
  <2>2. Known'
    BY <1>2, <1>3, <2>1, StillKnown DEF Inv
  <2> QED
    BY <1>2, <1>3, <2>1, <2>2, BackAtLarge
<1>4. CASE resumeLoop /\ report(1) /\ UNCHANGED tableVars
  BY <1>2, <1>4, HandlerStep
<1>5. CASE resumeLoop /\ report(1) /\ closeFlow(cur)
  <2>1. TableInv' /\ Open' = Open \ {cur} /\ ended' = ended \cup {cur}
    BY <1>1, <1>5, CloseTable DEF Inv, closeFlow
  <2>2. Known'
    BY <1>2, <1>5, <2>1, StillKnown DEF Inv
  <2> QED
    BY <1>2, <1>5, <2>1, <2>2, BackAtLarge
<1>6. CASE throwError /\ report(1)
  BY <1>1, <1>6, ThrowStep DEF report
<1> QED
  BY <1>3, <1>4, <1>5, <1>6 DEF sendFlowDatagram, dropOnError

\* Signals and the clock come at any time, also with a datagram in hand.
LEMMA EnvironmentStep ==
  ASSUME Inv, StopSignal \/ (\E t \in Token : IdleElapses(t)) \/ UNCHANGED vars
  PROVE  Inv'
<1>1. CASE StopSignal \/ UNCHANGED vars
  <2>1. UNCHANGED <<pc, events, cur, attempt, hand, tableVars, verdicts>> /\ stopping' \in BOOLEAN
    BY <1>1 DEF StopSignal, vars, Inv, ThreadTypes
  <2>2. TableInv' /\ Open' = Open /\ ended' = ended /\ flows' = flows
          /\ flowTokensByKey' = flowTokensByKey
    BY <2>1, SameTable DEF Inv
  <2> QED
    BY <2>1, <2>2 DEF Inv, ThreadTypes, HandlerInv, Reported, LostToException, Known
<1>2. ASSUME NEW t \in Token, IdleElapses(t)
      PROVE  Inv'
  <2>1. /\ TableInv' /\ Open' = Open /\ ended' = ended
        /\ \A u \in Open : flows'[u].key = flows[u].key
    BY <1>2, DeadlineTable DEF Inv, IdleElapses
  <2>2. HandlerInv'
    BY <1>2, <2>1 DEF Inv, HandlerInv, IdleElapses, Sending
  <2> QED
    BY <1>2, <2>1, <2>2 DEF Inv, ThreadTypes, Reported, LostToException, Known, IdleElapses
<1> QED
  BY <1>1, <1>2

\* The table and the reports start empty.
LEMMA InvInit == Init => Inv
<1> SUFFICES ASSUME Init PROVE Inv
  OBVIOUS
<1>1. Open = {} /\ NoToken \notin Token
  BY DEF Init, Open, Token, NoToken
<1>2. ThreadTypes
  <2>1. stopping \in BOOLEAN /\ events \subseteq Event
    BY DEF Init
  <2> QED
    BY <2>1, UdpBounds DEF Init, ThreadTypes
<1>3. HandlerInv /\ Reported /\ Known
  BY DEF Init, HandlerInv, Reported, LostToException, Known, InHand, AtLarge, Sending
<1>4. TableTypes /\ Indexed /\ Drawn
  BY <1>1, UdpBounds DEF Init, TableTypes, Indexed, Drawn, Token
<1>5. Counted
  BY <1>1, UdpBounds, FS_EmptySet DEF Init, Counted
<1> QED
  BY <1>2, <1>3, <1>4, <1>5 DEF Inv, TableInv

\* Every step preserves the invariant.
LEMMA InvStep == Inv /\ [Next]_vars => Inv'
  BY LoopSteps, EpollStep, DispatchStep, ListenerStep, ResolveStep, CreateScanStep, CreateStep,
     BackendStep, SendStep, EnvironmentStep DEF Next, Reactor, Terminated
-----------------------------------------------------------------------------
\* Every variable keeps its type: a read budget is never exceeded and no handler
\* writes to a flow that is not there.
THEOREM TypeCorrect == Spec => []TypeOK
<1>1. Inv => TypeOK
  BY DEF Inv, ThreadTypes, TableInv, TableTypes, TypeOK
<1> QED
  BY <1>1, InvInit, InvStep, PTL DEF Spec

\* flowTokensByKey_ and flows_ describe the same flows through creation, roll-back,
\* expiry and errors, and the UdpFlow& of a send is one of them.
THEOREM TableSafe == Spec => []IndexesAgree
<1>1. Inv => IndexesAgree
  BY DEF Inv, TableInv, Indexed, HandlerInv, Sending, IndexesAgree
<1> QED
  BY <1>1, InvInit, InvStep, PTL DEF Spec

\* The statistics callback hears of every flow exactly once, and of every datagram
\* too, but for the one in hand when the notification of its expired flow fails.
THEOREM ReportsSafe == Spec => []ReportsBalance
<1>1. Inv => ReportsBalance
  BY DEF Inv, TableInv, Counted, Reported, ReportsBalance
<1> QED
  BY <1>1, InvInit, InvStep, PTL DEF Spec

\* A stale event of epoll_wait never reaches the flow of another client.
THEOREM TokensSafe == Spec => []TokensNotReused
<1>1. Inv => TokensNotReused
  BY DEF Inv, TableInv, Drawn, Known, TokensNotReused
<1> QED
  BY <1>1, InvInit, InvStep, PTL DEF Spec
=============================================================================
