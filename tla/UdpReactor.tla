----------------------------- MODULE UdpReactor -----------------------------
(***************************************************************************)
(* The single-threaded, level-triggered epoll reactor that forwards UDP    *)
(* datagrams through a flow table (src/net/UdpReactor.cpp,                 *)
(* src/core/UdpFlow.h), with the session gauge its statistics callback     *)
(* feeds (src/metrics/Metrics.cpp).                                        *)
(*                                                                         *)
(* What clients, backends and the kernel do is left open: any receive may  *)
(* return any datagram or error, any registered socket may be reported     *)
(* ready.  A flow's deadline is a timer that becomes "due" at any moment.  *)
(***************************************************************************)
EXTENDS Naturals, FiniteSets

CONSTANTS
  NoKey, NoFlow,
  Key,         \* client endpoints with the local address they sent to
  Backend,     \* what the selector callback may return
  MaxFlows,    \* options_.maxFlows
  ActiveLimit, \* the 1024 of MetricsCollector::recordStatEvent
  LastToken,   \* the largest token: numeric_limits<uint64_t>::max() - 1
  ReadBudget,  \* receive attempts per event (64)
  MaxEvents    \* size of the epoll_wait batch (128)

ASSUME UdpBounds ==
  /\ NoKey \notin Key /\ NoFlow \notin [key : Key, backend : Backend, due : BOOLEAN]
  /\ MaxFlows \in Nat \ {0} /\ ActiveLimit \in Nat /\ MaxFlows <= ActiveLimit
  /\ LastToken \in Nat /\ LastToken >= 3 /\ ReadBudget \in Nat \ {0} /\ MaxEvents \in Nat \ {0}

ListenerToken == 1
SignalToken   == 2
Token   == 3..LastToken
NoToken == 0
Flow    == [key : Key, backend : Backend, due : BOOLEAN]

Event == [token : {ListenerToken, SignalToken} \cup Token, err : BOOLEAN, hup : BOOLEAN, in : BOOLEAN]

VARIABLES
  pc,
  stopping,       \* a SIGINT or SIGTERM waits on the signalfd
  events,         \* undispatched part of the batch
  cur, attempt,   \* token the handler was called for, receive attempts made
  hand,           \* key of the client datagram in hand while its flow is resolved
  nextFlowToken,
  flowTokensByKey, flows,
  ended,          \* history: tokens whose flow is gone
  active,         \* data_.sessionsActive
  verdicts        \* history: sent and dropped reports for the last datagram received

tableVars == <<nextFlowToken, flowTokensByKey, flows, ended, active>>
vars == <<pc, stopping, events, cur, attempt, hand, tableVars, verdicts>>

Open == {t \in Token : flows[t] # NoFlow}

\* UdpIdleDeadline::expired, for the flows of the table.
MutNeverDue == {}                       \* mutant: no scan finds an expired flow
Due == {t \in Open : flows[t].due}

Init ==
  /\ pc = "top" /\ stopping = FALSE /\ events = {} /\ cur = NoToken /\ attempt = 0 /\ hand = NoKey
  /\ nextFlowToken = 3 /\ flowTokensByKey = [k \in Key |-> NoToken]
  /\ flows = [t \in Token |-> NoFlow] /\ ended = {} /\ active = 0 /\ verdicts = 1
-----------------------------------------------------------------------------
(***************************************************************************)
(* The flow table                                                          *)
(***************************************************************************)

\* recordStatEvent: a Created beyond the limit and a Closed below zero are refused.
recordCreated(n) == IF n >= ActiveLimit THEN n ELSE n + 1
recordClosed(n, closed) == IF n < closed THEN 0 ELSE n - closed

\* Mutant: only the owner is erased, the key still leads to the token.
MutKeepIndex(gone) == UNCHANGED flowTokensByKey
unindex(gone) ==
  flowTokensByKey' = [k \in Key |-> IF flowTokensByKey[k] \in gone THEN NoToken
                                                                   ELSE flowTokensByKey[k]]

\* closeFlow for each of the given flows: index and owner go first, then the epoll
\* registration, the descriptor, and one Closed report per flow.
closeFlows(gone) ==
  /\ unindex(gone)
  /\ flows' = [t \in Token |-> IF t \in gone THEN NoFlow ELSE flows[t]]
  /\ ended' = ended \cup gone
  /\ active' = recordClosed(active, Cardinality(gone))
  /\ UNCHANGED nextFlowToken

closeFlow(t) == closeFlows({t})

\* An exception leaves the event loop: the destructor closes every flow.  A system
\* call fails for good, or a flow, diagnostic or observation callback does: closeFlow
\* finishes its work and rethrows the first failure, so whatever closes or creates a
\* flow may end here.  The statistics callback is noexcept (control/UdpService.cpp).
unwind ==
  /\ closeFlows(Open) /\ pc' = "done" /\ events' = {} /\ cur' = NoToken /\ attempt' = 0
  /\ UNCHANGED stopping
throwError == unwind /\ hand' = NoKey

report(n) == verdicts' = verdicts + n    \* kDropped, or the kDatagram event of a send
-----------------------------------------------------------------------------
(***************************************************************************)
(* runUdpEventLoop                                                         *)
(***************************************************************************)

consumeStopSignals ==
  /\ pc \in {"top", "polled", "dispatch"}
  /\ stopping /\ stopping' = FALSE
  /\ pc' = "done" /\ closeFlows(Open) /\ events' = {}
  /\ UNCHANGED <<cur, attempt, hand, verdicts>>

expireIdleFlows ==
  /\ pc = "top" /\ ~stopping /\ pc' = "poll" /\ closeFlows(Due)
  /\ UNCHANGED <<stopping, events, cur, attempt, hand, verdicts>>

EpollInterrupted ==
  /\ pc = "poll" /\ pc' = "top"
  /\ UNCHANGED <<stopping, events, cur, attempt, hand, tableVars, verdicts>>

EpollWait ==
  /\ pc = "poll" /\ pc' = "polled"
  /\ \E ready \in SUBSET (Open \cup {ListenerToken, SignalToken}) :
       /\ Cardinality(ready) <= MaxEvents /\ (SignalToken \in ready => stopping)
       /\ \E flags \in [ready -> {f \in [err : BOOLEAN, hup : BOOLEAN, in : BOOLEAN] :
                                    f.err \/ f.hup \/ f.in}] :
            events' = {[token |-> t, err |-> flags[t].err, hup |-> flags[t].hup,
                        in |-> flags[t].in] : t \in ready}
  /\ UNCHANGED <<stopping, cur, attempt, hand, tableVars, verdicts>>

\* The second expiry scan of a round; the maintenance callback has no part in the
\* flow table.
AfterPoll ==
  /\ pc = "polled" /\ ~stopping /\ pc' = "dispatch" /\ closeFlows(Due)
  /\ UNCHANGED <<stopping, events, cur, attempt, hand, verdicts>>

\* epoll_wait, signalfd or the maintenance callback failed for good, or an expiry
\* scan or an event closed a flow whose notification did.
ServiceError ==
  /\ pc \in {"top", "poll", "polled", "dispatch"} /\ throwError /\ UNCHANGED verdicts

EndOfBatch ==
  /\ pc = "dispatch" /\ ~stopping /\ events = {} /\ pc' = "top"
  /\ UNCHANGED <<stopping, events, cur, attempt, hand, tableVars, verdicts>>

\* dispatchFlowEvent, after the lookup of the token.  handleSocketError lets a
\* flow survive resource pressure and the listener every shared error.
dispatchListener(ev) ==
  \/ /\ ev.err \/ ev.hup
     /\ throwError /\ UNCHANGED verdicts
  \/ /\ ~ev.hup
     /\ pc' = (IF ev.in THEN "listener" ELSE "dispatch") /\ attempt' = 0
     /\ cur' = (IF ev.in THEN ListenerToken ELSE NoToken)
     /\ UNCHANGED <<stopping, hand, tableVars, verdicts>> /\ events' = events \ {ev}

dispatchBackend(ev) ==
  \/ /\ flows[ev.token].due \/ ev.err \/ ev.hup
     /\ closeFlow(ev.token) /\ events' = events \ {ev}
     /\ UNCHANGED <<pc, stopping, cur, attempt, hand, verdicts>>
  \/ /\ ~flows[ev.token].due /\ ev.err
     /\ throwError /\ UNCHANGED verdicts
  \/ /\ ~flows[ev.token].due /\ ~ev.hup
     /\ pc' = (IF ev.in THEN "backend" ELSE "dispatch") /\ attempt' = 0
     /\ cur' = (IF ev.in THEN ev.token ELSE NoToken)
     /\ UNCHANGED <<stopping, hand, tableVars, verdicts>> /\ events' = events \ {ev}

dispatchFlowEvent ==
  /\ pc = "dispatch" /\ ~stopping
  /\ \E ev \in events :
       \/ /\ ev.token = SignalToken \/ (ev.token # ListenerToken /\ ev.token \notin Open)
          /\ events' = events \ {ev}
          /\ UNCHANGED <<pc, stopping, cur, attempt, hand, tableVars, verdicts>>
       \/ ev.token = ListenerToken /\ dispatchListener(ev)
       \/ ev.token \in Open /\ dispatchBackend(ev)
-----------------------------------------------------------------------------
(***************************************************************************)
(* Client datagrams                                                        *)
(***************************************************************************)

endHandler == pc' = "dispatch" /\ cur' = NoToken /\ attempt' = 0

\* Mutant: only the end of the queue ends the loop.
MutUnbudgeted == UNCHANGED attempt
\* A receive counts, whether it is interrupted or yields a datagram, usable or not.
countAttempt == attempt' = attempt + 1
MutOneMore == attempt <= ReadBudget      \* mutant: off by one
mayReceive == attempt < ReadBudget

handleListenerRead ==
  /\ pc = "listener"
  /\ \/ \* budget spent, nothing to read, or a shared socket error
        /\ endHandler /\ UNCHANGED <<stopping, events, hand, tableVars, verdicts>>
     \/ \* EINTR
        /\ mayReceive /\ countAttempt
        /\ UNCHANGED <<pc, cur, stopping, events, hand, tableVars, verdicts>>
     \/ /\ mayReceive /\ throwError /\ UNCHANGED verdicts
     \/ \* truncated, or without valid metadata
        /\ mayReceive /\ countAttempt /\ verdicts' = 1
        /\ UNCHANGED <<pc, cur, stopping, events, hand, tableVars>>
     \/ \E k \in Key :
          /\ mayReceive /\ countAttempt /\ verdicts' = 0
          /\ pc' = "resolve" /\ hand' = k
          /\ UNCHANGED <<cur, stopping, events, tableVars>>

\* The lookup by key: an expired flow is closed, never revived.  When that fails
\* the handler that reports the datagram as dropped is not entered yet.
resolveFlowTokenForDatagram ==
  LET t == flowTokensByKey[hand] IN
  /\ pc = "resolve"
  /\ \/ /\ t # NoToken /\ ~flows[t].due
        /\ pc' = "sendRequest" /\ cur' = t
        /\ UNCHANGED <<stopping, events, attempt, tableVars>>
     \/ /\ t # NoToken /\ flows[t].due
        /\ pc' = "create" /\ closeFlow(t) /\ UNCHANGED <<stopping, events, cur, attempt>>
     \/ /\ t # NoToken /\ flows[t].due
        /\ unwind
     \/ /\ t = NoToken /\ pc' = "create"
        /\ UNCHANGED <<stopping, events, cur, attempt, tableVars>>
  /\ UNCHANGED <<hand, verdicts>>

MutCapacity(n) == n > MaxFlows          \* mutant: off by one
isFull(n) == n >= MaxFlows

\* createFlow begins with another expiry scan; what follows sees its result.
createExpired ==
  /\ pc = "create"
  /\ \/ /\ closeFlows(Due) /\ pc' = "admit"
        /\ UNCHANGED <<stopping, events, cur, attempt, hand, verdicts>>
     \/ Due # {} /\ throwError /\ report(1)

\* The datagram is dropped and the listener loop goes on.
dropDatagram ==
  /\ report(1) /\ pc' = "listener" /\ hand' = NoKey /\ cur' = ListenerToken
  /\ UNCHANGED <<stopping, events, attempt>>

\* Mutant: the counter stays, the next flow gets the same token.
MutSameToken == UNCHANGED nextFlowToken
drawToken == nextFlowToken <= LastToken /\ nextFlowToken' = nextFlowToken + 1

\* registerFlowIndexesAndSocket commits both indexes and the epoll registration or
\* none of them; a token that was drawn stays used.
createFlow ==
  /\ pc = "admit"
  /\ \/ \* full, no eligible backend, or no socket
        /\ dropDatagram /\ UNCHANGED tableVars
     \/ \* no memory or no epoll registration: roll back
        /\ ~isFull(Cardinality(Open)) /\ dropDatagram /\ drawToken
        /\ UNCHANGED <<flowTokensByKey, flows, ended, active>>
     \/ \* a failing selector or callback, tokens exhausted, or an unusable epoll descriptor
        throwError /\ report(1)
     \/ \E b \in Backend :
          /\ ~isFull(Cardinality(Open)) /\ drawToken
          /\ flowTokensByKey' = [flowTokensByKey EXCEPT ![hand] = nextFlowToken]
          /\ flows' = [flows EXCEPT ![nextFlowToken] = [key |-> hand, backend |-> b, due |-> FALSE]]
          /\ active' = recordCreated(active)
          /\ pc' = "sendRequest" /\ cur' = nextFlowToken
          /\ UNCHANGED <<stopping, events, attempt, hand, ended, verdicts>>
-----------------------------------------------------------------------------
(***************************************************************************)
(* Backend datagrams, and the send both directions end in                  *)
(***************************************************************************)

handleBackendRead ==
  /\ pc = "backend"
  /\ \/ \* flow gone, budget spent, nothing to read, or resource pressure
        /\ cur \notin Open \/ ~flows[cur].due \/ ~mayReceive
        /\ endHandler /\ UNCHANGED <<stopping, events, hand, tableVars, verdicts>>
     \/ \* expired, or a socket error
        /\ cur \in Open /\ mayReceive
        /\ closeFlow(cur) /\ endHandler /\ UNCHANGED <<stopping, events, hand, verdicts>>
     \/ /\ cur \in Open /\ mayReceive
        /\ throwError /\ UNCHANGED verdicts
     \/ /\ cur \in Open /\ mayReceive /\ ~flows[cur].due /\ countAttempt
        /\ UNCHANGED <<pc, cur, stopping, events, hand, tableVars, verdicts>>
     \/ \* truncated
        /\ cur \in Open /\ mayReceive /\ ~flows[cur].due
        /\ countAttempt /\ verdicts' = 1
        /\ UNCHANGED <<pc, cur, stopping, events, hand, tableVars>>
     \/ /\ cur \in Open /\ mayReceive /\ ~flows[cur].due
        /\ countAttempt /\ verdicts' = 0 /\ pc' = "sendReply"
        /\ UNCHANGED <<cur, stopping, events, hand, tableVars>>

\* recordSubmission: only a datagram handed over in full renews the deadline.
recordSubmission ==
  /\ flows' = [flows EXCEPT ![cur].due = FALSE]
  /\ UNCHANGED <<nextFlowToken, flowTokensByKey, ended, active>>

resumeLoop ==
  /\ pc' = (IF pc = "sendReply" THEN "backend" ELSE "listener")
  /\ cur' = (IF pc = "sendReply" THEN cur ELSE ListenerToken)
  /\ hand' = NoKey /\ UNCHANGED <<stopping, events, attempt>>

dropOnError == report(1)

\* Up to four attempts, of which only the last outcome shows.
sendFlowDatagram ==
  /\ pc \in {"sendRequest", "sendReply"}
  /\ \/ resumeLoop /\ report(1) /\ recordSubmission
     \/ \* short send or attempts used up
        resumeLoop /\ report(1) /\ UNCHANGED tableVars
     \/ \* pressure; on the listener, any shared error
        resumeLoop /\ dropOnError /\ UNCHANGED tableVars
     \/ \* another error on the flow's own socket
        pc = "sendRequest" /\ resumeLoop /\ dropOnError /\ closeFlow(cur)
     \/ throwError /\ dropOnError
-----------------------------------------------------------------------------
StopSignal ==
  /\ pc # "done" /\ ~stopping /\ stopping' = TRUE
  /\ UNCHANGED <<pc, events, cur, attempt, hand, tableVars, verdicts>>

IdleElapses(t) ==
  /\ t \in Open /\ ~flows[t].due /\ flows' = [flows EXCEPT ![t].due = TRUE]
  /\ UNCHANGED <<pc, stopping, events, cur, attempt, hand, nextFlowToken, flowTokensByKey, ended,
                 active, verdicts>>

Reactor ==
  \/ consumeStopSignals \/ expireIdleFlows \/ EpollWait \/ AfterPoll \/ EndOfBatch
  \/ dispatchFlowEvent \/ handleListenerRead \/ resolveFlowTokenForDatagram \/ createExpired
  \/ createFlow \/ handleBackendRead \/ sendFlowDatagram

Terminated == pc = "done" /\ UNCHANGED vars

Next ==
  \/ Reactor \/ EpollInterrupted \/ ServiceError \/ StopSignal
  \/ (\E t \in Token : IdleElapses(t))
  \/ Terminated

Spec == Init /\ [][Next]_vars

\* The reactor thread keeps running.
FairSpec == Spec /\ WF_vars(Reactor)
-----------------------------------------------------------------------------
(***************************************************************************)
(* Properties                                                              *)
(***************************************************************************)

\* Every variable has its type.
TypeOK ==
  /\ pc \in {"top", "poll", "polled", "dispatch", "listener", "resolve", "create", "admit",
             "backend", "sendRequest", "sendReply", "done"}
  /\ stopping \in BOOLEAN /\ events \subseteq Event
  /\ cur \in {NoToken, ListenerToken} \cup Token /\ attempt \in 0..ReadBudget
  /\ hand \in Key \cup {NoKey} /\ nextFlowToken \in Token \cup {LastToken + 1}
  /\ flowTokensByKey \in [Key -> Token \cup {NoToken}]
  /\ flows \in [Token -> Flow \cup {NoFlow}] /\ ended \subseteq Token
  /\ active \in Nat /\ verdicts \in Nat

\* The two indexes describe the same flows, so flows_.at(token) never throws and
\* no client reaches a socket opened for another one; a handler that holds a
\* UdpFlow& holds one of the table.
IndexesAgree ==
  /\ \A k \in Key : flowTokensByKey[k] # NoToken =>
        flowTokensByKey[k] \in Open /\ flows[flowTokensByKey[k]].key = k
  /\ \A t \in Open : flowTokensByKey[flows[t].key] = t
  /\ pc \in {"sendRequest", "sendReply"} => cur \in Open
  /\ pc = "sendRequest" => flows[cur].key = hand

\* A client datagram was in hand when the exception of a failing notification left
\* the loop outside the handler that reports it (UdpReactor.cpp:610).
LostToException == pc = "done" /\ hand # NoKey

\* What is reported is what happened: the gauge of the metrics snapshot is the number
\* of flows and neither exceeds the capacity, so no Created or Closed report is
\* refused; and each datagram received is reported exactly once, as sent or dropped,
\* also when an exception ends the service while it is being forwarded.  The one
\* exception: the notification of the flow that its client's next datagram found
\* expired fails, and that datagram is not reported at all.
ReportsBalance ==
  /\ active = Cardinality(Open) /\ active <= MaxFlows
  /\ verdicts = IF \/ pc \in {"resolve", "create", "admit", "sendRequest", "sendReply"}
                   \/ LostToException
                THEN 0 ELSE 1

\* A token names one flow for ever: an event left over from an earlier batch finds
\* its own flow or nothing.
TokensNotReused ==
  /\ ended \cap Open = {}
  /\ \A t \in ended \cup Open : t < nextFlowToken
  /\ \A ev \in events : ev.token \in Token => ev.token \in ended \cup Open

\* A flow past its deadline goes: neither traffic of other flows nor datagrams of its
\* own, which find it expired, keep or revive it.  Only a datagram that found it in
\* time and is being sent when the deadline passes renews it.
IdleFlowsClose ==
  \A t \in Token :
    (t \in Open /\ flows[t].due /\ ~(pc \in {"sendRequest", "sendReply"} /\ cur = t))
      ~> (t \notin Open)

\* A stop signal ends the service, whatever arrives.
StopTerminates == stopping ~> (pc = "done")
=============================================================================
