--------------------------- MODULE TcpRelayProofs ---------------------------
(***************************************************************************)
(* The session table and the relay of the TCP reactor are safe for every   *)
(* number of clients, buffer size, batch size and placement of the         *)
(* environment's steps.                                                    *)
(***************************************************************************)
EXTENDS TcpReactorProofs

\* The strengthening of NoDanglingSession.  A scan is under way only inside the
\* two loops that scan; ids not handed out yet have no session; an endpoint
\* without a session is in its initial state.
ScanIdle ==
  /\ pc \in {"top", "poll", "polled", "dispatch", "accept"} => scan = {}
  /\ pc \in HandlerPc /\ ret = "dispatch" => scan = {}
Unborn == \A s \in SessionId : s >= nextSessionId => status[s] = "none"
Quiet  == \A e \in Endpoint : e[1] \notin Sessions => end[e] = FreshEnd /\ pending[e] = 0
Table  == tokens = {e \in Endpoint : e[1] \in Sessions} /\ Quiet /\ Unborn
Thread ==
  /\ pc \in HandlerPc => cur \in Sessions /\ curEnd[1] = cur /\ cur \notin scan
  /\ pc # "done" => scan \subseteq Sessions
  /\ ScanIdle
SessionInv == TypeOK /\ Table /\ Thread

\* What the strengthened invariant is for.
LEMMA SessionInvSuffices == SessionInv => NoDanglingSession
<1> SUFFICES ASSUME SessionInv PROVE NoDanglingSession
  OBVIOUS
<1>1. \A e \in Endpoint : end[e].interest # {} => e \in tokens
  BY DEF SessionInv, Table, Quiet, FreshEnd
<1> QED
  BY <1>1 DEF SessionInv, Table, Thread, NoDanglingSession

\* Closing a session takes exactly that session out of the table.
LEMMA CloseTable ==
  ASSUME TableTypes, Table, NEW s \in Sessions, NEW reason \in Reason, closeSession(s, reason)
  PROVE  Table' /\ Sessions' = Sessions \ {s}
<1> s \in SessionId
  BY DEF Sessions
<1> USE DEF closeSession, ResetSession
<1>1. Sessions' = Sessions \ {s}
  BY DEF Sessions, TableTypes, Reason
<1>2. tokens' = {e \in Endpoint : e[1] \in Sessions'}
  BY <1>1 DEF Table
<1>3. Quiet'
  BY <1>1 DEF Table, Quiet
<1>4. Unborn'
  BY DEF Table, Unborn, TableTypes, Sessions
<1> QED
  BY <1>1, <1>2, <1>3, <1>4 DEF Table

\* Closing all leaves an empty table.
LEMMA CloseAllTable ==
  ASSUME TableTypes, Table, NEW reason \in Reason, closeAllSessions(reason)
  PROVE  Table' /\ Sessions' = {}
<1> USE DEF closeAllSessions
<1>1. Sessions' = {}
  BY DEF Sessions, TableTypes, Reason
<1>2. tokens' = {e \in Endpoint : e[1] \in Sessions'}
  BY <1>1 DEF Table
<1>3. Quiet'
  BY <1>1 DEF Table, Quiet
<1>4. Unborn'
  BY DEF Table, Unborn, TableTypes, Sessions
<1> QED
  BY <1>1, <1>2, <1>3, <1>4 DEF Table

\* A step that leaves status, tokens and nextSessionId alone, and touches only
\* endpoints of sessions, keeps the table.
LEMMA SameTable ==
  ASSUME TableTypes, Table, UNCHANGED <<nextSessionId, status, tokens>>,
         \A e \in Endpoint : e[1] \notin Sessions => end'[e] = end[e] /\ pending'[e] = pending[e]
  PROVE  Table' /\ Sessions' = Sessions
<1>1. Sessions' = Sessions
  BY DEF Sessions
<1> QED
  BY <1>1 DEF Table, Quiet, Unborn

\* The kernel, the peers and the clock touch only sockets and timers of sessions.
LEMMA EnvironmentTable == TypeOK /\ Table /\ Thread /\ Environment => Table' /\ Thread'
<1> SUFFICES ASSUME TypeOK, Table, Thread, Environment PROVE Table' /\ Thread'
  OBVIOUS
<1> TableTypes
  BY DEF TypeOK
<1>1. UNCHANGED <<reactorVars, nextSessionId, status, tokens, pending>>
  BY DEF Environment, ClientConnects, StopSignal, DrainElapses, RetryElapses, PeerSends,
         PeerFinishes, PeerReads, PeerResets, SockStep, DeferralElapses, ConnectCompletes,
         IdleElapses, sessionVars
<1>2. \A e \in Endpoint : e[1] \notin Sessions => end'[e] = end[e]
  <2>1. CASE UNCHANGED end
    BY <2>1
  <2>2. ASSUME NEW d \in Endpoint, DeferralElapses(d)
        PROVE  \A e \in Endpoint : e[1] \notin Sessions => end'[e] = end[e]
    <3>1. end[d].deferred = "armed" /\ end' = [end EXCEPT ![d].deferred = "due"]
      BY <2>2 DEF DeferralElapses
    <3>2. d[1] \in Sessions
      BY <3>1 DEF Table, Quiet, FreshEnd
    <3> QED
      BY <3>1, <3>2 DEF TableTypes
  <2> QED
    BY <2>1, <2>2 DEF Environment, ClientConnects, StopSignal, DrainElapses, RetryElapses, PeerSends,
         PeerFinishes, PeerReads, PeerResets, SockStep, ConnectCompletes, IdleElapses, sessionVars
<1>3. Table' /\ Sessions' = Sessions
  BY <1>1, <1>2, SameTable
<1> QED
  BY <1>1, <1>3 DEF Thread, ScanIdle, reactorVars, handlerVars

\* A handler that returns to one of the scanning or dispatching loops.
LEMMA LeaveThread ==
  ASSUME TypeOK, Thread, pc \in HandlerPc, leaveHandler, UNCHANGED scan,
         Sessions \ {cur} \subseteq Sessions'
  PROVE  Thread'
  BY DEF TypeOK, ThreadTypes, Thread, ScanIdle, leaveHandler, HandlerPc, DeadlinesPc

\* A handler that is entered on a session which the scan has just left behind.
LEMMA EnterThread ==
  ASSUME TypeOK, Thread, pc \in {"drain", "dispatch"} \cup DeadlinesPc,
         NEW s \in Sessions, NEW e \in Endpoint, e[1] = s, NEW hup \in BOOLEAN,
         beginSessionIo(s, e, hup, pc) \/ skipSessionIo(s, e, hup, pc),
         scan' = scan \ {s}, Sessions \subseteq Sessions'
  PROVE  Thread'
  BY DEF Thread, ScanIdle, beginSessionIo, skipSessionIo, HandlerPc, DeadlinesPc

\* No step of the reactor thread leaves a reference to a session that is gone.
LEMMA ReactorTable ==
  TypeOK /\ Table /\ Thread /\ (Reactor \/ EpollInterrupted \/ ServiceError) => Table' /\ Thread'
<1> SUFFICES ASSUME TypeOK, Table, Thread, Reactor \/ EpollInterrupted \/ ServiceError
             PROVE  Table' /\ Thread'
  OBVIOUS
<1> ThreadTypes /\ StopTypes /\ TableTypes /\ Sessions \subseteq SessionId
  BY DEF TypeOK, Sessions
<1>s. ASSUME UNCHANGED sessionVars PROVE Table' /\ Sessions' = Sessions
  BY <1>s, SameTable DEF sessionVars
<1>1. CASE LoopTop
  <2>1. CASE consumeStopSignals /\ closeAllSessions(stopReason') /\ pc' = "done" /\ UNCHANGED scan
    <3>1. stopReason' \in Reason
      BY <2>1, ConsumeTypes DEF StopTypes, StopReason, Reason
    <3> QED
      BY <1>1, <2>1, <3>1, CloseAllTable DEF Thread, ScanIdle, HandlerPc
  <2>2. CASE UNCHANGED sessionVars /\ scan' = Sessions /\ pc' \in {"drain", "deadlinesTop"}
    BY <1>s, <2>2 DEF Thread, ScanIdle, HandlerPc
  <2> QED
    BY <1>1, <2>1, <2>2 DEF LoopTop
<1>2. CASE EpollWait \/ EpollInterrupted
  BY <1>2, <1>s DEF EpollWait, EpollInterrupted, Thread, ScanIdle, HandlerPc
<1>3. CASE AfterPoll
  BY <1>3, <1>s DEF AfterPoll, Thread, ScanIdle, HandlerPc
<1>4. CASE ServiceError
  BY <1>4, CloseAllTable DEF ServiceError, Reason, Thread, ScanIdle, HandlerPc
<1>5. CASE advanceStopDrain
  <2> USE <1>5
  <2> pc = "drain" /\ scan \subseteq Sessions
    BY DEF advanceStopDrain, Thread
  <2>1. CASE UNCHANGED <<handlerVars, sessionVars>> /\ scan' = {} /\ pc' \in {"done", "poll", "drain"}
    BY <1>s, <2>1 DEF Thread, ScanIdle, HandlerPc
  <2>2. ASSUME NEW s \in scan, scan' = scan \ {s}, closeSession(s, "service-stop-connecting"),
               UNCHANGED <<pc, handlerVars>>
        PROVE  Table' /\ Thread'
    <3>1. Table' /\ Sessions' = Sessions \ {s}
      BY <2>2, CloseTable DEF Reason
    <3> QED
      BY <2>2, <3>1 DEF Thread, ScanIdle, HandlerPc
  <2>3. ASSUME NEW s \in scan, scan' = scan \ {s},
               end' = [e \in Endpoint |-> IF e[1] = s THEN clearDue(end[e]) ELSE end[e]],
               beginSessionIo(s, <<s, 0>>, FALSE, "drain"),
               UNCHANGED <<nextSessionId, status, tokens, idle, pending, sock>>
        PROVE  Table' /\ Thread'
    <3>1. Table' /\ Sessions' = Sessions
      BY <2>3, SameTable
    <3>2. <<s, 0>> \in Endpoint /\ <<s, 0>>[1] = s
      BY EndpointFacts DEF Side
    <3> QED
      BY <2>3, <3>1, <3>2, EnterThread
  <2> QED
    BY <2>1, <2>2, <2>3 DEF advanceStopDrain
<1>6. CASE processSessionDeadlines
  <2> USE <1>6
  <2> pc \in DeadlinesPc /\ scan \subseteq Sessions
    BY DEF processSessionDeadlines, Thread, DeadlinesPc
  <2>1. CASE UNCHANGED <<handlerVars, sessionVars>> /\ scan' = {} /\ pc' \in {"poll", "dispatch"}
    BY <1>s, <2>1 DEF Thread, ScanIdle, HandlerPc
  <2>2. ASSUME NEW s \in scan, scan' = scan \ {s}, NEW reason \in Reason, closeSession(s, reason),
               UNCHANGED <<pc, handlerVars>>
        PROVE  Table' /\ Thread'
    <3>1. Table' /\ Sessions' = Sessions \ {s}
      BY <2>2, CloseTable
    <3> QED
      BY <2>2, <3>1 DEF Thread, ScanIdle, HandlerPc, DeadlinesPc
  <2>3. ASSUME NEW s \in scan, scan' = scan \ {s}, UNCHANGED <<pc, handlerVars, sessionVars>>
        PROVE  Table' /\ Thread'
    BY <1>s, <2>3 DEF Thread, ScanIdle, HandlerPc, DeadlinesPc
  <2>4. ASSUME NEW s \in scan, scan' = scan \ {s},
               end' = [e \in Endpoint |-> IF e[1] = s THEN clearDue(end[e]) ELSE end[e]],
               \/ beginSessionIo(s, <<s, 0>>, FALSE, pc)
               \/ skipSessionIo(s, <<s, 0>>, FALSE, pc),
               UNCHANGED <<nextSessionId, status, tokens, idle, pending, sock>>
        PROVE  Table' /\ Thread'
    <3>1. Table' /\ Sessions' = Sessions
      BY <2>4, SameTable
    <3>2. <<s, 0>> \in Endpoint /\ <<s, 0>>[1] = s
      BY EndpointFacts DEF Side
    <3> QED
      BY <2>4, <3>1, <3>2, EnterThread
  <2> QED
    BY <2>1, <2>2, <2>3, <2>4 DEF processSessionDeadlines, Reason
<1>7. CASE dispatchTcpReadyEvents \/ acceptNothing
  BY <1>7, <1>s DEF dispatchTcpReadyEvents, acceptNothing, Thread, ScanIdle, HandlerPc
<1>8. CASE acceptClientSessions
  <2> DEFINE s == nextSessionId
  <2> USE <1>8
  <2>1. s \in SessionId
    <3>1. backlog > 0
      BY DEF acceptClientSessions
    <3> QED
      BY <3>1, Bounds DEF TypeOK, ListenTypes, SessionId
  <2>2. status[s] = "none" /\ s \notin Sessions /\ nextSessionId' = s + 1 /\ s \in Nat
    BY <2>1 DEF acceptClientSessions, Table, Unborn, Sessions, TypeOK, ListenTypes
  <2>3. pc = "accept" /\ pc' = pc /\ scan' = scan /\ scan = {}
    BY DEF acceptClientSessions, Thread, ScanIdle
  <2>4. CASE status' = [status EXCEPT ![s] = "failure"] /\ UNCHANGED <<tokens, idle, end, pending, sock>>
    <3>1. Sessions' = Sessions
      BY <2>1, <2>2, <2>4 DEF Sessions, TableTypes
    <3>2. Unborn'
      BY <2>1, <2>2, <2>4 DEF Table, Unborn, TableTypes, SessionId
    <3> QED
      BY <2>3, <2>4, <3>1, <3>2 DEF Table, Quiet, Thread, ScanIdle, HandlerPc
  <2>5. ASSUME NEW c \in BOOLEAN,
               status' = [status EXCEPT ![s] = IF c THEN "established" ELSE "connecting"],
               tokens' = tokens \cup {<<s, d>> : d \in Side},
               end' = [e \in Endpoint |->
                         IF e[1] = s
                         THEN [end[e] EXCEPT !.interest = wantedInterest(e, end[e], ~c)]
                         ELSE end[e]],
               UNCHANGED <<idle, pending>>
        PROVE  Table' /\ Thread'
    <3>1. Sessions' = Sessions \cup {s}
      BY <2>1, <2>5 DEF Sessions, TableTypes
    <3>2. Unborn'
      BY <2>1, <2>2, <2>5 DEF Table, Unborn, TableTypes, SessionId
    <3>3. Quiet'
      BY <2>5, <3>1 DEF Table, Quiet
    <3>4. tokens' = {e \in Endpoint : e[1] \in Sessions'}
      BY <2>1, <2>5, <3>1, EndpointFacts DEF Table
    <3> QED
      BY <2>3, <3>1, <3>2, <3>3, <3>4 DEF Table, Thread, ScanIdle, HandlerPc
  <2> QED
    BY <2>4, <2>5 DEF acceptClientSessions
<1>9. CASE dispatchEndpointEvent
  <2> USE <1>9
  <2> pc = "dispatch" /\ scan = {} /\ scan' = scan
    BY DEF dispatchEndpointEvent, Thread, ScanIdle
  <2>0. ASSUME NEW ev \in events, ev.end \in tokens
        PROVE  ev.end \in Endpoint /\ ev.end[1] \in Sessions /\ ev.hup \in BOOLEAN
    BY <2>0 DEF Table, ThreadTypes, Event
  <2>1. CASE UNCHANGED <<pc, handlerVars, sessionVars>>
    BY <1>s, <2>1 DEF Thread, ScanIdle, HandlerPc
  <2>2. ASSUME NEW ev \in events, ev.end \in tokens, NEW reason \in Reason,
               closeSession(ev.end[1], reason), UNCHANGED <<pc, handlerVars>>
        PROVE  Table' /\ Thread'
    <3>1. Table' /\ Sessions' = Sessions \ {ev.end[1]}
      BY <2>0, <2>2, CloseTable
    <3> QED
      BY <2>2, <3>1 DEF Thread, ScanIdle, HandlerPc
  <2>3. ASSUME NEW ev \in events, ev.end \in tokens,
               \/ status' = [status EXCEPT ![ev.end[1]] = "established"]
               \/ UNCHANGED status,
               \/ beginSessionIo(ev.end[1], ev.end, ev.hup, "dispatch")
               \/ skipSessionIo(ev.end[1], ev.end, ev.hup, "dispatch"),
               UNCHANGED <<nextSessionId, tokens, end, pending, sock>>
        PROVE  Table' /\ Thread'
    <3>1. Sessions' = Sessions
      BY <2>0, <2>3 DEF Sessions, TableTypes
    <3>2. Table'
      BY <2>0, <2>3, <3>1 DEF Table, Quiet, Unborn, Sessions, TableTypes
    <3>3. scan' = scan \ {ev.end[1]}
      OBVIOUS
    <3> QED
      BY <2>0, <2>3, <3>1, <3>2, <3>3, EnterThread
  <2> QED
    BY <2>1, <2>2, <2>3 DEF dispatchEndpointEvent, Reason
<1>f. ASSUME pc \in HandlerPc, NEW reason \in Reason, closeSession(cur, reason), leaveHandler,
             UNCHANGED scan
      PROVE  Table' /\ Thread'
  <2>1. Table' /\ Sessions' = Sessions \ {cur}
    BY <1>f, CloseTable DEF Thread
  <2> QED
    BY <1>f, <2>1, LeaveThread
<1>h. ASSUME pc \in HandlerPc, pc' \in HandlerPc, UNCHANGED <<frame, scan, nextSessionId, status, tokens>>,
             \A e \in Endpoint : e[1] # cur => end'[e] = end[e] /\ pending'[e] = pending[e]
      PROVE  Table' /\ Thread'
  <2>1. Table' /\ Sessions' = Sessions
    BY <1>h, SameTable DEF Thread
  <2> QED
    BY <1>h, <2>1 DEF Thread, ScanIdle, frame, HandlerPc
<1>10. CASE writeBufferedDirection \/ readSessionDirection
  <2>1. CASE failSession
    BY <1>10, <2>1, <1>f DEF writeBufferedDirection, readSessionDirection, failSession, Reason, HandlerPc
  <2>2. CASE ~failSession
    <3>1. pc \in HandlerPc /\ pc' \in HandlerPc
      BY <1>10, <2>2 DEF writeBufferedDirection, readSessionDirection, nextDirection, HandlerPc, frame
    <3>2. UNCHANGED <<frame, scan, nextSessionId, status, tokens>>
      BY <1>10, <2>2 DEF writeBufferedDirection, readSessionDirection, sessionVars
    <3>3. \A e \in Endpoint : e[1] # cur => end'[e] = end[e] /\ pending'[e] = pending[e]
      <4>1. \A e \in Endpoint : e[1] # cur => e # source
        BY DEF source
      <4>2. \A e \in Endpoint : e # source => end'[e] = end[e] /\ pending'[e] = pending[e]
        BY <1>10, <2>2 DEF writeBufferedDirection, readSessionDirection, sessionVars,
               resumeReading, TableTypes
      <4> QED
        BY <4>1, <4>2
    <3> QED
      BY <1>h, <3>1, <3>2, <3>3
  <2> QED
    BY <2>1, <2>2
<1>11. CASE finishSessionIo
  <2> pc = "finish" /\ UNCHANGED scan /\ stopReason \in Reason
    BY <1>11 DEF finishSessionIo, StopTypes, StopReason, Reason
  <2>1. ASSUME NEW reason \in Reason, closeSession(cur, reason), leaveHandler
        PROVE  Table' /\ Thread'
    BY <1>f, <2>1 DEF HandlerPc
  <2>2. CASE pc' = "tail" /\ UNCHANGED <<handlerVars, nextSessionId, status, tokens, pending>>
             /\ \A e \in Endpoint : e[1] # cur => end'[e] = end[e]
    BY <1>h, <2>2 DEF HandlerPc, handlerVars, frame
  <2> QED
    BY <1>11, <2>1, <2>2 DEF finishSessionIo, failSession, sessionVars, Reason
<1>12. CASE updateSessionInterests
  <2> pc = "tail" /\ UNCHANGED scan /\ leaveHandler
    BY <1>12 DEF updateSessionInterests
  <2>1. CASE closeSession(cur, "failure")
    BY <1>f, <2>1 DEF HandlerPc, Reason
  <2>2. CASE /\ UNCHANGED <<nextSessionId, status, tokens, pending>>
             /\ \A e \in Endpoint : e[1] # cur => end'[e] = end[e]
    <3>1. Table' /\ Sessions' = Sessions
      BY <2>2, SameTable DEF Thread, HandlerPc
    <3> QED
      BY <3>1, LeaveThread DEF HandlerPc
  <2> QED
    BY <1>12, <2>1, <2>2 DEF updateSessionInterests
<1> QED
  BY <1>1, <1>2, <1>3, <1>4, <1>5, <1>6, <1>7, <1>8, <1>9, <1>10, <1>11, <1>12 DEF Reactor

-----------------------------------------------------------------------------
\* The relay invariant is the checked property itself: with an end of stream that is
\* final and a shut down target whose source has ended, it is inductive.
RelayInv == HalfCloseInOrder /\ FullIsPaused /\ EofIsFinal

\* A step that changes only interest masks, deferrals or sockets of open streams.
LEMMA KeptRelay ==
  ASSUME RelayInv, UNCHANGED pending,
         \A e \in Endpoint : /\ end'[e].eof = end[e].eof /\ end'[e].shutdown = end[e].shutdown
                             /\ end'[e].paused = end[e].paused,
         \A e \in Endpoint : end[e].eof => sock'[e].fin /\ sock'[e].rx = 0
  PROVE  RelayInv'
<1>1. HalfCloseInOrder'
  BY EndpointFacts DEF RelayInv, HalfCloseInOrder
<1>2. FullIsPaused' /\ EofIsFinal'
  BY DEF RelayInv, FullIsPaused, EofIsFinal
<1> QED
  BY <1>1, <1>2 DEF RelayInv

\* A session that is closed leaves nothing behind.
LEMMA CloseRelay ==
  ASSUME RelayInv, NEW s, NEW reason, closeSession(s, reason)
  PROVE  RelayInv'
<1> USE EndpointFacts, Bounds DEF closeSession, ResetSession, FreshEnd
<1>1. HalfCloseInOrder'
  BY DEF RelayInv, HalfCloseInOrder
<1>2. FullIsPaused'
  BY DEF RelayInv, FullIsPaused
<1>3. EofIsFinal'
  BY DEF RelayInv, EofIsFinal
<1> QED
  BY <1>1, <1>2, <1>3 DEF RelayInv

\* Nor do all of them.
LEMMA CloseAllRelay ==
  ASSUME NEW reason, closeAllSessions(reason)
  PROVE  RelayInv'
<1>1. \A e \in Endpoint : /\ ~end'[e].eof /\ ~end'[e].shutdown
                          /\ pending'[e] = 0 /\ pending'[e] # BufferLimit
  BY Bounds DEF closeAllSessions, FreshEnd
<1> QED
  BY <1>1 DEF RelayInv, HalfCloseInOrder, FullIsPaused, EofIsFinal

\* Peers cannot send after their FIN, so what was read to the end stays ended.
LEMMA EnvironmentRelay == TypeOK /\ RelayInv /\ Environment => RelayInv'
<1> SUFFICES ASSUME TypeOK, RelayInv, Environment PROVE RelayInv'
  OBVIOUS
<1> TableTypes
  BY DEF TypeOK
<1>s. ASSUME NEW d \in Endpoint, NEW next \in SockState, SockStep(d, next),
             sock[d].fin /\ sock[d].rx = 0 => next.fin /\ next.rx = 0
      PROVE  RelayInv'
  <2>1. \A e \in Endpoint : end[e].eof => sock'[e].fin /\ sock'[e].rx = 0
    BY <1>s DEF SockStep, RelayInv, EofIsFinal, TableTypes
  <2> QED
    BY <1>s, <2>1, KeptRelay DEF SockStep
<1>1. CASE UNCHANGED <<end, pending, sock>>
  BY <1>1, KeptRelay DEF RelayInv, EofIsFinal
<1>2. ASSUME NEW e \in Endpoint, PeerSends(e) \/ PeerFinishes(e) \/ PeerReads(e) \/ PeerResets(e)
      PROVE  RelayInv'
  <2>1. sock[e] \in SockState
    BY DEF TableTypes
  <2>2. /\ sock[e].rx < RxCap => [sock[e] EXCEPT !.rx = @ + 1] \in SockState
        /\ [sock[e] EXCEPT !.fin = TRUE] \in SockState
        /\ [sock[e] EXCEPT !.room = TRUE] \in SockState
        /\ [sock[e] EXCEPT !.err = TRUE] \in SockState
    BY <2>1, SockUpdates
  <2>3. /\ [sock[e] EXCEPT !.fin = TRUE].fin /\ [sock[e] EXCEPT !.fin = TRUE].rx = sock[e].rx
        /\ [sock[e] EXCEPT !.room = TRUE].fin = sock[e].fin
        /\ [sock[e] EXCEPT !.room = TRUE].rx = sock[e].rx
        /\ [sock[e] EXCEPT !.err = TRUE].fin = sock[e].fin
        /\ [sock[e] EXCEPT !.err = TRUE].rx = sock[e].rx
    BY <2>1 DEF SockState
  <2> QED
    BY <1>s, <1>2, <2>2, <2>3 DEF PeerSends, PeerFinishes, PeerReads, PeerResets
<1>3. ASSUME NEW d \in Endpoint, DeferralElapses(d) PROVE RelayInv'
  <2>1. \A e \in Endpoint : /\ end'[e].eof = end[e].eof /\ end'[e].shutdown = end[e].shutdown
                            /\ end'[e].paused = end[e].paused
    BY <1>3 DEF DeferralElapses, TableTypes, EndState
  <2> QED
    BY <1>3, <2>1, KeptRelay DEF DeferralElapses, RelayInv, EofIsFinal
<1>4. ASSUME NEW s \in SessionId, ConnectCompletes(s) PROVE RelayInv'
  <2> DEFINE d == <<s, 1>>
  <2>1. d \in Endpoint /\ sock[d] \in SockState
    BY EndpointFacts DEF Side, TableTypes
  <2>2. /\ [sock[d] EXCEPT !.room = TRUE] \in SockState
        /\ [sock[d] EXCEPT !.room = TRUE].fin = sock[d].fin
        /\ [sock[d] EXCEPT !.room = TRUE].rx = sock[d].rx
    BY <2>1 DEF SockState
  <2> QED
    BY <1>s, <1>4, <2>1, <2>2 DEF ConnectCompletes
<1> QED
  BY <1>1, <1>2, <1>3, <1>4 DEF Environment, ClientConnects, StopSignal, DrainElapses, RetryElapses,
       IdleElapses, sessionVars

\* The handlers move bytes in order, pause a full source and pass a half-close on
\* only behind the last byte.
LEMMA ReactorRelay ==
  SessionInv /\ RelayInv /\ (Reactor \/ EpollInterrupted \/ ServiceError) => RelayInv'
<1> SUFFICES ASSUME SessionInv, RelayInv, Reactor \/ EpollInterrupted \/ ServiceError
             PROVE  RelayInv'
  OBVIOUS
<1> TypeOK /\ ThreadTypes /\ TableTypes /\ Table
  BY DEF SessionInv, TypeOK
<1> HalfCloseInOrder /\ FullIsPaused /\ EofIsFinal
  BY DEF RelayInv
<1>s. ASSUME UNCHANGED <<end, pending, sock>> PROVE RelayInv'
  BY <1>s, KeptRelay DEF EofIsFinal
<1>c. ASSUME NEW s, UNCHANGED <<pending, sock>>,
             end' = [e \in Endpoint |-> IF e[1] = s THEN clearDue(end[e]) ELSE end[e]]
      PROVE  RelayInv'
  <2>1. \A e \in Endpoint : /\ end'[e].eof = end[e].eof /\ end'[e].shutdown = end[e].shutdown
                            /\ end'[e].paused = end[e].paused
    BY <1>c DEF clearDue, TableTypes, EndState
  <2> QED
    BY <1>c, <2>1, KeptRelay DEF EofIsFinal
<1>1. CASE LoopTop
  BY <1>1, <1>s, CloseAllRelay DEF LoopTop, sessionVars
<1>2. CASE EpollWait \/ EpollInterrupted \/ AfterPoll \/ dispatchTcpReadyEvents \/ acceptNothing
  BY <1>2, <1>s DEF EpollWait, EpollInterrupted, AfterPoll, dispatchTcpReadyEvents, acceptNothing,
       sessionVars
<1>3. CASE ServiceError
  BY <1>3, CloseAllRelay DEF ServiceError
<1>4. CASE advanceStopDrain
  BY <1>4, <1>s, <1>c, CloseRelay DEF advanceStopDrain, sessionVars
<1>5. CASE processSessionDeadlines
  BY <1>5, <1>s, <1>c, CloseRelay DEF processSessionDeadlines, sessionVars
<1>6. CASE acceptClientSessions
  <2> DEFINE s == nextSessionId
  <2>1. ASSUME NEW c \in BOOLEAN,
               sock' = [sock EXCEPT ![<<s, 0>>] = FreshSock(TRUE), ![<<s, 1>>] = FreshSock(c)],
               end' = [e \in Endpoint |->
                         IF e[1] = s
                         THEN [end[e] EXCEPT !.interest = wantedInterest(e, end[e], ~c)]
                         ELSE end[e]],
               UNCHANGED pending
        PROVE  RelayInv'
    <3>1. \A e \in Endpoint : /\ end'[e].eof = end[e].eof /\ end'[e].shutdown = end[e].shutdown
                              /\ end'[e].paused = end[e].paused
      BY <2>1 DEF TableTypes, EndState
    <3>2. \A e \in Endpoint : e[1] = s => ~end[e].eof
      <4>1. s \in SessionId => s \notin Sessions
        BY DEF Table, Unborn, Sessions, TypeOK, ListenTypes
      <4> QED
        BY <4>1, EndpointFacts DEF Table, Quiet, FreshEnd
    <3>3. \A e \in Endpoint : e[1] # s => sock'[e] = sock[e]
      BY <2>1 DEF TableTypes
    <3> QED
      BY <2>1, <3>1, <3>2, <3>3, KeptRelay DEF EofIsFinal
  <2> QED
    BY <1>6, <1>s, <2>1 DEF acceptClientSessions
<1>7. CASE dispatchEndpointEvent
  BY <1>7, <1>s, CloseRelay DEF dispatchEndpointEvent, sessionVars
<1>8. source \in Endpoint /\ target \in Endpoint /\ target = Other(source) /\ source = Other(target)
      /\ pending[source] \in 0..BufferLimit
  BY EndpointFacts DEF source, target, ThreadTypes, TableTypes
<1>9. CASE writeBufferedDirection
  <2>1. CASE resumeReading /\ UNCHANGED <<pending, sock>>
    <3>1. \A e \in Endpoint : /\ end'[e].eof = end[e].eof /\ end'[e].shutdown = end[e].shutdown
                              /\ e # source => end'[e].paused = end[e].paused
      BY <1>8, <2>1 DEF resumeReading, TableTypes, EndState
    <3>2. end'[source].paused = end[source].paused \/ pending[source] <= LowWater
      BY <1>8, <2>1 DEF resumeReading
    <3>3. FullIsPaused'
      BY <1>8, <2>1, <3>1, <3>2, Bounds DEF FullIsPaused
    <3>4. HalfCloseInOrder' /\ EofIsFinal'
      BY <2>1, <3>1, EndpointFacts DEF HalfCloseInOrder, EofIsFinal
    <3> QED
      BY <3>3, <3>4 DEF RelayInv
  <2>2. ASSUME NEW n \in sendSizes, NEW room \in BOOLEAN,
               pending' = [pending EXCEPT ![source] = @ - n],
               sock' = [sock EXCEPT ![target].room = room], UNCHANGED end
        PROVE  RelayInv'
    <3>1. /\ \A e \in Endpoint : e # source => pending'[e] = pending[e]
          /\ pending'[source] = pending[source] - n /\ pending[source] > 0
          /\ pending'[source] \in 0..BufferLimit /\ pending'[source] # BufferLimit
      BY <1>8, <2>2, Bounds DEF sendSizes, TableTypes
    <3>2. \A e \in Endpoint : sock'[e].fin = sock[e].fin /\ sock'[e].rx = sock[e].rx
      BY <1>8, <2>2 DEF TableTypes, SockState
    <3>3. FullIsPaused' /\ EofIsFinal'
      BY <2>2, <3>1, <3>2 DEF FullIsPaused, EofIsFinal
    <3>4. HalfCloseInOrder'
      BY <2>2, <3>1, EndpointFacts DEF HalfCloseInOrder
    <3> QED
      BY <3>3, <3>4 DEF RelayInv
  <2> QED
    BY <1>9, <2>1, <2>2, CloseRelay DEF writeBufferedDirection, failSession
<1>10. CASE readSessionDirection
  <2>1. CASE end' = [end EXCEPT ![source].eof = TRUE] /\ UNCHANGED <<pending, sock>>
             /\ sock[source].rx = 0 /\ sock[source].fin
    <3>1. \A e \in Endpoint : /\ end'[e].shutdown = end[e].shutdown /\ end'[e].paused = end[e].paused
                              /\ end[e].eof => end'[e].eof
                              /\ e # source => end'[e].eof = end[e].eof
      BY <1>8, <2>1 DEF TableTypes, EndState
    <3>2. HalfCloseInOrder'
      BY <2>1, <3>1, EndpointFacts DEF HalfCloseInOrder
    <3> QED
      BY <2>1, <3>1, <3>2 DEF RelayInv, FullIsPaused, EofIsFinal
  <2>2. ASSUME NEW n \in recvSizes, ~end[source].eof,
               pending' = [pending EXCEPT ![source] = @ + n],
               sock' = [sock EXCEPT ![source].rx = @ - n],
               end' = [end EXCEPT ![source].paused = pauses(n)]
        PROVE  RelayInv'
    <3>1. \A e \in Endpoint : e # source => pending'[e] = pending[e] /\ end'[e] = end[e]
                                            /\ sock'[e] = sock[e]
      BY <2>2 DEF TableTypes
    <3>2. /\ end'[source].eof = end[source].eof /\ end'[source].shutdown = end[source].shutdown
          /\ end'[source].paused = pauses(n) /\ pending'[source] = pending[source] + n
      BY <1>8, <2>2 DEF TableTypes, EndState
    <3>3. FullIsPaused'
      BY <1>8, <3>1, <3>2 DEF FullIsPaused, pauses
    <3>4. EofIsFinal'
      BY <2>2, <3>1, <3>2 DEF EofIsFinal
    <3>5. HalfCloseInOrder'
      <4>1. \A e \in Endpoint : end'[e].eof = end[e].eof /\ end'[e].shutdown = end[e].shutdown
        BY <3>1, <3>2
      <4>2. \A e \in Endpoint : end[e].shutdown => Other(e) # source
        BY <2>2 DEF HalfCloseInOrder
      <4> QED
        BY <3>1, <4>1, <4>2, EndpointFacts DEF HalfCloseInOrder
    <3> QED
      BY <3>3, <3>4, <3>5 DEF RelayInv
  <2> QED
    BY <1>10, <1>s, <2>1, <2>2, CloseRelay
       DEF readSessionDirection, endOfStream, sessionVars, failSession
<1>11. CASE finishSessionIo
  <2>1. CASE /\ end' = [e \in Endpoint |-> IF e[1] = cur
                          THEN [end[e] EXCEPT !.shutdown = halfClosed(e)] ELSE end[e]]
             /\ UNCHANGED <<pending, sock>>
    <3>1. \A e \in Endpoint : /\ end'[e].eof = end[e].eof /\ end'[e].paused = end[e].paused
                              /\ end'[e].shutdown => end[e].shutdown \/ halfClosed(e)
      BY <2>1 DEF TableTypes, EndState
    <3>2. HalfCloseInOrder'
      BY <2>1, <3>1, EndpointFacts DEF HalfCloseInOrder, halfClosed
    <3> QED
      BY <2>1, <3>1, <3>2 DEF RelayInv, FullIsPaused, EofIsFinal
  <2> QED
    BY <1>11, <1>s, <2>1, CloseRelay DEF finishSessionIo, sessionVars, failSession
<1>12. CASE updateSessionInterests
  <2>1. CASE closeSession(cur, "failure")
    BY <2>1, CloseRelay
  <2>2. CASE ~closeSession(cur, "failure")
    <3>1. UNCHANGED <<pending, sock>>
          /\ \A e \in Endpoint : /\ end'[e].eof = end[e].eof /\ end'[e].shutdown = end[e].shutdown
                                 /\ end'[e].paused = end[e].paused
      BY <1>12, <2>2 DEF updateSessionInterests, TableTypes, EndState
    <3> QED
      BY <3>1, KeptRelay DEF EofIsFinal
  <2> QED
    BY <2>1, <2>2
<1> QED
  BY <1>1, <1>2, <1>3, <1>4, <1>5, <1>6, <1>7, <1>9, <1>10, <1>11, <1>12 DEF Reactor
-----------------------------------------------------------------------------
\* The drain closes the listener for good.
DrainCloses == draining => listener = "closed"

\* Nothing reopens the listener once the drain has closed it.
LEMMA DrainStep == DrainCloses /\ Next => DrainCloses' /\ (draining => draining')
<1> SUFFICES ASSUME DrainCloses, Next PROVE DrainCloses' /\ (draining => draining')
  OBVIOUS
<1>1. ASSUME consumeStopSignals PROVE DrainCloses' /\ (draining => draining')
  BY <1>1 DEF consumeStopSignals, DrainCloses, stopVars
<1>2. ASSUME UNCHANGED <<draining, listener>> PROVE DrainCloses' /\ (draining => draining')
  BY <1>2 DEF DrainCloses
<1>3. CASE Environment \/ Terminated \/ EpollInterrupted \/ ServiceError
  BY <1>2, <1>3 DEF Environment, ClientConnects, StopSignal, DrainElapses, RetryElapses, PeerSends,
         PeerFinishes, PeerReads, PeerResets, SockStep, DeferralElapses, ConnectCompletes,
         IdleElapses, Terminated, EpollInterrupted, ServiceError, vars, stopVars
<1>4. CASE LoopTop \/ AfterPoll \/ EpollWait
  BY <1>1, <1>4 DEF LoopTop, AfterPoll, EpollWait, stopVars, DrainCloses
<1>5. CASE acceptNothing
  BY <1>1, <1>5 DEF acceptNothing, stopVars, DrainCloses
<1>6. CASE advanceStopDrain \/ processSessionDeadlines \/ dispatchTcpReadyEvents
           \/ acceptClientSessions \/ dispatchEndpointEvent
  BY <1>1, <1>2, <1>6 DEF advanceStopDrain, processSessionDeadlines, dispatchTcpReadyEvents,
         acceptClientSessions, dispatchEndpointEvent, stopVars
<1>7. CASE writeBufferedDirection \/ readSessionDirection \/ finishSessionIo \/ updateSessionInterests
  BY <1>1, <1>2, <1>7 DEF writeBufferedDirection, readSessionDirection, finishSessionIo,
         updateSessionInterests, stopVars
<1> QED
  BY <1>3, <1>4, <1>5, <1>6, <1>7 DEF Next, Reactor

\* The inductive invariant of the reactor.
SafetyInv == SessionInv /\ RelayInv /\ DrainCloses

\* It holds initially and every step keeps it.
LEMMA SafetyInvInductive ==
  /\ Init => SafetyInv
  /\ SafetyInv /\ [Next]_vars => SafetyInv'
<1>1. Init => SessionInv
  <2> SUFFICES ASSUME Init PROVE SessionInv
    OBVIOUS
  <2>1. TypeOK
    BY InitTypes
  <2>2. Sessions = {}
    BY DEF Init, Sessions
  <2>3. Table
    BY <2>2 DEF Init, Table, Quiet, Unborn
  <2> QED
    BY <2>1, <2>3 DEF Init, SessionInv, Thread, ScanIdle, HandlerPc
<1>3. SessionInv /\ [Next]_vars => SessionInv'
  <2>1. SessionInv /\ UNCHANGED vars => SessionInv'
    BY DEF vars, handlerVars, batchVars, stopVars, listenVars, sessionVars, SessionInv, Table, Quiet,
           Unborn, Sessions, Thread, ScanIdle, TypeOK, ThreadTypes, StopTypes, ListenTypes, TableTypes
  <2> QED
    BY <2>1, ReactorTable, EnvironmentTable, ReactorType, EnvironmentType
       DEF Next, Terminated, SessionInv
<1>4. Init => RelayInv /\ DrainCloses
  <2> SUFFICES ASSUME Init PROVE RelayInv /\ DrainCloses
    OBVIOUS
  <2>1. \A e \in Endpoint : ~end[e].eof /\ ~end[e].shutdown /\ pending[e] # BufferLimit
    BY Bounds DEF Init, FreshEnd
  <2> QED
    BY <2>1 DEF Init, RelayInv, HalfCloseInOrder, FullIsPaused, EofIsFinal, DrainCloses
<1>5. SafetyInv /\ [Next]_vars => RelayInv' /\ DrainCloses'
  <2>1. SafetyInv /\ UNCHANGED vars => RelayInv' /\ DrainCloses'
    BY DEF vars, stopVars, sessionVars, SafetyInv, RelayInv, HalfCloseInOrder, FullIsPaused,
           EofIsFinal, DrainCloses
  <2> QED
    BY <2>1, ReactorRelay, EnvironmentRelay, DrainStep DEF Next, Terminated, SafetyInv, SessionInv
<1> QED
  BY <1>1, <1>3, <1>4, <1>5 DEF SafetyInv

\* No reference to a session outlives it, whatever the signals, the peers and the
\* clock do between two system calls.
THEOREM SessionsSafe == Spec => []NoDanglingSession
  BY SafetyInvInductive, SessionInvSuffices, PTL DEF Spec, SafetyInv

\* readSessionDirection records an end of stream only behind the peer's last byte,
\* advanceSessionIo passes it on only behind the buffered ones, and a full buffer
\* holds its source back.
THEOREM RelaySafe == Spec => []StreamsInOrder
  BY SafetyInvInductive, PTL DEF Spec, SafetyInv, RelayInv, StreamsInOrder
-----------------------------------------------------------------------------
\* closeSession reports its reason for its own session and for no other.
LEMMA CloseReports ==
  ASSUME TableTypes, NEW s \in SessionId, NEW reason \in Reason, closeSession(s, reason)
  PROVE  /\ nextSessionId' = nextSessionId /\ s \notin Sessions' /\ status'[s] = reason
         /\ \A x \in SessionId : x # s => status'[x] = status[x]
         /\ \A e \in Endpoint : e[1] # s => pending'[e] = pending[e]
  BY DEF closeSession, ResetSession, TableTypes, Sessions, Reason

\* closeAllSessions reports one reason for all.
LEMMA CloseAllReports ==
  ASSUME TableTypes, NEW reason \in Reason, closeAllSessions(reason)
  PROVE  /\ nextSessionId' = nextSessionId /\ Sessions' = {}
         /\ \A x \in SessionId : status'[x] = status[x] \/ status'[x] = reason
  BY DEF closeAllSessions, TableTypes, Sessions, Reason

\* A session is reported as "drained" by finishSessionIo alone, and only when
\* nothing is left in either direction.
LEMMA DrainedStep ==
  ASSUME SafetyInv, Next
  PROVE  \A e \in Endpoint : Closes(e[1], "drained") =>
           sock[e].fin /\ sock[e].rx = 0 /\ pending[e] = 0 /\ ~draining
<1> DEFINE Good == \A e \in Endpoint : Closes(e[1], "drained") =>
                     sock[e].fin /\ sock[e].rx = 0 /\ pending[e] = 0 /\ ~draining
           Goal == \A x \in SessionId : ~Closes(x, "drained")
<1> TableTypes /\ ThreadTypes /\ StopTypes /\ RelayInv
  BY DEF SafetyInv, SessionInv, TypeOK
<1>g. Goal => Good
  BY EndpointFacts
<1> SUFFICES Good
  OBVIOUS
<1> HIDE DEF Good
<1>s. ASSUME UNCHANGED status PROVE Good
  BY <1>s, <1>g DEF Closes
<1>c. ASSUME NEW s \in SessionId, NEW reason \in Reason \ {"drained"}, closeSession(s, reason)
      PROVE  Good
  BY <1>c, <1>g, CloseReports DEF Closes
<1>a. ASSUME NEW reason \in Reason \ {"drained"}, closeAllSessions(reason) PROVE Good
  BY <1>a, <1>g, CloseAllReports DEF Closes
<1>r. StopReason \subseteq Reason \ {"drained"}
  BY DEF StopReason, Reason
<1>t. scan \subseteq SessionId /\ cur \in SessionId
  BY DEF ThreadTypes
<1>1. CASE Environment \/ Terminated \/ EpollInterrupted
  BY <1>1, <1>s DEF Environment, ClientConnects, StopSignal, DrainElapses, RetryElapses, PeerSends,
         PeerFinishes, PeerReads, PeerResets, SockStep, DeferralElapses, ConnectCompletes,
         IdleElapses, Terminated, EpollInterrupted, vars, sessionVars
<1>2. CASE ServiceError
  BY <1>2, <1>a DEF ServiceError, Reason
<1>3. CASE LoopTop
  <2>1. consumeStopSignals => stopReason' \in StopReason
    BY ConsumeTypes DEF StopTypes
  <2> QED
    BY <1>3, <1>a, <1>s, <1>r, <2>1 DEF LoopTop, sessionVars
<1>4. CASE AfterPoll \/ EpollWait \/ acceptNothing \/ dispatchTcpReadyEvents
  BY <1>4, <1>s DEF AfterPoll, EpollWait, acceptNothing, dispatchTcpReadyEvents, sessionVars
<1>5. CASE advanceStopDrain
  BY <1>5, <1>s, <1>c, <1>t DEF advanceStopDrain, sessionVars, Reason
<1>6. CASE processSessionDeadlines
  BY <1>6, <1>s, <1>c, <1>t DEF processSessionDeadlines, sessionVars, Reason
<1>7. CASE acceptClientSessions
  BY <1>7, <1>g DEF acceptClientSessions, TableTypes, Closes
<1>8. CASE dispatchEndpointEvent
  <2>1. \A ev \in events : ev.end[1] \in SessionId
    BY EndpointFacts DEF ThreadTypes, Event
  <2>2. ASSUME NEW s \in SessionId, status' = [status EXCEPT ![s] = "established"] PROVE Good
    BY <2>2, <1>g DEF TableTypes, Closes
  <2> QED
    BY <1>8, <1>s, <1>c, <2>1, <2>2 DEF dispatchEndpointEvent, sessionVars, Reason
<1>9. CASE writeBufferedDirection \/ readSessionDirection
  BY <1>9, <1>s, <1>c, <1>t DEF writeBufferedDirection, readSessionDirection, failSession,
         sessionVars, Reason
<1>10. CASE finishSessionIo
  <2>1. ASSUME ~draining, closeSession(cur, "drained"),
               \A e \in {<<cur, d>> : d \in Side} : end[e].eof /\ halfClosed(e)
        PROVE  Good
    <3>1. ASSUME NEW e \in Endpoint, e[1] # cur PROVE ~Closes(e[1], "drained")
      <4>1. "drained" \in Reason /\ e[1] \in SessionId
        BY EndpointFacts DEF Reason
      <4> QED
        BY <1>t, <2>1, <3>1, <4>1, CloseReports DEF Closes
    <3>2. ASSUME NEW e \in Endpoint, e[1] = cur
          PROVE  sock[e].fin /\ sock[e].rx = 0 /\ pending[e] = 0
      <4>1. e \in {<<cur, d>> : d \in Side} /\ Other(e) \in {<<cur, d>> : d \in Side}
        BY <3>2 DEF Endpoint, Side, Other
      <4>2. end[e].eof /\ halfClosed(Other(e)) /\ Other(Other(e)) = e /\ Other(e) \in Endpoint
        BY <2>1, <4>1, EndpointFacts
      <4>3. pending[e] = 0
        BY <4>2 DEF halfClosed, RelayInv, HalfCloseInOrder
      <4> QED
        BY <4>2, <4>3 DEF RelayInv, EofIsFinal
    <3> QED
      BY <2>1, <3>1, <3>2 DEF Good
  <2>2. stopReason \in Reason \ {"drained"}
    BY <1>r DEF StopTypes
  <2> QED
    BY <1>10, <1>s, <1>c, <1>t, <2>1, <2>2 DEF finishSessionIo, failSession, sessionVars, Reason
<1>11. CASE updateSessionInterests
  BY <1>11, <1>s, <1>c, <1>t DEF updateSessionInterests, Reason
<1> QED
  BY <1>1, <1>2, <1>3, <1>4, <1>5, <1>6, <1>7, <1>8, <1>9, <1>10, <1>11 DEF Next, Reactor

\* "drained" is never reported for a session with a byte still under way.
THEOREM DrainedSafe == Spec => DrainedIsComplete
<1>1. SafetyInv /\ [Next]_vars =>
        [\A e \in Endpoint : Closes(e[1], "drained") =>
            sock[e].fin /\ sock[e].rx = 0 /\ pending[e] = 0 /\ ~draining]_vars
  BY DrainedStep
<1> QED
  BY <1>1, SafetyInvInductive, PTL DEF Spec, DrainedIsComplete

\* What one step of a draining reactor may do to sessions.
Flushes ==
  /\ nextSessionId' = nextSessionId
  /\ \A e \in Endpoint :
       /\ e[1] \in Sessions' => status'[e[1]] = status[e[1]] /\ pending'[e] <= pending[e]
       /\ Closes(e[1], "service-stop-drained") => pending[e] = 0

\* A draining reactor accepts nothing, connects nothing and reads nothing; it
\* reports "service-stop-drained" only for empty buffers.
LEMMA FlushStep == SafetyInv /\ draining /\ Next => Flushes
<1> SUFFICES ASSUME SafetyInv, draining, Next PROVE Flushes
  OBVIOUS
<1> DEFINE SD == "service-stop-drained"
<1> TableTypes /\ ThreadTypes /\ StopTypes /\ draining'
  BY DrainStep DEF SafetyInv, SessionInv, TypeOK
<1>p. \A e \in Endpoint : pending[e] \in Nat /\ pending[e] <= pending[e] /\ e[1] \in SessionId
  BY EndpointFacts, Bounds DEF TableTypes
<1>t. scan \subseteq SessionId /\ cur \in SessionId
  BY DEF ThreadTypes
<1>s. ASSUME UNCHANGED <<nextSessionId, status, pending>> PROVE Flushes
  BY <1>s, <1>p DEF Flushes, Closes
<1>c. ASSUME NEW s \in SessionId, NEW reason \in Reason, closeSession(s, reason),
             reason # SD \/ \A d \in Side : pending[<<s, d>>] = 0
      PROVE  Flushes
  <2>1. /\ nextSessionId' = nextSessionId /\ s \notin Sessions' /\ status'[s] = reason
        /\ \A x \in SessionId : x # s => status'[x] = status[x]
        /\ \A e \in Endpoint : e[1] # s => pending'[e] = pending[e]
    BY <1>c, CloseReports
  <2>2. \A e \in Endpoint : e[1] = s => e[2] \in Side /\ e = <<s, e[2]>>
    BY EndpointFacts
  <2> QED
    BY <1>c, <1>p, <2>1, <2>2 DEF Flushes, Closes
<1>a. ASSUME NEW reason \in Reason \ {SD}, closeAllSessions(reason) PROVE Flushes
  BY <1>a, <1>p, CloseAllReports DEF Flushes, Closes
<1>r. StopReason \subseteq Reason \ {SD}
  BY DEF StopReason, Reason
<1>1. CASE Environment \/ Terminated \/ EpollInterrupted
  BY <1>1, <1>s DEF Environment, ClientConnects, StopSignal, DrainElapses, RetryElapses, PeerSends,
         PeerFinishes, PeerReads, PeerResets, SockStep, DeferralElapses, ConnectCompletes,
         IdleElapses, Terminated, EpollInterrupted, vars, sessionVars
<1>2. CASE ServiceError
  BY <1>2, <1>a DEF ServiceError, Reason
<1>3. CASE LoopTop
  <2>1. consumeStopSignals => stopReason' \in StopReason
    BY ConsumeTypes DEF StopTypes
  <2> QED
    BY <1>3, <1>a, <1>s, <1>r, <2>1 DEF LoopTop, sessionVars
<1>4. CASE AfterPoll \/ EpollWait \/ acceptNothing \/ dispatchTcpReadyEvents
  BY <1>4, <1>s DEF AfterPoll, EpollWait, acceptNothing, dispatchTcpReadyEvents, sessionVars
<1>5. CASE advanceStopDrain
  BY <1>5, <1>s, <1>c, <1>t DEF advanceStopDrain, sessionVars, Reason
<1>6. CASE processSessionDeadlines
  BY <1>6, <1>s DEF processSessionDeadlines, sessionVars
<1>7. CASE acceptClientSessions
  BY <1>7 DEF acceptClientSessions
<1>8. CASE dispatchEndpointEvent
  <2>1. \A ev \in events : ev.end[1] \in SessionId
    BY EndpointFacts DEF ThreadTypes, Event
  <2>2. CASE UNCHANGED sessionVars
    BY <1>s, <2>2 DEF sessionVars
  <2>3. ASSUME NEW ev \in events,
               \/ closeSession(ev.end[1], "service-stop-connecting")
               \/ closeSession(ev.end[1], "failure")
        PROVE  Flushes
    BY <1>c, <2>1, <2>3 DEF Reason
  <2>4. ASSUME NEW ev \in events, status[ev.end[1]] # "connecting",
               IF ConnectingEvent(ev)
               THEN status' = [status EXCEPT ![ev.end[1]] = "established"]
               ELSE UNCHANGED status,
               UNCHANGED <<nextSessionId, pending>>
        PROVE  Flushes
    BY <1>s, <2>4 DEF ConnectingEvent
  <2> QED
    BY <1>8, <2>2, <2>3, <2>4 DEF dispatchEndpointEvent
<1>9. CASE writeBufferedDirection
  <2>1. ASSUME NEW n \in sendSizes, pending' = [pending EXCEPT ![source] = @ - n],
               UNCHANGED <<nextSessionId, status>>
        PROVE  Flushes
    <3>1. \A e \in Endpoint : pending'[e] <= pending[e]
      BY <1>p, <2>1 DEF sendSizes, TableTypes
    <3> QED
      BY <2>1, <3>1 DEF Flushes, Closes
  <2> QED
    BY <1>9, <1>s, <1>c, <1>t, <2>1 DEF writeBufferedDirection, failSession, Reason
<1>10. CASE readSessionDirection
  BY <1>10, <1>s DEF readSessionDirection, stopsReading, sessionVars
<1>11. CASE finishSessionIo
  <2>1. stopReason \in Reason \ {SD} /\ SD \in Reason
    BY <1>r DEF StopTypes, Reason
  <2>2. (\A e \in {<<cur, d>> : d \in Side} : pending[e] = 0)
          => \A d \in Side : pending[<<cur, d>>] = 0
    OBVIOUS
  <2> QED
    BY <1>11, <1>s, <1>c, <1>t, <2>1, <2>2 DEF finishSessionIo, sessionVars
<1>12. CASE updateSessionInterests
  BY <1>12, <1>s, <1>c, <1>t DEF updateSessionInterests, Reason
<1> QED
  BY <1>1, <1>2, <1>3, <1>4, <1>5, <1>6, <1>7, <1>8, <1>9, <1>10, <1>11, <1>12 DEF Next, Reactor

\* A stop signal ends intake at once and loses no byte that was taken in, unless
\* the drain is cut short and reported as such.
THEOREM DrainSafe == Spec => DrainOnlyFlushes
<1>1. SafetyInv /\ [Next]_vars =>
        [draining =>
           /\ draining' /\ listener' = "closed" /\ nextSessionId' = nextSessionId
           /\ \A e \in Endpoint :
                /\ e[1] \in Sessions' => status'[e[1]] = status[e[1]] /\ pending'[e] <= pending[e]
                /\ Closes(e[1], "service-stop-drained") => pending[e] = 0]_vars
  BY DrainStep, FlushStep DEF SafetyInv, DrainCloses, Flushes
<1> QED
  BY <1>1, SafetyInvInductive, PTL DEF Spec, DrainOnlyFlushes
-----------------------------------------------------------------------------
(***************************************************************************)
(* Wakeups                                                                 *)
(***************************************************************************)

Resumed(e)  == end[e].paused => pending[e] > LowWater
PassedOn(e) == end[e].eof /\ pending[e] = 0 => end[Other(e)].shutdown

\* What restarts the direction that e is the source of.
Wakeable(e) ==
  /\ status[e[1]] = "established" =>
       /\ ~end[e].eof /\ ~end[e].paused => "IN" \in end[e].interest \/ end[e].deferred # "none"
       /\ pending[e] > 0 =>
            "OUT" \in end[Other(e)].interest \/ end[Other(e)].deferred # "none"
       /\ Resumed(e) /\ PassedOn(e)
  /\ status[e[1]] = "connecting" /\ e[2] = 1 =>
       "OUT" \in end[e].interest \/ end[e].deferred # "none"

\* Every session but the one that a handler works on can be woken up, wherever the
\* reactor is; the handler has resumed the sources it has written for last, and has
\* passed on the ends of stream once it comes to the interest masks.
Awake == \A e \in Endpoint : (pc \in HandlerPc => e[1] # cur) => Wakeable(e)
AtHand ==
  /\ pc = "write2" /\ dir = 1 => Resumed(<<cur, 0>>)
  /\ pc = "finish" => \A d \in Side : Resumed(<<cur, d>>)
  /\ pc = "tail" /\ status[cur] # "connecting" =>
       \A d \in Side : Resumed(<<cur, d>>) /\ PassedOn(<<cur, d>>)
WakeInv == ~draining => Awake /\ AtHand

\* A step that works on one session, which is in a handler before or after it, gone,
\* or wakeable, leaves all the others wakeable.
LEMMA OthersAwake ==
  ASSUME Awake, NEW s \in SessionId, pc \in HandlerPc => s = cur,
         \A e \in Endpoint : e[1] # s => /\ status'[e[1]] = status[e[1]]
                                         /\ end'[e] = end[e] /\ pending'[e] = pending[e],
         \/ pc' \in HandlerPc /\ cur' = s
         \/ status'[s] \notin {"connecting", "established"}
         \/ \A e \in Endpoint : e[1] = s => Wakeable(e)'
  PROVE  Awake'
<1> SUFFICES ASSUME NEW e \in Endpoint, pc' \in HandlerPc => e[1] # cur' PROVE Wakeable(e)'
  BY DEF Awake
<1>1. CASE e[1] = s
  BY <1>1 DEF Wakeable
<1>2. CASE e[1] # s
  <2>1. Wakeable(e)
    BY <1>2 DEF Awake
  <2>2. Other(e) \in Endpoint /\ Other(e)[1] # s
    BY <1>2, EndpointFacts
  <2> QED
    BY <1>2, <2>1, <2>2 DEF Wakeable, Resumed, PassedOn
<1> QED
  BY <1>1, <1>2

\* A session that is closed asks for nothing.
LEMMA CloseAwake ==
  ASSUME TableTypes, Awake, NEW s \in SessionId, pc \in HandlerPc => s = cur,
         NEW reason \in Reason, closeSession(s, reason)
  PROVE  Awake'
<1>1. \A e \in Endpoint : e[1] # s => /\ status'[e[1]] = status[e[1]]
                                      /\ end'[e] = end[e] /\ pending'[e] = pending[e]
  BY EndpointFacts DEF closeSession, ResetSession, TableTypes
<1>2. status'[s] \notin {"connecting", "established"}
  BY DEF closeSession, TableTypes, Reason
<1> QED
  BY <1>1, <1>2, OthersAwake

\* Once every session is closed nobody is left to wake.
LEMMA CloseAllAwake ==
  ASSUME TableTypes, NEW reason \in Reason, closeAllSessions(reason)
  PROVE  Awake'
<1>1. \A s \in SessionId : status'[s] \notin {"connecting", "established"}
  BY DEF closeAllSessions, Sessions, Reason
<1> QED
  BY <1>1, EndpointFacts DEF Awake, Wakeable

\* The peers and the clock wake up, and put nobody to sleep.
LEMMA EnvironmentAwake ==
  ASSUME TableTypes, cur \in SessionId, Awake, AtHand, Environment \/ UNCHANGED vars
  PROVE  Awake' /\ AtHand'
<1>1. UNCHANGED <<pc, cur, dir, status, pending>>
  BY DEF Environment, ClientConnects, StopSignal, DrainElapses, RetryElapses, PeerSends,
         PeerFinishes, PeerReads, PeerResets, SockStep, DeferralElapses, ConnectCompletes,
         IdleElapses, sessionVars, reactorVars, handlerVars, vars
<1>2. \/ end' = end
      \/ \E d \in Endpoint : end[d].deferred = "armed" /\ end' = [end EXCEPT ![d].deferred = "due"]
  BY DEF Environment, ClientConnects, StopSignal, DrainElapses, RetryElapses, PeerSends,
         PeerFinishes, PeerReads, PeerResets, SockStep, DeferralElapses, ConnectCompletes,
         IdleElapses, sessionVars, vars
<1>3. \A e \in Endpoint : /\ end'[e].eof = end[e].eof /\ end'[e].paused = end[e].paused
                          /\ end'[e].shutdown = end[e].shutdown
                          /\ end'[e].interest = end[e].interest
                          /\ end[e].deferred # "none" => end'[e].deferred # "none"
  BY <1>2 DEF TableTypes, EndState
<1>4. ASSUME NEW e \in Endpoint, Wakeable(e) PROVE Wakeable(e)'
  BY <1>1, <1>3, <1>4, EndpointFacts DEF Wakeable, Resumed, PassedOn
<1>5. ASSUME NEW e \in Endpoint PROVE (Resumed(e) => Resumed(e)') /\ (PassedOn(e) => PassedOn(e)')
  BY <1>1, <1>3, EndpointFacts DEF Resumed, PassedOn
<1>6. Awake'
  BY <1>1, <1>4 DEF Awake
<1>7. \A d \in Side : <<cur, d>> \in Endpoint
  BY EndpointFacts
<1> QED
  BY <1>1, <1>5, <1>6, <1>7 DEF AtHand, HandlerPc, Side

\* Taking a session into the table, or into and out of a handler, leaves nobody
\* asleep.
LEMMA LoopAwake ==
  ASSUME SafetyInv, Awake, AtHand, ~draining, pc \notin HandlerPc,
         \/ LoopTop \/ EpollWait \/ EpollInterrupted \/ AfterPoll \/ advanceStopDrain
         \/ processSessionDeadlines \/ dispatchTcpReadyEvents \/ acceptNothing
         \/ acceptClientSessions \/ dispatchEndpointEvent
  PROVE  Awake' /\ AtHand'
<1> TableTypes /\ ThreadTypes /\ StopTypes /\ Table /\ Thread /\ Sessions \subseteq SessionId
  BY DEF SafetyInv, SessionInv, TypeOK, Sessions
<1>n. pc' \notin HandlerPc => AtHand'
  BY DEF AtHand, HandlerPc
<1>s. ASSUME UNCHANGED <<status, end, pending>>, pc' \notin HandlerPc PROVE Awake' /\ AtHand'
  BY <1>s, <1>n DEF Awake, Wakeable, Resumed, PassedOn
<1>c. ASSUME NEW s \in SessionId, NEW reason \in Reason, closeSession(s, reason), pc' \notin HandlerPc
      PROVE  Awake' /\ AtHand'
  BY <1>c, <1>n, CloseAwake
<1>e. ASSUME NEW s \in SessionId, NEW e, NEW hup, NEW r, UNCHANGED pending,
             \A x \in SessionId : x # s => status'[x] = status[x],
             \A d \in Endpoint : d[1] # s => end'[d] = end[d],
             beginSessionIo(s, e, hup, r) \/ (skipSessionIo(s, e, hup, r) /\ status'[s] = "connecting")
      PROVE  Awake' /\ AtHand'
  <2>1. pc' \in {"write1", "tail"} /\ cur' = s /\ (pc' = "tail" => status'[s] = "connecting")
    BY <1>e DEF beginSessionIo, skipSessionIo
  <2>2. AtHand'
    BY <2>1 DEF AtHand
  <2>3. \A d \in Endpoint : d[1] # s => /\ status'[d[1]] = status[d[1]]
                                        /\ end'[d] = end[d] /\ pending'[d] = pending[d]
    BY <1>e, EndpointFacts
  <2>4. Awake'
    BY <2>1, <2>3, OthersAwake DEF HandlerPc
  <2> QED
    BY <2>2, <2>4
<1>1. CASE LoopTop
  <2>1. CASE consumeStopSignals /\ closeAllSessions(stopReason') /\ pc' = "done"
    <3>1. stopReason' \in Reason
      BY <2>1, ConsumeTypes DEF StopTypes, StopReason, Reason
    <3> QED
      BY <1>n, <2>1, <3>1, CloseAllAwake DEF HandlerPc
  <2>2. CASE UNCHANGED sessionVars /\ pc' \in {"drain", "deadlinesTop"}
    BY <1>s, <2>2 DEF sessionVars, HandlerPc
  <2> QED
    BY <1>1, <2>1, <2>2 DEF LoopTop
<1>2. CASE EpollWait \/ EpollInterrupted \/ AfterPoll \/ dispatchTcpReadyEvents \/ acceptNothing
  BY <1>2, <1>s DEF EpollWait, EpollInterrupted, AfterPoll, dispatchTcpReadyEvents, acceptNothing,
     sessionVars, HandlerPc
<1>3. CASE advanceStopDrain
  <2>0. scan \subseteq SessionId /\ pc = "drain"
    BY <1>3 DEF advanceStopDrain, ThreadTypes
  <2>1. CASE UNCHANGED sessionVars /\ pc' \in {"done", "poll", "drain"}
    BY <1>s, <2>1 DEF sessionVars, HandlerPc
  <2>2. ASSUME NEW s \in scan, closeSession(s, "service-stop-connecting"), UNCHANGED pc
        PROVE  Awake' /\ AtHand'
    BY <1>c, <2>0, <2>2 DEF Reason, HandlerPc
  <2>3. ASSUME NEW s \in scan,
               end' = [e \in Endpoint |-> IF e[1] = s THEN clearDue(end[e]) ELSE end[e]],
               beginSessionIo(s, <<s, 0>>, FALSE, "drain"),
               UNCHANGED <<nextSessionId, status, tokens, idle, pending, sock>>
        PROVE  Awake' /\ AtHand'
    BY <1>e, <2>0, <2>3
  <2> QED
    BY <1>3, <2>0, <2>1, <2>2, <2>3 DEF advanceStopDrain
<1>4. CASE processSessionDeadlines
  <2>0. scan \subseteq SessionId /\ pc \in DeadlinesPc
    BY <1>4 DEF processSessionDeadlines, ThreadTypes
  <2>1. CASE UNCHANGED sessionVars /\ pc' \in {"poll", "dispatch"} \cup DeadlinesPc
    BY <1>s, <2>1 DEF sessionVars, HandlerPc, DeadlinesPc
  <2>2. ASSUME NEW s \in scan, NEW reason \in Reason, closeSession(s, reason), UNCHANGED pc
        PROVE  Awake' /\ AtHand'
    BY <1>c, <2>0, <2>2
  <2>3. ASSUME NEW s \in scan,
               end' = [e \in Endpoint |-> IF e[1] = s THEN clearDue(end[e]) ELSE end[e]],
               IF status[s] = "connecting" THEN skipSessionIo(s, <<s, 0>>, FALSE, pc)
                                           ELSE beginSessionIo(s, <<s, 0>>, FALSE, pc),
               UNCHANGED <<nextSessionId, status, tokens, idle, pending, sock>>
        PROVE  Awake' /\ AtHand'
    BY <1>e, <2>0, <2>3
  <2> QED
    BY <1>4, <2>0, <2>1, <2>2, <2>3 DEF processSessionDeadlines, Reason
<1>5. CASE acceptClientSessions
  <2> DEFINE s == nextSessionId
  <2>1. s \in SessionId /\ pc' \notin HandlerPc
    <3>1. backlog > 0 /\ pc' = pc
      BY <1>5 DEF acceptClientSessions
    <3>2. ListenTypes
      BY DEF SafetyInv, SessionInv, TypeOK
    <3> QED
      BY <3>1, <3>2, Bounds DEF ListenTypes, SessionId
  <2>2. s \notin Sessions
    <3>1. s >= nextSessionId
      BY <2>1 DEF SessionId
    <3> QED
      BY <2>1, <3>1 DEF Table, Unborn, Sessions
  <2>3. CASE status' = [status EXCEPT ![s] = "failure"] /\ UNCHANGED <<end, pending>>
    <3>1. /\ status'[s] = "failure"
          /\ \A e \in Endpoint : e[1] # s => status'[e[1]] = status[e[1]]
      BY <2>1, <2>3, EndpointFacts DEF TableTypes
    <3>2. Awake'
      BY <2>1, <2>3, <3>1, OthersAwake
    <3> QED
      BY <1>n, <2>1, <3>2
  <2>4. ASSUME NEW c \in BOOLEAN,
               status' = [status EXCEPT ![s] = IF c THEN "established" ELSE "connecting"],
               end' = [e \in Endpoint |->
                         IF e[1] = s
                         THEN [end[e] EXCEPT !.interest = wantedInterest(e, end[e], ~c)]
                         ELSE end[e]],
               UNCHANGED pending
        PROVE  Awake' /\ AtHand'
    <3>1. /\ status'[s] = (IF c THEN "established" ELSE "connecting")
          /\ \A e \in Endpoint : e[1] # s => status'[e[1]] = status[e[1]] /\ end'[e] = end[e]
      BY <2>1, <2>4, EndpointFacts DEF TableTypes
    <3>2. ASSUME NEW e \in Endpoint, e[1] = s PROVE Wakeable(e)'
      <4>1. end[e] = FreshEnd /\ pending[e] = 0
        BY <2>2, <3>2 DEF Table, Quiet
      <4>2. end'[e] = [FreshEnd EXCEPT !.interest = wantedInterest(e, FreshEnd, ~c)]
        BY <2>4, <3>2, <4>1
      <4>3. /\ ~end'[e].eof /\ ~end'[e].paused
            /\ end'[e].interest = wantedInterest(e, FreshEnd, ~c)
        BY <4>2 DEF FreshEnd
      <4>4. c => "IN" \in wantedInterest(e, FreshEnd, ~c)
        BY DEF wantedInterest, FreshEnd
      <4>5. ~c /\ e[2] = 1 => "OUT" \in wantedInterest(e, FreshEnd, ~c)
        BY DEF wantedInterest, FreshEnd
      <4> QED
        BY <2>4, <3>1, <3>2, <4>1, <4>3, <4>4, <4>5 DEF Wakeable, Resumed, PassedOn
    <3>3. Awake'
      BY <2>1, <2>4, <3>1, <3>2, OthersAwake
    <3> QED
      BY <1>n, <2>1, <3>3
  <2> QED
    BY <1>5, <2>3, <2>4 DEF acceptClientSessions
<1>6. CASE dispatchEndpointEvent
  <2>0. pc = "dispatch" /\ \A ev \in events : ev.end[1] \in SessionId
    BY <1>6, EndpointFacts DEF dispatchEndpointEvent, ThreadTypes, Event
  <2>1. CASE UNCHANGED <<pc, sessionVars>>
    BY <1>s, <2>0, <2>1 DEF sessionVars
  <2>2. ASSUME NEW ev \in events, UNCHANGED pc,
               \/ closeSession(ev.end[1], "service-stop-connecting")
               \/ closeSession(ev.end[1], "failure")
        PROVE  Awake' /\ AtHand'
    BY <1>c, <2>0, <2>2 DEF Reason
  <2>3. ASSUME NEW ev \in events,
               IF ConnectingEvent(ev)
               THEN status' = [status EXCEPT ![ev.end[1]] = "established"]
               ELSE UNCHANGED status,
               IF status[ev.end[1]] = "connecting" /\ ~ConnectingEvent(ev)
               THEN skipSessionIo(ev.end[1], ev.end, ev.hup, "dispatch")
               ELSE beginSessionIo(ev.end[1], ev.end, ev.hup, "dispatch"),
               UNCHANGED <<end, pending>>
        PROVE  Awake' /\ AtHand'
    <3>1. ev.end[1] \in SessionId
      BY <2>0
    <3>2. \A x \in SessionId : x # ev.end[1] => status'[x] = status[x]
      BY <2>3 DEF TableTypes
    <3> QED
      BY <1>e, <2>3, <3>1, <3>2
  <2> QED
    BY <1>6, <2>1, <2>2, <2>3 DEF dispatchEndpointEvent
<1> QED
  BY <1>1, <1>2, <1>3, <1>4, <1>5, <1>6

\* The handler resumes what it has written for, passes on what has ended and asks
\* epoll for what is left.
LEMMA HandlerAwake ==
  ASSUME SafetyInv, Awake, AtHand, ~draining, ~draining', pc \in HandlerPc,
         \/ writeBufferedDirection \/ readSessionDirection \/ finishSessionIo
         \/ updateSessionInterests
  PROVE  Awake' /\ AtHand'
<1> TableTypes /\ ThreadTypes /\ Thread /\ cur \in SessionId /\ cur \in Sessions
  BY DEF SafetyInv, SessionInv, TypeOK, ThreadTypes, Thread
<1>n. pc' \notin HandlerPc => AtHand'
  BY DEF AtHand, HandlerPc
<1>l. leaveHandler => pc' \notin HandlerPc
  BY DEF leaveHandler, ThreadTypes, HandlerPc, DeadlinesPc
<1>f. ASSUME NEW reason \in Reason, closeSession(cur, reason), leaveHandler
      PROVE  Awake' /\ AtHand'
  BY <1>f, <1>l, <1>n, CloseAwake
<1>o. ASSUME pc' \in HandlerPc, UNCHANGED <<cur, status>>,
             \A e \in Endpoint : e[1] # cur => end'[e] = end[e] /\ pending'[e] = pending[e]
      PROVE  Awake'
  BY <1>o, OthersAwake
<1>e. /\ \A e \in Endpoint : e[1] # cur => e # source
      /\ \A d \in Side : <<cur, d>> \in Endpoint
      /\ source \in Endpoint /\ <<cur, 0>> \in Endpoint /\ dir \in Side
      /\ \A e \in Endpoint : pending[e] \in Nat /\ end[e] \in EndState
  BY EndpointFacts, Bounds DEF source, ThreadTypes, TableTypes, Side
<1>1. CASE writeBufferedDirection
  <2>1. CASE failSession
    BY <1>f, <2>1 DEF failSession, Reason
  <2>2. CASE /\ UNCHANGED <<frame, status, pending>> /\ resumeReading /\ nextDirection
    <3>1. /\ \A e \in Endpoint : e # source => end'[e] = end[e]
          /\ end'[source].paused => pending'[source] > LowWater
      <4>1. CASE end[source].paused /\ pending[source] <= LowWater
        <5>1. end' = [end EXCEPT ![source].paused = FALSE]
          BY <2>2, <4>1 DEF resumeReading
        <5>2. end'[source] = [end[source] EXCEPT !.paused = FALSE]
          BY <1>e, <5>1 DEF TableTypes
        <5>3. ~end'[source].paused
          BY <1>e, <5>2 DEF EndState
        <5> QED
          BY <1>e, <5>1, <5>3 DEF TableTypes
      <4>2. CASE ~(end[source].paused /\ pending[source] <= LowWater)
        <5>1. end' = end /\ pending' = pending
          BY <2>2, <4>2 DEF resumeReading
        <5>2. ~(pending[source] <= LowWater) => pending[source] > LowWater
          BY <1>e, Bounds
        <5> QED
          BY <4>2, <5>1, <5>2
      <4> QED
        BY <4>1, <4>2
    <3>2. pc' \in HandlerPc /\ UNCHANGED cur
      BY <1>1, <2>2 DEF writeBufferedDirection, nextDirection, frame, HandlerPc
    <3>3. Awake'
      BY <1>e, <1>o, <2>2, <3>1, <3>2
    <3>4. AtHand'
      <4>1. CASE pc = "write1"
        BY <2>2, <4>1 DEF nextDirection, AtHand
      <4>2. CASE pc = "write2" /\ dir = 0
        <5>1. pc' = "write2" /\ cur' = cur /\ source = <<cur, 0>>
          BY <2>2, <3>2, <4>2 DEF nextDirection, source
        <5>2. Resumed(<<cur, 0>>)'
          BY <3>1, <5>1 DEF Resumed
        <5> QED
          BY <5>1, <5>2 DEF AtHand
      <4>3. CASE pc = "write2" /\ dir = 1
        <5>1. Resumed(<<cur, 0>>)' /\ Resumed(<<cur, 1>>)'
          <6>1. <<cur, 0>> # source /\ source = <<cur, 1>>
            BY <4>3 DEF source
          <6>2. Resumed(<<cur, 0>>)
            BY <4>3 DEF AtHand
          <6>3. end'[<<cur, 0>>] = end[<<cur, 0>>] /\ pending' = pending /\ cur' = cur
            BY <1>e, <2>2, <3>1, <3>2, <6>1
          <6>4. Resumed(<<cur, 0>>)'
            BY <6>2, <6>3 DEF Resumed
          <6>5. Resumed(<<cur, 1>>)'
            BY <3>1, <6>1, <6>3 DEF Resumed
          <6> QED
            BY <6>4, <6>5
        <5>2. pc' = "finish"
          BY <2>2, <4>3 DEF nextDirection
        <5> QED
          BY <3>2, <5>1, <5>2 DEF AtHand, Side
      <4> QED
        BY <1>1, <1>e, <4>1, <4>2, <4>3 DEF writeBufferedDirection, Side
    <3> QED
      BY <3>3, <3>4
  <2>3. ASSUME NEW n \in sendSizes, pending' = [pending EXCEPT ![source] = @ - n],
               UNCHANGED <<frame, pc, dir, status, end>>
        PROVE  Awake' /\ AtHand'
    <3>1. \A e \in Endpoint : e # source => pending'[e] = pending[e]
      BY <2>3 DEF TableTypes
    <3>2. Awake'
      BY <1>e, <1>o, <2>3, <3>1 DEF frame
    <3>3. ASSUME pc = "write2", dir = 1 PROVE Resumed(<<cur, 0>>)'
      <4>1. <<cur, 0>> # source
        BY <3>3 DEF source
      <4> QED
        BY <1>e, <2>3, <3>1, <3>3, <4>1 DEF AtHand, Resumed, frame
    <3>4. AtHand'
      BY <1>1, <2>3, <3>3 DEF writeBufferedDirection, AtHand
    <3> QED
      BY <3>2, <3>4
  <2> QED
    BY <1>1, <2>1, <2>2, <2>3 DEF writeBufferedDirection
<1>2. CASE readSessionDirection
  <2>1. CASE failSession
    BY <1>f, <2>1 DEF failSession, Reason
  <2>2. CASE ~failSession
    <3>1. /\ pc' = "read" \/ (pc' = "write2" /\ dir' = 0)
          /\ UNCHANGED <<cur, status>>
      BY <1>2, <1>e, <2>2 DEF readSessionDirection, nextDirection, frame, sessionVars, Side
    <3>2. \A e \in Endpoint : e # source => end'[e] = end[e] /\ pending'[e] = pending[e]
      BY <1>2, <2>2 DEF readSessionDirection, sessionVars, TableTypes
    <3>3. Awake'
      BY <1>e, <1>o, <3>1, <3>2 DEF HandlerPc
    <3> QED
      BY <3>1, <3>3 DEF AtHand
  <2> QED
    BY <2>1, <2>2
<1>3. CASE finishSessionIo
  <2>1. ASSUME NEW reason \in Reason, closeSession(cur, reason), leaveHandler
        PROVE  Awake' /\ AtHand'
    BY <1>f, <2>1
  <2>2. CASE /\ pc' = "tail" /\ UNCHANGED <<cur, status, pending>>
             /\ end' = [e \in Endpoint |->
                          IF e[1] = cur THEN [end[e] EXCEPT !.shutdown = halfClosed(e)] ELSE end[e]]
    <3>1. Awake'
      BY <1>o, <2>2 DEF HandlerPc
    <3>2. ASSUME NEW d \in Side PROVE Resumed(<<cur, d>>)' /\ PassedOn(<<cur, d>>)'
      <4> DEFINE e == <<cur, d>>
                 o == Other(<<cur, d>>)
      <4>1. /\ e \in Endpoint /\ e[1] = cur /\ o \in Endpoint /\ o[1] = cur /\ Other(o) = e
            /\ end[e] \in EndState /\ end[o] \in EndState
        BY <1>e, EndpointFacts
      <4>2. Resumed(e)
        BY <1>3 DEF finishSessionIo, AtHand
      <4> HIDE DEF e, o
      <4>3. /\ end'[e] = [end[e] EXCEPT !.shutdown = halfClosed(e)]
            /\ end'[o] = [end[o] EXCEPT !.shutdown = halfClosed(o)]
        BY <2>2, <4>1
      <4>4. end'[e].paused = end[e].paused /\ end'[e].eof = end[e].eof
              /\ end'[o].shutdown = halfClosed(o)
        BY <4>1, <4>3 DEF EndState
      <4>5. Resumed(e)'
        BY <2>2, <4>2, <4>4 DEF Resumed, e
      <4>6. end'[e].eof /\ pending'[e] = 0 => end'[o].shutdown
        BY <2>2, <4>1, <4>4 DEF halfClosed
      <4> QED
        BY <2>2, <4>5, <4>6 DEF PassedOn, e, o
    <3> QED
      BY <2>2, <3>1, <3>2 DEF AtHand
  <2>3. \/ \E reason \in Reason : closeSession(cur, reason) /\ leaveHandler
        \/ /\ pc' = "tail" /\ UNCHANGED <<cur, status, pending>>
           /\ end' = [e \in Endpoint |->
                        IF e[1] = cur THEN [end[e] EXCEPT !.shutdown = halfClosed(e)] ELSE end[e]]
    BY <1>3 DEF finishSessionIo, failSession, handlerVars, Reason
  <2> QED
    BY <2>1, <2>2, <2>3
<1>4. CASE updateSessionInterests
  <2> DEFINE suspend(e) == IF curHup /\ ~moved /\ e = curEnd
                           THEN [end[e] EXCEPT !.deferred = "armed"] ELSE end[e]
             wanted(e) == wantedInterest(e, suspend(e), status[cur] = "connecting")
  <2>0. leaveHandler /\ pc = "tail"
    BY <1>4 DEF updateSessionInterests
  <2>1. CASE closeSession(cur, "failure")
    BY <1>f, <2>0, <2>1 DEF Reason
  <2>2. CASE /\ UNCHANGED <<status, pending>>
             /\ end' = [e \in Endpoint |->
                          IF e[1] = cur THEN [suspend(e) EXCEPT !.interest = wanted(e)] ELSE end[e]]
    <3>1. ASSUME NEW e \in Endpoint, e[1] = cur
          PROVE  /\ end'[e].eof = end[e].eof /\ end'[e].paused = end[e].paused
                 /\ end'[e].shutdown = end[e].shutdown
                 /\ \/ end'[e].deferred # "none"
                    \/ /\ end'[e].deferred # "armed"
                       /\ end'[e].interest =
                            (IF status[cur] = "connecting" THEN IF e[2] = 1 THEN {"OUT"} ELSE {"RDHUP"}
                             ELSE (IF ~end[e].eof /\ ~end[e].paused THEN {"IN", "RDHUP"} ELSE {})
                                  \cup (IF pending[Other(e)] > 0 THEN {"OUT"} ELSE {}))
      <4>1. end'[e] = [suspend(e) EXCEPT !.interest = wanted(e)]
        BY <2>2, <3>1
      <4>2. /\ suspend(e) \in EndState /\ suspend(e).eof = end[e].eof
            /\ suspend(e).paused = end[e].paused /\ suspend(e).shutdown = end[e].shutdown
        BY <1>e DEF EndState, Timer
      <4> HIDE DEF suspend
      <4>3. /\ end'[e].eof = end[e].eof /\ end'[e].paused = end[e].paused
            /\ end'[e].shutdown = end[e].shutdown /\ end'[e].deferred = suspend(e).deferred
            /\ end'[e].interest = wanted(e)
        BY <4>1, <4>2 DEF EndState
      <4> QED
        BY <4>2, <4>3 DEF wantedInterest
    <3>2. ASSUME NEW e \in Endpoint, e[1] = cur PROVE Wakeable(e)'
      <4>1. Other(e) \in Endpoint /\ Other(e)[1] = cur /\ Other(Other(e)) = e
              /\ e[2] \in Side /\ e = <<cur, e[2]>>
        BY <3>2, EndpointFacts
      <4>2. status[cur] # "connecting" => Resumed(e) /\ PassedOn(e)
        BY <2>0, <4>1 DEF AtHand
      <4>3. CASE status[cur] = "connecting"
        BY <2>2, <3>1, <3>2, <4>3 DEF Wakeable
      <4>4. CASE status[cur] # "connecting"
        <5>0. /\ end'[e].eof = end[e].eof /\ end'[e].paused = end[e].paused
              /\ end'[Other(e)].shutdown = end[Other(e)].shutdown /\ pending' = pending
          BY <2>2, <3>1, <3>2, <4>1
        <5>1. Resumed(e)' /\ PassedOn(e)'
          <6> DEFINE o == Other(e)
          <6>1. Resumed(e)'
            BY <4>2, <4>4, <5>0 DEF Resumed
          <6>2. end[e].eof /\ pending[e] = 0 => end[o].shutdown
            BY <4>2, <4>4 DEF PassedOn
          <6>3. end'[o].shutdown = end[o].shutdown
            BY <5>0
          <6> HIDE DEF o
          <6>4. end'[e].eof /\ pending'[e] = 0 => end'[o].shutdown
            BY <5>0, <6>2, <6>3
          <6> QED
            BY <6>1, <6>4 DEF PassedOn, o
        <5>2. ~end'[e].eof /\ ~end'[e].paused => "IN" \in end'[e].interest \/ end'[e].deferred # "none"
          BY <3>1, <3>2, <4>4
        <5>3. pending'[e] > 0 =>
                "OUT" \in end'[Other(e)].interest \/ end'[Other(e)].deferred # "none"
          <6> DEFINE o == Other(e)
          <6>1. o \in Endpoint /\ o[1] = cur /\ Other(o) = e
            BY <4>1
          <6> HIDE DEF o
          <6>2. \/ end'[o].deferred # "none"
                \/ end'[o].interest =
                     (IF ~end[o].eof /\ ~end[o].paused THEN {"IN", "RDHUP"} ELSE {})
                     \cup (IF pending[e] > 0 THEN {"OUT"} ELSE {})
            BY <3>1, <4>4, <6>1
          <6>3. pending'[e] > 0 => "OUT" \in end'[o].interest \/ end'[o].deferred # "none"
            BY <2>2, <6>2
          <6> QED
            BY <6>3 DEF o
        <5> QED
          BY <2>2, <3>2, <4>4, <5>1, <5>2, <5>3 DEF Wakeable
      <4> QED
        BY <4>3, <4>4
    <3>3. \A e \in Endpoint : e[1] # cur => /\ status'[e[1]] = status[e[1]]
                                            /\ end'[e] = end[e] /\ pending'[e] = pending[e]
      BY <2>2
    <3>4. Awake'
      BY <3>2, <3>3, OthersAwake
    <3> QED
      BY <1>l, <1>n, <2>0, <3>4
  <2> QED
    BY <1>4, <2>1, <2>2 DEF updateSessionInterests
<1> QED
  BY <1>1, <1>2, <1>3, <1>4

\* Every step outside a drain leaves every session with something that restarts it.
LEMMA WakeStep == SafetyInv /\ WakeInv /\ [Next]_vars => WakeInv'
<1> SUFFICES ASSUME SafetyInv, WakeInv, [Next]_vars, ~draining' PROVE Awake' /\ AtHand'
  BY DEF WakeInv
<1>1. ~draining
  <2>1. CASE Next
    BY <2>1, DrainStep DEF SafetyInv
  <2>2. CASE UNCHANGED vars
    BY <2>2 DEF vars, stopVars
  <2> QED
    BY <2>1, <2>2
<1>2. Awake /\ AtHand /\ TableTypes /\ cur \in SessionId
  BY <1>1 DEF WakeInv, SafetyInv, SessionInv, TypeOK, ThreadTypes
<1>3. CASE Environment \/ Terminated \/ UNCHANGED vars
  BY <1>2, <1>3, EnvironmentAwake DEF Terminated
<1>4. CASE ServiceError
  <2>1. Awake'
    BY <1>2, <1>4, CloseAllAwake DEF ServiceError, Reason
  <2> QED
    BY <1>4, <2>1 DEF ServiceError, AtHand
<1>5. CASE \/ LoopTop \/ EpollWait \/ EpollInterrupted \/ AfterPoll \/ advanceStopDrain
           \/ processSessionDeadlines \/ dispatchTcpReadyEvents \/ acceptNothing
           \/ acceptClientSessions \/ dispatchEndpointEvent
  <2>1. pc \notin HandlerPc
    BY <1>5 DEF LoopTop, EpollWait, EpollInterrupted, AfterPoll, advanceStopDrain,
       processSessionDeadlines, dispatchTcpReadyEvents, acceptNothing, acceptClientSessions,
       dispatchEndpointEvent, HandlerPc, DeadlinesPc
  <2> QED
    BY <1>1, <1>2, <1>5, <2>1, LoopAwake
<1>6. CASE \/ writeBufferedDirection \/ readSessionDirection \/ finishSessionIo
           \/ updateSessionInterests
  <2>1. pc \in HandlerPc
    BY <1>6 DEF writeBufferedDirection, readSessionDirection, finishSessionIo,
       updateSessionInterests, HandlerPc
  <2> QED
    BY <1>1, <1>2, <1>6, <2>1, HandlerAwake
<1> QED
  BY <1>3, <1>4, <1>5, <1>6 DEF Next, Reactor

\* Whenever the reactor blocks in epoll_wait outside a drain, every direction of
\* every session has an event or a timer that restarts it, for every buffer size,
\* low-water mark and order of events: no session hangs with work left to do.
THEOREM WakeupSafe == Spec => []NoLostWakeup
<1>1. Init => WakeInv
  <2> SUFFICES ASSUME Init PROVE Awake /\ AtHand
    BY DEF WakeInv
  <2> QED
    BY EndpointFacts DEF Init, Awake, AtHand, Wakeable
<1>2. WakeInv => NoLostWakeup
  BY DEF WakeInv, NoLostWakeup, Awake, Wakeable, Resumed, PassedOn, HandlerPc
<1> QED
  BY <1>1, <1>2, WakeStep, SafetyInvInductive, PTL DEF Spec
=============================================================================
