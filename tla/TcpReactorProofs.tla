-------------------------- MODULE TcpReactorProofs --------------------------
(***************************************************************************)
(* Safety of the TCP reactor for every number of clients, buffer size and  *)
(* batch size.                                                             *)
(***************************************************************************)
EXTENDS TcpReactor, TLAPS

\* The sets TypeOK ranges over are used as typing facts by most leaves.
LEMMA EndpointFacts ==
  /\ \A e \in Endpoint : e[1] \in SessionId /\ e[2] \in Side /\ e = <<e[1], e[2]>>
  /\ \A e \in Endpoint : Other(e) \in Endpoint /\ Other(Other(e)) = e /\ Other(e) # e
                         /\ Other(e)[1] = e[1]
  /\ \A s \in SessionId, d \in Side : <<s, d>> \in Endpoint
  /\ \A s \in SessionId : Other(<<s, 0>>) = <<s, 1>> /\ Other(<<s, 1>>) = <<s, 0>>
  BY DEF Endpoint, Other, Side

\* A new endpoint and a new socket, connected or not, have their types.
LEMMA FreshTypes ==
  /\ FreshEnd \in EndState
  /\ FreshSock(TRUE) \in SockState /\ FreshSock(FALSE) \in SockState
  BY Bounds DEF FreshEnd, EndState, FreshSock, SockState, Timer, Interest

\* A single-field update keeps a socket or an endpoint in its type.
LEMMA SockUpdates ==
  ASSUME NEW k \in SockState
  PROVE  /\ k.rx \in 0..RxCap /\ k.fin \in BOOLEAN /\ k.err \in BOOLEAN /\ k.room \in BOOLEAN
         /\ k.rx < RxCap => [k EXCEPT !.rx = @ + 1] \in SockState
         /\ \A n \in 0..RxCap : [k EXCEPT !.rx = n] \in SockState
         /\ \A b \in BOOLEAN : /\ [k EXCEPT !.fin = b] \in SockState
                              /\ [k EXCEPT !.room = b] \in SockState
                              /\ [k EXCEPT !.err = b] \in SockState
  BY Bounds DEF SockState

\* The same for the fields of an EndpointState, and for a due deferral that is cleared.
LEMMA EndUpdates ==
  ASSUME NEW st \in EndState
  PROVE  /\ st.eof \in BOOLEAN /\ st.shutdown \in BOOLEAN /\ st.paused \in BOOLEAN
         /\ st.interest \in Interest /\ st.deferred \in Timer
         /\ \A b \in BOOLEAN : /\ [st EXCEPT !.eof = b] \in EndState
                              /\ [st EXCEPT !.shutdown = b] \in EndState
                              /\ [st EXCEPT !.paused = b] \in EndState
         /\ \A i \in Interest : [st EXCEPT !.interest = i] \in EndState
         /\ \A x \in Timer : [st EXCEPT !.deferred = x] \in EndState
         /\ clearDue(st) \in EndState
  BY DEF EndState, Timer, clearDue

\* The kernel, the clock and the operator keep every variable in its type.
LEMMA EnvironmentType == TypeOK /\ Environment => TypeOK'
<1> SUFFICES ASSUME TypeOK, Environment PROVE TypeOK'
  OBVIOUS
<1> USE Bounds DEF TypeOK, ThreadTypes, StopTypes, ListenTypes, TableTypes, reactorVars, handlerVars, batchVars, stopVars, listenVars, sessionVars
<1>1. CASE ClientConnects
  BY <1>1 DEF ClientConnects
<1>2. CASE StopSignal
  BY <1>2 DEF StopSignal
<1>3. CASE DrainElapses
  BY <1>3 DEF DrainElapses, Timer
<1>4. CASE RetryElapses
  BY <1>4 DEF RetryElapses, Timer
<1>s. ASSUME NEW e \in Endpoint, NEW next \in SockState, SockStep(e, next) PROVE TypeOK'
  BY <1>s DEF SockStep
<1>5. ASSUME NEW e \in Endpoint,
             PeerSends(e) \/ PeerFinishes(e) \/ PeerReads(e) \/ PeerResets(e)
      PROVE TypeOK'
  <2>1. /\ sock[e].rx < RxCap => [sock[e] EXCEPT !.rx = @ + 1] \in SockState
        /\ [sock[e] EXCEPT !.fin = TRUE] \in SockState
        /\ [sock[e] EXCEPT !.room = TRUE] \in SockState
        /\ [sock[e] EXCEPT !.err = TRUE] \in SockState
    BY SockUpdates
  <2> QED
    BY <1>s, <1>5, <2>1 DEF PeerSends, PeerFinishes, PeerReads, PeerResets
<1>6. ASSUME NEW e \in Endpoint, DeferralElapses(e) PROVE TypeOK'
  BY <1>6 DEF DeferralElapses, EndState, Timer
<1>7. ASSUME NEW s \in SessionId, ConnectCompletes(s) PROVE TypeOK'
  <2>1. <<s, 1>> \in Endpoint /\ [sock[<<s, 1>>] EXCEPT !.room = TRUE] \in SockState
    BY EndpointFacts, SockUpdates DEF Side
  <2> QED
    BY <1>s, <1>7, <2>1 DEF ConnectCompletes
<1>8. ASSUME NEW s \in SessionId, IdleElapses(s) PROVE TypeOK'
  BY <1>8 DEF IdleElapses, Timer
<1> QED
  BY <1>1, <1>2, <1>3, <1>4, <1>5, <1>6, <1>7, <1>8 DEF Environment

\* consumeStopSignals keeps the stop state in its type.
LEMMA ConsumeTypes == StopTypes /\ consumeStopSignals => StopTypes'
<1> SUFFICES ASSUME StopTypes, consumeStopSignals PROVE StopTypes'
  OBVIOUS
<1> USE DEF StopTypes, consumeStopSignals, stopVars
<1>1. draining' \in BOOLEAN /\ drainTimer' \in Timer
      /\ listener' \in {"listening", "deferred", "closed"}
  BY DEF Timer
<1>2. (sigs > 1) \in BOOLEAN
  OBVIOUS
<1>3. stopRequested' \in BOOLEAN
  BY <1>2
<1>4. stopReason' \in StopReason
  BY DEF StopReason
<1>5. sigs' \in 0..MaxSignals
  BY Bounds
<1> QED
  BY <1>1, <1>3, <1>4, <1>5

\* closeSession keeps the session table in its type and uses up no id.
LEMMA CloseTypes ==
  ASSUME TableTypes, NEW s \in SessionId, NEW reason \in Reason, closeSession(s, reason)
  PROVE  TableTypes' /\ nextSessionId' = nextSessionId
<1> USE DEF TableTypes, closeSession, ResetSession
<1>1. status' \in [SessionId -> {"none", "connecting", "established"} \cup Reason]
      /\ tokens' \subseteq Endpoint /\ nextSessionId' = nextSessionId
  OBVIOUS
<1>2. idle' \in [SessionId -> Timer]
  BY DEF Timer
<1>3. end' \in [Endpoint -> EndState]
  BY FreshTypes
<1>4. pending' \in [Endpoint -> 0..BufferLimit]
  BY Bounds
<1>5. sock' \in [Endpoint -> SockState]
  BY FreshTypes
<1> QED
  BY <1>1, <1>2, <1>3, <1>4, <1>5

\* So does closeAllSessions.
LEMMA CloseAllTypes ==
  ASSUME TableTypes, NEW reason \in Reason, closeAllSessions(reason)
  PROVE  TableTypes' /\ nextSessionId' = nextSessionId
<1> USE DEF TableTypes, closeAllSessions
<1>1. status' \in [SessionId -> {"none", "connecting", "established"} \cup Reason]
      /\ tokens' \subseteq Endpoint /\ nextSessionId' = nextSessionId
  OBVIOUS
<1>2. idle' \in [SessionId -> Timer]
  BY DEF Timer
<1>3. end' \in [Endpoint -> EndState] /\ sock' \in [Endpoint -> SockState]
  BY FreshTypes
<1>4. pending' \in [Endpoint -> 0..BufferLimit]
  BY Bounds
<1> QED
  BY <1>1, <1>2, <1>3, <1>4

\* The mask is always a set of the three conditions the reactor asks for.
LEMMA InterestType ==
  ASSUME TableTypes, NEW e \in Endpoint, NEW st \in EndState, NEW c \in BOOLEAN
  PROVE  wantedInterest(e, st, c) \in Interest
  BY DEF wantedInterest, Interest

\* Returning from a session handler keeps the thread's state in its type.
LEMMA LeaveTypes ==
  ASSUME ThreadTypes, leaveHandler, UNCHANGED <<scan, batchVars>>
  PROVE  ThreadTypes'
<1>1. 1 \in SessionId /\ <<1, 0>> \in Endpoint /\ 0 \in Side
  BY Bounds DEF SessionId, Endpoint, Side
<1>2. [d \in Side |-> BufferLimit] \in [Side -> 0..BufferLimit]
  BY Bounds
<1> QED
  BY <1>1, <1>2 DEF ThreadTypes, leaveHandler, batchVars, AllPc

\* So does entering one.
LEMMA EnterTypes ==
  ASSUME ThreadTypes, NEW s \in SessionId, NEW e \in Endpoint, NEW hup \in BOOLEAN,
         NEW r \in {"drain", "dispatch"} \cup DeadlinesPc,
         beginSessionIo(s, e, hup, r) \/ skipSessionIo(s, e, hup, r),
         scan' \subseteq scan, events' \subseteq events, UNCHANGED <<listenReady, attempts>>
  PROVE  ThreadTypes'
<1>1. [d \in Side |-> BufferLimit] \in [Side -> 0..BufferLimit] /\ 0 \in Side
  BY Bounds DEF Side
<1> QED
  BY <1>1 DEF ThreadTypes, beginSessionIo, skipSessionIo, AllPc, HandlerPc

\* Every step of the reactor thread keeps every variable in its type.
LEMMA ReactorType ==
  TypeOK /\ (Reactor \/ EpollInterrupted \/ ServiceError) => TypeOK'
<1> SUFFICES ASSUME TypeOK, Reactor \/ EpollInterrupted \/ ServiceError PROVE TypeOK'
  OBVIOUS
<1> ThreadTypes /\ StopTypes /\ ListenTypes /\ TableTypes
  BY DEF TypeOK
<1> USE ConsumeTypes
<1>1. CASE LoopTop
  <2> UNCHANGED <<handlerVars, batchVars, listenVars>>
    BY <1>1 DEF LoopTop
  <2>1. CASE consumeStopSignals /\ stopRequested' /\ closeAllSessions(stopReason')
             /\ pc' = "done" /\ UNCHANGED scan
    <3>1. stopReason' \in Reason
      BY <2>1 DEF StopTypes, StopReason, Reason
    <3>2. TableTypes' /\ nextSessionId' = nextSessionId
      BY <2>1, <3>1, CloseAllTypes
    <3> QED
      BY <2>1, <3>2 DEF TypeOK, ThreadTypes, ListenTypes, handlerVars, batchVars, listenVars, AllPc
  <2>2. CASE UNCHANGED sessionVars
    BY <1>1, <2>2 DEF LoopTop, TypeOK, ThreadTypes, StopTypes, ListenTypes, TableTypes, handlerVars,
           batchVars, listenVars, stopVars, sessionVars, restoreListener, Sessions, AllPc, DeadlinesPc
  <2> QED
    BY <1>1, <2>1, <2>2 DEF LoopTop
<1>2. CASE EpollWait
  <2>1. ReadyEvents \subseteq Event
    <3>1. ASSUME NEW e \in Endpoint PROVE ReadyEvent(e) \in Event
      <4>1. sock[e].err \in BOOLEAN
        BY SockUpdates DEF TableTypes
      <4>2. /\ (HungUp(e) \/ ("RDHUP" \in end[e].interest /\ sock[e].fin)) \in BOOLEAN
            /\ ("OUT" \in end[e].interest /\ sock[e].room) \in BOOLEAN
        OBVIOUS
      <4> QED
        BY <4>1, <4>2 DEF ReadyEvent, Event
    <3> QED
      BY <3>1 DEF ReadyEvents
  <2> QED
    BY <1>2, <2>1 DEF EpollWait, TypeOK, ThreadTypes, StopTypes, ListenTypes, TableTypes, handlerVars,
           listenVars, stopVars, sessionVars, AllPc
<1>3. CASE EpollInterrupted
  BY <1>3 DEF EpollInterrupted, TypeOK, ThreadTypes, StopTypes, ListenTypes, TableTypes, handlerVars,
           batchVars, listenVars, stopVars, sessionVars, AllPc
<1>4. CASE AfterPoll
  BY <1>4 DEF AfterPoll, TypeOK, ThreadTypes, StopTypes, ListenTypes, TableTypes, handlerVars,
           listenVars, stopVars, sessionVars, restoreListener, Sessions, AllPc, DeadlinesPc
<1>5. CASE ServiceError
  <2>1. TableTypes' /\ nextSessionId' = nextSessionId
    BY <1>5, CloseAllTypes DEF ServiceError, Reason
  <2> QED
    BY <1>5, <2>1 DEF ServiceError, TypeOK, ThreadTypes, StopTypes, ListenTypes, handlerVars, batchVars,
           listenVars, stopVars, AllPc
<1>6. CASE advanceStopDrain
  <2> USE <1>6
  <2> UNCHANGED <<batchVars, listenVars>> /\ pc = "drain"
    BY DEF advanceStopDrain
  <2>0. pc' \in AllPc /\ scan' \subseteq scan /\ StopTypes'
    BY DEF advanceStopDrain, beginSessionIo, AllPc, HandlerPc, StopTypes, stopVars
  <2>1. CASE UNCHANGED <<handlerVars, sessionVars>>
    BY <2>0, <2>1 DEF TypeOK, ThreadTypes, ListenTypes, TableTypes, handlerVars, batchVars,
              listenVars, sessionVars
  <2>2. ASSUME NEW s \in scan, consumeStopSignals, scan' = scan \ {s},
               closeSession(s, "service-stop-connecting"), UNCHANGED <<pc, handlerVars>>
        PROVE  TypeOK'
    <3>1. TableTypes' /\ nextSessionId' = nextSessionId
      BY <2>2, CloseTypes DEF Reason, ThreadTypes
    <3> QED
      BY <2>2, <3>1 DEF TypeOK, ThreadTypes, ListenTypes, handlerVars, batchVars, listenVars
  <2>3. ASSUME NEW s \in scan, consumeStopSignals, scan' = scan \ {s},
               end' = [e \in Endpoint |-> IF e[1] = s THEN clearDue(end[e]) ELSE end[e]],
               beginSessionIo(s, <<s, 0>>, FALSE, "drain"),
               UNCHANGED <<nextSessionId, status, tokens, idle, pending, sock>>
        PROVE  TypeOK'
    <3>1. TableTypes'
      BY <2>3, EndUpdates DEF TableTypes
    <3>2. s \in SessionId /\ <<s, 0>> \in Endpoint
      BY EndpointFacts DEF ThreadTypes, Side
    <3>3. ThreadTypes'
      BY <2>3, <3>2, EnterTypes DEF batchVars
    <3> QED
      BY <2>3, <3>1, <3>3 DEF TypeOK, ListenTypes, listenVars
  <2> QED
    BY <2>1, <2>2, <2>3 DEF advanceStopDrain
<1>7. CASE processSessionDeadlines
  <2> USE <1>7
  <2> UNCHANGED <<batchVars, stopVars, listener, listenVars>> /\ pc \in DeadlinesPc
    BY DEF processSessionDeadlines
  <2>0. pc' \in AllPc /\ scan' \subseteq scan
    BY DEF processSessionDeadlines, beginSessionIo, skipSessionIo, AllPc, HandlerPc, DeadlinesPc
  <2>1. CASE UNCHANGED <<handlerVars, sessionVars>>
    BY <2>0, <2>1 DEF TypeOK, ThreadTypes, StopTypes, ListenTypes, TableTypes, handlerVars,
              batchVars, listenVars, stopVars, sessionVars
  <2>2. ASSUME NEW s \in scan, scan' = scan \ {s}, NEW reason \in Reason,
               closeSession(s, reason), UNCHANGED <<pc, handlerVars>>
        PROVE  TypeOK'
    <3>1. TableTypes' /\ nextSessionId' = nextSessionId
      BY <2>2, CloseTypes DEF ThreadTypes
    <3> QED
      BY <2>2, <3>1 DEF TypeOK, ThreadTypes, StopTypes, ListenTypes, handlerVars, batchVars,
                listenVars, stopVars
  <2>3. ASSUME NEW s \in scan, scan' = scan \ {s},
               end' = [e \in Endpoint |-> IF e[1] = s THEN clearDue(end[e]) ELSE end[e]],
               \/ beginSessionIo(s, <<s, 0>>, FALSE, pc)
               \/ skipSessionIo(s, <<s, 0>>, FALSE, pc),
               UNCHANGED <<nextSessionId, status, tokens, idle, pending, sock>>
        PROVE  TypeOK'
    <3>1. TableTypes'
      BY <2>3, EndUpdates DEF TableTypes
    <3>2. s \in SessionId /\ <<s, 0>> \in Endpoint
      BY EndpointFacts DEF ThreadTypes, Side
    <3>3. ThreadTypes'
      BY <2>3, <3>2, EnterTypes DEF batchVars
    <3> QED
      BY <2>3, <3>1, <3>3 DEF TypeOK, StopTypes, ListenTypes, listenVars, stopVars
  <2> QED
    BY <2>1, <2>2, <2>3 DEF processSessionDeadlines, Reason
<1>8. CASE dispatchTcpReadyEvents
  BY <1>8 DEF dispatchTcpReadyEvents, TypeOK, ThreadTypes, StopTypes, ListenTypes, TableTypes,
           handlerVars, batchVars, listenVars, stopVars, sessionVars, AllPc
<1>9. CASE acceptNothing
  BY <1>9, Bounds DEF acceptNothing, TypeOK, ThreadTypes, StopTypes, ListenTypes, TableTypes,
           handlerVars, batchVars, listenVars, stopVars, sessionVars, AllPc, Timer
<1>10. CASE acceptClientSessions
  <2> DEFINE s == nextSessionId
  <2> USE <1>10
  <2>1. s \in SessionId /\ ListenTypes'
    <3>1. /\ backlog > 0 /\ backlog' = backlog - 1 /\ nextSessionId' = nextSessionId + 1
          /\ UNCHANGED <<listenerRetry, arrived>>
      BY DEF acceptClientSessions
    <3> QED
      BY <3>1, Bounds DEF ListenTypes, SessionId
  <2>2. ThreadTypes' /\ StopTypes'
    BY Bounds DEF acceptClientSessions, ThreadTypes, handlerVars
  <2>3. TableTypes'
    <3>1. CASE status' = [status EXCEPT ![s] = "failure"]
               /\ UNCHANGED <<tokens, idle, end, pending, sock>>
      BY <2>1, <3>1 DEF TableTypes, Reason
    <3>2. ASSUME NEW c \in BOOLEAN,
                 status' = [status EXCEPT ![s] = IF c THEN "established" ELSE "connecting"],
                 tokens' = tokens \cup {<<s, d>> : d \in Side},
                 sock' = [sock EXCEPT ![<<s, 0>>] = FreshSock(TRUE), ![<<s, 1>>] = FreshSock(c)],
                 end' = [e \in Endpoint |->
                           IF e[1] = s
                           THEN [end[e] EXCEPT !.interest = wantedInterest(e, end[e], ~c)]
                           ELSE end[e]],
                 UNCHANGED <<idle, pending>>
          PROVE  TableTypes'
      <4>1. status' \in [SessionId -> {"none", "connecting", "established"} \cup Reason]
        BY <2>1, <3>2 DEF TableTypes
      <4>2. tokens' \subseteq Endpoint
        BY <2>1, <3>2, EndpointFacts DEF TableTypes
      <4>3. sock' \in [Endpoint -> SockState]
        BY <2>1, <3>2, EndpointFacts, FreshTypes DEF TableTypes, Side
      <4>4. end' \in [Endpoint -> EndState]
        BY <3>2, EndUpdates, InterestType DEF TableTypes
      <4> QED
        BY <3>2, <4>1, <4>2, <4>3, <4>4 DEF TableTypes
    <3> QED
      BY <3>1, <3>2 DEF acceptClientSessions
  <2> QED
    BY <2>1, <2>2, <2>3 DEF TypeOK
<1>11. CASE dispatchEndpointEvent
  <2> USE <1>11
  <2> UNCHANGED <<scan, listenReady, attempts, listenVars>> /\ StopTypes'
    BY DEF dispatchEndpointEvent
  <2>0. events' \subseteq events
    BY DEF dispatchEndpointEvent
  <2>1. CASE UNCHANGED <<pc, handlerVars, sessionVars>>
    BY <2>0, <2>1 DEF TypeOK, ThreadTypes, ListenTypes, TableTypes, handlerVars, listenVars,
              sessionVars
  <2>2. ASSUME NEW ev \in events, NEW reason \in Reason,
               closeSession(ev.end[1], reason), UNCHANGED <<pc, handlerVars>>
        PROVE  TypeOK'
    <3>1. ev.end[1] \in SessionId
      BY EndpointFacts DEF ThreadTypes, Event
    <3>2. TableTypes' /\ nextSessionId' = nextSessionId
      BY <2>2, <3>1, CloseTypes
    <3> QED
      BY <2>0, <2>2, <3>2 DEF TypeOK, ThreadTypes, ListenTypes, handlerVars, listenVars
  <2>3. ASSUME NEW ev \in events,
               \/ /\ status' = [status EXCEPT ![ev.end[1]] = "established"]
                  /\ idle' = [idle EXCEPT ![ev.end[1]] = "armed"]
               \/ UNCHANGED <<status, idle>>,
               \/ beginSessionIo(ev.end[1], ev.end, ev.hup, "dispatch")
               \/ skipSessionIo(ev.end[1], ev.end, ev.hup, "dispatch"),
               UNCHANGED <<nextSessionId, tokens, end, pending, sock>>
        PROVE  TypeOK'
    <3>1. ev.end \in Endpoint /\ ev.end[1] \in SessionId /\ ev.hup \in BOOLEAN
      BY EndpointFacts DEF ThreadTypes, Event
    <3>2. ThreadTypes'
      BY <2>0, <2>3, <3>1, EnterTypes
    <3>3. TableTypes'
      BY <2>3, <3>1 DEF TableTypes, Timer
    <3> QED
      BY <2>3, <3>2, <3>3 DEF TypeOK, ListenTypes, listenVars
  <2> QED
    BY <2>1, <2>2, <2>3 DEF dispatchEndpointEvent, Reason
<1>12. CASE writeBufferedDirection
  <2> USE <1>12
  <2> UNCHANGED <<scan, batchVars, listenVars>> /\ pc \in {"write1", "write2"}
    BY DEF writeBufferedDirection
  <2>0. StopTypes' /\ source \in Endpoint /\ target \in Endpoint
    BY EndpointFacts DEF writeBufferedDirection, source, target, ThreadTypes, StopTypes, stopVars
  <2>1. CASE resumeReading /\ nextDirection
             /\ UNCHANGED <<frame, moved, budget, nextSessionId, status, tokens, idle, pending, sock>>
    <3>1. end' \in [Endpoint -> EndState]
      BY <2>0, <2>1, EndUpdates DEF resumeReading, TableTypes
    <3>2. ThreadTypes'
      BY <2>1 DEF ThreadTypes, nextDirection, frame, batchVars, AllPc, HandlerPc, Side
    <3> QED
      BY <2>0, <2>1, <3>1, <3>2 DEF TypeOK, TableTypes, ListenTypes, listenVars
  <2>2. CASE failSession
    <3>1. TableTypes' /\ nextSessionId' = nextSessionId
      BY <2>2, CloseTypes DEF failSession, ThreadTypes, Reason
    <3> QED
      BY <2>0, <2>2, <3>1, LeaveTypes DEF failSession, TypeOK, ListenTypes, listenVars
  <2>3. ASSUME NEW n \in sendSizes, NEW room \in BOOLEAN,
               pending' = [pending EXCEPT ![source] = @ - n],
               budget' = [budget EXCEPT ![dir] = @ - n],
               sock' = [sock EXCEPT ![target].room = room],
               recordIoProgress, UNCHANGED <<frame, pc, dir, nextSessionId, status, tokens, end>>
        PROVE  TypeOK'
    <3>1. pending' \in [Endpoint -> 0..BufferLimit]
      BY <2>0, <2>3, Bounds DEF sendSizes, TableTypes
    <3>2. budget' \in [Side -> 0..BufferLimit]
      BY <2>3, Bounds DEF sendSizes, ThreadTypes
    <3>3. sock' \in [Endpoint -> SockState]
      BY <2>0, <2>3, SockUpdates DEF TableTypes
    <3>4. idle' \in [SessionId -> Timer] /\ moved' = TRUE
      BY <2>3 DEF recordIoProgress, TableTypes, Timer, ThreadTypes
    <3> QED
      BY <2>0, <2>3, <3>1, <3>2, <3>3, <3>4 DEF TypeOK, ThreadTypes, TableTypes, ListenTypes,
                listenVars, frame, batchVars
  <2> QED
    BY <2>1, <2>2, <2>3 DEF writeBufferedDirection
<1>13. CASE readSessionDirection
  <2> USE <1>13
  <2> UNCHANGED <<scan, batchVars, listenVars>> /\ pc = "read"
    BY DEF readSessionDirection
  <2>0. StopTypes' /\ source \in Endpoint
    BY EndpointFacts DEF readSessionDirection, source, ThreadTypes, StopTypes, stopVars
  <2>1. ASSUME nextDirection, UNCHANGED <<frame, moved, budget, nextSessionId, status, tokens, idle,
                                          pending, sock>>,
               end' = end \/ end' = [end EXCEPT ![source].eof = TRUE]
        PROVE  TypeOK'
    <3>1. end' \in [Endpoint -> EndState]
      <4>1. end[source] \in EndState /\ end \in [Endpoint -> EndState]
        BY <2>0 DEF TableTypes
      <4>2. [end[source] EXCEPT !.eof = TRUE] \in EndState
        BY <4>1, EndUpdates
      <4> QED
        BY <2>0, <2>1, <4>1, <4>2
    <3>2. ThreadTypes'
      BY <2>1 DEF ThreadTypes, nextDirection, frame, batchVars, AllPc, HandlerPc, Side
    <3> QED
      BY <2>0, <2>1, <3>1, <3>2 DEF TypeOK, TableTypes, ListenTypes, listenVars
  <2>2. CASE failSession
    <3>1. TableTypes' /\ nextSessionId' = nextSessionId
      BY <2>2, CloseTypes DEF failSession, ThreadTypes, Reason
    <3> QED
      BY <2>0, <2>2, <3>1, LeaveTypes DEF failSession, TypeOK, ListenTypes, listenVars
  <2>3. ASSUME NEW n \in recvSizes,
               pending' = [pending EXCEPT ![source] = @ + n],
               sock' = [sock EXCEPT ![source].rx = @ - n],
               end' = [end EXCEPT ![source].paused = pauses(n)],
               recordIoProgress, UNCHANGED <<frame, pc, dir, budget, nextSessionId, status, tokens>>
        PROVE  TypeOK'
    <3>1. pending' \in [Endpoint -> 0..BufferLimit]
      BY <2>0, <2>3, Bounds DEF recvSizes, TableTypes
    <3>2. end' \in [Endpoint -> EndState]
      <4>1. pauses(n) \in BOOLEAN
        BY DEF pauses
      <4> QED
        BY <2>0, <2>3, <4>1, EndUpdates DEF TableTypes
    <3>3. sock' \in [Endpoint -> SockState]
      <4>1. sock[source].rx - n \in 0..RxCap
        <5>1. sock[source].rx \in 0..RxCap
          BY <2>0, SockUpdates DEF TableTypes
        <5> QED
          BY <2>3, <5>1, Bounds DEF recvSizes
      <4> QED
        BY <2>0, <2>3, <4>1, SockUpdates DEF TableTypes
    <3>4. idle' \in [SessionId -> Timer] /\ moved' = TRUE
      BY <2>3 DEF recordIoProgress, TableTypes, Timer, ThreadTypes
    <3> QED
      BY <2>0, <2>3, <3>1, <3>2, <3>3, <3>4 DEF TypeOK, ThreadTypes, TableTypes, ListenTypes,
                listenVars, frame, batchVars
  <2> QED
    BY <2>1, <2>2, <2>3 DEF readSessionDirection, sessionVars
<1>14. CASE finishSessionIo
  <2> USE <1>14
  <2> UNCHANGED <<scan, batchVars, stopVars, listener, listenVars>>
    BY DEF finishSessionIo
  <2>0. StopTypes'
    BY DEF StopTypes, stopVars
  <2>1. ASSUME NEW reason \in Reason, closeSession(cur, reason), leaveHandler PROVE TypeOK'
    <3>1. TableTypes' /\ nextSessionId' = nextSessionId
      BY <2>1, CloseTypes DEF ThreadTypes
    <3> QED
      BY <2>0, <2>1, <3>1, LeaveTypes DEF TypeOK, ListenTypes, listenVars
  <2>2. CASE pc' = "tail" /\ UNCHANGED <<handlerVars, sessionVars>>
    BY <2>0, <2>2 DEF TypeOK, ThreadTypes, TableTypes, ListenTypes, listenVars, handlerVars, batchVars,
                 sessionVars, AllPc, HandlerPc
  <2>3. CASE /\ pc' = "tail"
             /\ end' = [e \in Endpoint |-> IF e[1] = cur
                          THEN [end[e] EXCEPT !.shutdown = halfClosed(e)] ELSE end[e]]
             /\ UNCHANGED <<handlerVars, nextSessionId, status, tokens, idle, pending, sock>>
    <3>1. \A e \in Endpoint : halfClosed(e) \in BOOLEAN
      BY DEF halfClosed
    <3>2. end' \in [Endpoint -> EndState]
      BY <2>3, <3>1, EndUpdates DEF TableTypes
    <3> QED
      BY <2>0, <2>3, <3>2 DEF TypeOK, ThreadTypes, TableTypes, ListenTypes, listenVars, handlerVars,
                batchVars, AllPc, HandlerPc
  <2>4. "drained" \in Reason /\ "failure" \in Reason /\ "service-stop-drained" \in Reason
        /\ stopReason \in Reason
    BY DEF Reason, StopReason, StopTypes
  <2> QED
    BY <2>1, <2>2, <2>3, <2>4 DEF finishSessionIo, failSession
<1>15. CASE updateSessionInterests
  <2> USE <1>15
  <2> UNCHANGED <<scan, batchVars, stopVars, listener, listenVars>> /\ leaveHandler
    BY DEF updateSessionInterests
  <2>0. StopTypes' /\ ThreadTypes'
    BY LeaveTypes DEF StopTypes, stopVars
  <2>1. CASE closeSession(cur, "failure")
    <3>1. TableTypes' /\ nextSessionId' = nextSessionId
      BY <2>1, CloseTypes DEF ThreadTypes, Reason
    <3> QED
      BY <2>0, <3>1 DEF TypeOK, ListenTypes, listenVars
  <2>2. CASE ~closeSession(cur, "failure")
    <3> DEFINE suspend(e) == IF curHup /\ ~moved /\ e = curEnd
                             THEN [end[e] EXCEPT !.deferred = "armed"] ELSE end[e]
               update(e)  == [suspend(e) EXCEPT
                       !.interest = wantedInterest(e, suspend(e), status[cur] = "connecting")]
    <3>1. /\ end' = [e \in Endpoint |-> IF e[1] = cur THEN update(e) ELSE end[e]]
          /\ UNCHANGED <<nextSessionId, status, tokens, idle, pending, sock>>
      BY <2>2 DEF updateSessionInterests
    <3>2. ASSUME NEW e \in Endpoint PROVE suspend(e) \in EndState
      BY EndUpdates DEF TableTypes, Timer
    <3>3. ASSUME NEW e \in Endpoint PROVE update(e) \in EndState
      <4> HIDE DEF suspend
      <4>1. (status[cur] = "connecting") \in BOOLEAN
        OBVIOUS
      <4> QED
        BY <3>2, <4>1, EndUpdates, InterestType
    <3> HIDE DEF update
    <3>4. end' \in [Endpoint -> EndState]
      BY <3>1, <3>3 DEF TableTypes
    <3> QED
      BY <2>0, <3>1, <3>4 DEF TypeOK, TableTypes, ListenTypes, listenVars
  <2> QED
    BY <2>1, <2>2
<1> QED
  BY <1>1, <1>2, <1>3, <1>4, <1>5, <1>6, <1>7, <1>8, <1>9, <1>10, <1>11, <1>12, <1>13, <1>14, <1>15
     DEF Reactor

\* The constructed reactor has its types.
LEMMA InitTypes == Init => TypeOK
<1> SUFFICES ASSUME Init PROVE TypeOK
  OBVIOUS
<1>1. ThreadTypes
  <2>1. curHup \in BOOLEAN /\ moved \in BOOLEAN /\ listenReady \in BOOLEAN
    BY Zenon DEF Init
  <2>2. 1 \in SessionId /\ <<1, 0>> \in Endpoint /\ 0 \in Side /\ 0 \in 0..AcceptBatch
    BY Bounds DEF SessionId, Endpoint, Side
  <2>3. budget \in [Side -> 0..BufferLimit]
    BY Bounds DEF Init
  <2> QED
    BY <2>1, <2>2, <2>3 DEF Init, ThreadTypes, AllPc
<1>2. StopTypes /\ ListenTypes
  <2>1. draining \in BOOLEAN /\ stopRequested \in BOOLEAN
    BY Zenon DEF Init
  <2> QED
    BY <2>1, Bounds DEF Init, StopTypes, ListenTypes, Timer, StopReason
<1>3. TableTypes
  <2>1. /\ status \in [SessionId -> {"none", "connecting", "established"} \cup Reason]
        /\ idle \in [SessionId -> Timer] /\ tokens \subseteq Endpoint
    BY DEF Init, Timer
  <2>2. end \in [Endpoint -> EndState] /\ sock \in [Endpoint -> SockState]
    BY FreshTypes DEF Init
  <2>3. pending \in [Endpoint -> 0..BufferLimit]
    BY Bounds DEF Init
  <2> QED
    BY <2>1, <2>2, <2>3 DEF TableTypes
<1> QED
  BY <1>1, <1>2, <1>3 DEF TypeOK

\* Every variable keeps its type, for every choice of the constants.
THEOREM TypeCorrect == Spec => []TypeOK
<1>1. TypeOK /\ [Next]_vars => TypeOK'
  <2>1. TypeOK /\ UNCHANGED vars => TypeOK'
    BY DEF vars, handlerVars, batchVars, stopVars, listenVars, sessionVars, TypeOK, ThreadTypes,
           StopTypes, ListenTypes, TableTypes
  <2> QED
    BY <2>1, ReactorType, EnvironmentType DEF Next, Terminated
<1> QED
  BY InitTypes, <1>1, PTL DEF Spec
=============================================================================
