----------------------------- MODULE TcpReactor -----------------------------
(***************************************************************************)
(* The single-threaded, level-triggered epoll reactor that relays TCP      *)
(* sessions (src/net/TcpReactor.cpp, src/net/TcpState.h).                  *)
(*                                                                         *)
(* The reactor thread is a program counter; every system call at which a   *)
(* signal, a peer or the clock can intervene is a step of its own.  Bytes  *)
(* are counted, not stored.  A clock comparison is a timer that is         *)
(* "armed" until the environment lets it become "due".                     *)
(***************************************************************************)
EXTENDS Naturals, FiniteSets

CONSTANTS
  MaxClients,   \* bound: connections that ever reach the listener
  MaxSessions,  \* options_.maxSessions
  BufferLimit,  \* kBufferLimit: capacity of one direction, and its I/O budget
  LowWater,     \* kLowWater: a paused source resumes at or below this level
  RxCap,        \* bound: bytes the kernel holds unread on one socket
  MaxEvents,    \* size of the epoll_wait batch (128)
  AcceptBatch,  \* accepts per listener event (64)
  MaxSignals,   \* bound: stop signals pending on the signalfd (INT and TERM)
  MaxResets,    \* bound: sockets that are reset and not yet closed
  EnvPoints     \* values of pc at which peers and session timers may act

ASSUME Bounds ==
  /\ MaxClients \in Nat \ {0} /\ MaxSessions \in Nat \ {0}
  /\ BufferLimit \in Nat /\ LowWater \in Nat /\ LowWater < BufferLimit
  /\ RxCap \in Nat /\ MaxEvents \in Nat \ {0}
  /\ AcceptBatch \in Nat \ {0} /\ MaxSignals \in Nat /\ MaxResets \in Nat

SessionId == 1..MaxClients
Side      == {0, 1}                     \* 0: client, 1: backend
Endpoint  == SessionId \X Side
Other(e)  == <<e[1], 1 - e[2]>>

Timer    == {"none", "armed", "due"}
Interest == SUBSET {"IN", "RDHUP", "OUT"}
Reason   == {"drained", "connect-timeout", "idle-timeout", "failure", "service-error",
             "service-stop-drained", "service-stop-connecting",
             "service-stop-forced", "service-stop-deadline"}
StopReason == {"service-stop-forced", "service-stop-deadline"}

VARIABLES
  pc,             \* where the reactor thread is
  ret,            \* the loop a session handler returns to
  cur, curEnd,    \* the session being handled, the endpoint its event named
  curHup, moved,  \* the event carried HUP or RDHUP; bytes moved in this handler
  dir, budget,    \* direction being worked on, write budget left per direction
  scan,           \* ids a scan over sessions_ has still to visit
  events, listenReady, attempts,   \* undispatched part of the batch, accepts done
  draining, stopRequested, stopReason, sigs, drainTimer,
  listener, listenerRetry, backlog, arrived,
  nextSessionId, status, tokens, idle,
  end, pending,   \* EndpointState and the bytes read from it but not yet sent
  sock            \* the kernel's side of each endpoint

stopVars     == <<draining, stopRequested, stopReason, sigs, drainTimer>>
listenVars   == <<listenerRetry, backlog, arrived>>
handlerVars  == <<ret, cur, curEnd, curHup, moved, dir, budget>>
batchVars    == <<events, listenReady, attempts>>
sessionVars  == <<nextSessionId, status, tokens, idle, end, pending, sock>>
vars == <<pc, handlerVars, scan, batchVars, stopVars, listener, listenVars, sessionVars>>

FreshEnd  == [eof |-> FALSE, shutdown |-> FALSE, paused |-> FALSE,
              interest |-> {}, deferred |-> "none"]
FreshSock(writable) == [rx |-> 0, fin |-> FALSE, err |-> FALSE, room |-> writable]

Sessions       == {s \in SessionId : status[s] \in {"connecting", "established"}}
Event          == [end : Endpoint, err : BOOLEAN, hup : BOOLEAN, out : BOOLEAN]
HandlerPc      == {"write1", "read", "write2", "finish", "tail"}
DeadlinesPc    == {"deadlinesTop", "deadlinesPolled"}
AllPc          == {"top", "drain", "poll", "polled", "dispatch", "accept", "done"}
                    \cup DeadlinesPc \cup HandlerPc

Init ==
  /\ pc = "top" /\ ret = "dispatch" /\ cur = 1 /\ curEnd = <<1, 0>>
  /\ curHup = FALSE /\ moved = FALSE /\ dir = 0
  /\ budget = [d \in Side |-> BufferLimit] /\ scan = {}
  /\ events = {} /\ listenReady = FALSE /\ attempts = 0
  /\ draining = FALSE /\ stopRequested = FALSE /\ stopReason = "service-stop-deadline"
  /\ sigs = 0 /\ drainTimer = "none"
  /\ listener = "listening" /\ listenerRetry = "due" /\ backlog = 0 /\ arrived = 0
  /\ nextSessionId = 1 /\ status = [s \in SessionId |-> "none"]
  /\ tokens = {} /\ idle = [s \in SessionId |-> "armed"]
  /\ end = [e \in Endpoint |-> FreshEnd] /\ pending = [e \in Endpoint |-> 0]
  /\ sock = [e \in Endpoint |-> FreshSock(FALSE)]
-----------------------------------------------------------------------------
(***************************************************************************)
(* Helpers of the reactor thread                                           *)
(***************************************************************************)

MutNeverExpired == FALSE                \* mutant: the drain deadline is not checked
drainExpired == draining /\ drainTimer = "due"

\* Read the signalfd until it is empty.  The first signal starts the drain and
\* closes the listener, a second one forces the stop, and so does the drain
\* deadline.  No session is touched: callers may hold a Session&.
consumeStopSignals ==
  \/ /\ stopRequested \/ (sigs = 0 /\ ~drainExpired)
     /\ UNCHANGED <<stopVars, listener>>
  \/ /\ ~stopRequested /\ draining /\ (sigs > 0 \/ drainExpired)
     /\ stopRequested' = TRUE
     /\ stopReason' = IF sigs > 0 THEN "service-stop-forced" ELSE "service-stop-deadline"
     /\ sigs' = IF sigs > 0 THEN sigs - 1 ELSE sigs
     /\ UNCHANGED <<draining, drainTimer, listener>>
  \/ /\ ~stopRequested /\ ~draining /\ sigs > 0
     /\ draining' = TRUE /\ drainTimer' = "armed" /\ listener' = "closed"
     /\ stopRequested' = (sigs > 1)
     /\ stopReason' = IF sigs > 1 THEN "service-stop-forced" ELSE stopReason
     /\ sigs' = IF sigs > 1 THEN sigs - 2 ELSE 0

ResetSession(s) ==
  /\ idle'    = [idle EXCEPT ![s] = "armed"]
  /\ end'     = [e \in Endpoint |-> IF e[1] = s THEN FreshEnd ELSE end[e]]
  /\ pending' = [e \in Endpoint |-> IF e[1] = s THEN 0 ELSE pending[e]]
  /\ sock'    = [e \in Endpoint |-> IF e[1] = s THEN FreshSock(FALSE) ELSE sock[e]]
  /\ UNCHANGED nextSessionId

\* Mutant: the tokens of a closed session stay registered.
MutKeepTokens(s, reason) ==
  /\ status' = [status EXCEPT ![s] = reason] /\ UNCHANGED tokens /\ ResetSession(s)

\* Erase the session and its tokens, detach and close both sockets, report the
\* reason.
closeSession(s, reason) ==
  /\ status' = [status EXCEPT ![s] = reason]
  /\ tokens' = {e \in tokens : e[1] # s}
  /\ ResetSession(s)

closeAllSessions(reason) ==
  /\ status'  = [s \in SessionId |-> IF s \in Sessions THEN reason ELSE status[s]]
  /\ tokens'  = {} /\ idle' = [s \in SessionId |-> "armed"]
  /\ end'     = [e \in Endpoint |-> FreshEnd]
  /\ pending' = [e \in Endpoint |-> 0]
  /\ sock'    = [e \in Endpoint |-> FreshSock(FALSE)]
  /\ UNCHANGED nextSessionId

\* Mutant: output interest follows the endpoint's own buffer, not the opposite one.
MutOwnBuffer(e, st, connecting) ==
  IF st.deferred = "armed" THEN {}
  ELSE IF connecting THEN IF e[2] = 1 THEN {"OUT"} ELSE {"RDHUP"}
  ELSE (IF ~st.eof /\ ~st.paused THEN {"IN", "RDHUP"} ELSE {})
       \cup (IF pending[e] > 0 THEN {"OUT"} ELSE {})

\* Mutant: an endpoint that has nothing more to say is not polled at all.
MutNotPolled(e, st, connecting) ==
  IF st.deferred = "armed" \/ st.eof THEN {}
  ELSE IF connecting THEN IF e[2] = 1 THEN {"OUT"} ELSE {"RDHUP"}
  ELSE (IF ~st.paused THEN {"IN", "RDHUP"} ELSE {})
       \cup (IF pending[Other(e)] > 0 THEN {"OUT"} ELSE {})

\* The mask updateSessionInterests computes for endpoint e in state st.
wantedInterest(e, st, connecting) ==
  IF st.deferred = "armed" THEN {}
  ELSE IF draining THEN IF pending[Other(e)] > 0 THEN {"OUT"} ELSE {}
  ELSE IF connecting THEN IF e[2] = 1 THEN {"OUT"} ELSE {"RDHUP"}
  ELSE (IF ~st.eof /\ ~st.paused THEN {"IN", "RDHUP"} ELSE {})
       \cup (IF pending[Other(e)] > 0 THEN {"OUT"} ELSE {})

\* Enter advanceSessionIo for session s; the loop at r goes on afterwards.
beginSessionIo(s, e, hup, r) ==
  /\ pc' = "write1" /\ dir' = 0 /\ budget' = [d \in Side |-> BufferLimit]
  /\ cur' = s /\ curEnd' = e /\ curHup' = hup /\ moved' = FALSE /\ ret' = r

\* A session that is still connecting has no I/O to advance.
skipSessionIo(s, e, hup, r) ==
  /\ pc' = "tail" /\ cur' = s /\ curEnd' = e /\ curHup' = hup /\ moved' = FALSE
  /\ ret' = r /\ UNCHANGED <<dir, budget>>
\* The handler's locals go out of scope when it returns.
leaveHandler ==
  /\ pc' = ret /\ ret' = "dispatch" /\ cur' = 1 /\ curEnd' = <<1, 0>>
  /\ curHup' = FALSE /\ moved' = FALSE /\ dir' = 0
  /\ budget' = [d \in Side |-> BufferLimit]
-----------------------------------------------------------------------------
(***************************************************************************)
(* runTcpEventLoop                                                         *)
(***************************************************************************)

MutNoRestore == UNCHANGED listener      \* mutant: the listener stays out of epoll
\* processSessionDeadlines first puts a backed-off listener back into epoll.
restoreListener ==
  listener' = IF listener = "deferred" /\ listenerRetry = "due" THEN "listening" ELSE listener

LoopTop ==
  /\ pc = "top"
  /\ UNCHANGED <<handlerVars, batchVars, listenVars>>
  /\ \/ /\ consumeStopSignals /\ stopRequested'
        /\ closeAllSessions(stopReason')
        /\ pc' = "done" /\ UNCHANGED scan
     \/ /\ consumeStopSignals /\ draining' /\ ~stopRequested'
        /\ pc' = "drain" /\ scan' = Sessions /\ UNCHANGED sessionVars
     \/ /\ ~draining /\ ~stopRequested /\ sigs = 0
        /\ pc' = "deadlinesTop" /\ scan' = Sessions /\ restoreListener
        /\ UNCHANGED <<sessionVars, stopVars>>

\* What epoll reports for a registered endpoint: the requested conditions, and
\* errors and full hang-ups, which no mask suppresses.
HungUp(e)  == sock[e].err \/ (sock[e].fin /\ end[e].shutdown)
IsReady(e) ==
  /\ end[e].interest # {}
  /\ \/ "IN" \in end[e].interest /\ (sock[e].rx > 0 \/ sock[e].fin)
     \/ "OUT" \in end[e].interest /\ sock[e].room
     \/ "RDHUP" \in end[e].interest /\ sock[e].fin
     \/ HungUp(e)
ReadyEvent(e) ==
  [end |-> e, err |-> sock[e].err,
   hup |-> HungUp(e) \/ ("RDHUP" \in end[e].interest /\ sock[e].fin),
   out |-> "OUT" \in end[e].interest /\ sock[e].room]
ReadyEvents == {ReadyEvent(e) : e \in {d \in Endpoint : IsReady(d)}}

\* epoll_wait hands over at most MaxEvents ready descriptors; when nothing is
\* ready it times out within 100 ms and the batch is empty.
EpollWait ==
  /\ pc = "poll" /\ pc' = "polled"
  /\ \E batch \in SUBSET ReadyEvents, l \in BOOLEAN :
       LET room == IF l THEN MaxEvents - 1 ELSE MaxEvents
           listenerReady == listener = "listening" /\ backlog > 0
       IN /\ l => listenerReady
          /\ Cardinality(batch) <= room
          /\ Cardinality(batch) = room \/ (batch = ReadyEvents /\ l = listenerReady)
          /\ events' = batch /\ listenReady' = l
  /\ UNCHANGED <<handlerVars, scan, attempts, stopVars, listener, listenVars, sessionVars>>

EpollInterrupted ==
  /\ pc = "poll" /\ pc' = "top"
  /\ UNCHANGED <<handlerVars, scan, batchVars, stopVars, listener, listenVars, sessionVars>>

AfterPoll ==
  /\ pc = "polled"
  /\ UNCHANGED <<handlerVars, listenVars, sessionVars, attempts>>
  /\ \/ /\ consumeStopSignals /\ stopRequested'
        /\ pc' = "top" /\ events' = {} /\ listenReady' = FALSE /\ UNCHANGED scan
     \/ /\ consumeStopSignals /\ draining' /\ ~stopRequested'
        /\ pc' = "dispatch" /\ UNCHANGED <<events, listenReady, scan>>
     \/ /\ ~draining /\ ~stopRequested /\ sigs = 0
        /\ pc' = "deadlinesPolled" /\ scan' = Sessions /\ restoreListener
        /\ UNCHANGED <<events, listenReady, stopVars>>

\* An exception that leaves the event loop: a system call other than on a session's
\* sockets failed for good, or a callback did.  The destructor closes every session.
ServiceError ==
  /\ pc # "done"
  /\ closeAllSessions("service-error") /\ pc' = "done"
  /\ UNCHANGED <<handlerVars, scan, batchVars, stopVars, listener, listenVars>>
-----------------------------------------------------------------------------
(***************************************************************************)
(* advanceStopDrain and processSessionDeadlines: scans over sessions_      *)
(***************************************************************************)

clearDue(st) == [st EXCEPT !.deferred = IF @ = "due" THEN "none" ELSE @]

advanceStopDrain ==
  /\ pc = "drain"
  /\ UNCHANGED <<batchVars, listenVars>>
  /\ \/ /\ scan = {}
        /\ pc' = IF Sessions = {} THEN "done" ELSE "poll"
        /\ UNCHANGED <<handlerVars, scan, stopVars, listener, sessionVars>>
     \/ /\ scan # {} /\ consumeStopSignals /\ stopRequested'
        /\ scan' = {} /\ UNCHANGED <<pc, handlerVars, sessionVars>>
     \/ \E s \in scan :
          /\ consumeStopSignals /\ ~stopRequested' /\ scan' = scan \ {s}
          /\ \/ /\ status[s] = "connecting"
                /\ closeSession(s, "service-stop-connecting")
                /\ UNCHANGED <<pc, handlerVars>>
             \/ /\ status[s] # "connecting"
                /\ end' = [e \in Endpoint |-> IF e[1] = s THEN clearDue(end[e]) ELSE end[e]]
                /\ beginSessionIo(s, <<s, 0>>, FALSE, "drain")
                /\ UNCHANGED <<nextSessionId, status, tokens, idle, pending, sock>>

processSessionDeadlines ==
  /\ pc \in DeadlinesPc
  /\ UNCHANGED <<batchVars, stopVars, listener, listenVars>>
  /\ \/ /\ scan = {} \/ draining
        /\ pc' = IF pc = "deadlinesTop" THEN "poll" ELSE "dispatch"
        /\ scan' = {} /\ UNCHANGED <<handlerVars, sessionVars>>
     \/ \E s \in scan :
          /\ ~draining /\ scan' = scan \ {s}
          /\ \/ /\ idle[s] = "due"
                /\ closeSession(s, IF status[s] = "connecting" THEN "connect-timeout"
                                                               ELSE "idle-timeout")
                /\ UNCHANGED <<pc, handlerVars>>
             \/ /\ idle[s] # "due" /\ \A d \in Side : end[<<s, d>>].deferred # "due"
                /\ UNCHANGED <<pc, handlerVars, sessionVars>>
             \/ /\ idle[s] # "due" /\ \E d \in Side : end[<<s, d>>].deferred = "due"
                /\ end' = [e \in Endpoint |-> IF e[1] = s THEN clearDue(end[e]) ELSE end[e]]
                /\ IF status[s] = "connecting" THEN skipSessionIo(s, <<s, 0>>, FALSE, pc)
                                               ELSE beginSessionIo(s, <<s, 0>>, FALSE, pc)
                /\ UNCHANGED <<nextSessionId, status, tokens, idle, pending, sock>>
-----------------------------------------------------------------------------
(***************************************************************************)
(* dispatchTcpReadyEvents, acceptClientSessions, dispatchEndpointEvent     *)
(***************************************************************************)

dispatchTcpReadyEvents ==
  /\ pc = "dispatch"
  /\ UNCHANGED <<handlerVars, scan, listenVars, sessionVars>>
  /\ \/ /\ events = {} /\ ~listenReady
        /\ pc' = "top" /\ UNCHANGED <<batchVars, stopVars, listener>>
     \/ /\ events # {} \/ listenReady
        /\ consumeStopSignals /\ stopRequested'
        /\ pc' = "top" /\ events' = {} /\ listenReady' = FALSE /\ UNCHANGED attempts
     \/ /\ listenReady /\ consumeStopSignals /\ ~stopRequested'
        /\ listenReady' = FALSE /\ UNCHANGED <<events, attempts>>
        /\ pc' = IF ~draining' /\ listenerRetry = "due" THEN "accept" ELSE "dispatch"

\* One turn of the accept loop that creates no session.
acceptNothing ==
  /\ pc = "accept"
  /\ UNCHANGED <<handlerVars, scan, events, listenReady, sessionVars, arrived>>
  /\ \/ /\ attempts = AcceptBatch
        /\ pc' = "dispatch" /\ attempts' = 0
        /\ UNCHANGED <<stopVars, listener, listenerRetry, backlog>>
     \/ /\ attempts < AcceptBatch /\ consumeStopSignals
        /\ draining' \/ backlog = 0
        /\ pc' = "dispatch" /\ attempts' = 0 /\ UNCHANGED <<listenerRetry, backlog>>
     \/ \* no descriptor left: back off
        /\ attempts < AcceptBatch /\ ~draining /\ sigs = 0
        /\ listener' = "deferred" /\ listenerRetry' = "armed"
        /\ pc' = "dispatch" /\ attempts' = 0 /\ UNCHANGED <<stopVars, backlog>>
     \/ \* aborted, over capacity, or no eligible backend
        /\ attempts < AcceptBatch /\ consumeStopSignals /\ ~draining' /\ backlog > 0
        /\ backlog' = backlog - 1 /\ attempts' = attempts + 1
        /\ UNCHANGED <<pc, listenerRetry>>

\* connectSessionBackend on the new session: "done" at once, "inprogress", or a
\* socket, connect or epoll_ctl failure that closes it again.
acceptClientSessions ==
  /\ pc = "accept" /\ attempts < AcceptBatch /\ backlog > 0
  /\ consumeStopSignals /\ ~draining'
  /\ Cardinality(Sessions) < MaxSessions
  /\ backlog' = backlog - 1 /\ attempts' = attempts + 1
  /\ nextSessionId' = nextSessionId + 1
  /\ LET s == nextSessionId IN
     \/ /\ status' = [status EXCEPT ![s] = "failure"]
        /\ UNCHANGED <<tokens, idle, end, pending, sock>>
     \/ \E connected \in BOOLEAN :
          /\ status' = [status EXCEPT ![s] = IF connected THEN "established" ELSE "connecting"]
          /\ tokens' = tokens \cup {<<s, d>> : d \in Side}
          /\ sock' = [sock EXCEPT ![<<s, 0>>] = FreshSock(TRUE),
                                  ![<<s, 1>>] = FreshSock(connected)]
          /\ end' = [e \in Endpoint |->
                      IF e[1] = s
                      THEN [end[e] EXCEPT !.interest = wantedInterest(e, end[e], ~connected)]
                      ELSE end[e]]
          /\ UNCHANGED <<idle, pending>>
  /\ UNCHANGED <<pc, handlerVars, scan, events, listenReady, listenerRetry, arrived>>

\* SO_ERROR is read for a finished connect and for EPOLLERR.
ConnectingEvent(ev) ==
  /\ status[ev.end[1]] = "connecting" /\ ev.end[2] = 1 /\ (ev.out \/ ev.err \/ ev.hup)

dispatchEndpointEvent ==
  /\ pc = "dispatch"
  /\ UNCHANGED <<scan, listenReady, attempts, listenVars>>
  /\ consumeStopSignals /\ ~stopRequested'
  /\ \E ev \in events :
       LET e == ev.end
           s == e[1]
           check == ConnectingEvent(ev) \/ ev.err
           connecting == status[s] = "connecting" /\ ~ConnectingEvent(ev)
       IN
       /\ events' = events \ {ev}
       /\ \/ /\ e \notin tokens                               \* stale token
             /\ UNCHANGED <<pc, handlerVars, sessionVars>>
          \/ /\ e \in tokens /\ draining' /\ status[s] = "connecting"
             /\ closeSession(s, "service-stop-connecting") /\ UNCHANGED <<pc, handlerVars>>
          \/ /\ e \in tokens /\ ~(draining' /\ status[s] = "connecting")
             /\ check /\ sock[e].err
             /\ closeSession(s, "failure") /\ UNCHANGED <<pc, handlerVars>>
          \/ /\ e \in tokens /\ ~(draining' /\ status[s] = "connecting")
             /\ ~(check /\ sock[e].err)
             /\ IF ConnectingEvent(ev)
                THEN /\ status' = [status EXCEPT ![s] = "established"]
                     /\ idle' = [idle EXCEPT ![s] = "armed"]
                ELSE UNCHANGED <<status, idle>>
             /\ IF connecting THEN skipSessionIo(s, e, ev.hup, "dispatch")
                              ELSE beginSessionIo(s, e, ev.hup, "dispatch")
             /\ UNCHANGED <<nextSessionId, tokens, end, pending, sock>>
-----------------------------------------------------------------------------
(***************************************************************************)
(* advanceSessionIo: write both directions, read both, write both, then    *)
(* half-close or finish                                                    *)
(***************************************************************************)

frame  == <<ret, cur, curEnd, curHup>>
source == <<cur, dir>>
target == Other(source)

nextDirection ==
  /\ dir' = 1 - dir
  /\ pc' = IF dir = 0 THEN pc
           ELSE CASE pc = "write1" -> "read" [] pc = "read" -> "write2" [] OTHER -> "finish"

failSession == closeSession(cur, "failure") /\ leaveHandler

recordIoProgress == moved' = TRUE /\ idle' = [idle EXCEPT ![cur] = "armed"]

\* What one send or recv can move: a nonempty part of what is there and fits.
sendSizes == {n \in 1..BufferLimit : n <= pending[source] /\ n <= budget[dir]}
MutRecvSizes == {n \in 1..RxCap : n <= sock[source].rx}    \* mutant: room is not checked
recvSizes == {n \in 1..RxCap : n <= sock[source].rx /\ n <= BufferLimit - pending[source]}

\* readSessionDirection pauses the source when n more bytes fill the buffer.
pauses(n) == pending[source] + n = BufferLimit

\* Reading ends with the first stop signal, not only with a forced stop.
MutStopsReading == stopRequested'
stopsReading == draining' \/ stopRequested'

\* After the loop of writeBufferedDirection: resume reading at the low-water mark.
resumeReading ==
  end' = IF ~draining' /\ end[source].paused /\ pending[source] <= LowWater
         THEN [end EXCEPT ![source].paused = FALSE] ELSE end

writeBufferedDirection ==
  LET writing == pending[source] > 0 /\ budget[dir] > 0 IN
  /\ pc \in {"write1", "write2"}
  /\ UNCHANGED <<scan, batchVars, listenVars>>
  /\ \/ \* nothing to send
        /\ ~writing /\ UNCHANGED <<stopVars, listener>>
        /\ resumeReading /\ nextDirection
        /\ UNCHANGED <<frame, moved, budget, nextSessionId, status, tokens, idle, pending, sock>>
     \/ \* forced stop, or the socket is full
        /\ writing /\ consumeStopSignals
        /\ stopRequested' \/ (~sock[target].room /\ ~sock[target].err)
        /\ resumeReading /\ nextDirection
        /\ UNCHANGED <<frame, moved, budget, nextSessionId, status, tokens, idle, pending, sock>>
     \/ /\ writing /\ consumeStopSignals /\ ~stopRequested' /\ sock[target].err
        /\ failSession
     \/ /\ writing /\ consumeStopSignals /\ ~stopRequested'
        /\ sock[target].room /\ ~sock[target].err
        /\ \E n \in sendSizes, room \in BOOLEAN :
             /\ pending' = [pending EXCEPT ![source] = @ - n]
             /\ budget' = [budget EXCEPT ![dir] = @ - n]
             /\ sock' = [sock EXCEPT ![target].room = room]
        /\ recordIoProgress
        /\ UNCHANGED <<frame, pc, dir, nextSessionId, status, tokens, end>>

MutEndOfStream == sock[source].fin     \* mutant: a hang-up is taken for the end, data unread
\* recv returns 0: the peer has finished and everything before its FIN was read.
endOfStream == sock[source].rx = 0 /\ sock[source].fin

\* The read budget equals the buffer's capacity, so it cannot run out before the
\* buffer is full and the source paused: it is left out.
readSessionDirection ==
  LET reading == ~end[source].eof /\ ~end[source].paused
      free == BufferLimit - pending[source] IN
  /\ pc = "read"
  /\ UNCHANGED <<scan, batchVars, listenVars>>
  /\ \/ /\ ~reading /\ nextDirection
        /\ UNCHANGED <<frame, moved, budget, stopVars, listener, sessionVars>>
     \/ \* stopping, no room, or nothing to read
        /\ reading /\ consumeStopSignals
        /\ \/ stopsReading \/ free = 0
           \/ sock[source].rx = 0 /\ ~sock[source].fin /\ ~sock[source].err
        /\ nextDirection /\ UNCHANGED <<frame, moved, budget, sessionVars>>
     \/ /\ reading /\ consumeStopSignals /\ ~stopsReading /\ free > 0
        /\ sock[source].rx = 0 /\ sock[source].err
        /\ failSession
     \/ /\ reading /\ consumeStopSignals /\ ~stopsReading /\ free > 0
        /\ endOfStream /\ ~sock[source].err
        /\ end' = [end EXCEPT ![source].eof = TRUE] /\ nextDirection
        /\ UNCHANGED <<frame, moved, budget, nextSessionId, status, tokens, idle, pending, sock>>
     \/ /\ reading /\ consumeStopSignals /\ ~stopsReading /\ free > 0
        /\ \E n \in recvSizes :
             /\ pending' = [pending EXCEPT ![source] = @ + n]
             /\ sock' = [sock EXCEPT ![source].rx = @ - n]
             /\ end' = [end EXCEPT ![source].paused = pauses(n)]
        /\ recordIoProgress
        /\ UNCHANGED <<frame, pc, dir, budget, nextSessionId, status, tokens>>

MutHalfClosed(e) == end[e].shutdown \/ end[Other(e)].eof  \* mutant: buffer not flushed
\* Who gets its write side shut down now: the target of a finished, flushed source.
halfClosed(e) ==
  end[e].shutdown \/ (end[Other(e)].eof /\ pending[Other(e)] = 0)

finishSessionIo ==
  LET ends == {<<cur, d>> : d \in Side}
      drained == \A e \in ends : pending[e] = 0
      complete == \A e \in ends : end[e].eof /\ halfClosed(e)
  IN
  /\ pc = "finish"
  /\ UNCHANGED <<scan, batchVars, stopVars, listener, listenVars>>
  /\ \/ /\ draining /\ ~drained /\ pc' = "tail" /\ UNCHANGED <<handlerVars, sessionVars>>
     \/ /\ draining /\ drained /\ leaveHandler
        /\ closeSession(cur, IF stopRequested THEN stopReason ELSE "service-stop-drained")
     \/ /\ ~draining /\ complete /\ leaveHandler /\ closeSession(cur, "drained")
     \/ /\ ~draining /\ ~complete /\ pc' = "tail"
        /\ end' = [e \in Endpoint |-> IF e[1] = cur THEN [end[e] EXCEPT !.shutdown = halfClosed(e)]
                                                    ELSE end[e]]
        /\ UNCHANGED <<handlerVars, nextSessionId, status, tokens, idle, pending, sock>>
     \/ \* shutdown(SHUT_WR) fails on a reset socket
        /\ ~draining
        /\ \E e \in ends : halfClosed(e) /\ ~end[e].shutdown /\ sock[e].err
        /\ failSession

\* The end of dispatchEndpointEvent: an unmaskable hang-up without progress is
\* suspended for 100 ms; then the interest masks follow the session's state.
updateSessionInterests ==
  LET suspend(e) == IF curHup /\ ~moved /\ e = curEnd
                    THEN [end[e] EXCEPT !.deferred = "armed"] ELSE end[e]
      update(e)  == [suspend(e) EXCEPT
                       !.interest = wantedInterest(e, suspend(e), status[cur] = "connecting")]
  IN
  /\ pc = "tail" /\ leaveHandler
  /\ UNCHANGED <<scan, batchVars, stopVars, listener, listenVars>>
  /\ \/ /\ end' = [e \in Endpoint |-> IF e[1] = cur THEN update(e) ELSE end[e]]
        /\ UNCHANGED <<nextSessionId, status, tokens, idle, pending, sock>>
     \/ closeSession(cur, "failure")                          \* epoll_ctl failed
-----------------------------------------------------------------------------
(***************************************************************************)
(* Environment: clients, backends, the operator's signals, the clock.      *)
(* EnvPoints lets a run confine peers and session timers to some program   *)
(* points; the theorems hold for every choice.                             *)
(***************************************************************************)

reactorVars == <<pc, handlerVars, scan, batchVars>>
IsConnected(e) == e[2] = 0 \/ status[e[1]] = "established" \/ sock[e].room

ClientConnects ==
  /\ pc \in EnvPoints /\ arrived < MaxClients /\ listener # "closed"
  /\ arrived' = arrived + 1 /\ backlog' = backlog + 1
  /\ UNCHANGED <<reactorVars, stopVars, listener, listenerRetry, sessionVars>>

SockStep(e, next) ==
  /\ pc \in EnvPoints /\ e[1] \in Sessions
  /\ sock' = [sock EXCEPT ![e] = next]
  /\ UNCHANGED <<reactorVars, stopVars, listener, listenVars,
                 nextSessionId, status, tokens, idle, end, pending>>

PeerSends(e) == /\ IsConnected(e) /\ ~sock[e].fin /\ ~sock[e].err /\ sock[e].rx < RxCap
                /\ SockStep(e, [sock[e] EXCEPT !.rx = @ + 1])
PeerFinishes(e) == /\ IsConnected(e) /\ ~sock[e].fin /\ ~sock[e].err
                   /\ SockStep(e, [sock[e] EXCEPT !.fin = TRUE])
PeerReads(e) == /\ IsConnected(e) /\ ~sock[e].room /\ ~sock[e].err
                /\ SockStep(e, [sock[e] EXCEPT !.room = TRUE])
PeerResets(e) == /\ ~sock[e].err /\ Cardinality({d \in Endpoint : sock[d].err}) < MaxResets
                 /\ SockStep(e, [sock[e] EXCEPT !.err = TRUE])
\* The handshake ends: writable on success; refusal is a PeerResets of side 1.
ConnectCompletes(s) == /\ status[s] = "connecting" /\ ~sock[<<s, 1>>].room /\ ~sock[<<s, 1>>].err
                       /\ SockStep(<<s, 1>>, [sock[<<s, 1>>] EXCEPT !.room = TRUE])

StopSignal ==
  /\ sigs < MaxSignals /\ pc # "done" /\ sigs' = sigs + 1
  /\ UNCHANGED <<reactorVars, draining, stopRequested, stopReason, drainTimer, listener,
                 listenVars, sessionVars>>

DeferralElapses(e) ==
  /\ pc \in EnvPoints /\ end[e].deferred = "armed"
  /\ end' = [end EXCEPT ![e].deferred = "due"]
  /\ UNCHANGED <<reactorVars, stopVars, listener, listenVars,
                 nextSessionId, status, tokens, idle, pending, sock>>
IdleElapses(s) ==
  /\ pc \in EnvPoints /\ s \in Sessions /\ idle[s] = "armed" /\ idle' = [idle EXCEPT ![s] = "due"]
  /\ UNCHANGED <<reactorVars, stopVars, listener, listenVars,
                 nextSessionId, status, tokens, end, pending, sock>>
DrainElapses ==
  /\ drainTimer = "armed" /\ drainTimer' = "due"
  /\ UNCHANGED <<reactorVars, draining, stopRequested, stopReason, sigs, listener,
                 listenVars, sessionVars>>
RetryElapses ==
  /\ listenerRetry = "armed" /\ listenerRetry' = "due"
  /\ UNCHANGED <<reactorVars, stopVars, listener, backlog, arrived, sessionVars>>
-----------------------------------------------------------------------------
Reactor ==
  \/ LoopTop \/ EpollWait \/ AfterPoll
  \/ advanceStopDrain \/ processSessionDeadlines
  \/ dispatchTcpReadyEvents \/ acceptNothing \/ acceptClientSessions \/ dispatchEndpointEvent
  \/ writeBufferedDirection \/ readSessionDirection \/ finishSessionIo \/ updateSessionInterests

Environment ==
  \/ ClientConnects \/ StopSignal \/ DrainElapses \/ RetryElapses
  \/ \E e \in Endpoint : \/ PeerSends(e) \/ PeerFinishes(e) \/ PeerReads(e) \/ PeerResets(e)
                         \/ DeferralElapses(e)
  \/ \E s \in SessionId : ConnectCompletes(s) \/ IdleElapses(s)

Terminated == pc = "done" /\ UNCHANGED vars

Next == Reactor \/ EpollInterrupted \/ ServiceError \/ Environment \/ Terminated

Spec == Init /\ [][Next]_vars

\* The reactor thread keeps running and not every wait is interrupted; timers
\* fire; a peer that stays connected keeps reading; a handshake ends.  Nothing
\* obliges peers to send, finish or reset, or the idle timer to expire.  Fairness
\* of what EnvPoints confines is strong, since pc visits those points only now
\* and then.
Fairness ==
  /\ WF_vars(Reactor) /\ SF_vars(EpollWait) /\ WF_vars(DrainElapses) /\ WF_vars(RetryElapses)
  /\ \A e \in Endpoint : SF_vars(DeferralElapses(e)) /\ SF_vars(PeerReads(e))
  /\ \A s \in SessionId : SF_vars(ConnectCompletes(s))

FairSpec == Spec /\ Fairness

\* Stopping asks nothing of the peers.
StopSpec == Spec /\ WF_vars(Reactor) /\ WF_vars(DrainElapses)
-----------------------------------------------------------------------------
(***************************************************************************)
(* Properties                                                              *)
(***************************************************************************)

EndState  == [eof : BOOLEAN, shutdown : BOOLEAN, paused : BOOLEAN,
              interest : Interest, deferred : Timer]
SockState == [rx : 0..RxCap, fin : BOOLEAN, err : BOOLEAN, room : BOOLEAN]

ThreadTypes ==
  /\ pc \in AllPc /\ ret \in {"drain", "dispatch"} \cup DeadlinesPc
  /\ cur \in SessionId /\ curEnd \in Endpoint /\ curHup \in BOOLEAN /\ moved \in BOOLEAN
  /\ dir \in Side /\ budget \in [Side -> 0..BufferLimit] /\ scan \subseteq SessionId
  /\ events \subseteq Event /\ listenReady \in BOOLEAN /\ attempts \in 0..AcceptBatch
StopTypes ==
  /\ draining \in BOOLEAN /\ stopRequested \in BOOLEAN /\ stopReason \in StopReason
  /\ sigs \in 0..MaxSignals /\ drainTimer \in Timer
  /\ listener \in {"listening", "deferred", "closed"}
ListenTypes ==
  /\ listenerRetry \in Timer /\ backlog \in Nat /\ arrived \in 0..MaxClients
  /\ nextSessionId \in Nat \ {0} /\ nextSessionId + backlog <= arrived + 1
TableTypes ==
  /\ status \in [SessionId -> {"none", "connecting", "established"} \cup Reason]
  /\ tokens \subseteq Endpoint /\ idle \in [SessionId -> Timer]
  /\ end \in [Endpoint -> EndState] /\ pending \in [Endpoint -> 0..BufferLimit]
  /\ sock \in [Endpoint -> SockState]

\* Every variable has its type; sessions never outnumber the clients that came.
TypeOK == ThreadTypes /\ StopTypes /\ ListenTypes /\ TableTypes

\* No step works on a session that is gone: the Session& a handler holds, the ids
\* a scan still has to look up with sessions_.at and the tokens epoll can report
\* all belong to sessions in the table, whatever signal arrives in between.
NoDanglingSession ==
  /\ pc \in HandlerPc => cur \in Sessions /\ curEnd[1] = cur /\ cur \notin scan
  /\ pc # "done" => scan \subseteq Sessions
  /\ tokens = {e \in Endpoint : e[1] \in Sessions}
  /\ \A e \in Endpoint : end[e].interest # {} => e \in tokens

\* A FIN never overtakes data and is never followed by any: an endpoint's write
\* side is shut down only once the opposite source ended and its buffer is empty,
\* and that stays so.
HalfCloseInOrder ==
  \A e \in Endpoint : end[e].shutdown => end[Other(e)].eof /\ pending[Other(e)] = 0

\* A source counts as ended only when its peer really finished, and not before the
\* last byte that came ahead of the FIN was read.
EofIsFinal == \A e \in Endpoint : end[e].eof => sock[e].fin /\ sock[e].rx = 0

\* A full buffer has paused its source.  The read loop stops by itself when there is
\* no room; the pause takes EPOLLIN away, which would otherwise be reported again
\* and again for bytes that cannot be read.
FullIsPaused ==
  \A e \in Endpoint : pending[e] = BufferLimit => end[e].paused

\* An end of stream is passed on only when the peer really sent one, and after
\* every byte that came before it; and back-pressure reaches the source.
StreamsInOrder == HalfCloseInOrder /\ EofIsFinal /\ FullIsPaused

\* No lost wakeup.  Whenever the reactor blocks in epoll_wait outside a drain,
\* each direction of each established session has something that restarts it: a
\* source that may be read is polled for input, buffered bytes have their target
\* polled for output (or the endpoint sits out a timer that retries it), a paused
\* source has more than LowWater bytes left, and a finished and flushed source
\* has already been passed on as a half-close.
NoLostWakeup ==
  (pc = "poll" /\ ~draining) =>
    \A e \in Endpoint :
      LET suspended(d) == end[d].deferred # "none" IN
      /\ status[e[1]] = "established" =>
           /\ ~end[e].eof /\ ~end[e].paused => "IN" \in end[e].interest \/ suspended(e)
           /\ pending[e] > 0 => "OUT" \in end[Other(e)].interest \/ suspended(Other(e))
           /\ end[e].paused => pending[e] > LowWater
           /\ end[e].eof /\ pending[e] = 0 => end[Other(e)].shutdown
      /\ status[e[1]] = "connecting" /\ e[2] = 1 => "OUT" \in end[e].interest \/ suspended(e)

Closes(s, reason) == status[s] # reason /\ status'[s] = reason

\* "drained" is reported only for a session that relayed everything: both peers
\* finished, no byte is left in a socket or in a buffer.
DrainedIsComplete ==
  [][\A e \in Endpoint : Closes(e[1], "drained") =>
        sock[e].fin /\ sock[e].rx = 0 /\ pending[e] = 0 /\ ~draining]_vars

\* Once the drain has begun no session is created or connected, no byte more is
\* taken from a peer, and a session ends as "service-stop-drained" only when all
\* that had been taken was delivered.
DrainOnlyFlushes ==
  [][draining =>
       /\ draining' /\ listener' = "closed" /\ nextSessionId' = nextSessionId
       /\ \A e \in Endpoint :
            /\ e[1] \in Sessions' => status'[e[1]] = status[e[1]] /\ pending'[e] <= pending[e]
            /\ Closes(e[1], "service-stop-drained") => pending[e] = 0]_vars

\* The first stop signal makes the reactor return, whatever the peers do: the
\* drain deadline is checked on every path.
StopTerminates == (sigs > 0 \/ draining) ~> (pc = "done")

\* A peer's end of stream is passed on to the other side, or the session ends:
\* neither back-pressure nor a suspended hang-up strands it.
HalfClosePropagates ==
  \A e \in Endpoint :
    (e[1] \in Sessions /\ sock[e].fin) ~> (e[1] \notin Sessions \/ end[Other(e)].shutdown)

\* A listener that backed off for lack of descriptors accepts again.
ListenerRecovers == (listener = "deferred") ~> (listener # "deferred" \/ pc = "done")
=============================================================================
