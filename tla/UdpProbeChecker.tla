--------------------------- MODULE UdpProbeChecker ---------------------------
(***************************************************************************)
(* The UDP echo prober of the runtime DSR mode                             *)
(* (src/health/UdpProbeChecker.cpp).                                       *)
(*                                                                         *)
(* A poll sends the probes that are due and then reads the targets'        *)
(* sockets, one datagram per call, under a budget that all targets share.  *)
(* Answers, strays and the clock come between any two of the calls.  Of a  *)
(* datagram matters only whether it carries the token drawn last for its   *)
(* socket, and of the clock how long ago that probe was due to be sent.    *)
(***************************************************************************)
EXTENDS Naturals, Sequences

CONSTANTS
  N,              \* targets of the configuration
  Noisy,          \* the targets that send more than the answers they owe
  ReceiveBudget,  \* kReceiveBudget: datagrams and errors that one poll handles
  QueueSize,      \* datagrams that a socket holds
  Timeout,        \* kTimeout and kInterval, in ticks of the clock
  Interval

ASSUME ProbeBounds ==
  /\ N \in Nat \ {0} /\ ReceiveBudget \in Nat \ {0} /\ QueueSize \in Nat \ {0}
  /\ Timeout \in Nat \ {0} /\ Interval \in Nat /\ Timeout < Interval
  /\ Noisy \subseteq 0 .. N - 1

Target   == 0 .. N - 1
Status   == {"Unknown", "Healthy", "Unhealthy"}
Datagram == {"reply", "stray"}       \* with the last token; any other one

VARIABLES
  pc,              \* idle, in receivePendingProbeReplies, or cancelled
  snapshot,        \* state and counters of each target
  awaiting,        \* awaitingReply
  age,             \* time since the pollTime of the last probe, up to Interval
  queue,           \* what the kernel holds for each socket
  receiveCursor, offset, events,
  answered,        \* history: the target answered the probe that is awaited
  passed           \* history: polls that left an answer within the budget unread

pollVars == <<pc, receiveCursor, offset, events>>
vars == <<pollVars, snapshot, awaiting, age, queue, answered, passed>>

Fresh == [status |-> "Unknown", successes |-> 0, failures |-> 0]

\* The constructor without previous snapshots: sockets open, probes due at once.
Init ==
  /\ pc = "idle" /\ receiveCursor = 0 /\ offset = 0 /\ events = 0
  /\ snapshot = [t \in Target |-> Fresh] /\ awaiting = [t \in Target |-> FALSE]
  /\ age = [t \in Target |-> Interval] /\ queue = [t \in Target |-> <<>>]
  /\ answered = [t \in Target |-> FALSE] /\ passed = [t \in Target |-> 0]
-----------------------------------------------------------------------------
(***************************************************************************)
(* Results                                                                 *)
(***************************************************************************)

Least(m, n) == IF m < n THEN m ELSE n

\* Mutant: a success does not break a run of failures.
MutKeepFailures(s, success) ==
  IF success
  THEN LET n == Least(s.successes + 1, 2)
       IN [s EXCEPT !.successes = n, !.status = IF n = 2 THEN "Healthy" ELSE @]
  ELSE LET n == Least(s.failures + 1, 3)
       IN [status |-> IF n = 3 THEN "Unhealthy" ELSE s.status, successes |-> 0, failures |-> n]

\* Mutant: the third failure in a row is not reached.
MutTwoAtMost(s, success) ==
  IF success
  THEN LET n == Least(s.successes + 1, 2)
       IN [status |-> IF n = 2 THEN "Healthy" ELSE s.status, successes |-> n, failures |-> 0]
  ELSE LET n == Least(s.failures + 1, 2)
       IN [status |-> IF n = 3 THEN "Unhealthy" ELSE s.status, successes |-> 0, failures |-> n]

\* What completeProbeResult makes of a target's snapshot.
completed(s, success) ==
  IF success
  THEN LET n == Least(s.successes + 1, 2)
       IN [status |-> IF n = 2 THEN "Healthy" ELSE s.status, successes |-> n, failures |-> 0]
  ELSE LET n == Least(s.failures + 1, 3)
       IN [status |-> IF n = 3 THEN "Unhealthy" ELSE s.status, successes |-> 0, failures |-> n]

completeProbeResult(t, success) ==
  /\ awaiting' = [awaiting EXCEPT ![t] = FALSE]
  /\ snapshot' = [snapshot EXCEPT ![t] = completed(@, success)]
  /\ answered' = [answered EXCEPT ![t] = FALSE] /\ passed' = [passed EXCEPT ![t] = 0]

\* generateProbePacket: no token is drawn twice, so whatever the socket still
\* holds is an answer to something else.
generateProbePacket(t) == [i \in DOMAIN queue[t] |-> "stray"]

\* An exception: all probes are cancelled and their sockets closed, for good.
cancelAllProbes ==
  /\ pc' = "cancelled" /\ awaiting' = [t \in Target |-> FALSE]
  /\ queue' = [t \in Target |-> <<>>] /\ offset' = 0 /\ events' = 0
  /\ answered' = [t \in Target |-> FALSE] /\ passed' = [t \in Target |-> 0]
  /\ UNCHANGED <<snapshot, age, receiveCursor>>
-----------------------------------------------------------------------------
(***************************************************************************)
(* pollProbeTransitions                                                    *)
(***************************************************************************)

Expired(t) == awaiting[t] /\ age[t] >= Timeout
Due        == {t \in Target : age[t] >= Interval}

\* Targets whose answer lies within the budget as the poll starts.
Readable == {t \in Target :
  awaiting[t] /\ \E i \in DOMAIN queue[t] : i <= ReceiveBudget /\ queue[t][i] = "reply"}

\* The clock is read once.  A probe whose deadline has come fails, even if the
\* answer is there; each target whose time has come gets a new probe, which
\* fails at once if it cannot be sent.  The loop looks at no socket's queue, so
\* it is a single step.
sendDueProbePackets ==
  \E unsent \in SUBSET Due :
    LET expire(t) == IF Expired(t) THEN completed(snapshot[t], FALSE) ELSE snapshot[t]
    IN /\ snapshot' = [t \in Target |->
                         IF t \in unsent THEN completed(expire(t), FALSE) ELSE expire(t)]
       /\ awaiting' = [t \in Target |->
                         IF t \in Due THEN t \notin unsent ELSE awaiting[t] /\ ~Expired(t)]
       /\ age' = [t \in Target |-> IF t \in Due THEN 0 ELSE age[t]]
       /\ queue' = [t \in Target |-> IF t \in Due THEN generateProbePacket(t) ELSE queue[t]]
       /\ answered' = [t \in Target |-> t \notin Due /\ answered[t] /\ ~Expired(t)]
       /\ passed' = [t \in Target |-> IF t \in Due \/ Expired(t) THEN 0
                                      ELSE IF t \in Readable THEN passed[t] + 1 ELSE 0]

pollProbeTransitions ==
  /\ pc = "idle" /\ pc' = "receive" /\ offset' = 0 /\ events' = 0
  /\ sendDueProbePackets /\ UNCHANGED receiveCursor

\* The k-th target in the order of this poll, which starts at the cursor.
Place(k) == (receiveCursor + k) % N

\* The loop is at its k-th target: those before it have had their turn, or await
\* no reply.
atTarget(k) ==
  /\ pc = "receive" /\ events < ReceiveBudget /\ awaiting[Place(k)] /\ offset <= k
  /\ \A j \in offset .. k - 1 : ~awaiting[Place(j)]

MutLateIsFine(t) == FALSE             \* mutant: the completion clock is not read
deadlinePassed(t) == age[t] >= Timeout

\* receiveProbePacket: the next datagram, if any; anything but EAGAIN counts.
takeDatagram(t) ==
  /\ queue' = [queue EXCEPT ![t] = IF @ = <<>> THEN @ ELSE Tail(@)]
  /\ events' = IF queue[t] = <<>> THEN events ELSE events + 1

\* The clock is read after the call, and a deadline that has come by then beats
\* what was read.  A stray is ignored, and the loop stays at the target.
receiveProbePacket(k) ==
  /\ atTarget(k) /\ takeDatagram(Place(k))
  /\ LET t == Place(k) IN
     \/ deadlinePassed(t) /\ completeProbeResult(t, FALSE) /\ offset' = k + 1
     \/ /\ ~deadlinePassed(t) /\ queue[t] = <<>> /\ offset' = k + 1
        /\ UNCHANGED <<snapshot, awaiting, answered, passed>>
     \/ /\ ~deadlinePassed(t) /\ queue[t] # <<>> /\ Head(queue[t]) = "reply"
        /\ completeProbeResult(t, TRUE) /\ offset' = k + 1
     \/ /\ ~deadlinePassed(t) /\ queue[t] # <<>> /\ Head(queue[t]) = "stray"
        /\ offset' = k /\ UNCHANGED <<snapshot, awaiting, answered, passed>>
  /\ UNCHANGED <<pc, receiveCursor, age>>

\* The socket reports an error, such as a port that is closed.
receiveError(k) ==
  /\ atTarget(k) /\ completeProbeResult(Place(k), FALSE)
  /\ offset' = k + 1 /\ events' = events + 1
  /\ UNCHANGED <<pc, receiveCursor, age, queue>>

\* EINTR: the call is made again and counts, so no poll lasts for ever.
receiveInterrupted(k) ==
  /\ atTarget(k) /\ ~deadlinePassed(Place(k)) /\ offset' = k /\ events' = events + 1
  /\ passed' = [t \in Target |-> 0]
  /\ UNCHANGED <<pc, receiveCursor, snapshot, awaiting, age, queue, answered>>

MutNoRotation == UNCHANGED receiveCursor      \* mutant: every poll starts at the first target
advanceCursor == receiveCursor' = (receiveCursor + 1) % N

endPoll ==
  /\ pc = "receive" /\ ~\E k \in 0 .. N - 1 : atTarget(k)
  /\ pc' = "idle" /\ offset' = 0 /\ events' = 0 /\ advanceCursor
  /\ UNCHANGED <<snapshot, awaiting, age, queue, answered, passed>>

\* A clock that ran backwards, a partial send, a bad descriptor, no token left.
pollFails == pc \in {"idle", "receive"} /\ cancelAllProbes
-----------------------------------------------------------------------------
(***************************************************************************)
(* Reloads                                                                 *)
(***************************************************************************)

importable(s) ==
  s.successes <= 2 /\ s.failures <= 3 /\ ~(s.successes > 0 /\ s.failures > 0)

\* A reload replaces the checker between two polls.  The targets that kept
\* their identity keep their snapshot; the constructor throws, and the old
\* checker stays, if it does not accept one of them.  The new sockets have
\* nothing to read yet.
replaceChecker ==
  /\ pc = "idle"
  /\ \E same \in SUBSET Target :
       /\ \A t \in same : importable(snapshot[t])
       /\ snapshot' = [t \in Target |-> IF t \in same THEN snapshot[t] ELSE Fresh]
  /\ awaiting' = [t \in Target |-> FALSE] /\ age' = [t \in Target |-> Interval]
  /\ queue' = [t \in Target |-> <<>>] /\ receiveCursor' = 0
  /\ answered' = [t \in Target |-> FALSE] /\ passed' = [t \in Target |-> 0]
  /\ UNCHANGED <<pc, offset, events>>
-----------------------------------------------------------------------------
(***************************************************************************)
(* Environment: the targets, the network and the clock                     *)
(***************************************************************************)

Arrives(t, d) ==
  pc # "cancelled" /\ Len(queue[t]) < QueueSize /\ queue' = [queue EXCEPT ![t] = Append(@, d)]

\* The target's answer to the last probe arrives, perhaps once more.
Answer(t) ==
  /\ awaiting[t] /\ Arrives(t, "reply") /\ answered' = [answered EXCEPT ![t] = TRUE]
  /\ UNCHANGED <<pollVars, snapshot, awaiting, age, passed>>

\* Something else arrives: noise, or the answer to an earlier probe.
Stray(t) ==
  /\ Arrives(t, "stray")
  /\ UNCHANGED <<pollVars, snapshot, awaiting, age, answered, passed>>

Tick ==
  /\ pc # "cancelled" /\ \E t \in Target : age[t] < Interval
  /\ age' = [t \in Target |-> Least(age[t] + 1, Interval)]
  /\ UNCHANGED <<pollVars, snapshot, awaiting, queue, answered, passed>>

Checker ==
  \/ pollProbeTransitions \/ endPoll
  \/ \E k \in 0 .. N - 1 : receiveProbePacket(k) \/ receiveError(k) \/ receiveInterrupted(k)

Next ==
  \/ Checker \/ pollFails \/ replaceChecker \/ Tick
  \/ \E t \in Target : Answer(t)
  \/ \E t \in Noisy : Stray(t)

Spec == Init /\ [][Next]_vars

\* The control loop polls in every round, and time passes.
FairSpec == Spec /\ WF_vars(Checker) /\ WF_vars(Tick)
-----------------------------------------------------------------------------
(***************************************************************************)
(* Properties                                                              *)
(***************************************************************************)

\* Every variable has its type.
TypeOK ==
  /\ pc \in {"idle", "receive", "cancelled"}
  /\ receiveCursor \in Target /\ offset \in 0 .. N /\ events \in 0 .. ReceiveBudget
  /\ snapshot \in [Target -> [status : Status, successes : 0..2, failures : 0..3]]
  /\ awaiting \in [Target -> BOOLEAN] /\ age \in [Target -> 0 .. Interval]
  /\ queue \in [Target -> Seq(Datagram)]
  /\ answered \in [Target -> BOOLEAN] /\ passed \in [Target -> Nat]

Succeeds(t) == pc' = "receive" /\ awaiting[t] /\ ~awaiting'[t] /\ snapshot'[t].successes > 0

\* A probe succeeds only if its target answered this very probe, and the answer
\* was read before the deadline: not on a late, duplicated or delayed answer to
\* an earlier probe, and not on one that was read in time but compared late.
SuccessIsCurrent ==
  [][\A t \in Target : Succeeds(t) => answered[t] /\ age[t] < Timeout]_vars

\* An answer that lies within the budget of its socket is read in one of the next
\* N polls at the latest, or its deadline comes: a target whose socket is flooded
\* cannot keep the checker from the others.  Polls count from the last interrupted
\* receive, as one that is interrupted spends budget and may read nothing.
AnswersAreRead == \A t \in Target : passed[t] <= N

\* The checker that a reload creates accepts whatever the old one recorded.
SnapshotsAreImportable == \A t \in Target : importable(snapshot[t])

\* A target that answers no more leaves the set of healthy targets, however many
\* strays it sends and however often the configuration is reloaded in between,
\* unless the reloads never end or the checker breaks down.
DeadTargetLeaves ==
  \A t \in Target :
    <>[][~Answer(t) /\ ~replaceChecker]_vars
      => <>[](snapshot[t].status # "Healthy" \/ pc = "cancelled")
==============================================================================
