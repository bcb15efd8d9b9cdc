------------------------ MODULE UdpProbeCheckerProofs ------------------------
(***************************************************************************)
(* The UDP prober counts only answers to the probe that is awaited, reads  *)
(* every answer in bounded time under its shared budget, and records       *)
(* nothing that a reload would refuse, for any number of targets, budget,  *)
(* clock and noise.                                                        *)
(***************************************************************************)
EXTENDS UdpProbeChecker, TLAPS

Snapshot == [status : Status, successes : 0..2, failures : 0..3]

\* An answer on the socket of an awaited probe is an answer to this probe: a new
\* token turns what an earlier probe left there into strays.
RepliesAreCurrent ==
  \A t \in Target : awaiting[t] /\ (\E i \in DOMAIN queue[t] : queue[t][i] = "reply") => answered[t]

\* Places between the cursor and t, the polls until t is the first one read.
Distance(c, t) == IF t >= c THEN t - c ELSE t - c + N

\* A target that was passed over p times is at most N - 1 - p polls from its turn;
\* a poll that has begun has counted already but not moved the cursor.
Approaches ==
  \A t \in Target :
    passed[t] + Distance(receiveCursor, t) <= IF pc = "receive" THEN N ELSE N - 1

\* The answer of t lies within what is left of the budget.
WithinBudget(t) == \E i \in DOMAIN queue[t] : queue[t][i] = "reply" /\ events + i <= ReceiveBudget

\* In the poll that starts with it, a target whose answer counts as passed over
\* has the whole budget for itself: the poll cannot end before the answer is read.
FirstIsServed ==
  pc = "receive" /\ passed[receiveCursor] > 0 =>
    awaiting[receiveCursor] /\ offset = 0 /\ WithinBudget(receiveCursor)

Inv == TypeOK /\ SnapshotsAreImportable /\ RepliesAreCurrent /\ Approaches /\ FirstIsServed
-----------------------------------------------------------------------------
(***************************************************************************)
(* Results and places                                                      *)
(***************************************************************************)

\* completeProbeResult starts the other count anew, so a snapshot never shows a
\* run of successes and one of failures.
LEMMA Completion ==
  ASSUME NEW s \in Snapshot, NEW success \in BOOLEAN
  PROVE  /\ completed(s, success) \in Snapshot /\ importable(completed(s, success))
         /\ ~success => completed(s, success).successes = 0
  BY DEF Snapshot, Status, completed, importable, Least

\* The distance to a target's turn is below N, and 0 for the target whose turn it is.
LEMMA DistanceRange ==
  ASSUME NEW c \in Target, NEW t \in Target
  PROVE  Distance(c, t) \in 0 .. N - 1 /\ (Distance(c, t) = 0 <=> t = c)
  BY ProbeBounds DEF Distance, Target

\* Each poll brings the turn of every target nearer but that of the one it began with.
LEMMA CursorMoves ==
  ASSUME NEW c \in Target, NEW t \in Target
  PROVE  /\ (c + 1) % N \in Target
         /\ t # c => Distance((c + 1) % N, t) = Distance(c, t) - 1
  BY ProbeBounds DEF Distance, Target

\* The receive loop visits targets, the cursor's first.
LEMMA PlaceIsTarget ==
  ASSUME receiveCursor \in Target, NEW k \in 0 .. N - 1
  PROVE  Place(k) \in Target /\ Place(0) = receiveCursor
  BY ProbeBounds DEF Place, Target

\* As long as the first target awaits its answer, the loop is at no other one.
LEMMA FirstComesFirst ==
  ASSUME TypeOK, NEW k \in 0 .. N - 1, atTarget(k), offset = 0, awaiting[receiveCursor]
  PROVE  k = 0
<1>1. receiveCursor \in Target
  BY DEF TypeOK
<1>2. SUFFICES ASSUME k # 0 PROVE FALSE
  OBVIOUS
<1>3. 0 \in offset .. k - 1
  BY <1>2, ProbeBounds
<1>4. ~awaiting[Place(0)]
  BY <1>3 DEF atTarget
<1> QED
  BY <1>1, <1>4, PlaceIsTarget
-----------------------------------------------------------------------------
(***************************************************************************)
(* Types and snapshots                                                     *)
(***************************************************************************)

\* A completed probe leaves a snapshot that an import accepts.
LEMMA CompleteTypes ==
  ASSUME TypeOK, SnapshotsAreImportable, NEW t \in Target, NEW success \in BOOLEAN,
         completeProbeResult(t, success)
  PROVE  /\ snapshot' \in [Target -> Snapshot] /\ awaiting' \in [Target -> BOOLEAN]
         /\ answered' \in [Target -> BOOLEAN] /\ passed' \in [Target -> Nat]
         /\ SnapshotsAreImportable'
<1>1. snapshot \in [Target -> Snapshot]
  BY DEF TypeOK, Snapshot
<1>2. completed(snapshot[t], success) \in Snapshot /\ importable(completed(snapshot[t], success))
  BY <1>1, Completion
<1>3. snapshot' = [snapshot EXCEPT ![t] = completed(snapshot[t], success)]
  BY DEF completeProbeResult
<1>4. snapshot' \in [Target -> Snapshot] /\ SnapshotsAreImportable'
  BY <1>1, <1>2, <1>3 DEF SnapshotsAreImportable
<1> QED
  BY <1>4 DEF TypeOK, completeProbeResult

\* Expiring and sending probes leave snapshots that an import accepts.
LEMMA PollTypes ==
  ASSUME TypeOK, SnapshotsAreImportable, pollProbeTransitions
  PROVE  TypeOK' /\ SnapshotsAreImportable'
<1>1. snapshot \in [Target -> Snapshot]
  BY DEF TypeOK, Snapshot
<1> DEFINE expire(t) == IF Expired(t) THEN completed(snapshot[t], FALSE) ELSE snapshot[t]
<1>2. PICK unsent \in SUBSET Due :
        /\ snapshot' = [t \in Target |->
                          IF t \in unsent THEN completed(expire(t), FALSE) ELSE expire(t)]
        /\ awaiting' = [t \in Target |->
                          IF t \in Due THEN t \notin unsent ELSE awaiting[t] /\ ~Expired(t)]
        /\ age' = [t \in Target |-> IF t \in Due THEN 0 ELSE age[t]]
        /\ queue' = [t \in Target |-> IF t \in Due THEN generateProbePacket(t) ELSE queue[t]]
        /\ answered' = [t \in Target |-> t \notin Due /\ answered[t] /\ ~Expired(t)]
        /\ passed' = [t \in Target |-> IF t \in Due \/ Expired(t) THEN 0
                                       ELSE IF t \in Readable THEN passed[t] + 1 ELSE 0]
  BY DEF pollProbeTransitions, sendDueProbePackets
<1>3. ASSUME NEW t \in Target
      PROVE  expire(t) \in Snapshot /\ importable(expire(t))
  BY <1>1, Completion DEF SnapshotsAreImportable
<1>4. ASSUME NEW t \in Target
      PROVE  snapshot'[t] \in Snapshot /\ importable(snapshot'[t])
  <2>1. snapshot'[t] = IF t \in unsent THEN completed(expire(t), FALSE) ELSE expire(t)
    BY <1>2
  <2>2. completed(expire(t), FALSE) \in Snapshot /\ importable(completed(expire(t), FALSE))
    BY <1>3, Completion
  <2> QED
    BY <1>3, <2>1, <2>2
<1>5. snapshot' \in [Target -> Snapshot]
  BY <1>2, <1>4
<1>6. ASSUME NEW t \in Target
      PROVE  generateProbePacket(t) \in Seq(Datagram)
  BY DEF TypeOK, generateProbePacket, Datagram
<1>7. queue' \in [Target -> Seq(Datagram)]
  BY <1>2, <1>6 DEF TypeOK
<1>8. age' \in [Target -> 0 .. Interval] /\ passed' \in [Target -> Nat]
  BY <1>2, ProbeBounds DEF TypeOK
<1>9. awaiting' \in [Target -> BOOLEAN] /\ answered' \in [Target -> BOOLEAN]
  BY <1>2
<1>10. pc' \in {"idle", "receive", "cancelled"} /\ receiveCursor' \in Target
         /\ offset' \in 0 .. N /\ events' \in 0 .. ReceiveBudget
  BY ProbeBounds DEF TypeOK, pollProbeTransitions
<1> QED
  BY <1>4, <1>5, <1>7, <1>8, <1>9, <1>10 DEF TypeOK, Snapshot, SnapshotsAreImportable

-----------------------------------------------------------------------------
(***************************************************************************)
(* The steps                                                               *)
(***************************************************************************)

\* A poll begins with all of the budget for the target under the cursor.
LEMMA PollStep ==
  ASSUME Inv, pollProbeTransitions
  PROVE  Inv'
<1>1. TypeOK' /\ SnapshotsAreImportable'
  BY PollTypes DEF Inv
<1>2. /\ pc = "idle" /\ pc' = "receive" /\ offset' = 0 /\ events' = 0
      /\ receiveCursor' = receiveCursor /\ receiveCursor \in Target
  BY DEF Inv, TypeOK, pollProbeTransitions
<1>3. PICK unsent \in SUBSET Due :
        /\ awaiting' = [t \in Target |->
                          IF t \in Due THEN t \notin unsent ELSE awaiting[t] /\ ~Expired(t)]
        /\ queue' = [t \in Target |-> IF t \in Due THEN generateProbePacket(t) ELSE queue[t]]
        /\ answered' = [t \in Target |-> t \notin Due /\ answered[t] /\ ~Expired(t)]
        /\ passed' = [t \in Target |-> IF t \in Due \/ Expired(t) THEN 0
                                       ELSE IF t \in Readable THEN passed[t] + 1 ELSE 0]
  BY DEF pollProbeTransitions, sendDueProbePackets
<1>4. ASSUME NEW t \in Target, awaiting'[t], NEW i \in DOMAIN queue'[t], queue'[t][i] = "reply"
      PROVE  answered'[t]
  <2>1. CASE t \in Due
    <3>1. queue'[t] = [j \in DOMAIN queue[t] |-> "stray"]
      BY <1>3, <2>1 DEF generateProbePacket
    <3> QED
      BY <1>4, <3>1
  <2>2. CASE t \notin Due
    <3>1. queue'[t] = queue[t] /\ awaiting[t] /\ ~Expired(t)
      BY <1>3, <1>4, <2>2
    <3>2. answered[t]
      BY <1>4, <3>1 DEF Inv, RepliesAreCurrent
    <3> QED
      BY <1>3, <2>2, <3>1, <3>2
  <2> QED
    BY <2>1, <2>2
<1>5. Approaches'
  <2>1. ASSUME NEW t \in Target
        PROVE  passed'[t] + Distance(receiveCursor, t) <= N
    <3>1. passed[t] + Distance(receiveCursor, t) <= N - 1 /\ passed[t] \in Nat
      BY <1>2 DEF Inv, Approaches, TypeOK
    <3>2. Distance(receiveCursor, t) \in 0 .. N - 1
      BY <1>2, DistanceRange
    <3>3. passed'[t] \in {0, passed[t] + 1}
      BY <1>3
    <3> QED
      BY <3>1, <3>2, <3>3, ProbeBounds
  <2> QED
    BY <1>2, <2>1 DEF Approaches
<1>6. FirstIsServed'
  <2>1. SUFFICES ASSUME passed'[receiveCursor] > 0
                 PROVE  awaiting'[receiveCursor] /\ WithinBudget(receiveCursor)'
    BY <1>2 DEF FirstIsServed
  <2>2. receiveCursor \in Readable /\ receiveCursor \notin Due /\ ~Expired(receiveCursor)
    BY <1>2, <1>3, <2>1
  <2>3. queue'[receiveCursor] = queue[receiveCursor] /\ awaiting'[receiveCursor]
    BY <1>2, <1>3, <2>2 DEF Readable
  <2>4. PICK i \in DOMAIN queue[receiveCursor] : i <= ReceiveBudget /\ queue[receiveCursor][i] = "reply"
    BY <2>2 DEF Readable
  <2>5. i \in Nat
    BY <1>2, <2>4 DEF Inv, TypeOK
  <2> QED
    BY <1>2, <2>3, <2>4, <2>5 DEF WithinBudget
<1> QED
  BY <1>1, <1>4, <1>5, <1>6 DEF Inv, RepliesAreCurrent

\* A result for the target at hand ends its turn, and its wait.
LEMMA CompleteStep ==
  ASSUME Inv, NEW k \in 0 .. N - 1, atTarget(k), NEW success \in BOOLEAN,
         completeProbeResult(Place(k), success), offset' = k + 1,
         events' \in 0 .. ReceiveBudget, queue' \in [Target -> Seq(Datagram)],
         \A u \in Target : u # Place(k) => queue'[u] = queue[u],
         UNCHANGED <<pc, receiveCursor, age>>
  PROVE  Inv'
<1> DEFINE t == Place(k)
<1>1. receiveCursor \in Target /\ t \in Target /\ pc = "receive" /\ awaiting[t]
  BY PlaceIsTarget DEF Inv, TypeOK, atTarget
<1>2. /\ snapshot' \in [Target -> Snapshot] /\ awaiting' \in [Target -> BOOLEAN]
      /\ answered' \in [Target -> BOOLEAN] /\ passed' \in [Target -> Nat]
      /\ SnapshotsAreImportable'
  BY <1>1, CompleteTypes DEF Inv
<1>3. TypeOK'
  BY <1>2, ProbeBounds DEF Inv, TypeOK, Snapshot
<1>4. /\ ~awaiting'[t] /\ passed'[t] = 0
      /\ \A u \in Target : u # t =>
           awaiting'[u] = awaiting[u] /\ answered'[u] = answered[u] /\ passed'[u] = passed[u]
  BY <1>1 DEF completeProbeResult, Inv, TypeOK
<1>5. RepliesAreCurrent'
  BY <1>4 DEF Inv, RepliesAreCurrent
<1>6. Approaches'
  <2>1. ASSUME NEW u \in Target
        PROVE  passed'[u] + Distance(receiveCursor, u) <= N
    <3>1. passed'[u] = 0 \/ passed'[u] = passed[u]
      BY <1>4
    <3>2. passed[u] + Distance(receiveCursor, u) <= N
      BY <1>1 DEF Inv, Approaches
    <3>3. Distance(receiveCursor, u) \in 0 .. N - 1
      BY <1>1, DistanceRange
    <3> QED
      BY <3>1, <3>2, <3>3, ProbeBounds
  <2> QED
    BY <1>1, <2>1 DEF Approaches
<1>7. FirstIsServed'
  <2>1. SUFFICES ASSUME passed'[receiveCursor] > 0 PROVE FALSE
    BY DEF FirstIsServed
  <2>2. receiveCursor # t /\ passed[receiveCursor] > 0
    BY <1>1, <1>4, <2>1
  <2>3. k = 0
    BY <1>1, <2>2, FirstComesFirst DEF Inv, FirstIsServed
  <2> QED
    BY <1>1, <2>2, <2>3, PlaceIsTarget
<1> QED
  BY <1>2, <1>3, <1>5, <1>6, <1>7 DEF Inv

\* A datagram that is taken leaves the others in their order.
LEMMA Taken ==
  ASSUME TypeOK, NEW t \in Target, events < ReceiveBudget, takeDatagram(t)
  PROVE  /\ queue' \in [Target -> Seq(Datagram)] /\ events' \in 0 .. ReceiveBudget
         /\ \A u \in Target : u # t => queue'[u] = queue[u]
         /\ queue'[t] = IF queue[t] = <<>> THEN <<>> ELSE Tail(queue[t])
<1>1. queue[t] \in Seq(Datagram) /\ (queue[t] # <<>> => Tail(queue[t]) \in Seq(Datagram))
  BY DEF TypeOK
<1>2. queue' = [queue EXCEPT ![t] = IF queue[t] = <<>> THEN <<>> ELSE Tail(queue[t])]
  BY DEF takeDatagram
<1> QED
  BY <1>1, <1>2, ProbeBounds DEF TypeOK, takeDatagram

\* A datagram is read from one target's queue within the budget.
LEMMA ReceiveStep ==
  ASSUME Inv, NEW k \in 0 .. N - 1, receiveProbePacket(k)
  PROVE  Inv'
<1> DEFINE t == Place(k)
<1>1. /\ receiveCursor \in Target /\ t \in Target /\ pc = "receive" /\ awaiting[t]
      /\ events < ReceiveBudget /\ atTarget(k) /\ queue[t] \in Seq(Datagram)
  BY PlaceIsTarget DEF Inv, TypeOK, atTarget, receiveProbePacket
<1>2. /\ queue' \in [Target -> Seq(Datagram)] /\ events' \in 0 .. ReceiveBudget
      /\ \A u \in Target : u # t => queue'[u] = queue[u]
      /\ queue'[t] = IF queue[t] = <<>> THEN <<>> ELSE Tail(queue[t])
  BY <1>1, Taken DEF Inv, receiveProbePacket
<1>3. UNCHANGED <<pc, receiveCursor, age>>
  BY DEF receiveProbePacket
<1>4. ASSUME NEW success \in BOOLEAN, completeProbeResult(t, success), offset' = k + 1
      PROVE  Inv'
  BY <1>1, <1>2, <1>3, <1>4, CompleteStep
<1>5. CASE queue[t] = <<>> /\ offset' = k + 1 /\ UNCHANGED <<snapshot, awaiting, answered, passed>>
  <2>1. \A u \in Target : queue'[u] = queue[u]
    BY <1>2, <1>5
  <2>2. TypeOK'
    BY <1>2, <1>3, <1>5, ProbeBounds DEF Inv, TypeOK
  <2>3. RepliesAreCurrent'
    BY <1>5, <2>1 DEF Inv, RepliesAreCurrent
  <2>4. passed[receiveCursor] = 0
    <3>1. SUFFICES ASSUME passed[receiveCursor] # 0 PROVE FALSE
      OBVIOUS
    <3>2. awaiting[receiveCursor] /\ offset = 0 /\ WithinBudget(receiveCursor)
      BY <1>1, <3>1 DEF Inv, TypeOK, FirstIsServed
    <3>3. receiveCursor = t
      BY <1>1, <3>2, FirstComesFirst, PlaceIsTarget DEF Inv
    <3> QED
      BY <1>5, <3>2, <3>3 DEF WithinBudget
  <2> QED
    BY <1>3, <1>5, <2>2, <2>3, <2>4 DEF Inv, SnapshotsAreImportable, Approaches, FirstIsServed
<1>6. CASE /\ queue[t] # <<>> /\ Head(queue[t]) = "stray"
           /\ offset' = k /\ UNCHANGED <<snapshot, awaiting, answered, passed>>
  <2>1. TypeOK'
    BY <1>2, <1>3, <1>6, ProbeBounds DEF Inv, TypeOK
  <2>2. ASSUME NEW i \in DOMAIN queue'[t]
        PROVE  i + 1 \in DOMAIN queue[t] /\ queue'[t][i] = queue[t][i + 1]
    BY <1>1, <1>2, <1>6
  <2>3. RepliesAreCurrent'
    BY <1>2, <1>6, <2>2 DEF Inv, RepliesAreCurrent
  <2>4. ASSUME passed[receiveCursor] > 0
        PROVE  offset' = 0 /\ awaiting[receiveCursor] /\ WithinBudget(receiveCursor)'
    <3>1. awaiting[receiveCursor] /\ offset = 0 /\ WithinBudget(receiveCursor)
      BY <1>1, <2>4 DEF Inv, FirstIsServed
    <3>2. k = 0 /\ receiveCursor = t
      BY <1>1, <3>1, FirstComesFirst, PlaceIsTarget DEF Inv
    <3>3. PICK i \in DOMAIN queue[t] : queue[t][i] = "reply" /\ events + i <= ReceiveBudget
      BY <3>1, <3>2 DEF WithinBudget
    <3>4. i # 1 /\ i \in Nat /\ events \in Nat
      BY <1>1, <1>6, <3>3 DEF Inv, TypeOK
    <3>5. i - 1 \in DOMAIN queue'[t] /\ queue'[t][i - 1] = "reply"
      BY <1>1, <1>2, <1>6, <3>3, <3>4
    <3>6. events' = events + 1
      BY <1>6 DEF receiveProbePacket, takeDatagram
    <3> QED
      BY <1>3, <1>6, <3>1, <3>2, <3>3, <3>4, <3>5, <3>6 DEF WithinBudget
  <2> QED
    BY <1>3, <1>6, <2>1, <2>3, <2>4 DEF Inv, SnapshotsAreImportable, Approaches, FirstIsServed
<1> QED
  BY <1>4, <1>5, <1>6 DEF receiveProbePacket

\* A receive error completes the probe of its target.
LEMMA ErrorStep ==
  ASSUME Inv, NEW k \in 0 .. N - 1, receiveError(k)
  PROVE  Inv'
<1>1. events' \in 0 .. ReceiveBudget /\ queue' = queue /\ queue \in [Target -> Seq(Datagram)]
  BY ProbeBounds DEF Inv, TypeOK, receiveError, atTarget
<1> QED
  BY <1>1, CompleteStep DEF receiveError

\* An interrupted receive is retried at the same target, within the budget.
LEMMA InterruptedStep ==
  ASSUME Inv, NEW k \in 0 .. N - 1, receiveInterrupted(k)
  PROVE  Inv'
<1>1. receiveCursor \in Target /\ receiveCursor' = receiveCursor /\ pc = "receive" /\ pc' = "receive"
  BY DEF Inv, TypeOK, receiveInterrupted, atTarget
<1>2. \A t \in Target : passed'[t] = 0
  BY DEF receiveInterrupted
<1>3. TypeOK'
  BY ProbeBounds DEF Inv, TypeOK, receiveInterrupted, atTarget
<1>4. Approaches' /\ FirstIsServed'
  BY <1>1, <1>2, DistanceRange, ProbeBounds DEF Approaches, FirstIsServed
<1> QED
  BY <1>3, <1>4 DEF Inv, SnapshotsAreImportable, RepliesAreCurrent, receiveInterrupted

\* The poll that began with a target ends only with nothing to hold against it.
LEMMA EndStep ==
  ASSUME Inv, endPoll
  PROVE  Inv'
<1>1. /\ receiveCursor \in Target /\ pc = "receive" /\ pc' = "idle"
      /\ receiveCursor' = (receiveCursor + 1) % N /\ receiveCursor' \in Target
      /\ UNCHANGED <<snapshot, awaiting, age, queue, answered, passed>>
  BY CursorMoves DEF Inv, TypeOK, endPoll, advanceCursor
<1>2. passed[receiveCursor] = 0
  <2>1. SUFFICES ASSUME passed[receiveCursor] # 0 PROVE FALSE
    OBVIOUS
  <2>2. awaiting[receiveCursor] /\ offset = 0 /\ WithinBudget(receiveCursor)
    BY <1>1, <2>1 DEF Inv, TypeOK, FirstIsServed
  <2>3. events < ReceiveBudget
    <3>1. PICK i \in DOMAIN queue[receiveCursor] : events + i <= ReceiveBudget
      BY <2>2 DEF WithinBudget
    <3>2. i \in Nat /\ i > 0 /\ events \in Nat
      BY <1>1, <3>1 DEF Inv, TypeOK
    <3> QED
      BY <3>1, <3>2, ProbeBounds
  <2>4. Place(0) = receiveCursor /\ 0 \in 0 .. N - 1 /\ 0 .. 0 - 1 = {}
    BY <1>1, PlaceIsTarget, ProbeBounds
  <2>5. atTarget(0)
    BY <1>1, <2>2, <2>3, <2>4 DEF atTarget
  <2> QED
    BY <2>4, <2>5 DEF endPoll
<1>3. Approaches'
  <2>1. ASSUME NEW t \in Target
        PROVE  passed[t] + Distance(receiveCursor', t) <= N - 1
    <3>1. passed[t] + Distance(receiveCursor, t) <= N /\ passed[t] \in Nat
      BY <1>1 DEF Inv, Approaches, TypeOK
    <3>2. Distance(receiveCursor', t) \in 0 .. N - 1 /\ Distance(receiveCursor, t) \in 0 .. N - 1
      BY <1>1, DistanceRange
    <3>3. CASE t = receiveCursor
      BY <1>2, <3>2, <3>3
    <3>4. CASE t # receiveCursor
      <4>1. Distance(receiveCursor', t) = Distance(receiveCursor, t) - 1
        BY <1>1, <3>4, CursorMoves
      <4> QED
        BY <3>1, <3>2, <4>1, ProbeBounds
    <3> QED
      BY <3>3, <3>4
  <2> QED
    BY <1>1, <2>1 DEF Approaches
<1>4. TypeOK'
  BY <1>1, ProbeBounds DEF Inv, TypeOK, endPoll
<1> QED
  BY <1>1, <1>3, <1>4 DEF Inv, SnapshotsAreImportable, RepliesAreCurrent, FirstIsServed

\* Whoever cancels or replaces the checker leaves no answer behind.
LEMMA FreshStep ==
  ASSUME Inv, pollFails \/ replaceChecker
  PROVE  Inv'
<1>1. /\ pc' \in {"idle", "cancelled"} /\ receiveCursor' \in Target
      /\ awaiting' = [t \in Target |-> FALSE] /\ passed' = [t \in Target |-> 0]
      /\ answered' = [t \in Target |-> FALSE] /\ queue' = [t \in Target |-> <<>>]
      /\ offset' \in 0 .. N /\ events' \in 0 .. ReceiveBudget /\ age' \in [Target -> 0 .. Interval]
  <2>1. CASE pollFails
    BY <2>1, ProbeBounds DEF Inv, TypeOK, pollFails, cancelAllProbes
  <2>2. CASE replaceChecker
    <3>1. 0 \in Target /\ Interval \in 0 .. Interval
      BY ProbeBounds DEF Target
    <3> QED
      BY <2>2, <3>1 DEF Inv, TypeOK, replaceChecker
  <2> QED
    BY <2>1, <2>2
<1>2. snapshot' \in [Target -> Snapshot] /\ SnapshotsAreImportable'
  <2>1. snapshot \in [Target -> Snapshot] /\ \A t \in Target : importable(snapshot[t])
    BY DEF Inv, TypeOK, Snapshot, SnapshotsAreImportable
  <2>2. CASE pollFails
    BY <2>1, <2>2 DEF pollFails, cancelAllProbes, SnapshotsAreImportable
  <2>3. CASE replaceChecker
    <3>1. Fresh \in Snapshot /\ importable(Fresh)
      BY DEF Fresh, Snapshot, Status, importable
    <3> QED
      BY <2>1, <2>3, <3>1 DEF replaceChecker, SnapshotsAreImportable
  <2> QED
    BY <2>2, <2>3
<1>3. TypeOK'
  BY <1>1, <1>2 DEF TypeOK, Snapshot
<1>4. RepliesAreCurrent' /\ FirstIsServed'
  BY <1>1 DEF RepliesAreCurrent, FirstIsServed
<1>5. Approaches'
  BY <1>1, DistanceRange, ProbeBounds DEF Approaches
<1> QED
  BY <1>2, <1>3, <1>4, <1>5 DEF Inv

\* What arrives queues up behind what is there.
LEMMA ArrivalStep ==
  ASSUME Inv, NEW t \in Target, Answer(t) \/ Stray(t)
  PROVE  Inv'
<1>1. PICK d \in Datagram : queue' = [queue EXCEPT ![t] = Append(queue[t], d)]
                              /\ (d = "reply" => answered'[t])
  BY DEF Answer, Stray, Arrives, Datagram, Inv, TypeOK
<1>2. UNCHANGED <<pollVars, snapshot, awaiting, age, passed>>
  BY DEF Answer, Stray
<1>3. queue[t] \in Seq(Datagram) /\ queue'[t] = Append(queue[t], d)
        /\ \A u \in Target : u # t => queue'[u] = queue[u]
  BY <1>1 DEF Inv, TypeOK
<1>4. answered' \in [Target -> BOOLEAN] /\ \A u \in Target : answered[u] => answered'[u]
  BY DEF Answer, Stray, Inv, TypeOK
<1>5. queue' \in [Target -> Seq(Datagram)]
  BY <1>1, <1>3 DEF Inv, TypeOK
<1>6. TypeOK'
  BY <1>2, <1>4, <1>5 DEF Inv, TypeOK, pollVars
<1>7. \A i \in DOMAIN queue'[t] : \/ i \in DOMAIN queue[t] /\ queue'[t][i] = queue[t][i]
                                  \/ queue'[t][i] = d
  BY <1>3
<1>8. \A i \in DOMAIN queue[t] : i \in DOMAIN queue'[t] /\ queue'[t][i] = queue[t][i]
  BY <1>3
<1>9. RepliesAreCurrent'
  BY <1>1, <1>2, <1>3, <1>4, <1>7 DEF Inv, RepliesAreCurrent
<1>10. FirstIsServed'
  <2>1. receiveCursor \in Target
    BY DEF Inv, TypeOK
  <2>2. WithinBudget(receiveCursor) => WithinBudget(receiveCursor)'
    BY <1>2, <1>3, <1>8, <2>1 DEF WithinBudget, pollVars
  <2> QED
    BY <1>2, <2>2 DEF Inv, FirstIsServed, pollVars
<1> QED
  BY <1>2, <1>6, <1>9, <1>10 DEF Inv, SnapshotsAreImportable, Approaches, pollVars

\* Time passes for the probes and changes nothing else.
LEMMA ClockStep ==
  ASSUME Inv, Tick \/ UNCHANGED vars
  PROVE  Inv'
<1>1. UNCHANGED <<pollVars, snapshot, awaiting, queue, answered, passed>>
  BY DEF Tick, vars
<1>2. age' \in [Target -> 0 .. Interval]
  <2>1. CASE Tick
    <3>1. \A t \in Target : age[t] \in 0 .. Interval
      BY DEF Inv, TypeOK
    <3>2. \A t \in Target : Least(age[t] + 1, Interval) \in 0 .. Interval
      BY <3>1, ProbeBounds DEF Least
    <3> QED
      BY <2>1, <3>2 DEF Tick
  <2>2. CASE UNCHANGED vars
    BY <2>2 DEF vars, Inv, TypeOK
  <2> QED
    BY <2>1, <2>2
<1> QED
  BY <1>1, <1>2 DEF Inv, TypeOK, SnapshotsAreImportable, RepliesAreCurrent, Approaches,
                    FirstIsServed, WithinBudget, pollVars

\* Before the first poll no target awaits an answer or has been passed over.
LEMMA InvInit == Init => Inv
<1> SUFFICES ASSUME Init PROVE Inv
  OBVIOUS
<1>1. 0 \in Target /\ Fresh \in Snapshot /\ importable(Fresh)
  BY ProbeBounds DEF Target, Fresh, Snapshot, Status, importable
<1>2. TypeOK
  BY <1>1, ProbeBounds DEF Init, TypeOK, Snapshot
<1>3. SnapshotsAreImportable /\ RepliesAreCurrent /\ FirstIsServed
  BY <1>1 DEF Init, SnapshotsAreImportable, RepliesAreCurrent, FirstIsServed
<1>4. Approaches
  BY <1>1, DistanceRange, ProbeBounds DEF Init, Approaches
<1> QED
  BY <1>2, <1>3, <1>4 DEF Inv

\* Every step preserves the invariant.
LEMMA InvStep == Inv /\ [Next]_vars => Inv'
<1>1. Noisy \subseteq Target
  BY ProbeBounds DEF Target
<1> QED
  BY <1>1, PollStep, ReceiveStep, ErrorStep, InterruptedStep, EndStep, FreshStep, ArrivalStep,
     ClockStep DEF Next, Checker
-----------------------------------------------------------------------------
\* Every variable keeps its type: one poll never handles more than its budget.
THEOREM TypeCorrect == Spec => []TypeOK
<1>1. Inv => TypeOK
  BY DEF Inv
<1> QED
  BY <1>1, InvInit, InvStep, PTL DEF Spec

\* The moving cursor of receivePendingProbeReplies gives every target a poll with
\* the whole budget, so that an answer is overtaken by fewer than N polls.
THEOREM AnswersSafe == Spec => []AnswersAreRead
<1>1. Inv => AnswersAreRead
  <2> SUFFICES ASSUME Inv, NEW t \in Target PROVE passed[t] <= N
    BY DEF AnswersAreRead
  <2>1. receiveCursor \in Target /\ passed[t] \in Nat
    BY DEF Inv, TypeOK
  <2>2. Distance(receiveCursor, t) \in 0 .. N - 1
    BY <2>1, DistanceRange
  <2>3. passed[t] + Distance(receiveCursor, t) <= N
    BY <2>1, <2>2, ProbeBounds DEF Inv, Approaches
  <2> QED
    BY <2>1, <2>2, <2>3, ProbeBounds
<1> QED
  BY <1>1, InvInit, InvStep, PTL DEF Spec

\* The constructor that takes over the snapshots of a reload accepts them all.
THEOREM SnapshotsSafe == Spec => []SnapshotsAreImportable
<1>1. Inv => SnapshotsAreImportable
  BY DEF Inv
<1> QED
  BY <1>1, InvInit, InvStep, PTL DEF Spec

\* completeProbeResult reports a success only for a reply with the token of the
\* probe, received before its deadline.
THEOREM SuccessSafe == Spec => SuccessIsCurrent
<1>1. ASSUME Inv, [Next]_vars, NEW t \in Target, Succeeds(t)
      PROVE  answered[t] /\ age[t] < Timeout
  <2>1. pc' = "receive" /\ awaiting[t] /\ ~awaiting'[t] /\ snapshot'[t].successes # 0
    BY <1>1 DEF Succeeds
  <2>2. snapshot \in [Target -> Snapshot] /\ awaiting \in [Target -> BOOLEAN]
          /\ age[t] \in Nat /\ receiveCursor \in Target
    BY <1>1 DEF Inv, TypeOK, Snapshot
  <2>3. CASE pollProbeTransitions
    <3> DEFINE expire == IF Expired(t) THEN completed(snapshot[t], FALSE) ELSE snapshot[t]
    <3>1. PICK unsent \in SUBSET Due :
            /\ snapshot'[t] = IF t \in unsent THEN completed(expire, FALSE) ELSE expire
            /\ awaiting'[t] = IF t \in Due THEN t \notin unsent ELSE awaiting[t] /\ ~Expired(t)
      BY <2>3 DEF pollProbeTransitions, sendDueProbePackets
    <3>2. t \in unsent \/ (t \notin unsent /\ Expired(t))
      BY <2>1, <3>1
    <3>3. expire \in Snapshot
      BY <2>2, Completion
    <3>4. completed(expire, FALSE).successes = 0
            /\ completed(snapshot[t], FALSE).successes = 0
      BY <2>2, <3>3, Completion
    <3> QED
      BY <2>1, <3>1, <3>2, <3>4
  <2>4. ASSUME NEW k \in 0 .. N - 1, NEW success \in BOOLEAN, completeProbeResult(Place(k), success)
        PROVE  t = Place(k) /\ success
    <3>1. t = Place(k)
      BY <2>1, <2>2, <2>4 DEF completeProbeResult
    <3>2. snapshot'[t] = completed(snapshot[t], success)
      BY <2>2, <2>4, <3>1 DEF completeProbeResult
    <3> QED
      BY <2>1, <2>2, <3>1, <3>2, Completion
  <2>5. ASSUME NEW k \in 0 .. N - 1, receiveProbePacket(k)
        PROVE  answered[t] /\ age[t] < Timeout
    <3>1. \/ completeProbeResult(Place(k), FALSE)
          \/ awaiting' = awaiting
          \/ /\ completeProbeResult(Place(k), TRUE) /\ ~deadlinePassed(Place(k))
             /\ queue[Place(k)] # <<>> /\ Head(queue[Place(k)]) = "reply"
      BY <2>5 DEF receiveProbePacket
    <3>2. /\ t = Place(k) /\ ~deadlinePassed(t)
          /\ queue[t] # <<>> /\ Head(queue[t]) = "reply"
      BY <2>1, <2>4, <3>1
    <3>3. 1 \in DOMAIN queue[t] /\ queue[t][1] = "reply"
      BY <1>1, <3>2 DEF Inv, TypeOK
    <3> QED
      BY <1>1, <2>1, <2>2, <3>2, <3>3, ProbeBounds
         DEF Inv, RepliesAreCurrent, deadlinePassed
  <2>6. ASSUME NEW k \in 0 .. N - 1, receiveError(k)
        PROVE  FALSE
    BY <2>4, <2>6 DEF receiveError
  <2>7. CASE \/ UNCHANGED vars \/ endPoll \/ Tick
             \/ \E k \in 0 .. N - 1 : receiveInterrupted(k)
             \/ \E u \in Target : Answer(u)
             \/ \E u \in Noisy : Stray(u)
    <3>1. awaiting' = awaiting
      BY <2>7 DEF vars, endPoll, Tick, receiveInterrupted, Answer, Stray
    <3> QED
      BY <2>1, <3>1
  <2>8. CASE pollFails \/ replaceChecker
    BY <2>1, <2>8 DEF pollFails, cancelAllProbes, replaceChecker
  <2> QED
    BY <1>1, <2>3, <2>5, <2>6, <2>7, <2>8 DEF Next, Checker
<1>2. Inv /\ [Next]_vars => [\A t \in Target : Succeeds(t) => answered[t] /\ age[t] < Timeout]_vars
  BY <1>1
<1> QED
  BY <1>2, InvInit, InvStep, PTL DEF Spec, SuccessIsCurrent
=============================================================================
