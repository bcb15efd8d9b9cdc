--------------------------- MODULE RuntimeDsrProofs ---------------------------
(***************************************************************************)
(* The runtime DSR mode implements an atomically replaced table, and its   *)
(* control loop keeps its promises, for any number of CPUs, targets and    *)
(* configurations.                                                         *)
(***************************************************************************)
EXTENDS RuntimeDsr, FiniteSetTheorems, TLAPS

Pcs == Running \cup {"attach", "readback", "query", "clear", "statistics", "exit", "killed"}

\* What the proofs need of the types.
Types ==
  /\ pc \in Pcs /\ attempt \in {"stop", "catch", "destructor"}
  /\ sig \in [reload : BOOLEAN, stop : BOOLEAN, brokenPipe : BOOLEAN]
  /\ file \in Configs \cup {None} /\ configuration \in Configs /\ candidate \in Configs
  /\ attached \in BOOLEAN /\ refused \in Nat /\ outer \in Inner
  /\ inner = [i \in Inner |-> inner[i]] /\ reader = [c \in Cpu |-> reader[c]]

\* A version that the XDP program accepts.
Valid(s) == s.generation \in Nat \ {0} /\ Len(s.links) \in Nat

\* Where no publish is between its commit and its end.
Settled == Running \cup {"attach"}

\* A candidate is not in anybody's sight until the commit, after which it is in
\* force while the loop still holds the version before it.
Publishing ==
  /\ Valid(applied) /\ Valid(inner[outer])
  /\ pc \in Settled => inner[outer] = applied /\ generation = applied.generation
  /\ pc = "commit" => /\ prepared \in Inner /\ prepared # outer /\ ~Held(prepared)
                      /\ inner[prepared] = buildRuntimeSnapshot(candidate)
  /\ pc = "readback" => /\ inner[outer] = buildRuntimeSnapshot(candidate)
                        /\ generation = applied.generation + 1

\* A packet under way has a version that stays as it was looked up.
Reading ==
  \A c \in Cpu :
    reader[c].at # "idle" =>
      /\ reader[c].map \in Inner /\ Valid(inner[reader[c].map])
      /\ reader[c].at = "select" => reader[c].count = Len(inner[reader[c].map].links)

\* The loop has not seen a stop signal.
NotStopped == pc \in Settled \cup {"readback"} => ~sig.stop

\* How far the process got in detaching.
Detaching ==
  /\ hook = "own" => attached
  /\ pc \in {"attach", "statistics"} => ~attached
  /\ attempt = "destructor" => refused >= 1

Inv == Types /\ Publishing /\ Reading /\ NotStopped /\ Detaching
         /\ ReloadNotLost /\ LeftOnlyIfRefused

-----------------------------------------------------------------------------
(***************************************************************************)
(* Snapshots and maps                                                      *)
(***************************************************************************)

\* The snapshot of a configuration is the valid successor of the applied one.
LEMMA SnapshotValid ==
  ASSUME NEW config \in Configs, Valid(applied)
  PROVE  LET s == buildRuntimeSnapshot(config) IN
         /\ Valid(s) /\ s.generation = applied.generation + 1
         /\ s = [generation |-> applied.generation + 1, links |-> s.links]
<1> DEFINE active == {i \in DOMAIN config : config[i] \in inherited(config)}
           place(i) == Cardinality({j \in active : j <= i})
           n == Cardinality(active)
           value(k) == Link[config[CHOOSE i \in active : place(i) = k]]
           links == [k \in 1 .. n |-> value(k)]
<1>1. config \in Seq(Target) /\ Len(config) \in Nat /\ DOMAIN config = 1 .. Len(config)
  BY RuntimeBounds
<1>2. IsFiniteSet(DOMAIN config)
  BY <1>1, FS_Interval
<1>3. n \in Nat
  BY <1>2, FS_Subset, FS_CardinalityType
<1>4. buildRuntimeSnapshot(config) = [generation |-> applied.generation + 1, links |-> links]
  BY DEF buildRuntimeSnapshot
<1> HIDE DEF n, value
<1>5. links \in [1 .. n -> {value(k) : k \in 1 .. n}]
  OBVIOUS
<1>6. links \in Seq({value(k) : k \in 1 .. n})
  BY <1>3, <1>5
<1> HIDE DEF links
<1>7. Len(links) \in Nat
  BY <1>6
<1>8. applied.generation \in Nat \ {0}
  BY DEF Valid
<1>9. ASSUME NEW s, s = [generation |-> applied.generation + 1, links |-> links]
      PROVE  Valid(s) /\ s.generation = applied.generation + 1 /\ s.links = links
  BY <1>7, <1>8, <1>9 DEF Valid
<1> QED
  BY <1>4, <1>9

\* Counting the members of a finite set of numbers from below numbers them.
LEMMA Ranks ==
  ASSUME NEW A \in SUBSET Nat, IsFiniteSet(A)
  PROVE  LET rank(i) == Cardinality({j \in A : j <= i}) IN
         /\ \A i \in A : rank(i) \in 1 .. Cardinality(A)
         /\ \A i, j \in A : i < j => rank(i) < rank(j)
         /\ \A k \in 1 .. Cardinality(A) : \E i \in A : rank(i) = k
<1> DEFINE upTo(i) == {j \in A : j <= i}
           rank(i) == Cardinality(upTo(i))
           n == Cardinality(A)
           f == [i \in A |-> rank(i)]
<1>1. n \in Nat
  BY FS_CardinalityType
<1>2. ASSUME NEW i \in A
      PROVE  /\ upTo(i) \in SUBSET A /\ IsFiniteSet(upTo(i)) /\ rank(i) \in Nat
             /\ rank(i) \in 1 .. n
  <2>1. upTo(i) \in SUBSET A /\ i \in upTo(i)
    OBVIOUS
  <2> HIDE DEF upTo
  <2>2. IsFiniteSet(upTo(i)) /\ rank(i) <= n
    BY <2>1, FS_Subset
  <2>3. rank(i) \in Nat /\ rank(i) # 0
    BY <2>1, <2>2, FS_CardinalityType, FS_EmptySet
  <2> QED
    BY <1>1, <2>1, <2>2, <2>3
<1>3. ASSUME NEW i \in A, NEW j \in A, i < j
      PROVE  rank(i) < rank(j)
  <2>0. i \in Nat /\ j \in Nat /\ i < j
    BY <1>3
  <2>1. upTo(i) \in SUBSET upTo(j) /\ j \in upTo(j) /\ j \notin upTo(i)
    <3>1. j <= j /\ ~(j <= i) /\ \A x \in A : x <= i => x <= j
      BY <2>0
    <3> QED
      BY <3>1, Zenon
  <2>2. IsFiniteSet(upTo(j)) /\ rank(i) \in Nat /\ rank(j) \in Nat
    BY <1>2
  <2> HIDE DEF upTo
  <2>3. rank(i) <= rank(j) /\ rank(j) # rank(i)
    BY <2>1, <2>2, FS_Subset
  <2> QED
    BY <2>2, <2>3
<1>4. ASSUME NEW k \in 1 .. n
      PROVE  \E i \in A : rank(i) = k
  <2>1. f \in Injection(A, 1 .. n)
    <3>1. \A i, j \in A : i # j => rank(i) # rank(j)
      <4> SUFFICES ASSUME NEW i \in A, NEW j \in A, i # j PROVE rank(i) # rank(j)
        OBVIOUS
      <4>1. rank(i) \in Nat /\ rank(j) \in Nat /\ (i < j \/ j < i)
        BY <1>2
      <4> HIDE DEF rank
      <4> QED
        BY <1>3, <4>1
    <3>2. \A i \in A : rank(i) \in 1 .. n
      BY <1>2
    <3> HIDE DEF rank
    <3> QED
      BY <3>1, <3>2 DEF Injection, IsInjective
  <2>2. IsFiniteSet(1 .. n) /\ Cardinality(1 .. n) = n
    <3>1. 1 \in Int /\ n \in Int
      BY <1>1
    <3> HIDE DEF n
    <3>2. /\ IsFiniteSet(1 .. n)
          /\ Cardinality(1 .. n) = IF 1 > n THEN 0 ELSE n - 1 + 1
      BY <3>1, FS_Interval
    <3> QED
      BY <1>1, <3>1, <3>2
  <2> HIDE DEF f
  <2>3. f \in Surjection(A, 1 .. n)
    BY <2>1, <2>2, FS_Injection
  <2>4. \E i \in A : f[i] = k
    BY <2>3 DEF Surjection
  <2> HIDE DEF rank
  <2> QED
    BY <2>4 DEF f
<1> QED
  BY <1>2, <1>3, <1>4

\* The links of a snapshot are those of the healthy targets, in file order.
LEMMA SnapshotInOrder ==
  ASSUME NEW config \in Configs
  PROVE  LET links == buildRuntimeSnapshot(config).links IN
         /\ links \in Seq({Link[t] : t \in Target})
         /\ InFileOrder(links, config, healthy)
<1> DEFINE active == {i \in DOMAIN config : config[i] \in inherited(config)}
           place(i) == Cardinality({j \in active : j <= i})
           n == Cardinality(active)
           at(k) == CHOOSE i \in active : place(i) = k
           links == [k \in 1 .. n |-> Link[config[at(k)]]]
           from == [k \in 1 .. n |-> at(k)]
<1>1. config \in Seq(Target) /\ Len(config) \in Nat /\ DOMAIN config = 1 .. Len(config)
  BY RuntimeBounds
<1>2. IsFiniteSet(active) /\ active \in SUBSET Nat /\ n \in Nat
        /\ \A i \in active : config[i] \in Target
  <2>1. IsFiniteSet(DOMAIN config)
    BY <1>1, FS_Interval
  <2>2. active \in SUBSET DOMAIN config
    OBVIOUS
  <2>3. active \in SUBSET Nat /\ \A i \in active : config[i] \in Target
    BY <1>1
  <2> HIDE DEF active
  <2>4. IsFiniteSet(active)
    BY <2>1, <2>2, FS_Subset
  <2> QED
    BY <2>3, <2>4, FS_CardinalityType
<1>3. active = {i \in DOMAIN config : config[i] \in healthy}
  BY DEF inherited, Targets
<1>4. buildRuntimeSnapshot(config).links = links
  BY DEF buildRuntimeSnapshot
<1> HIDE DEF active
<1>5. /\ \A i \in active : place(i) \in 1 .. n
      /\ \A i, j \in active : i < j => place(i) < place(j)
      /\ \A k \in 1 .. n : \E i \in active : place(i) = k
  BY <1>2, Ranks
<1> HIDE DEF place, n
<1>6. ASSUME NEW k \in 1 .. n
      PROVE  at(k) \in active /\ place(at(k)) = k
  BY <1>5
<1> HIDE DEF at
<1>7. \A k, l \in 1 .. n : k < l => at(k) < at(l)
  <2> SUFFICES ASSUME NEW k \in 1 .. n, NEW l \in 1 .. n, k < l, ~(at(k) < at(l))
               PROVE  FALSE
    OBVIOUS
  <2>1. at(k) \in Nat /\ at(l) \in Nat /\ at(k) # at(l)
    <3>1. at(k) \in active /\ at(l) \in active /\ place(at(k)) = k /\ place(at(l)) = l
      BY <1>6
    <3>2. k # l
      BY <1>2
    <3> QED
      BY <1>2, <3>1, <3>2
  <2>2. at(l) < at(k)
    BY <2>1
  <2>3. place(at(l)) < place(at(k))
    BY <1>5, <1>6, <2>2
  <2> QED
    BY <1>6, <2>3
<1>8. \A i \in active : \E k \in 1 .. n : at(k) = i
  <2> SUFFICES ASSUME NEW i \in active PROVE at(place(i)) = i
    BY <1>5
  <2>1. at(place(i)) \in active /\ place(at(place(i))) = place(i) /\ place(i) \in 1 .. n
    BY <1>5, <1>6
  <2>2. i \in Nat /\ at(place(i)) \in Nat
    BY <1>2, <2>1
  <2> QED
    BY <1>5, <2>1, <2>2
<1>9. links \in Seq({Link[t] : t \in Target})
  <2>1. \A k \in 1 .. n : Link[config[at(k)]] \in {Link[t] : t \in Target}
    BY <1>2, <1>6
  <2>2. links \in [1 .. n -> {Link[t] : t \in Target}]
    BY <2>1
  <2> QED
    BY <1>2, <2>2
<1>10. InFileOrder(links, config, healthy)
  <2>1. DOMAIN links = 1 .. n /\ from \in [DOMAIN links -> active]
    BY <1>6
  <2>2. \A k, l \in DOMAIN links : k < l => from[k] < from[l]
    BY <1>7
  <2>3. \A i \in active : \E k \in DOMAIN links : from[k] = i
    BY <1>8
  <2>4. \A k \in DOMAIN links : links[k] = Link[config[from[k]]]
    OBVIOUS
  <2> HIDE DEF links, from
  <2> QED
    BY <1>3, <2>1, <2>2, <2>3, <2>4, Zenon DEF InFileOrder
<1> QED
  BY <1>4, <1>9, <1>10

\* There is always a map for the candidate that neither the outer map nor a
\* packet refers to.
LEMMA CandidateIsFree ==
  ASSUME Inv
  PROVE  candidateMap \in Inner /\ candidateMap # outer /\ ~Held(candidateMap)
<1> DEFINE T == {reader[c].map : c \in Cpu}
           f == [c \in Cpu |-> reader[c].map]
<1>1. IsFiniteSet(Cpu) /\ Cardinality(Cpu) \in Nat
  BY RuntimeBounds, FS_CardinalityType
<1>2. f \in Surjection(Cpu, T)
  BY DEF Surjection
<1>3. IsFiniteSet(T) /\ Cardinality(T) <= Cardinality(Cpu)
  BY <1>1, <1>2, FS_Surjection
<1>4. IsFiniteSet(T \cup {outer}) /\ Cardinality(T \cup {outer}) <= Cardinality(Cpu) + 1
  <2>1. Cardinality(T) \in Nat
    BY <1>3, FS_CardinalityType
  <2> HIDE DEF T
  <2>2. /\ IsFiniteSet(T \cup {outer})
        /\ Cardinality(T \cup {outer}) = IF outer \in T THEN Cardinality(T) ELSE Cardinality(T) + 1
    BY <1>3, FS_AddElement
  <2> QED
    BY <1>1, <1>3, <2>1, <2>2
<1>5. Cardinality(Inner) = Cardinality(Cpu) + 2
  BY <1>1, FS_Interval DEF Inner
<1>6. ~(Inner \subseteq T \cup {outer})
  <2> SUFFICES ASSUME Inner \subseteq T \cup {outer} PROVE FALSE
    OBVIOUS
  <2>1. Cardinality(Inner) <= Cardinality(T \cup {outer})
    BY <1>4, FS_Subset
  <2> QED
    BY <1>1, <1>4, <1>5, <2>1, FS_CardinalityType
<1>7. PICK i \in Inner : i # outer /\ i \notin T
  BY <1>6
<1>8. ~Held(i)
  BY <1>7 DEF Held
<1> QED
  BY <1>7, <1>8 DEF candidateMap
-----------------------------------------------------------------------------
(***************************************************************************)
(* The invariant                                                           *)
(***************************************************************************)

\* The first snapshot is in force and nothing else has happened.
LEMMA InitInv == Init => Inv
<1> SUFFICES ASSUME Init PROVE Inv
  OBVIOUS
<1>1. 0 \in Inner
  BY RuntimeBounds, FS_CardinalityType DEF Inner
<1>2. Types
  BY <1>1 DEF Init, Types, Pcs, Running
<1>3. Publishing
  BY <1>1 DEF Init, Publishing, Settled, Running, Valid
<1>4. Reading
  BY DEF Init, Reading, Idle
<1> QED
  BY <1>2, <1>3, <1>4
     DEF Init, Inv, NotStopped, Detaching, ReloadNotLost, LeftOnlyIfRefused, Running, Settled

\* A step that leaves the maps and the packets alone, and does not enter a
\* publish, keeps what is known of them.
LEMMA MapsKept ==
  ASSUME Inv, UNCHANGED <<outer, inner, applied, generation, reader>>,
         pc' \in Settled => pc \in Settled, pc' \notin {"commit", "readback"}
  PROVE  Publishing' /\ Reading'
<1>1. Publishing'
  BY DEF Inv, Publishing, Valid
<1>2. Reading'
  BY DEF Inv, Reading, Valid
<1> QED
  BY <1>1, <1>2

\* A step of the loop that leaves the hook alone, and does not end the process,
\* keeps what is known of the detach attempts.
LEMMA HookKept ==
  ASSUME Inv, UNCHANGED <<hook, attached, refused>>, pc' \notin {"exit", "attach", "statistics"},
         attempt' \in {attempt, "catch"}
  PROVE  Detaching' /\ LeftOnlyIfRefused'
  BY DEF Inv, Detaching, LeftOnlyIfRefused

\* Reading the signals loses no request, and a loop that goes on was not stopped.
LEMMA SignalsKept ==
  ASSUME Inv, consumeRuntimeSignals, UNCHANGED <<asked, attempt>>, NEW step, continueAt(step),
         pc \notin {"exit", "killed"}
  PROVE  /\ sig' \in [reload : BOOLEAN, stop : BOOLEAN, brokenPipe : BOOLEAN]
         /\ NotStopped' /\ ReloadNotLost' /\ pc' \in {step, "query"}
<1> USE DEF Inv, Types
<1>1. sig' \in [reload : BOOLEAN, stop : BOOLEAN, brokenPipe : BOOLEAN]
  BY DEF consumeRuntimeSignals, StopSignals
<1>2. NotStopped' /\ pc' \in {step, "query"}
  BY DEF continueAt, NotStopped, Running, Settled
<1>3. ReloadNotLost'
  <2>1. CASE pending \cap StopSignals = {} /\ pending' = {}
             /\ sig' = [sig EXCEPT !.reload = @ \/ "HUP" \in pending]
    <3>1. "HUP" \in pending => sig'.reload
      BY <2>1
    <3>2. sig.reload => sig'.reload
      BY <2>1
    <3>3. sig.stop => sig'.stop
      BY <2>1
    <3> QED
      BY <3>1, <3>2, <3>3 DEF ReloadNotLost, Alive
  <2>2. CASE sig'.stop
    BY <2>2 DEF ReloadNotLost
  <2>3. \/ pending \cap StopSignals = {} /\ pending' = {}
             /\ sig' = [sig EXCEPT !.reload = @ \/ "HUP" \in pending]
        \/ sig'.stop
    BY DEF consumeRuntimeSignals
  <2> QED
    BY <2>1, <2>2, <2>3
<1> QED
  BY <1>1, <1>2, <1>3
-----------------------------------------------------------------------------
\* The steps of the loop that publish nothing.
LEMMA LoopStep ==
  ASSUME Inv,
         \/ attachProgram \/ LoopTop \/ pollProbeTransitions \/ CheckSignals \/ ControlFails
         \/ ReloadFile \/ AdmitReload \/ publishChangedHealthySnapshot
         \/ waitForRuntimeSignalsOrOutput
  PROVE  Inv'
<1> USE DEF Pcs, Running, Settled
<1>1. CASE attachProgram
  <2>1. Types'
    BY <1>1 DEF attachProgram, Inv, Types, storeVars, packetVars
  <2>2. Publishing' /\ Reading'
    BY <1>1, MapsKept DEF attachProgram, storeVars, packetVars
  <2>3. NotStopped' /\ ReloadNotLost' /\ Detaching' /\ LeftOnlyIfRefused'
    BY <1>1 DEF attachProgram, Inv, NotStopped, ReloadNotLost, Detaching, LeftOnlyIfRefused, Alive
  <2> QED
    BY <2>1, <2>2, <2>3 DEF Inv
<1>2. CASE LoopTop
  <2>1. /\ sig' \in [reload : BOOLEAN, stop : BOOLEAN, brokenPipe : BOOLEAN]
        /\ NotStopped' /\ ReloadNotLost' /\ pc' \in {"poll", "query"}
    BY <1>2, SignalsKept DEF LoopTop
  <2>2. Types'
    BY <1>2, <2>1 DEF LoopTop, Inv, Types, storeVars, hookVars, packetVars
  <2>3. Publishing' /\ Reading'
    BY <1>2, <2>1, MapsKept DEF LoopTop, storeVars, packetVars
  <2>4. Detaching' /\ LeftOnlyIfRefused'
    BY <1>2, <2>1, HookKept DEF LoopTop, hookVars
  <2> QED
    BY <2>1, <2>2, <2>3, <2>4 DEF Inv
<1>3. CASE pollProbeTransitions
  <2>1. Types'
    BY <1>3 DEF pollProbeTransitions, Inv, Types, storeVars, hookVars, packetVars
  <2>2. Publishing' /\ Reading'
    BY <1>3, MapsKept DEF pollProbeTransitions, storeVars, packetVars
  <2>3. Detaching' /\ LeftOnlyIfRefused'
    BY <1>3, HookKept DEF pollProbeTransitions, hookVars
  <2>4. NotStopped' /\ ReloadNotLost'
    BY <1>3 DEF pollProbeTransitions, Inv, NotStopped, ReloadNotLost, Alive
  <2> QED
    BY <2>1, <2>2, <2>3, <2>4 DEF Inv
<1>4. CASE CheckSignals
  <2>1. /\ sig' \in [reload : BOOLEAN, stop : BOOLEAN, brokenPipe : BOOLEAN]
        /\ NotStopped' /\ ReloadNotLost' /\ pc' \in {"reload", "health", "query"}
    <3>1. pc \notin {"exit", "killed"} /\ consumeRuntimeSignals /\ UNCHANGED <<asked, attempt>>
      BY <1>4 DEF CheckSignals
    <3>2. PICK step \in {"reload", "health"} : continueAt(step)
      BY <1>4 DEF CheckSignals
    <3> QED
      BY <3>1, <3>2, SignalsKept
  <2>2. Types'
    BY <1>4, <2>1 DEF CheckSignals, Inv, Types, storeVars, hookVars, packetVars
  <2>3. Publishing' /\ Reading'
    BY <1>4, <2>1, MapsKept DEF CheckSignals, storeVars, packetVars
  <2>4. Detaching' /\ LeftOnlyIfRefused'
    BY <1>4, <2>1, HookKept DEF CheckSignals, hookVars
  <2> QED
    BY <2>1, <2>2, <2>3, <2>4 DEF Inv
<1>5. CASE ControlFails
  <2>1. Types'
    BY <1>5 DEF ControlFails, throw, Inv, Types, storeVars, hookVars, packetVars
  <2>2. Publishing' /\ Reading'
    BY <1>5, MapsKept DEF ControlFails, throw, storeVars, packetVars
  <2>3. Detaching' /\ LeftOnlyIfRefused'
    BY <1>5, HookKept DEF ControlFails, throw, hookVars
  <2>4. NotStopped' /\ ReloadNotLost'
    BY <1>5 DEF ControlFails, throw, NotStopped, ReloadNotLost
  <2> QED
    BY <2>1, <2>2, <2>3, <2>4 DEF Inv
<1>6. CASE ReloadFile
  <2>0. pc = "reload" /\ pc' \in {"health", "query", "admit"} /\ attempt' \in {attempt, "catch"}
    BY <1>6 DEF ReloadFile, throw
  <2>1. Types'
    BY <1>6, <2>0 DEF ReloadFile, loadRuntimeConfig, Inv, Types, hookVars, packetVars
  <2>2. Publishing' /\ Reading'
    BY <1>6, <2>0, MapsKept DEF ReloadFile, packetVars
  <2>3. Detaching' /\ LeftOnlyIfRefused'
    BY <1>6, <2>0, HookKept DEF ReloadFile, hookVars
  <2>4. NotStopped' /\ ReloadNotLost'
    BY <1>6, <2>0 DEF ReloadFile, Inv, Types, NotStopped, ReloadNotLost
  <2> QED
    BY <2>1, <2>2, <2>3, <2>4 DEF Inv
<1>7. CASE AdmitReload
  <2>1. /\ sig' \in [reload : BOOLEAN, stop : BOOLEAN, brokenPipe : BOOLEAN]
        /\ NotStopped' /\ ReloadNotLost' /\ pc' \in {"prepare", "query"}
    BY <1>7, SignalsKept DEF AdmitReload, admitPublish
  <2>2. Types'
    BY <1>7, <2>1 DEF AdmitReload, Inv, Types, storeVars, hookVars, packetVars
  <2>3. Publishing' /\ Reading'
    BY <1>7, <2>1, MapsKept DEF AdmitReload, storeVars, packetVars
  <2>4. Detaching' /\ LeftOnlyIfRefused'
    BY <1>7, <2>1, HookKept DEF AdmitReload, hookVars
  <2> QED
    BY <2>1, <2>2, <2>3, <2>4 DEF Inv
<1>8. CASE publishChangedHealthySnapshot
  <2>1. /\ sig' \in [reload : BOOLEAN, stop : BOOLEAN, brokenPipe : BOOLEAN]
        /\ NotStopped' /\ ReloadNotLost' /\ pc' \in {"wait", "prepare", "query"}
        /\ attempt' \in {attempt, "catch"}
    <3>1. pc = "health" /\ UNCHANGED asked
      BY <1>8 DEF publishChangedHealthySnapshot
    <3>2. CASE pc' = "wait" /\ UNCHANGED <<attempt, sig, pending>>
      BY <3>1, <3>2 DEF Inv, Types, NotStopped, ReloadNotLost, Alive
    <3>3. CASE throw /\ UNCHANGED sig
      BY <3>1, <3>3 DEF Inv, Types, throw, NotStopped, ReloadNotLost
    <3>4. CASE consumeRuntimeSignals /\ admitPublish /\ UNCHANGED attempt
      BY <3>1, <3>4, SignalsKept DEF admitPublish
    <3> QED
      BY <1>8, <3>2, <3>3, <3>4 DEF publishChangedHealthySnapshot
  <2>2. Types'
    BY <1>8, <2>1 DEF publishChangedHealthySnapshot, Inv, Types, storeVars, hookVars, packetVars
  <2>3. Publishing' /\ Reading'
    BY <1>8, <2>1, MapsKept DEF publishChangedHealthySnapshot, storeVars, packetVars
  <2>4. Detaching' /\ LeftOnlyIfRefused'
    BY <1>8, <2>1, HookKept DEF publishChangedHealthySnapshot, hookVars
  <2> QED
    BY <2>1, <2>2, <2>3, <2>4 DEF Inv
<1>9. CASE waitForRuntimeSignalsOrOutput
  <2>1. Types'
    BY <1>9 DEF waitForRuntimeSignalsOrOutput, Inv, Types, storeVars, hookVars, packetVars
  <2>2. Publishing' /\ Reading'
    BY <1>9, MapsKept DEF waitForRuntimeSignalsOrOutput, storeVars, packetVars
  <2>3. Detaching' /\ LeftOnlyIfRefused'
    BY <1>9, HookKept DEF waitForRuntimeSignalsOrOutput, hookVars
  <2>4. NotStopped' /\ ReloadNotLost'
    BY <1>9 DEF waitForRuntimeSignalsOrOutput, Inv, NotStopped, ReloadNotLost, Alive
  <2> QED
    BY <2>1, <2>2, <2>3, <2>4 DEF Inv
<1> QED
  BY <1>1, <1>2, <1>3, <1>4, <1>5, <1>6, <1>7, <1>8, <1>9
-----------------------------------------------------------------------------
\* A publish, from the candidate to the commit and its end.
LEMMA PublishStep ==
  ASSUME Inv, PrepareSnapshot \/ CommitSnapshot \/ ReadBack
  PROVE  Inv'
<1> USE DEF Pcs, Running, Settled
<1>1. CASE PrepareSnapshot
  <2>0. pc = "prepare" /\ pc' \in {"commit", "health", "wait"} /\ UNCHANGED attempt
    BY <1>1 DEF PrepareSnapshot, rejectPublish, afterPublish
  <2>1. Types'
    BY <1>1, <2>0 DEF PrepareSnapshot, rejectPublish, Inv, Types, hookVars, packetVars
  <2>2. ASSUME pc' # "commit" PROVE Publishing' /\ Reading'
    <3>1. UNCHANGED <<outer, inner, applied, generation, reader>>
      BY <1>1, <2>2 DEF PrepareSnapshot, packetVars
    <3> QED
      BY <2>0, <2>2, <3>1, MapsKept
  <2>3. ASSUME pc' = "commit" PROVE Publishing' /\ Reading'
    <3>1. /\ prepared' = candidateMap /\ UNCHANGED <<candidate, outer, applied, healthy, generation, reader>>
          /\ inner' = [inner EXCEPT ![candidateMap] = buildRuntimeSnapshot(candidate)]
      BY <1>1, <2>3 DEF PrepareSnapshot, rejectPublish, afterPublish, packetVars
    <3>2. candidateMap \in Inner /\ candidateMap # outer /\ ~Held(candidateMap)
      BY CandidateIsFree
    <3>3. /\ inner'[candidateMap] = buildRuntimeSnapshot(candidate)
          /\ \A i \in Inner : i # candidateMap => inner'[i] = inner[i]
      BY <3>1, <3>2 DEF Inv, Types
    <3>4. buildRuntimeSnapshot(candidate)' = buildRuntimeSnapshot(candidate)
      BY <3>1 DEF buildRuntimeSnapshot, inherited, Targets
    <3>5. ~Held(prepared)'
      BY <3>1, <3>2 DEF Held
    <3>6. inner'[outer'] = inner[outer]
      BY <3>1, <3>2, <3>3 DEF Inv, Types
    <3>7. Publishing'
      BY <2>0, <2>3, <3>1, <3>2, <3>3, <3>4, <3>5, <3>6 DEF Inv, Publishing, Valid
    <3>8. Reading'
      BY <3>1, <3>2, <3>3 DEF Inv, Reading, Held, Valid
    <3> QED
      BY <3>7, <3>8
  <2>4. Detaching' /\ LeftOnlyIfRefused'
    BY <1>1, <2>0, HookKept DEF PrepareSnapshot, hookVars
  <2>5. NotStopped' /\ ReloadNotLost'
    BY <1>1, <2>0 DEF PrepareSnapshot, Inv, NotStopped, ReloadNotLost, Alive
  <2> QED
    BY <2>1, <2>2, <2>3, <2>4, <2>5 DEF Inv
<1>2. CASE CommitSnapshot
  <2>0. pc = "commit" /\ pc' \in {"readback", "health", "wait"} /\ UNCHANGED attempt
    BY <1>2 DEF CommitSnapshot, rejectPublish, afterPublish
  <2>1. Types'
    BY <1>2, <2>0 DEF CommitSnapshot, rejectPublish, Inv, Types, Publishing, hookVars, packetVars
  <2>2. ASSUME pc' # "readback" PROVE Publishing' /\ Reading'
    <3>1. UNCHANGED <<outer, inner, applied, generation, reader>>
      BY <1>2, <2>2 DEF CommitSnapshot, packetVars
    <3> QED
      BY <2>0, <2>2, <3>1, MapsKept
  <2>3. ASSUME pc' = "readback" PROVE Publishing' /\ Reading'
    <3>1. /\ outer' = prepared /\ generation' = applied.generation + 1
          /\ UNCHANGED <<candidate, inner, applied, healthy, reader>>
      BY <1>2, <2>3 DEF CommitSnapshot, rejectPublish, afterPublish, packetVars
    <3>2. inner[prepared] = buildRuntimeSnapshot(candidate) /\ candidate \in Configs
      BY <2>0 DEF Inv, Publishing, Types
    <3>3. buildRuntimeSnapshot(candidate)' = buildRuntimeSnapshot(candidate)
      BY <3>1 DEF buildRuntimeSnapshot, inherited, Targets
    <3>4. Valid(buildRuntimeSnapshot(candidate))
      BY <3>2, SnapshotValid DEF Inv, Publishing
    <3>5. Publishing'
      BY <2>3, <3>1, <3>2, <3>3, <3>4 DEF Inv, Publishing, Valid
    <3>6. Reading'
      BY <3>1 DEF Inv, Reading, Valid
    <3> QED
      BY <3>5, <3>6
  <2>4. Detaching' /\ LeftOnlyIfRefused'
    BY <1>2, <2>0, HookKept DEF CommitSnapshot, hookVars
  <2>5. NotStopped' /\ ReloadNotLost'
    BY <1>2, <2>0 DEF CommitSnapshot, Inv, NotStopped, ReloadNotLost, Alive
  <2> QED
    BY <2>1, <2>2, <2>3, <2>4, <2>5 DEF Inv
<1>3. CASE ReadBack
  <2>0. pc = "readback" /\ pc' \in {"query", "health", "wait"} /\ attempt' \in {attempt, "catch"}
    BY <1>3 DEF ReadBack, acceptPublish, throwCommitted, throw, afterPublish
  <2>1. Types'
    BY <1>3, <2>0 DEF ReadBack, acceptPublish, throwCommitted, Inv, Types, hookVars, packetVars
  <2>2. ASSUME throwCommitted /\ UNCHANGED applied PROVE Publishing' /\ Reading'
    <3>1. UNCHANGED <<outer, inner, applied, generation, reader>> /\ pc' = "query"
      BY <1>3, <2>2 DEF ReadBack, throwCommitted, throw, packetVars
    <3> QED
      BY <3>1, MapsKept
  <2>3. ASSUME acceptPublish PROVE Publishing' /\ Reading'
    <3>1. applied' = inner[outer] /\ pc' \in {"health", "wait"} /\ UNCHANGED <<outer, inner, generation, reader>>
      BY <1>3, <2>3 DEF ReadBack, acceptPublish, afterPublish, packetVars
    <3>2. /\ inner[outer] = buildRuntimeSnapshot(candidate) /\ candidate \in Configs
          /\ generation = applied.generation + 1
      BY <2>0 DEF Inv, Publishing, Types
    <3>3. inner[outer].generation = applied.generation + 1
      BY <3>2, SnapshotValid DEF Inv, Publishing
    <3>4. Publishing'
      BY <3>1, <3>2, <3>3 DEF Inv, Publishing, Valid
    <3>5. Reading'
      BY <3>1 DEF Inv, Reading, Valid
    <3> QED
      BY <3>4, <3>5
  <2>4. Detaching' /\ LeftOnlyIfRefused'
    BY <1>3, <2>0, HookKept DEF ReadBack, hookVars
  <2>5. NotStopped' /\ ReloadNotLost'
    BY <1>3, <2>0 DEF ReadBack, acceptPublish, throwCommitted, throw, Inv, NotStopped, ReloadNotLost, Alive
  <2> QED
    BY <1>3, <2>1, <2>2, <2>3, <2>4, <2>5 DEF Inv, ReadBack
<1> QED
  BY <1>1, <1>2, <1>3

\* The detach attempts and the end of the process.
LEMMA DetachStep ==
  ASSUME Inv, queryAttachedProgramId \/ detachProgram \/ FinishOutput
  PROVE  Inv'
<1> USE DEF Pcs, Running, Settled
<1>1. CASE queryAttachedProgramId
  <2>0. pc = "query" /\ pc' \in {"query", "clear", "statistics", "exit"}
    BY <1>1 DEF queryAttachedProgramId, detached, notDetached, throw, exitAs
  <2>1. Types'
    <3>1. attached' = FALSE \/ attached' = attached
      BY <1>1 DEF queryAttachedProgramId
    <3>2. attached' \in BOOLEAN
      BY <3>1, Zenon DEF Inv, Types
    <3> QED
      BY <1>1, <2>0, <3>2
         DEF queryAttachedProgramId, detached, notDetached, throw, exitAs, Inv, Types, storeVars, packetVars
  <2>2. Publishing' /\ Reading'
    BY <1>1, <2>0, MapsKept DEF queryAttachedProgramId, storeVars, packetVars
  <2>3. Detaching' /\ LeftOnlyIfRefused'
    BY <1>1, <2>0 DEF queryAttachedProgramId, detached, notDetached, throw, exitAs, Inv, Types, Detaching, LeftOnlyIfRefused
  <2>4. NotStopped' /\ ReloadNotLost'
    BY <1>1, <2>0 DEF queryAttachedProgramId, detached, notDetached, throw, exitAs, Inv, NotStopped, ReloadNotLost, Alive
  <2> QED
    BY <2>1, <2>2, <2>3, <2>4 DEF Inv
<1>2. CASE detachProgram
  <2>0. pc = "clear" /\ pc' \in {"query", "statistics", "exit"}
    BY <1>2 DEF detachProgram, detached, notDetached, throw, exitAs
  <2>1. Types'
    <3>1. attached' = FALSE \/ attached' = attached
      BY <1>2 DEF detachProgram, keepAttached
    <3>2. attached' \in BOOLEAN
      BY <3>1, Zenon DEF Inv, Types
    <3> QED
      BY <1>2, <2>0, <3>2
         DEF detachProgram, detached, notDetached, throw, exitAs, Inv, Types, storeVars, packetVars
  <2>2. Publishing' /\ Reading'
    BY <1>2, <2>0, MapsKept DEF detachProgram, storeVars, packetVars
  <2>3. Detaching' /\ LeftOnlyIfRefused'
    BY <1>2, <2>0 DEF detachProgram, bpfXdpDetach, detached, notDetached, keepAttached, throw, exitAs, Inv, Types, Detaching, LeftOnlyIfRefused
  <2>4. NotStopped' /\ ReloadNotLost'
    BY <1>2, <2>0 DEF detachProgram, detached, notDetached, throw, exitAs, Inv, NotStopped, ReloadNotLost, Alive
  <2> QED
    BY <2>1, <2>2, <2>3, <2>4 DEF Inv
<1>3. CASE FinishOutput
  <2>0. pc = "statistics" /\ pc' \in {"query", "exit"}
    BY <1>3 DEF FinishOutput, throw, exitAs
  <2>1. Types'
    BY <1>3, <2>0 DEF FinishOutput, throw, exitAs, Inv, Types, storeVars, packetVars
  <2>2. Publishing' /\ Reading'
    BY <1>3, <2>0, MapsKept DEF FinishOutput, storeVars, packetVars
  <2>3. Detaching' /\ LeftOnlyIfRefused'
    BY <1>3, <2>0 DEF FinishOutput, throw, exitAs, Inv, Detaching, LeftOnlyIfRefused
  <2>4. NotStopped' /\ ReloadNotLost'
    BY <1>3, <2>0 DEF FinishOutput, throw, exitAs, Inv, NotStopped, ReloadNotLost, Alive
  <2> QED
    BY <2>1, <2>2, <2>3, <2>4 DEF Inv
<1> QED
  BY <1>1, <1>2, <1>3

\* A packet on one CPU: it takes the active map, which is no candidate.
LEMMA PacketStep ==
  ASSUME Inv, XdpProgram
  PROVE  Inv'
<1> PICK c \in Cpu : LookupSnapshot(c) \/ ReadCount(c) \/ ReadBackend(c)
  BY DEF XdpProgram
<1>1. loaderUnchanged
  BY DEF LookupSnapshot, ReadCount, ReadBackend
<1>2. reader' = [reader EXCEPT ![c] = reader'[c]]
  BY DEF LookupSnapshot, ReadCount, ReadBackend, answer, Inv, Types
<1>3. /\ \A d \in Cpu : d # c => reader'[d] = reader[d]
      /\ reader' = [d \in Cpu |-> reader'[d]]
  BY <1>2 DEF Inv, Types
<1>4. \/ reader'[c] = Idle
      \/ reader'[c] = [at |-> "config", map |-> outer, count |-> 0]
      \/ /\ reader[c].at = "config"
         /\ reader'[c] = [at |-> "select", map |-> reader[c].map,
                          count |-> Len(inner[reader[c].map].links)]
  BY DEF LookupSnapshot, ReadCount, ReadBackend, answer, Inv, Types
<1>5. Types'
  BY <1>1, <1>3 DEF loaderUnchanged, loopVars, storeVars, hookVars, Inv, Types
<1>6. buildRuntimeSnapshot(candidate)' = buildRuntimeSnapshot(candidate)
  BY <1>1 DEF loaderUnchanged, loopVars, storeVars, buildRuntimeSnapshot, inherited, Targets
<1>7. ASSUME pc = "commit" PROVE ~Held(prepared)'
  BY <1>1, <1>3, <1>4, <1>7 DEF loaderUnchanged, storeVars, Inv, Publishing, Held, Idle
<1>8. Publishing'
  BY <1>1, <1>6, <1>7 DEF loaderUnchanged, loopVars, storeVars, Inv, Publishing, Valid
<1>9. Reading'
  BY <1>1, <1>3, <1>4 DEF loaderUnchanged, storeVars, Inv, Types, Publishing, Reading, Valid, Idle
<1>10. NotStopped' /\ Detaching' /\ ReloadNotLost' /\ LeftOnlyIfRefused'
  BY <1>1 DEF loaderUnchanged, loopVars, hookVars, Inv, NotStopped, Detaching, ReloadNotLost,
     LeftOnlyIfRefused, Alive
<1> QED
  BY <1>5, <1>8, <1>9, <1>10 DEF Inv

\* The others change neither the maps nor the loop's state.
LEMMA EnvironmentStep ==
  ASSUME Inv, Environment \/ UNCHANGED vars
  PROVE  Inv'
<1> USE DEF loopVars, hookVars
<1>1. /\ UNCHANGED <<storeVars, packetVars, attempt, sig, configuration, candidate, healthy,
                     attached, refused, exitCode>>
      /\ pc' \in {pc, "killed"} /\ file' \in Configs \cup {None}
      /\ hook' = "own" => hook = "own"
      /\ asked' => asked \/ "HUP" \in pending'
      /\ pending \subseteq pending'
  <2>1. ASSUME NEW s \in Signals, SendSignal(s)
        PROVE  (asked' => asked \/ "HUP" \in pending') /\ pending \subseteq pending'
    BY <2>1, Zenon DEF SendSignal
  <2>2. CASE \E s \in Signals : SendSignal(s)
    <3>1. (asked' => asked \/ "HUP" \in pending') /\ pending \subseteq pending'
      BY <2>1, <2>2
    <3> QED
      BY <2>2, <3>1 DEF SendSignal, Inv, Types
  <2>3. CASE RepeatHup
    BY <2>3 DEF RepeatHup, Inv, Types
  <2>4. CASE ReplaceFile
    BY <2>4 DEF ReplaceFile
  <2>5. CASE SecondPasses
    BY <2>5 DEF SecondPasses, Inv, Types
  <2>6. CASE OtherUser
    BY <2>6 DEF OtherUser, Inv, Types
  <2>7. CASE Kill
    BY <2>7 DEF Kill, Inv, Types
  <2>8. CASE UNCHANGED vars
    BY <2>8 DEF vars, Inv, Types
  <2> QED
    BY <2>2, <2>3, <2>4, <2>5, <2>6, <2>7, <2>8 DEF Environment
<1>2. Types'
  BY <1>1 DEF storeVars, packetVars, Inv, Types, Pcs
<1>3. buildRuntimeSnapshot(candidate)' = buildRuntimeSnapshot(candidate)
  BY <1>1 DEF storeVars, buildRuntimeSnapshot, inherited, Targets
<1>4. Held(prepared)' = Held(prepared)
  BY <1>1 DEF storeVars, packetVars, Held
<1>5. Publishing'
  BY <1>1, <1>3, <1>4 DEF storeVars, Inv, Publishing, Valid, Settled, Running
<1>6. Reading'
  BY <1>1 DEF storeVars, packetVars, Inv, Reading, Valid
<1>7. NotStopped' /\ Detaching' /\ LeftOnlyIfRefused'
  BY <1>1 DEF Inv, NotStopped, Detaching, LeftOnlyIfRefused, Settled, Running
<1>8. ReloadNotLost'
  BY <1>1 DEF Inv, ReloadNotLost, Alive
<1> QED
  BY <1>2, <1>5, <1>6, <1>7, <1>8 DEF Inv

\* Every step keeps the invariant.
LEMMA InvStep == Inv /\ [Next]_vars => Inv'
  BY LoopStep, PublishStep, DetachStep, PacketStep, EnvironmentStep DEF Next, Loader
-----------------------------------------------------------------------------
(***************************************************************************)
(* The theorems                                                            *)
(***************************************************************************)

\* The invariant holds in every reachable state.
LEMMA Invariance == Spec => []Inv
  BY InitInv, InvStep, PTL DEF Spec

\* While the loop runs, what it believes is in force is what the kernel forwards
\* by; no HUP is forgotten; the program is left behind only if the kernel refused
\* at least two detach attempts, and not by a process that reports success.
THEOREM LoopSafe == Spec => [](AppliedIsActive /\ ReloadNotLost /\ LeftOnlyIfRefused)
<1>1. Inv => AppliedIsActive /\ ReloadNotLost /\ LeftOnlyIfRefused
  BY DEF Inv, Publishing, Settled, AppliedIsActive
<1> QED
  BY <1>1, Invariance, PTL

\* waitForRuntimeSignals and the reload: a HUP that came after the file was read is
\* pending or recorded, unless the loop is on its way out.
THEOREM ReloadSafe == Spec => []ReloadNotLost
  BY LoopSafe, PTL

\* XdpAttachment: a process that ended by itself left its program behind only if the
\* kernel refused to detach it twice, and it does not report success then.
THEOREM DetachSafe == Spec => []LeftOnlyIfRefused
  BY LoopSafe, PTL

\* Only a commit changes the active map.
LEMMA OnlyCommits ==
  ASSUME Inv, [Next]_vars, outer' # outer
  PROVE  CommitSnapshot /\ pc = "commit" /\ pc' = "readback" /\ outer' = prepared
<1> USE DEF storeVars
<1>1. CommitSnapshot
  BY DEF Next, Loader, XdpProgram, Environment, vars, attachProgram, LoopTop,
     pollProbeTransitions, CheckSignals, ReloadFile, AdmitReload, publishChangedHealthySnapshot,
     waitForRuntimeSignalsOrOutput, ControlFails, PrepareSnapshot, ReadBack,
     queryAttachedProgramId, detachProgram, FinishOutput, LookupSnapshot, ReadCount, ReadBackend,
     loaderUnchanged, SendSignal, RepeatHup, ReplaceFile, SecondPasses, OtherUser, Kill
<1> QED
  BY <1>1 DEF CommitSnapshot

\* Nothing is committed once a stop signal was taken.
THEOREM StopSafe == Spec => StopIsFinal
<1>1. Inv /\ [Next]_vars => [sig.stop => outer' = outer]_vars
  BY OnlyCommits DEF Inv, NotStopped, Settled, Running
<1> QED
  BY <1>1, Invariance, PTL DEF Spec, StopIsFinal
-----------------------------------------------------------------------------
(***************************************************************************)
(* Types and health                                                        *)
(***************************************************************************)

\* What the loop keeps besides its place.
Requests ==
  /\ pending \subseteq AllSignals /\ asked \in BOOLEAN
  /\ due \in BOOLEAN /\ nowDue \in BOOLEAN /\ reason \in {"reload", "health"}

\* A publish starts only below the largest generation.
Store ==
  /\ generation \in 1 .. MaxGeneration /\ prepared \in Inner /\ refusals \in 0 .. MaxRefusals
  /\ inner \in [Inner -> Snapshots] /\ applied \in Snapshots
  /\ pc \in {"admit", "prepare", "commit", "readback"} => applied.generation < MaxGeneration

\* The checker's healthy targets are the last reports on the targets in force.
Health == healthy = up /\ healthy \subseteq Targets(configuration)

\* Each of the three detach attempts is refused at most once.
Attempts ==
  /\ hook \in {"none", "own", "other"} /\ exitCode \in {"none", "ok", "error"}
  /\ pc \in Settled \cup {"readback", "statistics"} => attempt = "stop"
  /\ refused <= CASE attempt = "stop" -> 0
                  [] attempt = "catch" -> 1
                  [] OTHER -> IF Alive THEN 2 ELSE 3

\* Where the packet of each CPU is, and what the last one was answered.
Packets ==
  /\ reader \in [Cpu -> [at : {"idle", "config", "select"}, map : Inner, count : Nat]]
  /\ verdict \in [Cpu -> {Link[t] : t \in Target} \cup {"none", "drop", "pass"}]

FullInv == Inv /\ Requests /\ Store /\ Health /\ Attempts /\ Packets

\* Before the loader runs nothing is published, checked or attached.
LEMMA InitFull == Init => FullInv
<1> SUFFICES ASSUME Init PROVE FullInv
  OBVIOUS
<1>1. 0 \in Inner
  BY RuntimeBounds, FS_CardinalityType DEF Inner
<1>2. Requests
  BY DEF Init, Requests
<1>3. Store
  <2>1. <<>> \in Seq({Link[t] : t \in Target})
    OBVIOUS
  <2>2. applied \in Snapshots /\ inner \in [Inner -> Snapshots]
    BY <2>1, RuntimeBounds DEF Init, Snapshots
  <2> QED
    BY <1>1, <2>2, RuntimeBounds DEF Init, Store
<1>4. Health
  BY DEF Init, Health
<1>5. Attempts
  BY DEF Init, Attempts
<1>6. Packets
  BY <1>1 DEF Init, Packets, Idle
<1> QED
  BY <1>2, <1>3, <1>4, <1>5, <1>6, InitInv DEF FullInv

\* Signals are taken or sent, and a second begins or passes.
LEMMA RequestsStep ==
  ASSUME Inv, Inv', Requests, [Next]_vars
  PROVE  Requests'
<1> USE DEF Next, Loader, XdpProgram, Environment, vars, attachProgram, LoopTop,
     pollProbeTransitions, CheckSignals, ReloadFile, AdmitReload, publishChangedHealthySnapshot,
     waitForRuntimeSignalsOrOutput, ControlFails, PrepareSnapshot, CommitSnapshot, ReadBack,
     queryAttachedProgramId, detachProgram, FinishOutput, LookupSnapshot, ReadCount, ReadBackend,
     loaderUnchanged, loopVars, SendSignal, RepeatHup, ReplaceFile, SecondPasses, OtherUser, Kill
<1>1. \/ pending' = pending \/ consumeRuntimeSignals
      \/ \E s \in Signals : pending' = pending \cup {s}
  OBVIOUS
<1>2. pending' \subseteq AllSignals
  BY ONLY <1>1, Requests, RuntimeBounds DEF Requests, consumeRuntimeSignals, AllSignals
<1>3. asked' = asked \/ asked' = FALSE \/ asked' = TRUE \/ \E s \in Signals : asked' = (asked \/ s = "HUP")
  OBVIOUS
<1>4. asked' \in BOOLEAN
  BY ONLY <1>3, Requests, Zenon DEF Requests
<1>5. \/ due' \in {due, TRUE, sig'.stop}
      \/ due' = (due /\ sig'.stop)
  OBVIOUS
<1>6. sig'.stop \in BOOLEAN
  BY ONLY Inv' DEF Inv, Types
<1>7. due' \in BOOLEAN
  BY ONLY <1>5, <1>6, Requests, Zenon DEF Requests
<1>8. nowDue' \in {nowDue, due}
  OBVIOUS
<1>9. nowDue' \in BOOLEAN
  BY ONLY <1>8, Requests, Zenon DEF Requests
<1>10. reason' \in {"reload", "health"}
  BY DEF Requests
<1> QED
  BY ONLY <1>2, <1>4, <1>7, <1>9, <1>10 DEF Requests

\* A publish adds a snapshot whose generation is still in range.
LEMMA StoreStep ==
  ASSUME Inv, Inv', Store, [Next]_vars
  PROVE  Store'
<1> DEFINE Close == {"admit", "prepare", "commit", "readback"}
<1>1. ASSUME UNCHANGED <<generation, inner, applied>>, prepared' \in {prepared, outer},
             refusals' = refusals \/ (refusals > 0 /\ refusals' = refusals - 1),
             pc' \in Close => applied.generation < MaxGeneration
      PROVE  Store'
  BY <1>1, RuntimeBounds DEF Store, Inv, Types
<1>2. applied.generation \in 0 .. MaxGeneration /\ Valid(applied)
  BY DEF Store, Snapshots, Inv, Publishing
<1>3. ASSUME NEW config \in Configs, applied.generation < MaxGeneration
      PROVE  buildRuntimeSnapshot(config) \in Snapshots
               /\ buildRuntimeSnapshot(config).generation \in 1 .. MaxGeneration
  <2> DEFINE s == buildRuntimeSnapshot(config)
  <2>1. s = [generation |-> applied.generation + 1, links |-> s.links]
          /\ s.generation = applied.generation + 1
    BY <1>2, SnapshotValid
  <2>2. s.links \in Seq({Link[t] : t \in Target})
    BY SnapshotInOrder
  <2>3. applied.generation + 1 \in 1 .. MaxGeneration /\ applied.generation + 1 \in 0 .. MaxGeneration
    BY <1>2, <1>3, RuntimeBounds
  <2> HIDE DEF s
  <2> QED
    BY <2>1, <2>2, <2>3 DEF Snapshots, s
<1>4. CASE PrepareSnapshot
  <2>1. CASE rejectPublish /\ UNCHANGED inner
    BY <1>1, <1>4, <2>1 DEF PrepareSnapshot, rejectPublish, afterPublish
  <2>2. CASE /\ prepared' = candidateMap
             /\ inner' = [inner EXCEPT ![candidateMap] = buildRuntimeSnapshot(candidate)]
             /\ UNCHANGED refusals
    <3>1. applied.generation < MaxGeneration /\ candidate \in Configs
      BY <1>4 DEF PrepareSnapshot, Store, Inv, Types
    <3>2. buildRuntimeSnapshot(candidate) \in Snapshots
      BY <1>3, <3>1
    <3>3. candidateMap \in Inner
      BY CandidateIsFree
    <3>4. inner' \in [Inner -> Snapshots] /\ prepared' \in Inner
      BY <2>2, <3>2, <3>3 DEF Store
    <3>5. UNCHANGED <<generation, applied>>
      BY <1>4 DEF PrepareSnapshot
    <3> QED
      BY <2>2, <3>1, <3>4, <3>5 DEF Store
  <2> QED
    BY <1>4, <2>1, <2>2 DEF PrepareSnapshot
<1>5. CASE CommitSnapshot
  <2>1. CASE rejectPublish /\ UNCHANGED <<outer, generation>>
    BY <1>1, <1>5, <2>1 DEF CommitSnapshot, rejectPublish, afterPublish
  <2>2. CASE generation' = applied.generation + 1 /\ UNCHANGED <<prepared, refusals>>
    <3>1. applied.generation < MaxGeneration /\ UNCHANGED <<inner, applied>>
      BY <1>5 DEF CommitSnapshot, Store
    <3>2. generation' \in 1 .. MaxGeneration
      BY <1>2, <2>2, <3>1, RuntimeBounds
    <3> QED
      BY <2>2, <3>1, <3>2 DEF Store
  <2> QED
    BY <1>5, <2>1, <2>2 DEF CommitSnapshot
<1>6. CASE ReadBack
  <2>1. UNCHANGED <<generation, prepared, inner, refusals>> /\ pc' \in {"health", "wait", "query"}
          /\ applied' \in {applied, inner[outer]}
    BY <1>6 DEF ReadBack, acceptPublish, afterPublish, throwCommitted, throw
  <2>2. inner[outer] \in Snapshots
    BY DEF Store, Inv, Types
  <2> QED
    BY <2>1, <2>2 DEF Store
<1>7. CASE ~(PrepareSnapshot \/ CommitSnapshot \/ ReadBack)
  <2>1. UNCHANGED <<generation, inner, applied, prepared>>
    BY <1>7 DEF Next, Loader, XdpProgram, Environment, vars, attachProgram, LoopTop,
     pollProbeTransitions, CheckSignals, ReloadFile, AdmitReload, publishChangedHealthySnapshot,
     waitForRuntimeSignalsOrOutput, ControlFails,
     queryAttachedProgramId, detachProgram, FinishOutput, LookupSnapshot, ReadCount, ReadBackend,
     loaderUnchanged, storeVars, SendSignal, RepeatHup, ReplaceFile, SecondPasses, OtherUser, Kill
  <2>2. refusals' = refusals \/ (refusals > 0 /\ refusals' = refusals - 1)
    BY <1>7 DEF Next, Loader, XdpProgram, Environment, vars, attachProgram, LoopTop,
     pollProbeTransitions, CheckSignals, ReloadFile, AdmitReload, publishChangedHealthySnapshot,
     waitForRuntimeSignalsOrOutput, ControlFails,
     queryAttachedProgramId, detachProgram, FinishOutput, LookupSnapshot, ReadCount, ReadBackend,
     loaderUnchanged, storeVars, SendSignal, RepeatHup, ReplaceFile, SecondPasses, OtherUser, Kill
  <2>3. pc' \in Close => pc \in Close \/ applied.generation # MaxGeneration
    BY <1>7 DEF Next, Loader, XdpProgram, Environment, vars, attachProgram, LoopTop,
     pollProbeTransitions, CheckSignals, ReloadFile, AdmitReload, publishChangedHealthySnapshot,
     admitPublish, continueAt, exhausted, throw, exitAs, detached, notDetached,
     waitForRuntimeSignalsOrOutput, ControlFails,
     queryAttachedProgramId, detachProgram, FinishOutput, LookupSnapshot, ReadCount, ReadBackend,
     loaderUnchanged, loopVars, SendSignal, RepeatHup, ReplaceFile, SecondPasses, OtherUser, Kill
  <2>4. pc' \in Close => applied.generation < MaxGeneration
    BY <1>2, <2>3, RuntimeBounds DEF Store
  <2> QED
    BY <1>1, <2>1, <2>2, <2>4
<1> QED
  BY <1>4, <1>5, <1>6, <1>7

\* A poll replaces the reports, and a reload keeps those on targets that stay.
LEMMA HealthStep ==
  ASSUME Inv, Health, [Next]_vars
  PROVE  Health'
<1>1. \/ \E h \in SUBSET Targets(configuration) : healthy' = h /\ up' = h /\ UNCHANGED configuration
      \/ UNCHANGED <<healthy, up, configuration>>
      \/ acceptPublish
  BY DEF Next, Loader, XdpProgram, Environment, vars, attachProgram, LoopTop,
     pollProbeTransitions, CheckSignals, ReloadFile, AdmitReload, publishChangedHealthySnapshot,
     waitForRuntimeSignalsOrOutput, ControlFails, PrepareSnapshot, CommitSnapshot, ReadBack,
     queryAttachedProgramId, detachProgram, FinishOutput, LookupSnapshot, ReadCount, ReadBackend,
     loaderUnchanged, loopVars, SendSignal, RepeatHup, ReplaceFile, SecondPasses, OtherUser, Kill
<1> QED
  BY ONLY <1>1, Health DEF Health, Targets, acceptPublish, inherited

\* Only the three attempts are refused, each at most once.
LEMMA AttemptsStep ==
  ASSUME Inv, Inv', Attempts, [Next]_vars
  PROVE  Attempts'
<1> USE DEF Settled, Running
<1>1. hook' \in {"none", "own", "other"}
  BY DEF Attempts, Next, Loader, XdpProgram, Environment, vars, hookVars, attachProgram, LoopTop,
     pollProbeTransitions, CheckSignals, ReloadFile, AdmitReload, publishChangedHealthySnapshot,
     waitForRuntimeSignalsOrOutput, ControlFails, PrepareSnapshot, CommitSnapshot, ReadBack,
     queryAttachedProgramId, detachProgram, bpfXdpDetach, FinishOutput, LookupSnapshot, ReadCount,
     ReadBackend, loaderUnchanged, SendSignal, RepeatHup, ReplaceFile, SecondPasses, OtherUser, Kill
<1>2. exitCode' \in {"none", "ok", "error"}
  BY DEF Attempts, Next, Loader, XdpProgram, Environment, vars, hookVars, attachProgram, LoopTop,
     pollProbeTransitions, CheckSignals, ReloadFile, AdmitReload, publishChangedHealthySnapshot,
     waitForRuntimeSignalsOrOutput, ControlFails, PrepareSnapshot, CommitSnapshot, ReadBack,
     queryAttachedProgramId, detachProgram, detached, notDetached, exitAs, FinishOutput,
     LookupSnapshot, ReadCount,
     ReadBackend, loaderUnchanged, SendSignal, RepeatHup, ReplaceFile, SecondPasses, OtherUser, Kill
<1>3. refused \in Nat
  BY DEF Inv, Types
<1>4. CASE queryAttachedProgramId \/ detachProgram
  <2>1. \/ detached /\ UNCHANGED refused
        \/ pc' = "clear" /\ UNCHANGED <<attempt, refused>>
        \/ notDetached
    BY <1>4 DEF queryAttachedProgramId, detachProgram
  <2>2. pc \in {"query", "clear"} /\ attempt \in {"stop", "catch", "destructor"}
    BY <1>4 DEF queryAttachedProgramId, detachProgram, Inv, Types
  <2> QED
    BY <1>1, <1>2, <1>3, <2>1, <2>2 DEF Attempts, detached, notDetached, exitAs, throw, Alive
<1>5. CASE ~(queryAttachedProgramId \/ detachProgram)
  <2>1. UNCHANGED refused /\ (attempt' = attempt \/ (throw /\ pc \in Settled \cup {"readback", "statistics"}))
    BY <1>5 DEF Next, Loader, XdpProgram, Environment, vars, loopVars, hookVars, attachProgram, LoopTop,
     pollProbeTransitions, CheckSignals, ReloadFile, AdmitReload, publishChangedHealthySnapshot,
     waitForRuntimeSignalsOrOutput, ControlFails, PrepareSnapshot, CommitSnapshot, ReadBack,
     throwCommitted, FinishOutput, LookupSnapshot, ReadCount,
     ReadBackend, loaderUnchanged, SendSignal, RepeatHup, ReplaceFile, SecondPasses, OtherUser, Kill
  <2>2. /\ ~Alive => pc' = pc
        /\ pc' \in Settled \cup {"readback", "statistics"} =>
             pc \in Settled \cup {"readback", "statistics"}
    BY <1>5 DEF Alive, Next, Loader, XdpProgram, Environment, vars, loopVars, attachProgram, LoopTop,
     pollProbeTransitions, CheckSignals, ReloadFile, AdmitReload, publishChangedHealthySnapshot,
     admitPublish, continueAt, exitAs, throw, rejectPublish, afterPublish, acceptPublish,
     waitForRuntimeSignalsOrOutput, ControlFails, PrepareSnapshot, CommitSnapshot, ReadBack,
     throwCommitted, FinishOutput, LookupSnapshot, ReadCount,
     ReadBackend, loaderUnchanged, SendSignal, RepeatHup, ReplaceFile, SecondPasses, OtherUser, Kill
  <2> QED
    BY <1>1, <1>2, <1>3, <2>1, <2>2 DEF Attempts, throw, Alive
<1> QED
  BY <1>4, <1>5

\* A packet takes a map and answers with one of its links.
LEMMA PacketsStep ==
  ASSUME Inv, Store, Packets, [Next]_vars
  PROVE  Packets'
<1>1. UNCHANGED packetVars \/ XdpProgram
  BY DEF Next, Loader, Environment, vars, attachProgram, LoopTop,
     pollProbeTransitions, CheckSignals, ReloadFile, AdmitReload, publishChangedHealthySnapshot,
     waitForRuntimeSignalsOrOutput, ControlFails, PrepareSnapshot, CommitSnapshot, ReadBack,
     queryAttachedProgramId, detachProgram, FinishOutput,
     SendSignal, RepeatHup, ReplaceFile, SecondPasses, OtherUser, Kill
<1>2. CASE UNCHANGED packetVars
  BY <1>2 DEF Packets, packetVars
<1>3. CASE XdpProgram
  <2> PICK c \in Cpu : LookupSnapshot(c) \/ ReadCount(c) \/ ReadBackend(c)
    BY <1>3 DEF XdpProgram
  <2>1. reader[c].map \in Inner /\ outer \in Inner
    BY DEF Packets, Inv, Types
  <2>2. inner[reader[c].map].links \in Seq({Link[t] : t \in Target})
    BY <2>1 DEF Store, Snapshots
  <2> DEFINE L == inner[reader[c].map].links
             Links == {Link[t] : t \in Target}
  <2>3. L \in Seq(Links) /\ Len(L) \in Nat
    BY <2>2
  <2> HIDE DEF Links
  <2>4. \A key \in Nat : key > 0 /\ ~(key > Len(L)) => L[key] \in Links
    BY <2>3
  <2>5. ASSUME NEW v \in Links \cup {"none", "drop", "pass"}, answer(c, v)
        PROVE  Packets'
    <3>1. 0 \in Inner
      BY RuntimeBounds, FS_CardinalityType DEF Inner
    <3> QED
      BY <2>5, <3>1 DEF Packets, answer, Idle, Links
  <2>6. CASE LookupSnapshot(c)
    BY <2>1, <2>6 DEF LookupSnapshot, Packets
  <2>7. CASE ReadCount(c)
    <3>1. CASE answer(c, "pass") \/ answer(c, "drop")
      BY <2>5, <3>1
    <3>2. CASE /\ UNCHANGED verdict
               /\ reader' = [reader EXCEPT ![c] =
                               [at |-> "select", map |-> @.map, count |-> Len(L)]]
      BY <2>1, <2>3, <3>2 DEF Packets
    <3> QED
      BY <2>7, <3>1, <3>2 DEF ReadCount
  <2>8. CASE ReadBackend(c)
    <3>1. reader[c].count \in Nat
      BY DEF Packets
    <3>2. PICK key \in 1 .. reader[c].count :
            \/ answer(c, IF key > Len(L) THEN "pass" ELSE L[key])
            \/ answer(c, "drop")
      BY <2>8 DEF ReadBackend
    <3>3. (IF key > Len(L) THEN "pass" ELSE L[key]) \in Links \cup {"none", "drop", "pass"}
      BY <2>4, <3>1
    <3> QED
      BY <2>5, <3>2, <3>3
  <2> QED
    BY <2>6, <2>7, <2>8
<1> QED
  BY <1>1, <1>2, <1>3

\* Every step of the loop, the checker, the kernel and the packets preserves FullInv.
LEMMA FullStep == FullInv /\ [Next]_vars => FullInv'
  BY InvStep, RequestsStep, StoreStep, HealthStep, AttemptsStep, PacketsStep DEF FullInv

\* Every variable has its type in every reachable state: no generation passes the
\* limit that publishSnapshot checks, and at most three detach attempts are refused.
THEOREM TypeCorrect == Spec => []TypeOK
<1>1. FullInv => TypeOK
  <2> SUFFICES ASSUME FullInv PROVE TypeOK
    OBVIOUS
  <2>1. refused \in 0 .. 3
    BY DEF FullInv, Inv, Types, Attempts
  <2>2. up \subseteq Target
    BY RuntimeBounds DEF FullInv, Inv, Types, Health, Targets
  <2> QED
    BY <2>1, <2>2
       DEF FullInv, Inv, Types, Pcs, Requests, Store, Health, Attempts, Packets, TypeOK
<1> QED
  BY <1>1, InitFull, FullStep, PTL DEF Spec

\* commitSnapshot puts the links of exactly the targets in force that the checker
\* last reported healthy, in file order, and a reload inherits no other's health.
THEOREM HealthSafe == Spec => PublishedAreHealthy
<1>1. FullInv /\ [Next]_vars =>
        [outer' # outer => InFileOrder(inner'[outer'].links, candidate, up)]_vars
  <2> SUFFICES ASSUME FullInv, [Next]_vars, outer' # outer
               PROVE  InFileOrder(inner'[outer'].links, candidate, up)
    OBVIOUS
  <2>1. CommitSnapshot /\ pc = "commit" /\ outer' = prepared
    BY OnlyCommits DEF FullInv
  <2>2. inner'[outer'] = buildRuntimeSnapshot(candidate) /\ candidate \in Configs /\ healthy = up
    BY <2>1 DEF CommitSnapshot, FullInv, Inv, Types, Publishing, Health
  <2> QED
    BY <2>2, SnapshotInOrder
<1> QED
  BY <1>1, InitFull, FullStep, PTL DEF Spec, PublishedAreHealthy
-----------------------------------------------------------------------------
(***************************************************************************)
(* The refinement                                                          *)
(***************************************************************************)

Table    == inner[outer]
Versions == [c \in Cpu |-> HeldBy(c)]

\* A packet's step is a step of the abstract table's packet on the same CPU.
LEMMA PacketRefines ==
  ASSUME Inv, NEW c \in Cpu, LookupSnapshot(c) \/ ReadCount(c) \/ ReadBackend(c)
  PROVE  Abstract!Arrive(c) \/ Abstract!Answer(c) \/ UNCHANGED <<Table, Versions, verdict>>
<1>1. UNCHANGED <<inner, outer>> /\ Table' = Table
  BY DEF LookupSnapshot, ReadCount, ReadBackend, loaderUnchanged, storeVars, Table
<1> DEFINE M == inner[reader[c].map]
<1>2. ASSUME NEW r, reader' = [reader EXCEPT ![c] = r], NEW held,
             held = IF r.at = "idle" THEN <<>> ELSE <<inner[r.map]>>
      PROVE  Versions' = [Versions EXCEPT ![c] = held]
  BY <1>1, <1>2 DEF Inv, Types, Versions, HeldBy
<1>3. reader[c].at # "idle" => Versions[c] = <<M>>
  BY DEF Versions, HeldBy
<1>4. CASE LookupSnapshot(c)
  <2>1. Versions[c] = <<>>
    BY <1>4 DEF LookupSnapshot, Versions, HeldBy
  <2>2. Versions' = [Versions EXCEPT ![c] = <<Table>>]
    <3> DEFINE r == [at |-> "config", map |-> outer, count |-> 0]
    <3>1. reader' = [reader EXCEPT ![c] = r]
      BY <1>4 DEF LookupSnapshot
    <3>2. <<Table>> = IF r.at = "idle" THEN <<>> ELSE <<inner[r.map]>>
      BY DEF Table
    <3> HIDE DEF r
    <3> QED
      BY <1>2, <3>1, <3>2
  <2> QED
    BY <1>1, <1>4, <2>1, <2>2 DEF LookupSnapshot, Abstract!Arrive, Table, Versions
<1>5. ASSUME NEW v, answer(c, v), reader[c].at # "idle",
             v = "drop" \/ \E k \in 1 .. Len(M.links) : v = M.links[k]
      PROVE  Abstract!Answer(c)
  <2>1. Versions' = [Versions EXCEPT ![c] = <<>>]
    <3>1. reader' = [reader EXCEPT ![c] = Idle]
      BY <1>5 DEF answer
    <3>2. <<>> = IF Idle.at = "idle" THEN <<>> ELSE <<inner[Idle.map]>>
      BY DEF Idle
    <3> QED
      BY <1>2, <3>1, <3>2
  <2>2. Versions[c] # <<>> /\ Versions[c][1] = M
    BY <1>3, <1>5
  <2> QED
    BY <1>1, <1>5, <2>1, <2>2 DEF answer, Abstract!Answer, Table, Versions
<1>6. CASE ReadCount(c)
  <2>1. reader[c].at = "config" /\ M.generation # 0
    BY <1>6 DEF ReadCount, Inv, Reading, Valid
  <2>2. CASE answer(c, "drop")
    BY <1>5, <2>1, <2>2
  <2>3. CASE /\ UNCHANGED verdict
             /\ reader' = [reader EXCEPT ![c] =
                             [at |-> "select", map |-> @.map, count |-> Len(M.links)]]
    <3>1. Versions' = [Versions EXCEPT ![c] = <<M>>]
      <4> DEFINE r == [at |-> "select", map |-> reader[c].map, count |-> Len(M.links)]
      <4>1. reader' = [reader EXCEPT ![c] = r]
        BY <2>3 DEF Inv, Types
      <4>2. <<M>> = IF r.at = "idle" THEN <<>> ELSE <<inner[r.map]>>
        OBVIOUS
      <4> HIDE DEF r, M
      <4> QED
        BY <1>2, <4>1, <4>2
    <3>2. Versions' = Versions
      BY <1>3, <2>1, <3>1 DEF Versions
    <3> QED
      BY <1>1, <2>3, <3>2
  <2> QED
    BY <1>6, <2>1, <2>2, <2>3 DEF ReadCount
<1>7. CASE ReadBackend(c)
  <2>1. /\ reader[c].at = "select" /\ reader[c].count = Len(M.links) /\ Len(M.links) \in Nat
    BY <1>7 DEF ReadBackend, Inv, Reading, Valid
  <2>2. PICK key \in 1 .. Len(M.links) :
          \/ answer(c, IF key > Len(M.links) THEN "pass" ELSE M.links[key])
          \/ answer(c, "drop")
    BY <1>7, <2>1 DEF ReadBackend
  <2>3. (IF key > Len(M.links) THEN "pass" ELSE M.links[key]) = M.links[key]
    BY <2>1
  <2>4. answer(c, M.links[key]) \/ answer(c, "drop")
    BY <2>2, <2>3
  <2> QED
    BY <1>5, <2>1, <2>4
<1> QED
  BY <1>4, <1>6, <1>7

\* A step of the loader is a replacement of the table, if it commits, and else
\* changes nothing that the abstract table shows.
LEMMA LoaderRefines ==
  ASSUME Inv, Loader \/ Environment \/ UNCHANGED vars
  PROVE  Abstract!Replace \/ UNCHANGED <<Table, Versions, verdict>>
<1>1. CASE PrepareSnapshot
  <2>1. UNCHANGED <<outer, reader, verdict>>
    BY <1>1 DEF PrepareSnapshot, packetVars
  <2>2. candidateMap \in Inner /\ candidateMap # outer /\ ~Held(candidateMap)
    BY CandidateIsFree
  <2>3. \A i \in Inner : i # candidateMap => inner'[i] = inner[i]
    BY <1>1 DEF PrepareSnapshot, Inv, Types
  <2>4. Table' = Table
    BY <2>1, <2>2, <2>3 DEF Table, Inv, Types
  <2>5. \A c \in Cpu : HeldBy(c)' = HeldBy(c)
    BY <2>1, <2>2, <2>3 DEF HeldBy, Held, Inv, Reading
  <2> QED
    BY <2>1, <2>4, <2>5 DEF Versions
<1>2. CASE CommitSnapshot
  <2>1. UNCHANGED <<inner, reader, verdict>>
    BY <1>2 DEF CommitSnapshot, packetVars
  <2>2. Versions' = Versions
    BY <2>1 DEF Versions, HeldBy
  <2>3. CASE outer' = outer
    BY <2>1, <2>2, <2>3 DEF Table
  <2>4. CASE outer' = prepared
    <3>1. Table' = buildRuntimeSnapshot(candidate)
      BY <1>2, <2>1, <2>4 DEF CommitSnapshot, Table, Inv, Publishing
    <3>2. Table = applied /\ candidate \in Configs /\ Valid(applied)
      BY <1>2 DEF CommitSnapshot, Inv, Types, Publishing, Settled, Running, Table
    <3>3. Table' = [generation |-> Table.generation + 1, links |-> Table'.links]
      BY <3>1, <3>2, SnapshotValid
    <3> QED
      BY <2>1, <2>2, <3>3 DEF Abstract!Replace, Table, Versions
  <2> QED
    BY <1>2, <2>3, <2>4 DEF CommitSnapshot
<1>3. CASE UNCHANGED <<inner, outer, reader, verdict>>
  BY <1>3 DEF Table, Versions, HeldBy
<1>4. PrepareSnapshot \/ CommitSnapshot \/ UNCHANGED <<inner, outer, reader, verdict>>
  BY DEF Loader, Environment, vars, storeVars, packetVars, attachProgram, LoopTop,
     pollProbeTransitions, CheckSignals, ReloadFile, AdmitReload, publishChangedHealthySnapshot,
     waitForRuntimeSignalsOrOutput, ControlFails, ReadBack, queryAttachedProgramId,
     detachProgram, FinishOutput, SendSignal, RepeatHup, ReplaceFile, SecondPasses, OtherUser, Kill
<1> QED
  BY <1>1, <1>2, <1>3, <1>4

\* The maps and the XDP program implement one table that is replaced as a whole,
\* with every packet answered from a single version of it.
THEOREM Refinement == Spec => AtomicSnapshots
<1>1. Init => Abstract!Init
  <2>1. 0 \in Inner
    BY RuntimeBounds, FS_CardinalityType DEF Inner
  <2> QED
    BY <2>1 DEF Init, Idle, HeldBy, Abstract!Init
<1>2. Inv /\ [Next]_vars => [Abstract!Next]_(Abstract!tableVars)
  <2> SUFFICES ASSUME Inv, [Next]_vars
               PROVE  Abstract!Next \/ UNCHANGED <<Table, Versions, verdict>>
    BY DEF Abstract!tableVars, Table, Versions
  <2>1. CASE XdpProgram
    BY <2>1, PacketRefines DEF XdpProgram, Abstract!Next
  <2>2. CASE Loader \/ Environment \/ UNCHANGED vars
    BY <2>2, LoaderRefines DEF Abstract!Next
  <2> QED
    BY <2>1, <2>2 DEF Next
<1> QED
  BY <1>1, <1>2, Invariance, PTL DEF Spec, AtomicSnapshots, Abstract!Spec
==============================================================================
