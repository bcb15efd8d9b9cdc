--------------------------- MODULE HealthSelection ---------------------------
(***************************************************************************)
(* Which backend a new TCP session or UDP flow gets: the round robin       *)
(* (src/core/RoundRobinScheduler.h) and the selection that skips backends  *)
(* which are not Healthy (src/control/HealthSelection.cpp).  The reactor's *)
(* maintenance callback and every selection poll the health checker first, *)
(* so eligibility may change at each of them.                              *)
(***************************************************************************)
EXTENDS Naturals

CONSTANTS
  N,                      \* backends in the configuration
  HealthCheck             \* health_check = tcp_connect; otherwise off, there is no checker

ASSUME SelectionBounds == N \in Nat \ {0} /\ HealthCheck \in BOOLEAN

Backend == 0 .. N - 1

VARIABLES
  eligible,               \* backends the checker has as Healthy
  nextBackendIndex,       \* the scheduler
  passedOver              \* history: selections of others while this one stayed eligible

vars == <<eligible, nextBackendIndex, passedOver>>

Init ==
  /\ eligible = (IF HealthCheck THEN {} ELSE Backend)     \* all Unknown, or no filter
  /\ nextBackendIndex = 0 /\ passedOver = [b \in Backend |-> 0]

\* The backend k places behind the scheduler's next one.
Ahead(k) == IF nextBackendIndex + k < N THEN nextBackendIndex + k ELSE nextBackendIndex + k - N

MutStayPut(b) == b                     \* mutant: the pointer stays on the chosen one
selectNextBackendIndex(b) == IF b = N - 1 THEN 0 ELSE b + 1

\* selectEligibleBackendIndex: the scheduler is asked until it names an eligible
\* backend, and not at all when there is none.
selectEligibleBackendIndex ==
  \/ eligible' = {} /\ UNCHANGED nextBackendIndex /\ passedOver' = [b \in Backend |-> 0]
  \/ \E k \in 0 .. N - 1 :
       /\ Ahead(k) \in eligible' /\ \A j \in 0 .. k - 1 : Ahead(j) \notin eligible'
       /\ nextBackendIndex' = selectNextBackendIndex(Ahead(k))
       /\ passedOver' = [b \in Backend |->
                          IF b \in eligible' /\ b # Ahead(k) THEN passedOver[b] + 1 ELSE 0]

Polled == IF HealthCheck THEN SUBSET Backend ELSE {Backend}

\* The poll comes first, so a long batch of new sessions sees current states.
selectBackend == eligible' \in Polled /\ selectEligibleBackendIndex

pollHealthProbes ==
  /\ HealthCheck /\ eligible' \in Polled /\ UNCHANGED nextBackendIndex
  /\ passedOver' = [b \in Backend |-> IF b \in eligible' THEN passedOver[b] ELSE 0]

Next == selectBackend \/ pollHealthProbes

Spec == Init /\ [][Next]_vars
-----------------------------------------------------------------------------
\* Every variable has its type.
TypeOK ==
  /\ eligible \subseteq Backend /\ nextBackendIndex \in Backend /\ passedOver \in [Backend -> Nat]

\* A backend that stays eligible is chosen at least once in N selections, however
\* the others come and go.
NoStarvation == \A b \in Backend : passedOver[b] < N
=============================================================================
