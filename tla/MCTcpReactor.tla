---- MODULE MCTcpReactor ----
(***************************************************************************)
(* Instances of the TCP reactor for TLC: where peers and session timers    *)
(* act.  Signals and the drain deadline come between any two steps in all  *)
(* of them.                                                                *)
(***************************************************************************)
EXTENDS TcpReactor

\* Between two handlers: what an event says may be stale when it is dispatched.
BetweenHandlers == {"poll", "polled", "dispatch"}

\* Only while the reactor waits: what an event says is stale only through what
\* the handlers before it did.
WhileWaiting == {"poll"}
====
