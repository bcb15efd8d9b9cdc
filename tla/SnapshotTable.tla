---------------------------- MODULE SnapshotTable ----------------------------
(***************************************************************************)
(* What the runtime DSR data plane promises, with neither maps nor         *)
(* control loop: one table of backends that is replaced as a whole, and    *)
(* packets that are answered each from one version of it.                  *)
(***************************************************************************)
EXTENDS Naturals, Sequences

CONSTANT Cpu

VARIABLES
  table,     \* the current version: its generation and the links in file order
  held,      \* per CPU, the version its packet is answered from, if any
  verdict    \* per CPU, what became of its last packet

tableVars == <<table, held, verdict>>

Init ==
  /\ table = [generation |-> 1, links |-> <<>>]
  /\ held = [c \in Cpu |-> <<>>] /\ verdict = [c \in Cpu |-> "none"]

Replace ==
  /\ table' = [generation |-> table.generation + 1, links |-> table'.links]
  /\ UNCHANGED <<held, verdict>>

Arrive(c) ==
  /\ held[c] = <<>> /\ held' = [held EXCEPT ![c] = <<table>>]
  /\ verdict' = [verdict EXCEPT ![c] = "none"] /\ UNCHANGED table

\* No packet for the VIP is let through to the host: it goes to a link of its
\* version, or is dropped.
Answer(c) ==
  /\ held[c] # <<>> /\ held' = [held EXCEPT ![c] = <<>>]
  /\ \/ verdict' = [verdict EXCEPT ![c] = "drop"]
     \/ \E k \in 1 .. Len(held[c][1].links) :
          verdict' = [verdict EXCEPT ![c] = held[c][1].links[k]]
  /\ UNCHANGED table

Next == Replace \/ \E c \in Cpu : Arrive(c) \/ Answer(c)

Spec == Init /\ [][Next]_tableVars
==============================================================================
