---- MODULE MCTcpHealthChecker ----
(***************************************************************************)
(* Instances of the health checker for TLC.                                *)
(***************************************************************************)
EXTENDS TcpHealthChecker
====
