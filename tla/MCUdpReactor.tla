---- MODULE MCUdpReactor ----
(***************************************************************************)
(* The instance of the UDP reactor for TLC: one client key more than the   *)
(* table has room for, and as many tokens as let a flow be replaced.       *)
(***************************************************************************)
EXTENDS UdpReactor
====
