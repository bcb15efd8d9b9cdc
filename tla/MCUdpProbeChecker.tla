-------------------------- MODULE MCUdpProbeChecker --------------------------
(***************************************************************************)
(* Instances of the UDP probe checker for TLC.                             *)
(***************************************************************************)
EXTENDS UdpProbeChecker
==============================================================================
