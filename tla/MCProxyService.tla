---------------------------- MODULE MCProxyService ----------------------------
(***************************************************************************)
(* Instances of the proxy service and its backend selection for TLC.       *)
(***************************************************************************)
EXTENDS ProxyService
==============================================================================
