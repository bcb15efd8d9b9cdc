----------------------------- MODULE MCXdpLoader -----------------------------
(***************************************************************************)
(* Two loaders, one with maps and one without, and a detach process for    *)
(* the program with maps.                                                  *)
(***************************************************************************)
EXTENDS XdpLoader

Targets  == [d \in {"detach"} |-> "dsr"]
Profiles == [l \in {"dsr", "legacy"} |-> l]
Configs  == [l \in {"dsr", "legacy"} |-> IF l = "dsr" THEN <<"a", "b">> ELSE <<>>]
==============================================================================
