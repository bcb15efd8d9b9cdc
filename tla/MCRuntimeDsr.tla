---------------------------- MODULE MCRuntimeDsr ----------------------------
(***************************************************************************)
(* RuntimeDsr with targets "blue" and "blue2", which differ in the probe   *)
(* endpoint only, and "green".                                             *)
(***************************************************************************)
EXTENDS RuntimeDsr

Targets3 == {"blue", "blue2", "green"}
Links3   == [t \in Targets3 |-> IF t = "green" THEN "out1" ELSE "out0"]

Renumbered == {<<"blue">>, <<"blue2">>, <<"green", "blue">>}
Fixed      == {<<"blue", "green">>}
Moved      == {<<"blue">>, <<"green">>}
=============================================================================
