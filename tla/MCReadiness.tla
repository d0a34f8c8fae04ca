---------------------------- MODULE MCReadiness ----------------------------
(* Readiness for TLC: a server in app/ with two directories on its PATH;   *)
(* an endpoint may run in the second, or have a PATH of its own, with that *)
(* directory only or with all three.                                       *)
EXTENDS Readiness

MCServerPath == <<"bin", "opt">>

MCOwnPaths == {<<"opt">>, <<"opt", "app", "bin">>}
=============================================================================
