---------------------------- MODULE MCAppRegistry ----------------------------
(* Small instances of AppRegistry for TLC: apps are interchangeable. *)
EXTENDS AppRegistry, TLC

Apps == Permutations(Id)
=============================================================================
