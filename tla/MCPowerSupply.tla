---------------------------- MODULE MCPowerSupply ----------------------------
(* A mouse and two bays for batteries, one of which is charging for an     *)
(* unknown time and one discharging when they are not something else.      *)
EXTENDS PowerSupply

MCReading ==
  {[percent |-> 40, state |-> 1, timeToEmpty |-> 0, timeToFull |-> 0],
   [percent |-> 70, state |-> 2, timeToEmpty |-> 9, timeToFull |-> 0]}
=============================================================================
