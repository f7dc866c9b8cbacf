---------------------------- MODULE HotspotSwitch ----------------------------
(***************************************************************************)
(* What the tethering half of shill-bridge promises to Ash: a switch.      *)
(* The status Ash can observe leaves "idle" only because somebody turned   *)
(* the hotspot on, reports "active" only by way of "starting", and never   *)
(* stays in "starting".                                                    *)
(***************************************************************************)
VARIABLE status   \* "state" of the TetheringStatus property

TypeOK == status \in {"idle", "starting", "active"}

Init == status = "idle"

TurnOn == status' = "starting"

TurnOff == status' = "idle"

ComeUp ==
  /\ status = "starting"
  /\ status' = "active"

GiveUp ==
  /\ status = "starting"
  /\ status' = "idle"

Next == TurnOn \/ TurnOff \/ ComeUp

(* An attempt to come up is decided one way or the other. *)
Fairness == WF_status(ComeUp \/ GiveUp)

Safety == Init /\ [][Next]_status

Spec == Safety /\ Fairness
=============================================================================
