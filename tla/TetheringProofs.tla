--------------------------- MODULE TetheringProofs ---------------------------
(***************************************************************************)
(* Proofs about Tethering, for any number of calls and radios.             *)
(***************************************************************************)
EXTENDS Tethering, TLAPS

(* What all the actions are written with. *)
USE DEF manager, locals, network, Status, Stage, AnnounceThen, Goto

(* Every variable stays in its type.                                       *)
LEMMA TypeStep == TypeOK /\ [Next]_vars => TypeOK'
<1> SUFFICES ASSUME TypeOK, [Next]_vars PROVE TypeOK'
  OBVIOUS
<1> USE DEF TypeOK
<1>1. ASSUME NEW c \in Call, EnableTethering(c) PROVE TypeOK'
  BY <1>1 DEF EnableTethering
<1>2. ASSUME NEW c \in Call, DisableTethering(c) PROVE TypeOK'
  BY <1>2 DEF DisableTethering
<1>3. ASSUME NEW c \in Call, Proceed(c) PROVE TypeOK'
  <2>1. CASE StartTethering(c)
    BY <2>1 DEF StartTethering
  <2>2. CASE EvaluateStatus(c)
    BY <2>2 DEF EvaluateStatus, TetheringStatus
  <2>3. CASE EmitStatus(c)
    BY <2>3 DEF EmitStatus
  <2>4. CASE FindWifiDevice(c)
    BY <2>4 DEF FindWifiDevice
  <2>5. CASE AddHotspot(c)
    BY <2>5 DEF AddHotspot, Activate
  <2>6. CASE HotspotUp(c)
    BY <2>6 DEF HotspotUp
  <2>7. CASE HotspotFailed(c)
    BY <2>7 DEF HotspotFailed
  <2>8. CASE ListConnections(c)
    BY <2>8 DEF ListConnections
  <2>9. CASE FindHotspot(c)
    BY <2>9 DEF FindHotspot
  <2>10. CASE DropHotspot(c)
    BY <2>10 DEF DropHotspot
  <2> QED
    BY <1>3, <2>1, <2>2, <2>3, <2>4, <2>5, <2>6, <2>7, <2>8, <2>9, <2>10
       DEF Proceed
<1>4. CASE Environment
  BY <1>4 DEF Environment, RefreshDevices, LoseHotspot, Unplug, Plug
<1>5. CASE UNCHANGED vars
  BY <1>5 DEF vars
<1> QED
  BY <1>1, <1>2, <1>3, <1>4, <1>5 DEF Next

THEOREM TypeCorrect == Spec => []TypeOK
<1>1. Init => TypeOK
  BY DEF Init, TypeOK
<1> QED
  BY <1>1, TypeStep, PTL DEF Spec

-----------------------------------------------------------------------------

(* Five actions write the fields of shillManager; the rest leave them.     *)
LEMMA FieldWrites ==
  ASSUME [Next]_vars
  PROVE  \/ \E c \in Call : StartTethering(c)
         \/ \E c \in Call : DisableTethering(c)
         \/ \E c \in Call : HotspotUp(c)
         \/ \E c \in Call : HotspotFailed(c)
         \/ UNCHANGED <<tetheringActive, tetheringState>>
<1>1. ASSUME NEW c \in Call, Proceed(c)
      PROVE  \/ StartTethering(c) \/ HotspotUp(c) \/ HotspotFailed(c)
             \/ UNCHANGED <<tetheringActive, tetheringState>>
  BY <1>1 DEF Proceed, EvaluateStatus, EmitStatus, FindWifiDevice, AddHotspot,
              ListConnections, FindHotspot, DropHotspot
<1>2. ASSUME NEW c \in Call, EnableTethering(c)
      PROVE  UNCHANGED <<tetheringActive, tetheringState>>
  BY <1>2 DEF EnableTethering
<1>3. Environment => UNCHANGED <<tetheringActive, tetheringState>>
  BY DEF Environment, RefreshDevices, LoseHotspot, Unplug, Plug
<1> QED
  BY <1>1, <1>2, <1>3 DEF Next, vars

(* Of the six values of the two fields two never occur: active with        *)
(* "idle", and inactive with "starting".  Inactive with "active" does: it  *)
(* is what HotspotUp leaves behind when a DisableTethering came first,     *)
(* and TetheringStatus takes it for idle.                                  *)
FieldsFit ==
  /\ tetheringActive => tetheringState # "idle"
  /\ ~tetheringActive => tetheringState # "starting"

(* It is inductive by itself: HotspotUp keeps it because it touches only   *)
(* the state, and "active" fits both values of tetheringActive.            *)
LEMMA FieldsStep == FieldsFit /\ [Next]_vars => FieldsFit'
<1> SUFFICES ASSUME FieldsFit, [Next]_vars PROVE FieldsFit'
  OBVIOUS
<1> USE DEF FieldsFit
<1>1. ASSUME NEW c \in Call, StartTethering(c) PROVE FieldsFit'
  BY <1>1 DEF StartTethering
<1>2. ASSUME NEW c \in Call, DisableTethering(c) PROVE FieldsFit'
  BY <1>2 DEF DisableTethering
<1>3. ASSUME NEW c \in Call, HotspotUp(c) PROVE FieldsFit'
  BY <1>3 DEF HotspotUp
<1>4. ASSUME NEW c \in Call, HotspotFailed(c) PROVE FieldsFit'
  BY <1>4 DEF HotspotFailed
<1> QED
  BY <1>1, <1>2, <1>3, <1>4, FieldWrites

LEMMA FieldsAlwaysFit == Spec => []FieldsFit
<1>1. Init => FieldsFit
  BY DEF Init, FieldsFit
<1> QED
  BY <1>1, FieldsStep, PTL DEF Spec

-----------------------------------------------------------------------------

(* StartingUnderWay is inductive with the types.  A goroutine stops        *)
(* attempting only in HotspotUp and HotspotFailed, and each of them        *)
(* replaces "starting", also one that another call has set meanwhile.      *)
LEMMA StartingStep ==
  TypeOK /\ StartingUnderWay /\ [Next]_vars => StartingUnderWay'
<1> SUFFICES ASSUME TypeOK, StartingUnderWay, [Next]_vars
             PROVE  StartingUnderWay'
  OBVIOUS
<1> USE DEF StartingUnderWay, Attempting, TetheringStatus, TypeOK
<1>1. ASSUME NEW c \in Call, EnableTethering(c) PROVE StartingUnderWay'
  BY <1>1 DEF EnableTethering, Arrives
<1>2. ASSUME NEW c \in Call, DisableTethering(c) PROVE StartingUnderWay'
  BY <1>2 DEF DisableTethering
<1>3. ASSUME NEW c \in Call, Proceed(c) PROVE StartingUnderWay'
  <2>1. CASE StartTethering(c)
    BY <2>1 DEF StartTethering
  <2>2. CASE EvaluateStatus(c)
    BY <2>2 DEF EvaluateStatus
  <2>3. CASE EmitStatus(c)
    BY <2>3 DEF EmitStatus
  <2>4. CASE FindWifiDevice(c)
    BY <2>4 DEF FindWifiDevice
  <2>5. CASE AddHotspot(c)
    BY <2>5 DEF AddHotspot
  <2>6. CASE HotspotUp(c)
    BY <2>6 DEF HotspotUp
  <2>7. CASE HotspotFailed(c)
    BY <2>7 DEF HotspotFailed
  <2>8. CASE ListConnections(c)
    BY <2>8 DEF ListConnections
  <2>9. CASE FindHotspot(c)
    BY <2>9 DEF FindHotspot
  <2>10. CASE DropHotspot(c)
    BY <2>10 DEF DropHotspot
  <2> QED
    BY <1>3, <2>1, <2>2, <2>3, <2>4, <2>5, <2>6, <2>7, <2>8, <2>9, <2>10
       DEF Proceed
<1>4. CASE Environment
  BY <1>4 DEF Environment, RefreshDevices, LoseHotspot, Unplug, Plug
<1>5. CASE UNCHANGED vars
  BY <1>5 DEF vars
<1> QED
  BY <1>1, <1>2, <1>3, <1>4, <1>5 DEF Next

(* A status of "starting" always has a goroutine under way that will       *)
(* replace it, for any number of calls, any overlap and any fault.         *)
THEOREM StartingAlwaysUnderWay == Spec => []StartingUnderWay
<1>1. Init => StartingUnderWay
  BY DEF Init, StartingUnderWay, TetheringStatus
<1> QED
  BY <1>1, StartingStep, TypeCorrect, PTL DEF Spec

-----------------------------------------------------------------------------

(* A step of the bridge is a step of the switch, or leaves it alone.       *)
LEMMA SwitchStep ==
  TypeOK /\ FieldsFit /\ [Next]_vars => [Switch!Next]_TetheringStatus
<1> SUFFICES ASSUME TypeOK, FieldsFit, [Next]_vars
             PROVE  [Switch!Next]_TetheringStatus
  OBVIOUS
<1> USE DEF TetheringStatus
<1>1. ASSUME NEW c \in Call, StartTethering(c) PROVE Switch!TurnOn
  BY <1>1 DEF StartTethering, Switch!TurnOn
<1>2. ASSUME NEW c \in Call, DisableTethering(c) PROVE Switch!TurnOff
  BY <1>2 DEF DisableTethering, Switch!TurnOff
<1>3. ASSUME NEW c \in Call, HotspotUp(c)
      PROVE  Switch!ComeUp \/ UNCHANGED TetheringStatus
  BY <1>3 DEF HotspotUp, TypeOK, FieldsFit, Switch!ComeUp
<1>4. ASSUME NEW c \in Call, HotspotFailed(c) PROVE Switch!TurnOff
  BY <1>4 DEF HotspotFailed, Switch!TurnOff
<1> QED
  BY <1>1, <1>2, <1>3, <1>4, FieldWrites DEF Switch!Next

(* Tethering implements the safety part of HotspotSwitch.                  *)
THEOREM ImplementsSwitch == Spec => Switch!Safety
<1>1. Init => Switch!Init
  BY DEF Init, Switch!Init, TetheringStatus
<1> QED
  BY <1>1, SwitchStep, TypeCorrect, FieldsAlwaysFit, PTL
     DEF Spec, Switch!Safety

-----------------------------------------------------------------------------
(* Calls that do not overlap.                                              *)

(* The strengthening of SignalAgreement that is inductive: at most one     *)
(* goroutine is under way; the argument it evaluated is still the current  *)
(* status when it emits it; and between announcements the last signal is.  *)
OneAtATime == \A c, d \in Call : ~Idle(c) /\ ~Idle(d) => c = d

Announcing(c) == pc[c] \in {"evaluate", "emit"}

Announced ==
  /\ \A c \in Call : pc[c] = "emit" => arg[c] = TetheringStatus
  /\ (\A c \in Call : ~Announcing(c)) => signalled = TetheringStatus

SerialInv == TypeOK /\ OneAtATime /\ Announced

LEMMA OneAtATimeStep ==
  ASSUME ~Overlap, TypeOK, OneAtATime, [Next]_vars
  PROVE  OneAtATime'
<1> USE DEF OneAtATime, Idle, TypeOK
<1>1. ASSUME NEW c \in Call, EnableTethering(c) PROVE OneAtATime'
  BY <1>1 DEF EnableTethering, Arrives, Quiet
<1>2. ASSUME NEW c \in Call, DisableTethering(c) PROVE OneAtATime'
  BY <1>2 DEF DisableTethering, Arrives, Quiet
<1>3. ASSUME NEW c \in Call, Proceed(c) PROVE OneAtATime'
  <2>1. /\ ~Idle(c)
        /\ \A d \in Call : d # c => pc'[d] = pc[d]
    BY <1>3 DEF Proceed, StartTethering, EvaluateStatus, EmitStatus,
                FindWifiDevice, AddHotspot, HotspotUp, HotspotFailed,
                ListConnections, FindHotspot, DropHotspot
  <2> QED
    BY <2>1
<1>4. CASE Environment
  BY <1>4 DEF Environment, RefreshDevices, LoseHotspot, Unplug, Plug
<1>5. CASE UNCHANGED vars
  BY <1>5 DEF vars
<1> QED
  BY <1>1, <1>2, <1>3, <1>4, <1>5 DEF Next

LEMMA AnnouncedStep ==
  ASSUME ~Overlap, SerialInv, [Next]_vars
  PROVE  Announced'
<1> USE DEF SerialInv, Announced, Announcing, TetheringStatus, TypeOK
<1>1. ASSUME NEW c \in Call, EnableTethering(c) PROVE Announced'
  BY <1>1 DEF EnableTethering, Arrives
<1>2. ASSUME NEW c \in Call, DisableTethering(c) PROVE Announced'
  BY <1>2 DEF DisableTethering, Arrives, Quiet, Idle
<1>3. ASSUME NEW c \in Call, Proceed(c) PROVE Announced'
  <2>1. \A d \in Call \ {c} : pc[d] \in {"new", "done"} \/ Idle(c)
    BY DEF OneAtATime, Idle
  <2>2. CASE StartTethering(c)
    BY <2>1, <2>2 DEF StartTethering, Idle
  <2>3. CASE EvaluateStatus(c)
    BY <2>1, <2>3 DEF EvaluateStatus, Idle
  <2>4. CASE EmitStatus(c)
    BY <2>1, <2>4 DEF EmitStatus, Idle
  <2>5. CASE FindWifiDevice(c)
    BY <2>5 DEF FindWifiDevice
  <2>6. CASE AddHotspot(c)
    BY <2>6 DEF AddHotspot
  <2>7. CASE HotspotUp(c)
    BY <2>1, <2>7 DEF HotspotUp, Idle
  <2>8. CASE HotspotFailed(c)
    BY <2>1, <2>8 DEF HotspotFailed, Idle
  <2>9. CASE ListConnections(c)
    BY <2>9 DEF ListConnections
  <2>10. CASE FindHotspot(c)
    BY <2>10 DEF FindHotspot
  <2>11. CASE DropHotspot(c)
    BY <2>11 DEF DropHotspot
  <2> QED
    BY <1>3, <2>2, <2>3, <2>4, <2>5, <2>6, <2>7, <2>8, <2>9, <2>10, <2>11
       DEF Proceed
<1>4. CASE Environment
  BY <1>4 DEF Environment, RefreshDevices, LoseHotspot, Unplug, Plug
<1>5. CASE UNCHANGED vars
  BY <1>5 DEF vars
<1> QED
  BY <1>1, <1>2, <1>3, <1>4, <1>5 DEF Next

LEMMA SerialInvariant ==
  ASSUME ~Overlap
  PROVE  Spec => []SerialInv
<1>1. Init => SerialInv
  BY DEF Init, SerialInv, TypeOK, OneAtATime, Idle, Announced, Announcing,
         TetheringStatus
<1>2. SerialInv /\ [Next]_vars => SerialInv'
  BY TypeStep, OneAtATimeStep, AnnouncedStep DEF SerialInv
<1> QED
  BY <1>1, <1>2, PTL DEF Spec

(* If Ash waits for a call's work to end before the next call, no late     *)
(* HotspotUp comes after a DisableTethering, and the two fields say the    *)
(* same: tethering is active exactly when the state is not idle.           *)
FieldsAgree == tetheringActive <=> tetheringState # "idle"

InTurn ==
  /\ FieldsAgree
  /\ \A c \in Call : Attempting(c) => tetheringActive

LEMMA InTurnStep ==
  ASSUME ~Overlap, SerialInv, InTurn, [Next]_vars
  PROVE  InTurn'
<1> USE DEF SerialInv, InTurn, FieldsAgree, Attempting, TypeOK
<1>1. ASSUME NEW c \in Call, EnableTethering(c) PROVE InTurn'
  BY <1>1 DEF EnableTethering, Arrives
<1>2. ASSUME NEW c \in Call, DisableTethering(c) PROVE InTurn'
  BY <1>2 DEF DisableTethering, Arrives, Quiet, Idle
<1>3. ASSUME NEW c \in Call, Proceed(c) PROVE InTurn'
  <2>1. \A d \in Call \ {c} : pc[d] \in {"new", "done"} \/ Idle(c)
    BY DEF OneAtATime, Idle
  <2>2. CASE StartTethering(c)
    BY <2>2 DEF StartTethering
  <2>3. CASE EvaluateStatus(c)
    BY <2>3 DEF EvaluateStatus
  <2>4. CASE EmitStatus(c)
    BY <2>4 DEF EmitStatus
  <2>5. CASE FindWifiDevice(c)
    BY <2>5 DEF FindWifiDevice
  <2>6. CASE AddHotspot(c)
    BY <2>6 DEF AddHotspot
  <2>7. CASE HotspotUp(c)
    BY <2>7 DEF HotspotUp
  <2>8. CASE HotspotFailed(c)
    BY <2>1, <2>8 DEF HotspotFailed, Idle
  <2>9. CASE ListConnections(c)
    BY <2>9 DEF ListConnections
  <2>10. CASE FindHotspot(c)
    BY <2>10 DEF FindHotspot
  <2>11. CASE DropHotspot(c)
    BY <2>11 DEF DropHotspot
  <2> QED
    BY <1>3, <2>2, <2>3, <2>4, <2>5, <2>6, <2>7, <2>8, <2>9, <2>10, <2>11
       DEF Proceed
<1>4. CASE Environment
  BY <1>4 DEF Environment, RefreshDevices, LoseHotspot, Unplug, Plug
<1>5. CASE UNCHANGED vars
  BY <1>5 DEF vars
<1> QED
  BY <1>1, <1>2, <1>3, <1>4, <1>5 DEF Next

THEOREM FieldsAgreeInTurn ==
  ASSUME ~Overlap
  PROVE  Spec => []FieldsAgree
<1>1. Init => InTurn
  BY DEF Init, InTurn, FieldsAgree, Attempting
<1>2. SerialInv /\ InTurn /\ [Next]_vars => InTurn'
  BY InTurnStep
<1>3. InTurn => FieldsAgree
  BY DEF InTurn
<1> QED
  BY <1>1, <1>2, <1>3, SerialInvariant, PTL DEF Spec

-----------------------------------------------------------------------------

(* If Ash waits for a call's work to end before the next call, the last    *)
(* signal tells the status whenever nothing is in flight, whatever fails.  *)
THEOREM SignalsAgree ==
  ASSUME ~Overlap
  PROVE  Spec => []SignalAgreement
<1>1. SerialInv => SignalAgreement
  BY DEF SerialInv, Announced, Announcing, SignalAgreement, Quiet, Idle
<1> QED
  BY <1>1, SerialInvariant, PTL

-----------------------------------------------------------------------------
(* Calls that do not overlap and a NetworkManager that does what it is     *)
(* asked, even if it sometimes claims the opposite.                        *)

(* c is on its way to deactivate the hotspot. *)
Clearing(c) ==
  \/ pc[c] \in {"list", "search", "drop"}
  \/ pc[c] \in {"evaluate", "emit"} /\ cont[c] = "list"

(* Hotspots only ever run on the first radio, so there is at most one; it  *)
(* is the one the bridge reports, and the one a DisableTethering finds.    *)
OneHotspot ==
  /\ \A c \in Call : pc[c] = "add" => First(dev[c])
  /\ \A h \in hotspots : First(dev[h])
  /\ \A g, h \in hotspots : g = h
  /\ \A c \in Call : pc[c] = "up" => c \in hotspots
  /\ TetheringStatus = "active" => hotspots # {}
  /\ \A c \in Call : Clearing(c) => ~tetheringActive
  /\ \A c \in Call : pc[c] \in {"search", "drop"} => hotspots \subseteq target[c]

LEMMA FirstIsUnique ==
  ASSUME TypeOK, NEW r, NEW s, First(r), First(s)
  PROVE  r = s
BY TetheringAssumption DEF First, TypeOK

LEMMA OneHotspotStep ==
  ASSUME ~Overlap, Faults \subseteq {"reply"},
         SerialInv, OneHotspot, [Next]_vars
  PROVE  OneHotspot'
<1> USE DEF SerialInv, OneHotspot, TetheringStatus, TypeOK, Clearing, First, Unsteady
<1>1. ASSUME NEW c \in Call, EnableTethering(c) PROVE OneHotspot'
  BY <1>1 DEF EnableTethering, Arrives
<1>2. ASSUME NEW c \in Call, DisableTethering(c) PROVE OneHotspot'
  BY <1>2 DEF DisableTethering, Arrives
<1>3. ASSUME NEW c \in Call, Proceed(c) PROVE OneHotspot'
  <2>1. \A d \in Call \ {c} : pc[d] \in {"new", "done"} \/ Idle(c)
    BY DEF OneAtATime, Idle
  <2>2. CASE StartTethering(c)
    BY <2>1, <2>2 DEF StartTethering, Idle
  <2>3. CASE EvaluateStatus(c)
    BY <2>3 DEF EvaluateStatus
  <2>4. CASE EmitStatus(c)
    BY <2>4 DEF EmitStatus
  <2>5. CASE FindWifiDevice(c)
    BY <2>5 DEF FindWifiDevice
  <2>6. CASE AddHotspot(c)
    <3>1. hotspots' \in {hotspots, {c}}
      BY <2>6, FirstIsUnique DEF AddHotspot, Activate
    <3>2. hotspots' = {c} \/ pc'[c] = "failed"
      BY <2>6, <3>1 DEF AddHotspot, Activate
    <3> QED
      BY <2>1, <2>6, <3>1, <3>2 DEF AddHotspot, Idle
  <2>7. CASE HotspotUp(c)
    BY <2>1, <2>7 DEF HotspotUp, Idle
  <2>8. CASE HotspotFailed(c)
    BY <2>8 DEF HotspotFailed
  <2>9. CASE ListConnections(c)
    BY <2>9 DEF ListConnections
  <2>10. CASE FindHotspot(c)
    BY <2>1, <2>10 DEF FindHotspot, Idle
  <2>11. CASE DropHotspot(c)
    BY <2>1, <2>11 DEF DropHotspot, Idle
  <2> QED
    BY <1>3, <2>2, <2>3, <2>4, <2>5, <2>6, <2>7, <2>8, <2>9, <2>10, <2>11
       DEF Proceed
<1>4. CASE Environment
  BY <1>4 DEF Environment, RefreshDevices, LoseHotspot, Unplug, Plug
<1>5. CASE UNCHANGED vars
  BY <1>5 DEF vars
<1> QED
  BY <1>1, <1>2, <1>3, <1>4, <1>5 DEF Next

LEMMA OneHotspotInvariant ==
  ASSUME ~Overlap, Faults \subseteq {"reply"}
  PROVE  Spec => []OneHotspot
<1>1. Init => OneHotspot
  BY DEF Init, OneHotspot, TetheringStatus, Clearing
<1>2. SerialInv /\ OneHotspot /\ [Next]_vars => OneHotspot'
  BY OneHotspotStep
<1> QED
  BY <1>1, <1>2, SerialInvariant, PTL DEF Spec

(* With calls one at a time and a reliable NetworkManager, "active" is     *)
(* reported only while a hotspot runs.                                     *)
THEOREM ActiveIsTrue ==
  ASSUME ~Overlap, Faults \subseteq {"reply"}
  PROVE  Spec => []ReportedHotspotRuns
<1>1. OneHotspot => ReportedHotspotRuns
  BY DEF OneHotspot, ReportedHotspotRuns
<1> QED
  BY <1>1, OneHotspotInvariant, PTL

(* Under the same assumptions DisableTethering leaves no hotspot running.  *)
THEOREM DisableLeavesNothing ==
  ASSUME ~Overlap, Faults \subseteq {"reply"}
  PROVE  Spec => DisableCleansUp
<1> DEFINE Cleans ==
      \A c \in Call :
        pc[c] \in {"list", "search", "drop"} /\ pc'[c] = "done"
          => hotspots' = {}
<1>1. SerialInv /\ OneHotspot /\ [Next]_vars => [Cleans]_vars
  <2> SUFFICES ASSUME SerialInv, OneHotspot, Next,
                      NEW c \in Call, pc[c] \in {"list", "search", "drop"},
                      pc'[c] = "done"
               PROVE  hotspots' = {}
    OBVIOUS
  <2> USE DEF SerialInv, TypeOK
  <2>1. ASSUME NEW d \in Call, EnableTethering(d) PROVE FALSE
    BY <2>1 DEF EnableTethering, Arrives
  <2>2. ASSUME NEW d \in Call, DisableTethering(d) PROVE FALSE
    BY <2>2 DEF DisableTethering, Arrives
  <2>3. ~Environment
    BY DEF Environment, RefreshDevices, LoseHotspot, Unplug, Plug
  <2>4. PICK d \in Call : Proceed(d)
    BY <2>1, <2>2, <2>3 DEF Next
  <2>5. FindHotspot(c) \/ DropHotspot(c)
    BY <2>4 DEF Proceed, StartTethering, EvaluateStatus, EmitStatus,
                FindWifiDevice, AddHotspot, HotspotUp, HotspotFailed,
                ListConnections, FindHotspot, DropHotspot
  <2> QED
    BY <2>5 DEF FindHotspot, DropHotspot, OneHotspot
<1> QED
  BY <1>1, SerialInvariant, OneHotspotInvariant, PTL DEF Spec, DisableCleansUp
=============================================================================
