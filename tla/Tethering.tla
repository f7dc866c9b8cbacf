------------------------------ MODULE Tethering ------------------------------
(***************************************************************************)
(* Hotspot control in shill-bridge: the D-Bus handlers EnableTethering and *)
(* DisableTethering, each served by a goroutine of its own, the background *)
(* goroutines createNMHotspot and deactivateNMHotspot they leave behind,   *)
(* and NetworkManager, which runs the hotspots.                            *)
(*                                                                         *)
(* A call is one goroutine from its first step to the end of the           *)
(* background work it spawned (a handler spawns that work after its last   *)
(* step that touches shared state, so the two never overlap).  Critical    *)
(* sections of shillManager.mu are one step; everything between two        *)
(* critical sections, the evaluation of a signal's argument, the sending   *)
(* of the signal and each NetworkManager call are steps of their own.      *)
(***************************************************************************)
EXTENDS Naturals

CONSTANTS
  Call,      \* the D-Bus calls Ash makes, each served once
  Radio,     \* numbers of the wifi devices, in NetworkManager's order
  Overlap,   \* may Ash call while earlier calls have work in flight?
  Faults,    \* what may go wrong, see FaultKind
  None       \* stands for no radio

(* "reply": AddAndActivateConnection is carried out and its reply, which   *)
(* the code stores into one variable, is handed to the caller as an error; *)
(* "call": a NetworkManager call fails; "radio": a hotspot goes down or a  *)
(* wifi device comes or goes.                                              *)
FaultKind == {"reply", "call", "radio"}

ASSUME TetheringAssumption ==
  /\ Radio \subseteq Nat
  /\ Overlap \in BOOLEAN
  /\ Faults \subseteq FaultKind
  /\ None \notin Radio

VARIABLES
  tetheringActive,   \* shillManager.tetheringActive
  tetheringState,    \* shillManager.tetheringState
  wifiListed,        \* does shillManager.devices hold a wifi device?
  pc,                \* where each call's goroutine is
  cont,              \* where it goes once its signal is out
  arg,               \* the evaluated argument of the Emit it is about to do
  dev,               \* the radio createNMHotspot found
  target,            \* the hotspots deactivateNMHotspot goes through
  signalled,         \* the last TetheringStatus signal on the bus
  radios,            \* NetworkManager: the wifi devices present
  hotspots           \* NetworkManager: the calls whose hotspot is active

manager == <<tetheringActive, tetheringState, wifiListed>>
locals  == <<cont, arg, dev, target>>
network == <<radios, hotspots>>
vars    == <<manager, pc, locals, signalled, network>>

Status == {"idle", "starting", "active"}

Stage == {"new", "admitted", "evaluate", "emit", "find", "add", "up",
          "failed", "list", "search", "drop", "done"}

TypeOK ==
  /\ tetheringActive \in BOOLEAN
  /\ tetheringState \in Status
  /\ wifiListed \in BOOLEAN
  /\ pc \in [Call -> Stage]
  /\ cont \in [Call -> {"find", "list", "done"}]
  /\ arg \in [Call -> Status]
  /\ dev \in [Call -> Radio \cup {None}]
  /\ target \in [Call -> SUBSET Call]
  /\ signalled \in Status
  /\ radios \subseteq Radio
  /\ hotspots \subseteq Call

-----------------------------------------------------------------------------

(* Mutant: the active flag is not looked at. *)
TetheringStatus_StateOnly == tetheringState

(* tetheringStatusVariant: what the two fields look like from outside. *)
TetheringStatus ==
  IF ~tetheringActive \/ tetheringState = "idle" THEN "idle" ELSE tetheringState

Idle(c) == pc[c] \in {"new", "done"}

Quiet == \A c \in Call : Idle(c)

Goto(c, stage) == pc' = [pc EXCEPT ![c] = stage]

(* Every change of the two fields is announced before the goroutine moves  *)
(* on to next.                                                             *)
AnnounceThen(c, next) ==
  /\ Goto(c, "evaluate")
  /\ cont' = [cont EXCEPT ![c] = next]
  /\ UNCHANGED <<arg, dev, target>>

Init ==
  /\ tetheringActive = FALSE
  /\ tetheringState = "idle"
  /\ wifiListed = FALSE
  /\ pc = [c \in Call |-> "new"]
  /\ cont = [c \in Call |-> "done"]
  /\ arg = [c \in Call |-> "idle"]
  /\ dev = [c \in Call |-> None]
  /\ target = [c \in Call |-> {}]
  /\ signalled = "idle"
  /\ radios \in SUBSET Radio
  /\ hotspots = {}

-----------------------------------------------------------------------------
(* The handlers.                                                           *)

Arrives(c) == pc[c] = "new" /\ (Overlap \/ Quiet)

(* The first read lock: without a wifi device in the mirrored list the     *)
(* call fails and changes nothing.                                         *)
EnableTethering(c) ==
  /\ Arrives(c)
  /\ \/ wifiListed  /\ Goto(c, "admitted")
     \/ ~wifiListed /\ Goto(c, "done")
  /\ UNCHANGED <<manager, locals, signalled, network>>

(* The second lock of EnableTethering. *)
StartTethering(c) ==
  /\ pc[c] = "admitted"
  /\ tetheringActive' = TRUE
  /\ tetheringState' = "starting"
  /\ AnnounceThen(c, "find")
  /\ UNCHANGED <<wifiListed, signalled, network>>

(* Mutant: the fields are left to the background goroutine. *)
DisableTethering_KeepsFields(c) ==
  /\ Arrives(c)
  /\ AnnounceThen(c, "list")
  /\ UNCHANGED <<manager, signalled, network>>

DisableTethering(c) ==
  /\ Arrives(c)
  /\ tetheringActive' = FALSE
  /\ tetheringState' = "idle"
  /\ AnnounceThen(c, "list")
  /\ UNCHANGED <<wifiListed, signalled, network>>

(* tetheringStatusLocked takes the read lock again, after the change. *)
EvaluateStatus(c) ==
  /\ pc[c] = "evaluate"
  /\ arg' = [arg EXCEPT ![c] = TetheringStatus]
  /\ Goto(c, "emit")
  /\ UNCHANGED <<manager, cont, dev, target, signalled, network>>

EmitStatus(c) ==
  /\ pc[c] = "emit"
  /\ signalled' = arg[c]
  /\ Goto(c, cont[c])
  /\ UNCHANGED <<manager, locals, network>>

-----------------------------------------------------------------------------
(* createNMHotspot.                                                        *)

First(r) == r \in radios /\ \A s \in radios : r <= s

(* The list of devices and the type of each are calls of their own.  They  *)
(* find the first radio, or any radio or none where a type cannot be read  *)
(* or radios come and go in between.                                       *)
Unsteady == Faults \cap {"call", "radio"} # {}

(* Mutant: a search that finds nothing just returns. *)
FindWifiDevice_JustReturns(c) ==
  /\ pc[c] = "find"
  /\ \/ \E r \in radios :
          /\ First(r) \/ Unsteady
          /\ dev' = [dev EXCEPT ![c] = r]
          /\ Goto(c, "add")
     \/ /\ radios = {} \/ Unsteady
        /\ Goto(c, "done")
        /\ UNCHANGED dev
  /\ UNCHANGED <<manager, cont, arg, target, signalled, network>>

FindWifiDevice(c) ==
  /\ pc[c] = "find"
  /\ \/ \E r \in radios :
          /\ First(r) \/ Unsteady
          /\ dev' = [dev EXCEPT ![c] = r]
          /\ Goto(c, "add")
     \/ /\ radios = {} \/ Unsteady
        /\ Goto(c, "failed")
        /\ UNCHANGED dev
  /\ UNCHANGED <<manager, cont, arg, target, signalled, network>>

(* NetworkManager activates c's connection on dev[c]; a radio runs one     *)
(* connection, so the hotspot it ran before is gone.                       *)
Activate(c) ==
  hotspots' = {h \in hotspots : dev[h] # dev[c]} \cup {c}

(* AddAndActivateConnection: accepted; carried out although the caller is  *)
(* handed an error; or refused.                                            *)
AddHotspot(c) ==
  /\ pc[c] = "add"
  /\ \/ /\ dev[c] \in radios
        /\ Activate(c)
        /\ Goto(c, "up")
     \/ /\ "reply" \in Faults
        /\ dev[c] \in radios
        /\ Activate(c)
        /\ Goto(c, "failed")
     \/ /\ dev[c] \notin radios \/ "call" \in Faults
        /\ Goto(c, "failed")
        /\ UNCHANGED hotspots
  /\ UNCHANGED <<manager, locals, signalled, radios>>

HotspotUp(c) ==
  /\ pc[c] = "up"
  /\ tetheringState' = "active"
  /\ AnnounceThen(c, "done")
  /\ UNCHANGED <<tetheringActive, wifiListed, signalled, network>>

(* Mutant: the change is not announced. *)
HotspotFailed_Silent(c) ==
  /\ pc[c] = "failed"
  /\ tetheringState' = "idle"
  /\ tetheringActive' = FALSE
  /\ Goto(c, "done")
  /\ UNCHANGED <<wifiListed, locals, signalled, network>>

HotspotFailed(c) ==
  /\ pc[c] = "failed"
  /\ tetheringState' = "idle"
  /\ tetheringActive' = FALSE
  /\ AnnounceThen(c, "done")
  /\ UNCHANGED <<wifiListed, signalled, network>>

-----------------------------------------------------------------------------
(* deactivateNMHotspot.                                                    *)

(* Mutant: there can be nothing to stop when the status is idle. *)
ListConnections_UnlessIdle(c) ==
  /\ pc[c] = "list" /\ TetheringStatus = "idle"
  /\ Goto(c, "done")
  /\ UNCHANGED <<manager, locals, signalled, network>>

(* The active connections, with those called "ChromeOS Hotspot" among      *)
(* them; an error looks like there are none.                               *)
ListConnections(c) ==
  /\ pc[c] = "list"
  /\ \/ target' = [target EXCEPT ![c] = hotspots] /\ Goto(c, "search")
     \/ "call" \in Faults /\ Goto(c, "done") /\ UNCHANGED target
  /\ UNCHANGED <<manager, cont, arg, dev, signalled, network>>

(* Their names are read one after the other up to the first hotspot that   *)
(* still runs; a name that cannot be read is passed over.                  *)
FindHotspot(c) ==
  /\ pc[c] = "search"
  /\ \/ \E h \in target[c] \cap hotspots :
          /\ target' = [target EXCEPT ![c] = {h}]
          /\ Goto(c, "drop")
     \/ /\ target[c] \cap hotspots = {} \/ "call" \in Faults
        /\ Goto(c, "done")
        /\ UNCHANGED target
  /\ UNCHANGED <<manager, cont, arg, dev, signalled, network>>

(* DeactivateConnection: the result is not looked at, and the search ends  *)
(* with the first connection found.                                        *)
DropHotspot(c) ==
  /\ pc[c] = "drop"
  /\ \/ hotspots' = hotspots \ target[c]
     \/ "call" \in Faults /\ UNCHANGED hotspots
  /\ Goto(c, "done")
  /\ UNCHANGED <<manager, locals, signalled, radios>>

-----------------------------------------------------------------------------
(* The device list is refreshed by the polling goroutine; a failed read of *)
(* NetworkManager's Devices empties it.                                    *)
RefreshDevices ==
  /\ \/ wifiListed' = (radios # {})
     \/ "call" \in Faults /\ wifiListed' = FALSE
  /\ UNCHANGED <<tetheringActive, tetheringState, pc, locals, signalled, network>>

(* NetworkManager on its own: a hotspot goes down, a radio comes or goes.  *)
LoseHotspot(h) ==
  /\ "radio" \in Faults
  /\ hotspots' = hotspots \ {h}
  /\ UNCHANGED <<manager, pc, locals, signalled, radios>>

Unplug(r) ==
  /\ "radio" \in Faults
  /\ radios' = radios \ {r}
  /\ hotspots' = {h \in hotspots : dev[h] # r}
  /\ UNCHANGED <<manager, pc, locals, signalled>>

Plug(r) ==
  /\ "radio" \in Faults
  /\ radios' = radios \cup {r}
  /\ UNCHANGED <<manager, pc, locals, signalled, hotspots>>

-----------------------------------------------------------------------------

(* The steps a goroutine takes by itself once its call has arrived. *)
Proceed(c) ==
  \/ StartTethering(c) \/ EvaluateStatus(c) \/ EmitStatus(c)
  \/ FindWifiDevice(c) \/ AddHotspot(c) \/ HotspotUp(c) \/ HotspotFailed(c)
  \/ ListConnections(c) \/ FindHotspot(c) \/ DropHotspot(c)

Environment ==
  \/ RefreshDevices
  \/ \E h \in hotspots : LoseHotspot(h)
  \/ \E r \in radios : Unplug(r)
  \/ \E r \in Radio \ radios : Plug(r)

Next ==
  \/ \E c \in Call : EnableTethering(c) \/ DisableTethering(c) \/ Proceed(c)
  \/ Environment

(* A goroutine that can run is run, and every NetworkManager call returns. *)
(* Ash need not call and the environment need not act.                     *)
Fairness == \A c \in Call : WF_vars(Proceed(c))

Spec == Init /\ [][Next]_vars /\ Fairness

-----------------------------------------------------------------------------
(* Properties.                                                             *)

(* c is on its way through createNMHotspot, or about to start it. *)
Attempting(c) ==
  \/ pc[c] \in {"evaluate", "emit"} /\ cont[c] = "find"
  \/ pc[c] \in {"find", "add", "up", "failed"}

(* However calls overlap and whatever fails, a status of "starting" has a  *)
(* goroutine under way that will replace it: no path through               *)
(* createNMHotspot, and no attempt that another one overtakes, returns     *)
(* with the status left at "starting".                                     *)
StartingUnderWay ==
  TetheringStatus = "starting" => \E c \in Call : Attempting(c)

(* The status Ash can observe behaves like a switch, whatever overlaps and *)
(* whatever fails: in particular a createNMHotspot that succeeds after     *)
(* DisableTethering does not bring the reported status back to life, and   *)
(* "starting" is always resolved.                                          *)
Switch == INSTANCE HotspotSwitch WITH status <- TetheringStatus

SwitchSpec == Switch!Spec

(* When calls do not overlap, the last PropertyChanged signal on the bus   *)
(* tells the current status whenever nothing is in flight, whatever        *)
(* NetworkManager did: every error path announces what it changed.         *)
SignalAgreement == Quiet => signalled = TetheringStatus

(* When calls do not overlap and NetworkManager is reliable, a status of   *)
(* "active" is the truth whenever nothing is in flight: a hotspot runs.    *)
ReportedHotspotRuns == Quiet /\ TetheringStatus = "active" => hotspots # {}

(* Under the same conditions a DisableTethering call that has run to its   *)
(* end leaves no hotspot behind, although it deactivates only the first    *)
(* one it finds and although one may run that the bridge takes for failed. *)
DisableCleansUp ==
  [][\A c \in Call :
       pc[c] \in {"list", "search", "drop"} /\ pc'[c] = "done" => hotspots' = {}]_vars

(* "shill-bridge maps Ash networking calls onto NetworkManager": whenever  *)
(* nothing is in flight and tethering is off, NetworkManager runs no       *)
(* hotspot.                                                                *)
OffReachesNetworkManager == Quiet /\ ~tetheringActive => hotspots = {}

(* The same sentence, the other way round: whenever nothing is in flight   *)
(* and NetworkManager runs the hotspot, Ash is told that it is active.     *)
(* AddAndActivateConnection answers with two values and createNMHotspot    *)
(* stores the reply into one, so that a hotspot that came up is taken for  *)
(* one that failed.                                                        *)
RunningHotspotReported == Quiet /\ hotspots # {} => TetheringStatus = "active"
=============================================================================
