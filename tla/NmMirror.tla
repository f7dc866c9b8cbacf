------------------------------- MODULE NmMirror -------------------------------
(***************************************************************************)
(* The half of shill-bridge that shows NetworkManager to Ash: queryNM at   *)
(* startup and every five seconds, the lists it publishes in shillManager, *)
(* the D-Bus objects it exports for them and the PropertyChanged signals.  *)
(*                                                                         *)
(* Every property the poll reads is a call of its own to NetworkManager,   *)
(* which goes on changing in between.  A service or device is known to Ash *)
(* by its position in the list ("/service/0"), so the paths in a signal    *)
(* are determined by how many there are; names, interfaces and signal      *)
(* strengths are left out.                                                 *)
(***************************************************************************)
EXTENDS Integers, Sequences, SequencesExt

CONSTANTS
  Dev,       \* NetworkManager's devices
  Con,       \* NetworkManager's active connections, present and future
  DevKind,   \* the type of each device
  ConKind,   \* the type of each connection
  ConDev,    \* the device each connection runs over
  NmState,   \* the states NetworkManager goes through
  MaxChanges \* how often NetworkManager changes: the bound of the model

Kind == {"wifi", "ethernet", "other"}

RawState == {"global", "site", "local", "connecting", "other"}

ASSUME NmMirrorAssumption ==
  /\ DevKind \in [Dev -> Kind]
  /\ ConKind \in [Con -> Kind]
  /\ ConDev \in [Con -> Dev]
  /\ NmState \subseteq RawState
  /\ MaxChanges \in Nat

VARIABLES
  nmState, nmDevices, nmActive, conState, reachable,  \* NetworkManager
  changes,                    \* how often it has changed
  state, services, devices,   \* what shillManager publishes
  serviceObjects, deviceObjects,  \* the info behind each exported path
  signalled,   \* the last value of each signalled property, and the poll's last*
  ticking,     \* is the startup query over?
  pc, todo,    \* where the query is, and what it has yet to read
  seen,        \* what it has read
  pos          \* the position being exported

nm      == <<nmState, nmDevices, nmActive, conState, reachable, changes>>
manager == <<state, services, devices>>
bus     == <<serviceObjects, deviceObjects, signalled>>
query   == <<ticking, pc, todo, seen, pos>>
vars    == <<nm, manager, bus, query>>

ShillState == {"online", "portal", "association", "offline"}

Connection == {"activating", "activated", "other"}

Service == [con : Con, state : {"online", "association", "idle"}, device : Nat]

(* No device; no signal yet. *)
NoDevice == 0
Never == -1

nmToShillState(raw) ==
  CASE raw = "global" -> "online"
    [] raw \in {"site", "local"} -> "portal"
    [] raw = "connecting" -> "association"
    [] OTHER -> "offline"

(* Mutant: states it does not know are passed on. *)
nmAcToShillState_PassedOn(raw) ==
  CASE raw = "activated" -> "online"
    [] raw = "activating" -> "association"
    [] OTHER -> raw

nmAcToShillState(raw) ==
  CASE raw = "activated" -> "online"
    [] raw = "activating" -> "association"
    [] OTHER -> "idle"

Nothing == [state |-> "offline", services |-> <<>>, devices |-> <<>>]

Stage ==
  {"rest", "query", "devices", "device", "connection", "conState", "conDevices",
   "exportServices", "exportDevices", "signalState", "signalServices", "signalDevices"}

TypeOK ==
  /\ nmState \in NmState /\ reachable \in BOOLEAN
  /\ nmDevices \in Seq(Dev) /\ nmActive \in Seq(Con)
  /\ conState \in [Con -> Connection] /\ changes \in 0..MaxChanges
  /\ state \in ShillState /\ services \in Seq(Service) /\ devices \in Seq(Dev)
  /\ serviceObjects \in Seq(Service) /\ deviceObjects \in Seq(Dev)
  /\ signalled \in [state : ShillState \cup {"never"},
                    services : Nat \cup {Never}, devices : Nat \cup {Never}]
  /\ ticking \in BOOLEAN /\ pos \in Nat
  /\ seen \in [state : ShillState, services : Seq(Service), devices : Seq(Dev)]
  /\ pc \in Stage
  /\ todo \in Seq(Dev) \cup Seq(Con)

(* The sequences without repetition over a finite part of S. *)
Orders(S) == UNION {SetToSeqs(T) : T \in {T \in SUBSET S : IsFiniteSet(T)}}

(* NetworkManager may have been running for long. *)
Init ==
  /\ nmState \in NmState /\ reachable \in BOOLEAN
  /\ nmDevices \in Orders(Dev)
  /\ nmActive \in Orders({c \in Con : Contains(nmDevices, ConDev[c])})
  /\ conState = [c \in Con |-> IF Contains(nmActive, c) THEN "activated" ELSE "other"]
  /\ changes = 0
  /\ state = "offline" /\ services = <<>> /\ devices = <<>>
  /\ serviceObjects = <<>> /\ deviceObjects = <<>>
  /\ signalled = [state |-> "never", services |-> Never, devices |-> Never]
  /\ ticking = FALSE /\ pc = "query" /\ todo = <<>> /\ seen = Nothing /\ pos = 0

-----------------------------------------------------------------------------
(* queryNM.                                                                *)

Present(d) == reachable /\ Contains(nmDevices, d)

Active(c) == reachable /\ Contains(nmActive, c)

Rest == pc' = "rest" /\ todo' = <<>> /\ seen' = Nothing /\ pos' = 0

(* The time.Tick of the polling goroutine. *)
Tick ==
  /\ pc = "rest"
  /\ pc' = "query"
  /\ UNCHANGED <<nm, manager, bus, ticking, todo, seen, pos>>

(* Only a failure to read State makes queryNM fail. *)
ReadState ==
  /\ pc = "query"
  /\ \/ /\ reachable
        /\ pc' = "devices"
        /\ seen' = [Nothing EXCEPT !.state = nmToShillState(nmState)]
        /\ UNCHANGED <<ticking, todo, pos>>
     \/ ~reachable /\ Rest /\ ticking' = TRUE
  /\ UNCHANGED <<nm, manager, bus>>

ListDevices ==
  /\ pc = "devices"
  /\ pc' = "device"
  /\ todo' = IF reachable THEN nmDevices ELSE <<>>
  /\ UNCHANGED <<nm, manager, bus, ticking, seen, pos>>

(* A device that is gone or of another type is left out. *)
ReadDevice ==
  /\ pc = "device" /\ todo # <<>>
  /\ LET d == Head(todo)
     IN  seen' = IF Present(d) /\ DevKind[d] # "other"
                 THEN [seen EXCEPT !.devices = Append(@, d)] ELSE seen
  /\ todo' = Tail(todo)
  /\ UNCHANGED <<nm, manager, bus, ticking, pc, pos>>

(* Without the list of connections the query goes on with no service. *)
ListConnections ==
  /\ pc = "device" /\ todo = <<>>
  /\ todo' = IF reachable THEN nmActive ELSE <<>>
  /\ pc' = "connection"
  /\ UNCHANGED <<nm, manager, bus, ticking, seen, pos>>

(* A connection whose Type is unreadable or of another kind is left out. *)
ReadType ==
  /\ pc = "connection" /\ todo # <<>>
  /\ \/ /\ Active(Head(todo)) /\ ConKind[Head(todo)] # "other"
        /\ pc' = "conState"
        /\ UNCHANGED todo
     \/ /\ ~Active(Head(todo)) \/ ConKind[Head(todo)] = "other"
        /\ todo' = Tail(todo)
        /\ UNCHANGED pc
  /\ UNCHANGED <<nm, manager, bus, ticking, seen, pos>>

(* From here on a failed read leaves a zero value in the entry. *)
ReadConState ==
  /\ pc = "conState"
  /\ LET c == Head(todo)
         raw == IF Active(c) THEN conState[c] ELSE "other"
     IN  seen' = [seen EXCEPT !.services = Append(@,
                   [con |-> c, state |-> nmAcToShillState(raw),
                    device |-> NoDevice])]
  /\ pc' = "conDevices"
  /\ UNCHANGED <<nm, manager, bus, ticking, todo, pos>>

(* The entry being read runs over the i-th device. *)
Over(entries, i) == [entries EXCEPT ![Len(entries)].device = i]

(* Mutant: the position in NetworkManager's own list. *)
ReadConDevices_AllDevices ==
  /\ pc = "conDevices"
  /\ LET c == Head(todo)
         known == {i \in DOMAIN nmDevices : nmDevices[i] = ConDev[c]}
     IN  \/ /\ Active(c)
            /\ \E i \in known :
                 seen' = [seen EXCEPT !.services = Over(@, i)]
         \/ /\ ~Active(c) \/ known = {}
            /\ UNCHANGED seen
  /\ todo' = Tail(todo)
  /\ pc' = "connection"
  /\ UNCHANGED <<nm, manager, bus, ticking, pos>>

(* nmDeviceIndex: the position of the connection's first device among the  *)
(* devices this query kept.                                                *)
ReadConDevices ==
  /\ pc = "conDevices"
  /\ LET c == Head(todo)
         known == {i \in DOMAIN seen.devices : seen.devices[i] = ConDev[c]}
     IN  \/ /\ Active(c)
            /\ \E i \in known :
                 seen' = [seen EXCEPT !.services = Over(@, i)]
         \/ /\ ~Active(c) \/ known = {}
            /\ UNCHANGED seen
  /\ todo' = Tail(todo)
  /\ pc' = "connection"
  /\ UNCHANGED <<nm, manager, bus, ticking, pos>>

-----------------------------------------------------------------------------
(* What main does with the result.                                         *)

(* Mutants: only the startup query exports; an empty list of devices is    *)
(* taken for a failed read.                                                *)
Publish_ExportsOnce ==
  /\ pc = "connection" /\ todo = <<>>
  /\ state' = seen.state /\ services' = seen.services /\ devices' = seen.devices
  /\ pc' = (IF ticking THEN "signalState" ELSE "exportServices") /\ pos' = 1
  /\ UNCHANGED <<nm, bus, ticking, todo, seen>>

Publish_KeepsDevices ==
  /\ pc = "connection" /\ todo = <<>>
  /\ state' = seen.state /\ services' = seen.services
  /\ devices' = IF seen.devices = <<>> THEN devices ELSE seen.devices
  /\ pc' = "exportServices" /\ pos' = 1
  /\ UNCHANGED <<nm, bus, ticking, todo, seen>>

(* One critical section of shillManager.mu. *)
Publish ==
  /\ pc = "connection" /\ todo = <<>>
  /\ state' = seen.state /\ services' = seen.services /\ devices' = seen.devices
  /\ pc' = "exportServices" /\ pos' = 1
  /\ UNCHANGED <<nm, bus, ticking, todo, seen>>

(* Mutant: a path that has an object keeps it. *)
Exported_OnlyNew(objects, i, info) ==
  IF i <= Len(objects) THEN objects ELSE Append(objects, info)

(* conn.Export at a position replaces the object there; nothing is ever    *)
(* unexported.                                                             *)
Exported(objects, i, info) ==
  IF i <= Len(objects) THEN [objects EXCEPT ![i] = info] ELSE Append(objects, info)

ExportService ==
  /\ pc = "exportServices" /\ pos <= Len(seen.services)
  /\ serviceObjects' = Exported(serviceObjects, pos, seen.services[pos])
  /\ pos' = pos + 1
  /\ UNCHANGED <<nm, manager, deviceObjects, signalled, ticking, pc, todo, seen>>

ServicesExported ==
  /\ pc = "exportServices" /\ pos > Len(seen.services)
  /\ pc' = "exportDevices" /\ pos' = 1
  /\ UNCHANGED <<nm, manager, bus, ticking, todo, seen>>

ExportDevice ==
  /\ pc = "exportDevices" /\ pos <= Len(seen.devices)
  /\ deviceObjects' = Exported(deviceObjects, pos, seen.devices[pos])
  /\ pos' = pos + 1
  /\ UNCHANGED <<nm, manager, serviceObjects, signalled, ticking, pc, todo, seen>>

(* The startup query ends here, without a signal. *)
DevicesExported ==
  /\ pc = "exportDevices" /\ pos > Len(seen.devices)
  /\ \/ /\ ticking
        /\ pc' = "signalState" /\ pos' = 0
        /\ UNCHANGED <<ticking, todo, seen>>
     \/ ~ticking /\ Rest /\ ticking' = TRUE
  /\ UNCHANGED <<nm, manager, bus>>

SignalState ==
  /\ pc = "signalState"
  /\ signalled' = [signalled EXCEPT !.state = seen.state]
  /\ pc' = "signalServices"
  /\ UNCHANGED <<nm, manager, serviceObjects, deviceObjects, ticking, todo, seen, pos>>

(* Mutant: only new services are signalled. *)
SignalServices_Added ==
  /\ pc = "signalServices"
  /\ signalled' = IF Len(seen.services) > signalled.services
                  THEN [signalled EXCEPT !.services = Len(seen.services)]
                  ELSE signalled
  /\ pc' = "signalDevices"
  /\ UNCHANGED <<nm, manager, serviceObjects, deviceObjects, ticking, todo, seen, pos>>

SignalServices ==
  /\ pc = "signalServices"
  /\ signalled' = IF Len(seen.services) # signalled.services
                  THEN [signalled EXCEPT !.services = Len(seen.services)]
                  ELSE signalled
  /\ pc' = "signalDevices"
  /\ UNCHANGED <<nm, manager, serviceObjects, deviceObjects, ticking, todo, seen, pos>>

SignalDevices ==
  /\ pc = "signalDevices"
  /\ signalled' = IF Len(seen.devices) # signalled.devices
                  THEN [signalled EXCEPT !.devices = Len(seen.devices)]
                  ELSE signalled
  /\ Rest
  /\ UNCHANGED <<nm, manager, serviceObjects, deviceObjects, ticking>>

-----------------------------------------------------------------------------
(* NetworkManager.                                                         *)

Bridge == <<manager, bus, query>>

Change == changes < MaxChanges /\ changes' = changes + 1 /\ UNCHANGED Bridge

ChangeState ==
  /\ Change
  /\ nmState' \in NmState
  /\ reachable' \in BOOLEAN
  /\ UNCHANGED <<nmDevices, nmActive, conState>>

AddDevice(d) ==
  /\ Change /\ ~Contains(nmDevices, d)
  /\ nmDevices' = Append(nmDevices, d)
  /\ UNCHANGED <<nmState, nmActive, conState, reachable>>

(* Its connections go with it; the others may come back in another order. *)
RemoveDevice(d) ==
  /\ Change
  /\ \E i \in DOMAIN nmDevices :
       nmDevices[i] = d /\ nmDevices' = RemoveAt(nmDevices, i)
  /\ nmActive' \in SetToSeqs({c \in ToSet(nmActive) : ConDev[c] # d})
  /\ conState' = [c \in Con |-> IF ConDev[c] = d THEN "other" ELSE conState[c]]
  /\ UNCHANGED <<nmState, reachable>>

ActivateConnection(c) ==
  /\ Change /\ ~Contains(nmActive, c) /\ Contains(nmDevices, ConDev[c])
  /\ nmActive' = Append(nmActive, c)
  /\ conState' = [conState EXCEPT ![c] = "activating"]
  /\ UNCHANGED <<nmState, nmDevices, reachable>>

ConnectionChanges(c) ==
  /\ Change /\ Contains(nmActive, c)
  /\ conState' \in {[conState EXCEPT ![c] = s] : s \in Connection}
  /\ UNCHANGED <<nmState, nmDevices, nmActive, reachable>>

DropConnection(c) ==
  /\ Change
  /\ \E i \in DOMAIN nmActive :
       nmActive[i] = c /\ nmActive' = RemoveAt(nmActive, i)
  /\ conState' = [conState EXCEPT ![c] = "other"]
  /\ UNCHANGED <<nmState, nmDevices, reachable>>

Environment ==
  \/ ChangeState
  \/ \E d \in Dev : AddDevice(d) \/ RemoveDevice(d)
  \/ \E c \in Con : ActivateConnection(c) \/ ConnectionChanges(c) \/ DropConnection(c)

Poll ==
  \/ Tick \/ ReadState \/ ListDevices \/ ReadDevice \/ ListConnections
  \/ ReadType \/ ReadConState \/ ReadConDevices \/ Publish
  \/ ExportService \/ ServicesExported \/ ExportDevice \/ DevicesExported
  \/ SignalState \/ SignalServices \/ SignalDevices

Next == Poll \/ Environment

(* The ticker keeps ticking and every call to NetworkManager returns. *)
Spec == Init /\ [][Next]_vars /\ WF_vars(Poll)

-----------------------------------------------------------------------------
(* Properties.                                                             *)

(* Devices and connections are read one by one while NetworkManager goes   *)
(* on changing, and devices of other types are left out of the numbering:  *)
(* still a published service names no device, or the published device its  *)
(* connection runs over.                                                   *)
DevicesMatch ==
  \A i \in DOMAIN services :
    LET s == services[i]
    IN  s.device # NoDevice =>
          s.device \in DOMAIN devices /\ devices[s.device] = ConDev[s.con]

(* Every path in a signal is the path of an exported object.               *)
SignalledPathsExist ==
  /\ signalled.services <= Len(serviceObjects)
  /\ signalled.devices <= Len(deviceObjects)

(* Between polls the objects Ash can call are the published entries,       *)
(* although objects are replaced one at a time and never removed.          *)
ObjectsAgree ==
  pc = "rest" =>
    /\ \A i \in DOMAIN services : serviceObjects[i] = services[i]
    /\ \A i \in DOMAIN devices : deviceObjects[i] = devices[i]

(* Between polls the last signals say what GetProperties says, although a  *)
(* list is signalled only when its length changes and a failed poll says   *)
(* nothing.                                                                *)
SignalsAgree ==
  pc = "rest" /\ signalled.state # "never" =>
    signalled = [state |-> state, services |-> Len(services),
                 devices |-> Len(devices)]

(* list is what is left of all by dropping what is not in set. *)
KeptOf(list, all, set) ==
  \E at \in [DOMAIN list -> DOMAIN all] :
    /\ \A i, j \in DOMAIN list : i < j => at[i] < at[j]
    /\ \A i \in DOMAIN list : list[i] = all[at[i]]
    /\ \A k \in DOMAIN all : all[k] \in set <=> \E i \in DOMAIN list : at[i] = k

(* An entry says what NetworkManager says of its connection. *)
Accurate(s, list) ==
  /\ s.state = nmAcToShillState(conState[s.con])
  /\ \/ s.device \in DOMAIN list /\ list[s.device] = ConDev[s.con]
     \/ s.device = NoDevice /\ \A i \in DOMAIN list : list[i] # ConDev[s.con]

Connections(entries) == [i \in DOMAIN entries |-> entries[i].con]

OurDev == {d \in Dev : DevKind[d] # "other"}
OurCon == {c \in Con : ConKind[c] # "other"}

(* What Ash should see of NetworkManager as it is now. *)
Displayed ==
  /\ state = nmToShillState(nmState)
  /\ KeptOf(devices, nmDevices, OurDev)
  /\ KeptOf(Connections(services), nmActive, OurCon)
  /\ \A i \in DOMAIN services : Accurate(services[i], devices)

Mirrored ==
  /\ Displayed
  /\ signalled = [state |-> state, services |-> Len(services),
                  devices |-> Len(devices)]

(* However torn the reads of earlier polls were, once NetworkManager stops *)
(* changing Ash is shown it as it is.                                      *)
Converges == <>[][FALSE]_nm => <>[](~reachable \/ Mirrored)
=============================================================================
