---------------------------- MODULE NmMirrorProofs ----------------------------
(***************************************************************************)
(* Proofs about NmMirror, for any devices and connections and any number   *)
(* of changes to them.                                                     *)
(***************************************************************************)
EXTENDS NmMirror, FiniteSetTheorems, SequenceTheorems, TLAPS

(* The three stages of a query.                                            *)
Exporting  == pc \in {"exportServices", "exportDevices"}
Signalling == pc \in {"signalState", "signalServices", "signalDevices"}
Reading    == ~Exporting /\ ~Signalling

(* What is yet to be read is a list of devices, then of connections.       *)
TodoTyped ==
  /\ pc = "device" => todo \in Seq(Dev)
  /\ pc \in {"connection", "conState", "conDevices"} => todo \in Seq(Con)

Typed == TypeOK /\ TodoTyped

(* A service names no device, or that of its connection.                   *)
Matches(s, list) ==
  s.device # NoDevice => s.device \in DOMAIN list /\ list[s.device] = ConDev[s.con]

AllMatch(entries, list) == \A i \in DOMAIN entries : Matches(entries[i], list)

(* What the query has read matches, and its last entry is that of the      *)
(* connection it is reading.                                               *)
ReadInv ==
  /\ AllMatch(seen.services, seen.devices)
  /\ pc \in {"conState", "conDevices"} => todo # <<>>
  /\ pc = "conDevices" =>
       /\ seen.services # <<>>
       /\ seen.services[Len(seen.services)].con = Head(todo)

(* What is exported and signalled is what is published.                    *)
PublishInv ==
  /\ AllMatch(services, devices)
  /\ ~Reading => seen = [state |-> state, services |-> services, devices |-> devices]

(* The first n objects are the first n entries of the list.                *)
Behind(objects, list, n) ==
  n <= Len(objects) /\ \A i \in 1..n : objects[i] = list[i]

(* The objects are those of the published lists but for what a query has   *)
(* published and has yet to export.                                        *)
ExportInv ==
  /\ pc = "exportServices" =>
       pos \in 1..(Len(services) + 1) /\ Behind(serviceObjects, services, pos - 1)
  /\ pc = "exportDevices" =>
       pos \in 1..(Len(devices) + 1) /\ Behind(deviceObjects, devices, pos - 1)
  /\ pc # "exportServices" => Behind(serviceObjects, services, Len(services))
  /\ ~Exporting => Behind(deviceObjects, devices, Len(devices))
  /\ SignalledPathsExist

(* The signals are about what is published but for what a query has        *)
(* published and has yet to signal; the startup query signals nothing.     *)
SignalInv ==
  /\ Signalling => ticking
  /\ ~ticking => signalled.state = "never"
  /\ pc \in {"signalServices", "signalDevices"} => signalled.state = state
  /\ pc = "signalDevices" => signalled.services = Len(services)
  /\ Reading /\ signalled.state # "never" =>
       signalled = [state |-> state, services |-> Len(services),
                    devices |-> Len(devices)]

Inv == Typed /\ ReadInv /\ PublishInv /\ ExportInv /\ SignalInv

-----------------------------------------------------------------------------
(* The operators.                                                          *)

LEMMA OrderTyped ==
  ASSUME NEW S, NEW T \in SUBSET S, IsFiniteSet(T), NEW s \in SetToSeqs(T)
  PROVE  s \in Seq(S)
<1>1. Cardinality(T) \in Nat
  BY FS_CardinalityType
<1>2. s \in [1..Cardinality(T) -> S]
  BY DEF SetToSeqs
<1> QED
  BY <1>1, <1>2

LEMMA OrdersTyped == ASSUME NEW S PROVE Orders(S) \subseteq Seq(S)
BY OrderTyped DEF Orders

LEMMA RemoveAtTyped ==
  ASSUME NEW S, NEW s \in Seq(S), NEW i \in DOMAIN s
  PROVE  RemoveAt(s, i) \in Seq(S)
BY DEF RemoveAt

LEMMA SomeOfTyped ==
  ASSUME NEW S, NEW s \in Seq(S), NEW T \in SUBSET ToSet(s), NEW t \in SetToSeqs(T)
  PROVE  t \in Seq(S)
<1>1. IsFiniteSet(1..Len(s))
  BY FS_Interval
<1>2. s \in Surjection(1..Len(s), ToSet(s))
  BY DEF ToSet, Surjection
<1>3. IsFiniteSet(ToSet(s))
  BY <1>1, <1>2, FS_Surjection
<1>4. IsFiniteSet(T) /\ T \subseteq S
  BY <1>3, FS_Subset DEF ToSet
<1> QED
  BY <1>4, OrderTyped

(* Exporting the next entry of a list leaves no more than one behind.      *)
LEMMA ExportedNext ==
  ASSUME NEW S, NEW objects \in Seq(S), NEW list \in Seq(S),
         NEW i \in 1..Len(list), Behind(objects, list, i - 1)
  PROVE  LET now == Exported(objects, i, list[i])
         IN  /\ now \in Seq(S) /\ Len(now) >= Len(objects)
             /\ Behind(now, list, i)
<1>1. list[i] \in S
  OBVIOUS
<1>2. CASE i <= Len(objects)
  BY <1>1, <1>2 DEF Exported, Behind
<1>3. CASE i > Len(objects)
  <2>1. Len(objects) = i - 1 /\ Exported(objects, i, list[i]) = Append(objects, list[i])
    BY <1>3 DEF Exported, Behind
  <2> QED
    BY <1>1, <2>1 DEF Behind
<1> QED
  BY <1>2, <1>3

(* Another device at the end of the list, or another service that matches, *)
(* leaves the others matching.                                             *)
LEMMA DeviceAppended ==
  ASSUME NEW entries \in Seq(Service), NEW list \in Seq(Dev), NEW d \in Dev,
         AllMatch(entries, list)
  PROVE  AllMatch(entries, Append(list, d))
BY DEF AllMatch, Matches, Service

LEMMA ServiceAppended ==
  ASSUME NEW entries \in Seq(Service), NEW list \in Seq(Dev), NEW s \in Service,
         AllMatch(entries, list), Matches(s, list)
  PROVE  AllMatch(Append(entries, s), list)
BY DEF AllMatch

LEMMA DeviceFound ==
  ASSUME NEW entries \in Seq(Service), entries # <<>>, NEW i \in Nat
  PROVE  LET n == Len(entries)
             now == Over(entries, i)
         IN  /\ now \in Seq(Service) /\ Len(now) = n
             /\ now[n].con = entries[n].con /\ now[n].device = i
             /\ \A j \in 1..n : j # n => now[j] = entries[j]
<1> DEFINE n == Len(entries)
           entry == [entries[n] EXCEPT !.device = i]
<1>1. n \in 1..n /\ entries[n] \in Service
  OBVIOUS
<1>2. entry \in Service /\ entry.con = entries[n].con /\ entry.device = i
  BY <1>1 DEF Service
<1>3. Over(entries, i) = [entries EXCEPT ![n] = entry]
  BY DEF Over
<1> HIDE DEF entry
<1> QED
  BY <1>1, <1>2, <1>3

(* One field of a record of three. *)
LEMMA FieldChanged ==
  ASSUME NEW R, NEW S, NEW D, NEW r \in [state : R, services : S, devices : D], NEW x
  PROVE  /\ [r EXCEPT !.state = x] =
              [state |-> x, services |-> r.services, devices |-> r.devices]
         /\ [r EXCEPT !.services = x] =
              [state |-> r.state, services |-> x, devices |-> r.devices]
         /\ [r EXCEPT !.devices = x] =
              [state |-> r.state, services |-> r.services, devices |-> x]
OBVIOUS

LEMMA StatesTyped ==
  ASSUME NEW raw
  PROVE  /\ nmToShillState(raw) \in ShillState
         /\ nmAcToShillState(raw) \in {"online", "association", "idle"}
<1>1. nmToShillState(raw) \in ShillState
  BY Zenon DEF nmToShillState, ShillState
<1>2. nmAcToShillState(raw) \in {"online", "association", "idle"}
  BY Zenon DEF nmAcToShillState
<1> QED
  BY <1>1, <1>2

-----------------------------------------------------------------------------
(* Every step keeps the types.                                             *)

NmTyped ==
  /\ nmState \in NmState /\ reachable \in BOOLEAN
  /\ nmDevices \in Seq(Dev) /\ nmActive \in Seq(Con)
  /\ conState \in [Con -> Connection] /\ changes \in 0..MaxChanges

LEMMA EnvironmentKeeps ==
  Typed /\ Environment => NmTyped' /\ UNCHANGED Bridge
<1> SUFFICES ASSUME NmTyped, Environment PROVE NmTyped' /\ UNCHANGED Bridge
  BY DEF Typed, TypeOK, NmTyped
<1>1. Change
  BY DEF Environment, ChangeState, AddDevice, RemoveDevice, ActivateConnection,
         ConnectionChanges, DropConnection
<1>2. UNCHANGED Bridge /\ changes' \in 0..MaxChanges
  BY <1>1, NmMirrorAssumption DEF Change, NmTyped
<1> USE DEF NmTyped, Connection
<1>3. CASE ChangeState
  BY <1>2, <1>3 DEF ChangeState
<1>4. ASSUME NEW d \in Dev, AddDevice(d) PROVE NmTyped'
  BY <1>2, <1>4 DEF AddDevice
<1>5. ASSUME NEW d \in Dev, RemoveDevice(d) PROVE NmTyped'
  <2>1. nmDevices' \in Seq(Dev)
    BY <1>5, RemoveAtTyped DEF RemoveDevice
  <2>2. nmActive' \in Seq(Con)
    <3> DEFINE left == {c \in ToSet(nmActive) : ConDev[c] # d}
    <3>1. left \in SUBSET ToSet(nmActive) /\ nmActive' \in SetToSeqs(left)
      BY <1>5 DEF RemoveDevice
    <3> HIDE DEF left
    <3> QED
      BY <3>1, SomeOfTyped
  <2> QED
    BY <1>2, <1>5, <2>1, <2>2 DEF RemoveDevice
<1>6. ASSUME NEW c \in Con, ActivateConnection(c) PROVE NmTyped'
  BY <1>2, <1>6 DEF ActivateConnection
<1>7. ASSUME NEW c \in Con, ConnectionChanges(c) PROVE NmTyped'
  BY <1>2, <1>7 DEF ConnectionChanges
<1>8. ASSUME NEW c \in Con, DropConnection(c) PROVE NmTyped'
  <2>1. nmActive' \in Seq(Con)
    BY <1>8, RemoveAtTyped DEF DropConnection
  <2> QED
    BY <1>2, <1>8, <2>1 DEF DropConnection
<1> QED
  BY <1>3, <1>4, <1>5, <1>6, <1>7, <1>8, <1>2 DEF Environment


-----------------------------------------------------------------------------
(* What a query reads: each step, and then what all of them keep.          *)

Read == [state : ShillState, services : Seq(Service), devices : Seq(Dev)]

LEMMA ReadStateStep ==
  ASSUME Typed, ReadState
  PROVE  \/ pc' = "devices" /\ UNCHANGED <<ticking, todo, pos>>
            /\ \E s \in ShillState :
                  seen' = [state |-> s, services |-> <<>>, devices |-> <<>>]
         \/ Rest /\ ticking' = TRUE
<1>1. CASE Rest /\ ticking' = TRUE
  BY <1>1
<1>2. CASE reachable /\ pc' = "devices" /\ UNCHANGED <<ticking, todo, pos>>
           /\ seen' = [Nothing EXCEPT !.state = nmToShillState(nmState)]
  <2> DEFINE s == nmToShillState(nmState)
  <2>1. Nothing \in [state : ShillState, services : {<<>>}, devices : {<<>>}]
    BY DEF Nothing, ShillState
  <2>2. s \in ShillState
    BY StatesTyped
  <2> HIDE DEF s
  <2>3. [Nothing EXCEPT !.state = s] = [state |-> s, services |-> <<>>, devices |-> <<>>]
    BY <2>1, FieldChanged DEF Nothing
  <2>4. seen' = [state |-> s, services |-> <<>>, devices |-> <<>>]
    BY <1>2, <2>3 DEF s
  <2> QED
    BY <1>2, <2>2, <2>4
<1> QED
  BY <1>1, <1>2 DEF ReadState

LEMMA ReadDeviceStep ==
  ASSUME Typed, ReadDevice
  PROVE  LET d == Head(todo)
         IN  /\ d \in Dev
             /\ \/ /\ ~Present(d) \/ DevKind[d] = "other"
                   /\ seen' = seen
                \/ /\ DevKind[d] # "other"
                   /\ seen' = [state |-> seen.state, services |-> seen.services,
                               devices |-> Append(seen.devices, d)]
<1> DEFINE d == Head(todo)
<1>1. d \in Dev /\ seen \in Read
  BY DEF ReadDevice, Typed, TypeOK, TodoTyped, Read
<1>2. ASSUME NEW x
      PROVE  [seen EXCEPT !.devices = x] =
               [state |-> seen.state, services |-> seen.services, devices |-> x]
  BY <1>1, FieldChanged DEF Read
<1>3. \/ (~Present(d) \/ DevKind[d] = "other") /\ seen' = seen
      \/ DevKind[d] # "other" /\ seen' = [seen EXCEPT !.devices = Append(@, d)]
  BY Zenon DEF ReadDevice
<1> HIDE DEF d
<1>4. \/ (~Present(d) \/ DevKind[d] = "other") /\ seen' = seen
      \/ /\ DevKind[d] # "other"
         /\ seen' = [state |-> seen.state, services |-> seen.services,
                     devices |-> Append(seen.devices, d)]
  BY <1>2, <1>3
<1> QED
  BY <1>1, <1>4 DEF d

LEMMA ReadConStateStep ==
  ASSUME Typed, ReadInv, ReadConState
  PROVE  \E s \in Service :
           /\ s.con = Head(todo) /\ s.device = NoDevice
           /\ Active(s.con) => s.state = nmAcToShillState(conState[s.con])
           /\ seen' = [state |-> seen.state, services |-> Append(seen.services, s),
                       devices |-> seen.devices]
<1> DEFINE c == Head(todo)
           raw == IF Active(c) THEN conState[c] ELSE "other"
           s == [con |-> c, state |-> nmAcToShillState(raw), device |-> NoDevice]
<1>1. c \in Con /\ seen \in Read
  BY DEF ReadConState, ReadInv, Typed, TypeOK, TodoTyped, Read
<1>2. seen' = [seen EXCEPT !.services = Append(@, s)]
  BY Zenon DEF ReadConState
<1> HIDE DEF raw, c
<1>3. s \in Service /\ s.con = c /\ s.device = NoDevice
  BY <1>1, StatesTyped DEF Service, NoDevice
<1>4. Active(c) => s.state = nmAcToShillState(conState[c])
  BY DEF raw
<1> HIDE DEF s
<1>5. seen' = [state |-> seen.state, services |-> Append(seen.services, s),
               devices |-> seen.devices]
  BY <1>1, <1>2, FieldChanged DEF Read
<1> QED
  BY <1>3, <1>4, <1>5 DEF c

LEMMA ReadConDevicesStep ==
  ASSUME Typed, ReadConDevices
  PROVE  \/ /\ \/ ~Active(Head(todo))
               \/ \A i \in DOMAIN seen.devices : seen.devices[i] # ConDev[Head(todo)]
            /\ seen' = seen
         \/ \E i \in DOMAIN seen.devices :
              /\ seen.devices[i] = ConDev[Head(todo)]
              /\ seen' = [state |-> seen.state, services |-> Over(seen.services, i),
                          devices |-> seen.devices]
<1>1. ASSUME NEW x
      PROVE  [seen EXCEPT !.services = x] =
               [state |-> seen.state, services |-> x, devices |-> seen.devices]
  <2>1. seen \in Read
    BY DEF Typed, TypeOK, Read
  <2> QED
    BY <2>1, FieldChanged DEF Read
<1>2. \/ /\ \/ ~Active(Head(todo))
            \/ \A i \in DOMAIN seen.devices : seen.devices[i] # ConDev[Head(todo)]
         /\ seen' = seen
      \/ \E i \in DOMAIN seen.devices :
           /\ seen.devices[i] = ConDev[Head(todo)]
           /\ seen' = [seen EXCEPT !.services = Over(@, i)]
  BY DEF ReadConDevices
<1> QED
  BY <1>1, <1>2

(* Publishing, exporting and signalling are none of their business.        *)
LEMMA ReadsKeep ==
  ASSUME PublishInv, ExportInv, SignalInv, Reading, Reading',
         UNCHANGED <<manager, bus>>, ticking' \in {ticking, TRUE}
  PROVE  PublishInv' /\ ExportInv' /\ SignalInv'
<1> USE DEF manager, bus, Reading, Exporting, Signalling
<1>1. PublishInv'
  BY DEF PublishInv
<1>2. ExportInv'
  BY DEF ExportInv, SignalledPathsExist
<1>3. SignalInv'
  BY DEF SignalInv
<1> QED
  BY <1>1, <1>2, <1>3

Reads ==
  \/ Tick \/ ReadState \/ ListDevices \/ ReadDevice \/ ListConnections
  \/ ReadType \/ ReadConState \/ ReadConDevices

LEMMA QueryTyped ==
  ASSUME Typed, UNCHANGED <<nm, manager, bus>>, ticking' \in BOOLEAN, pos' \in Nat,
         seen' \in Read, pc' \in Stage,
         \/ todo' = <<>>
         \/ todo' \in Seq(Dev) /\ pc' \notin {"connection", "conState", "conDevices"}
         \/ todo' \in Seq(Con) /\ pc' # "device"
  PROVE  Typed'
<1>0. <<>> \in Seq(Dev) /\ <<>> \in Seq(Con)
  OBVIOUS
<1>1. TodoTyped' /\ todo' \in Seq(Dev) \cup Seq(Con)
  BY <1>0 DEF TodoTyped
<1> QED
  BY <1>1 DEF Typed, TypeOK, Read, nm, manager, bus

LEMMA ReadTyped ==
  ASSUME Typed, ReadInv, Reads
  PROVE  Typed'
<1>1. /\ nmDevices \in Seq(Dev) /\ nmActive \in Seq(Con)
      /\ ticking \in BOOLEAN /\ pos \in Nat /\ pc \in Stage
      /\ pc = "device" => todo \in Seq(Dev)
      /\ pc \in {"connection", "conState", "conDevices"} => todo \in Seq(Con)
  BY DEF Typed, TypeOK, TodoTyped
<1>2. seen \in Read /\ seen.services \in Seq(Service) /\ seen.devices \in Seq(Dev)
      /\ seen.state \in ShillState
  BY DEF Typed, TypeOK, Read
<1>3. CASE Tick
  <2>1. todo \in Seq(Dev) \cup Seq(Con)
    BY DEF Typed, TypeOK
  <2> QED
    BY <1>1, <1>2, <1>3, <2>1, QueryTyped DEF Tick, Stage
<1>4. CASE ReadState
  <2>1. seen' \in Read
    <3>1. ASSUME NEW s \in ShillState,
                 seen' = [state |-> s, services |-> <<>>, devices |-> <<>>]
          PROVE  seen' \in Read
      BY <3>1 DEF Read
    <3>2. "offline" \in ShillState
      BY DEF ShillState
    <3> QED
      BY <1>4, <3>1, <3>2, ReadStateStep DEF Rest, Nothing
  <2>2. todo \in Seq(Dev) \cup Seq(Con)
    BY DEF Typed, TypeOK
  <2>3. CASE pc' = "devices" /\ UNCHANGED <<ticking, todo, pos>>
    BY <1>1, <1>4, <2>1, <2>2, <2>3, QueryTyped DEF ReadState, Stage
  <2>4. CASE Rest /\ ticking' = TRUE
    BY <1>1, <1>4, <2>1, <2>4, QueryTyped DEF ReadState, Rest, Stage
  <2> QED
    BY <1>4, <2>3, <2>4, ReadStateStep
<1>5. CASE ListDevices
  <2>1. todo' \in Seq(Dev)
    BY <1>1, <1>5 DEF ListDevices
  <2> QED
    BY <1>1, <1>2, <1>5, <2>1, QueryTyped DEF ListDevices, Stage
<1>6. CASE ListConnections
  <2>1. todo' \in Seq(Con)
    BY <1>1, <1>6 DEF ListConnections
  <2> QED
    BY <1>1, <1>2, <1>6, <2>1, QueryTyped DEF ListConnections, Stage
<1>7. CASE ReadDevice
  <2>1. seen' \in Read
    BY <1>2, <1>7, ReadDeviceStep DEF Read
  <2>2. todo' \in Seq(Dev)
    BY <1>1, <1>7 DEF ReadDevice
  <2> QED
    BY <1>1, <1>7, <2>1, <2>2, QueryTyped DEF ReadDevice
<1>8. CASE ReadType
  <2>1. todo \in Seq(Con) /\ todo # <<>> /\ todo' \in {todo, Tail(todo)}
    BY <1>1, <1>8 DEF ReadType
  <2>2. todo' \in Seq(Con) /\ pc' \in {"connection", "conState"}
    BY <1>8, <2>1 DEF ReadType
  <2> QED
    BY <1>1, <1>2, <1>8, <2>2, QueryTyped DEF ReadType, Stage
<1>9. CASE ReadConState
  <2>1. seen' \in Read
    BY <1>2, <1>9, ReadConStateStep DEF Read
  <2> QED
    BY <1>1, <1>9, <2>1, QueryTyped DEF ReadConState, Stage
<1>10. CASE ReadConDevices
  <2>1. seen.services # <<>> /\ todo # <<>>
    BY <1>10 DEF ReadConDevices, ReadInv
  <2>2. seen' \in Read
    BY <1>2, <1>10, <2>1, ReadConDevicesStep, DeviceFound DEF Read
  <2>3. todo' \in Seq(Con)
    BY <1>1, <1>10, <2>1 DEF ReadConDevices
  <2> QED
    BY <1>1, <1>10, <2>2, <2>3, QueryTyped DEF ReadConDevices, Stage
<1> QED
  BY <1>3, <1>4, <1>5, <1>6, <1>7, <1>8, <1>9, <1>10 DEF Reads

LEMMA ReadKeepsReadInv ==
  ASSUME Typed, ReadInv, Reads
  PROVE  ReadInv'
<1> USE DEF ReadInv
<1>0. seen \in Read /\ seen.services \in Seq(Service) /\ seen.devices \in Seq(Dev)
  BY DEF Typed, TypeOK, Read
<1>1. CASE Tick \/ ListDevices \/ ListConnections
  BY <1>1 DEF Tick, ListDevices, ListConnections
<1>2. CASE ReadState
  <2>1. seen'.services = <<>> /\ pc' \notin {"conState", "conDevices"}
    <3>1. CASE Rest
      BY <3>1 DEF Rest, Nothing
    <3>2. CASE pc' = "devices" /\ \E s \in ShillState :
                 seen' = [state |-> s, services |-> <<>>, devices |-> <<>>]
      BY <3>2
    <3> QED
      BY <1>2, <3>1, <3>2, ReadStateStep
  <2> QED
    BY <2>1 DEF AllMatch
<1>3. CASE ReadDevice
  <2>1. AllMatch(seen.services, seen.devices)'
    <3>1. ASSUME NEW d \in Dev,
                 seen' = [state |-> seen.state, services |-> seen.services,
                          devices |-> Append(seen.devices, d)]
          PROVE  AllMatch(seen.services, seen.devices)'
      <4>1. AllMatch(seen.services, Append(seen.devices, d))
        BY <1>0, DeviceAppended
      <4> QED
        BY <3>1, <4>1
    <3> QED
      BY <1>3, <3>1, ReadDeviceStep
  <2> QED
    BY <1>3, <2>1 DEF ReadDevice
<1>4. CASE ReadType
  BY <1>4 DEF ReadType
<1>5. CASE ReadConState
  <2>1. PICK s \in Service :
          /\ s.con = Head(todo) /\ s.device = NoDevice
          /\ seen' = [state |-> seen.state, services |-> Append(seen.services, s),
                      devices |-> seen.devices]
    BY <1>5, ReadConStateStep
  <2>2. AllMatch(seen.services, seen.devices)'
    BY <1>0, <2>1, ServiceAppended DEF Read, Matches
  <2>3. seen'.services # <<>> /\ seen'.services[Len(seen'.services)] = s
    BY <1>0, <2>1 DEF Read
  <2> QED
    BY <1>5, <2>1, <2>2, <2>3 DEF ReadConState
<1>6. CASE ReadConDevices
  <2>1. seen.services # <<>> /\ seen.services[Len(seen.services)].con = Head(todo)
    BY <1>6 DEF ReadConDevices
  <2>2. ASSUME NEW i \in DOMAIN seen.devices, seen.devices[i] = ConDev[Head(todo)],
               seen' = [state |-> seen.state, services |-> Over(seen.services, i),
                        devices |-> seen.devices]
        PROVE  AllMatch(seen.services, seen.devices)'
    <3> DEFINE n == Len(seen.services)
               now == Over(seen.services, i)
    <3>1. seen.services \in Seq(Service) /\ seen.devices \in Seq(Dev) /\ i \in Nat
      BY <1>0, <2>2 DEF Read
    <3>2. now \in Seq(Service) /\ Len(now) = n /\ now[n].con = Head(todo) /\ now[n].device = i
          /\ \A j \in 1..n : j # n => now[j] = seen.services[j]
      BY <2>1, <3>1, DeviceFound
    <3> HIDE DEF now
    <3>3. AllMatch(now, seen.devices)
      BY <2>2, <3>1, <3>2 DEF AllMatch, Matches
    <3> QED
      BY <2>2, <3>3 DEF now
  <2>3. AllMatch(seen.services, seen.devices)'
    BY <1>6, <2>2, ReadConDevicesStep
  <2> QED
    BY <1>6, <2>3 DEF ReadConDevices
<1> QED
  BY <1>1, <1>2, <1>3, <1>4, <1>5, <1>6 DEF Reads

LEMMA ReadsKeepInv ==
  ASSUME Inv, Reads
  PROVE  Inv'
<1>1. Reading /\ Reading' /\ UNCHANGED <<manager, bus>> /\ ticking' \in {ticking, TRUE}
  BY DEF Reads, Tick, ReadState, ListDevices, ReadDevice, ListConnections, ReadType,
         ReadConState, ReadConDevices, Rest, Reading, Exporting, Signalling
<1> QED
  BY <1>1, ReadsKeep, ReadTyped, ReadKeepsReadInv DEF Inv

-----------------------------------------------------------------------------
(* What main does with the result.                                         *)

LEMMA PublishKeeps == ASSUME Inv, Publish PROVE Inv'
<1> USE DEF Inv
<1>1. /\ pc = "connection" /\ pc' = "exportServices" /\ pos' = 1
      /\ state' = seen.state /\ services' = seen.services /\ devices' = seen.devices
      /\ UNCHANGED <<nm, serviceObjects, deviceObjects, signalled, ticking, todo, seen>>
  BY DEF Publish, bus
<1>2. /\ seen \in Read /\ services' \in Seq(Service) /\ devices' \in Seq(Dev)
      /\ state' \in ShillState
      /\ serviceObjects \in Seq(Service) /\ deviceObjects \in Seq(Dev)
  BY <1>1 DEF Typed, TypeOK, Read
<1>3. Typed'
  BY <1>1, <1>2 DEF Typed, TypeOK, TodoTyped, nm, Stage
<1>4. ReadInv'
  BY <1>1 DEF ReadInv
<1>5. PublishInv'
  <2>1. seen = [state |-> seen.state, services |-> seen.services, devices |-> seen.devices]
    BY <1>2 DEF Read
  <2> QED
    BY <1>1, <2>1 DEF PublishInv, ReadInv
<1>6. ExportInv'
  <2>1. pos' \in 1..(Len(services') + 1) /\ Behind(serviceObjects, services', 0)
    BY <1>1, <1>2 DEF Behind
  <2> QED
    BY <1>1, <2>1 DEF ExportInv, SignalledPathsExist, Exporting
<1>7. SignalInv'
  BY <1>1 DEF SignalInv, Reading, Exporting, Signalling
<1> QED
  BY <1>3, <1>4, <1>5, <1>6, <1>7

LEMMA ExportServiceKeeps == ASSUME Inv, ExportService PROVE Inv'
<1> USE DEF Inv
<1>1. /\ pc = "exportServices" /\ pos <= Len(seen.services)
      /\ serviceObjects' = Exported(serviceObjects, pos, seen.services[pos])
      /\ pos' = pos + 1
      /\ UNCHANGED <<nm, manager, deviceObjects, signalled, ticking, pc, todo, seen>>
  BY DEF ExportService
<1>2. /\ services \in Seq(Service) /\ serviceObjects \in Seq(Service)
      /\ pos \in Nat /\ signalled.services \in Nat \cup {Never}
  BY DEF Typed, TypeOK
<1>3. seen.services = services /\ pos \in 1..Len(services)
      /\ Behind(serviceObjects, services, pos - 1)
  BY <1>1, <1>2 DEF PublishInv, ExportInv, Reading, Exporting
<1>4. /\ serviceObjects' \in Seq(Service) /\ Len(serviceObjects') >= Len(serviceObjects)
      /\ Behind(serviceObjects', services, pos)
  BY <1>1, <1>2, <1>3, ExportedNext
<1>5. Typed'
  BY <1>1, <1>2, <1>4 DEF Typed, TypeOK, TodoTyped, nm, manager
<1>6. ReadInv' /\ PublishInv' /\ SignalInv'
  BY <1>1 DEF ReadInv, PublishInv, SignalInv, Reading, Exporting, Signalling, manager
<1>7. ExportInv'
  <2>1. pos' \in 1..(Len(services) + 1) /\ Behind(serviceObjects', services, pos' - 1)
    BY <1>1, <1>2, <1>3, <1>4
  <2>2. signalled.services <= Len(serviceObjects')
    BY <1>2, <1>4 DEF ExportInv, SignalledPathsExist, Never
  <2> QED
    BY <1>1, <2>1, <2>2 DEF ExportInv, SignalledPathsExist, Exporting, manager
<1> QED
  BY <1>5, <1>6, <1>7

LEMMA ServicesExportedKeeps == ASSUME Inv, ServicesExported PROVE Inv'
<1> USE DEF Inv
<1>1. /\ pc = "exportServices" /\ pos > Len(seen.services)
      /\ pc' = "exportDevices" /\ pos' = 1
      /\ UNCHANGED <<nm, manager, bus, ticking, todo, seen>>
  BY DEF ServicesExported
<1>2. /\ services \in Seq(Service) /\ devices \in Seq(Dev) /\ pos \in Nat
      /\ deviceObjects \in Seq(Dev)
  BY DEF Typed, TypeOK
<1>3. Typed'
  BY <1>1, <1>2 DEF Typed, TypeOK, TodoTyped, nm, manager, bus, Stage
<1>4. ReadInv' /\ PublishInv' /\ SignalInv'
  BY <1>1 DEF ReadInv, PublishInv, SignalInv, Reading, Exporting, Signalling, manager, bus
<1>5. ExportInv'
  <2>1. seen.services = services
    BY <1>1 DEF PublishInv, Reading, Exporting
  <2>2. pos - 1 = Len(services) /\ Behind(serviceObjects, services, pos - 1)
    BY <1>1, <1>2, <2>1 DEF ExportInv
  <2>3. pos' \in 1..(Len(devices) + 1) /\ Behind(deviceObjects, devices, pos' - 1)
    BY <1>1, <1>2 DEF Behind
  <2> QED
    BY <1>1, <2>2, <2>3 DEF ExportInv, SignalledPathsExist, Exporting, manager, bus
<1> QED
  BY <1>3, <1>4, <1>5

LEMMA ExportDeviceKeeps == ASSUME Inv, ExportDevice PROVE Inv'
<1> USE DEF Inv
<1>1. /\ pc = "exportDevices" /\ pos <= Len(seen.devices)
      /\ deviceObjects' = Exported(deviceObjects, pos, seen.devices[pos])
      /\ pos' = pos + 1
      /\ UNCHANGED <<nm, manager, serviceObjects, signalled, ticking, pc, todo, seen>>
  BY DEF ExportDevice
<1>2. /\ devices \in Seq(Dev) /\ deviceObjects \in Seq(Dev)
      /\ pos \in Nat /\ signalled.devices \in Nat \cup {Never}
  BY DEF Typed, TypeOK
<1>3. seen.devices = devices /\ pos \in 1..Len(devices)
      /\ Behind(deviceObjects, devices, pos - 1)
  BY <1>1, <1>2 DEF PublishInv, ExportInv, Reading, Exporting
<1>4. /\ deviceObjects' \in Seq(Dev) /\ Len(deviceObjects') >= Len(deviceObjects)
      /\ Behind(deviceObjects', devices, pos)
  BY <1>1, <1>2, <1>3, ExportedNext
<1>5. Typed'
  BY <1>1, <1>2, <1>4 DEF Typed, TypeOK, TodoTyped, nm, manager
<1>6. ReadInv' /\ PublishInv' /\ SignalInv'
  BY <1>1 DEF ReadInv, PublishInv, SignalInv, Reading, Exporting, Signalling, manager
<1>7. ExportInv'
  <2>1. pos' \in 1..(Len(devices) + 1) /\ Behind(deviceObjects', devices, pos' - 1)
    BY <1>1, <1>2, <1>3, <1>4
  <2>2. signalled.devices <= Len(deviceObjects')
    BY <1>2, <1>4 DEF ExportInv, SignalledPathsExist, Never
  <2> QED
    BY <1>1, <2>1, <2>2 DEF ExportInv, SignalledPathsExist, Exporting, manager
<1> QED
  BY <1>5, <1>6, <1>7

(* The end of a query: it rests with everything exported and, but for the  *)
(* startup query, signalled.                                               *)
LEMMA RestTyped == ASSUME Typed, Rest, UNCHANGED <<nm, manager, serviceObjects, deviceObjects>>,
                          signalled' \in [state : ShillState \cup {"never"},
                                          services : Nat \cup {Never},
                                          devices : Nat \cup {Never}],
                          ticking' \in BOOLEAN
                   PROVE  Typed' /\ ReadInv'
<1>1. <<>> \in Seq(Dev) /\ <<>> \in Seq(Service) /\ "offline" \in ShillState
  BY DEF ShillState
<1>2. seen' \in [state : ShillState, services : Seq(Service), devices : Seq(Dev)]
  BY <1>1 DEF Rest, Nothing
<1>3. Typed'
  BY <1>1, <1>2 DEF Typed, TypeOK, TodoTyped, Rest, nm, manager, Stage
<1>4. ReadInv'
  BY DEF ReadInv, AllMatch, Rest, Nothing
<1> QED
  BY <1>3, <1>4

LEMMA DevicesExportedKeeps == ASSUME Inv, DevicesExported PROVE Inv'
<1> USE DEF Inv
<1>1. /\ pc = "exportDevices" /\ pos > Len(seen.devices)
      /\ UNCHANGED <<nm, manager, bus>>
      /\ \/ ticking /\ pc' = "signalState" /\ pos' = 0 /\ UNCHANGED <<ticking, todo, seen>>
         \/ ~ticking /\ Rest /\ ticking' = TRUE
  BY DEF DevicesExported
<1>2. devices \in Seq(Dev) /\ pos \in Nat
  BY DEF Typed, TypeOK
<1>3. Typed' /\ ReadInv'
  <2>1. CASE Rest
    BY <1>1, <2>1, RestTyped DEF Typed, TypeOK, bus
  <2>2. CASE pc' = "signalState" /\ pos' = 0 /\ UNCHANGED <<ticking, todo, seen>>
    BY <1>1, <2>2 DEF Typed, TypeOK, TodoTyped, ReadInv, nm, manager, bus, Stage
  <2> QED
    BY <1>1, <2>1, <2>2
<1>4. PublishInv' /\ SignalInv'
  BY <1>1 DEF PublishInv, SignalInv, Reading, Exporting, Signalling, manager, bus, Rest
<1>5. ExportInv'
  <2>1. seen.devices = devices
    BY <1>1 DEF PublishInv, Reading, Exporting
  <2>2. pos - 1 = Len(devices) /\ Behind(deviceObjects, devices, pos - 1)
    BY <1>1, <1>2, <2>1 DEF ExportInv
  <2>3. pc' \in {"rest", "signalState"}
    BY <1>1 DEF Rest
  <2> QED
    BY <1>1, <2>2, <2>3 DEF ExportInv, SignalledPathsExist, Exporting, manager, bus
<1> QED
  BY <1>3, <1>4, <1>5

(* What has been signalled, field by field.                                *)
LEMMA SignalStep ==
  ASSUME Typed, SignalState \/ SignalServices \/ SignalDevices
  PROVE  signalled' =
           [state |-> IF pc = "signalState" THEN seen.state ELSE signalled.state,
            services |-> IF pc = "signalServices" THEN Len(seen.services)
                         ELSE signalled.services,
            devices |-> IF pc = "signalDevices" THEN Len(seen.devices)
                        ELSE signalled.devices]
<1>1. signalled \in [state : ShillState \cup {"never"}, services : Nat \cup {Never},
                     devices : Nat \cup {Never}]
  BY DEF Typed, TypeOK
<1>2. signalled = [state |-> signalled.state, services |-> signalled.services,
                   devices |-> signalled.devices]
  BY <1>1
<1>3. CASE SignalState
  <2>1. ASSUME NEW x
        PROVE  [signalled EXCEPT !.state = x] =
                 [state |-> x, services |-> signalled.services, devices |-> signalled.devices]
    BY <1>1, FieldChanged
  <2> QED
    BY <1>3, <2>1 DEF SignalState
<1>4. CASE SignalServices
  <2>1. ASSUME NEW x
        PROVE  [signalled EXCEPT !.services = x] =
                 [state |-> signalled.state, services |-> x, devices |-> signalled.devices]
    BY <1>1, FieldChanged
  <2> QED
    BY <1>2, <1>4, <2>1 DEF SignalServices
<1>5. CASE SignalDevices
  <2>1. ASSUME NEW x
        PROVE  [signalled EXCEPT !.devices = x] =
                 [state |-> signalled.state, services |-> signalled.services, devices |-> x]
    BY <1>1, FieldChanged
  <2> QED
    BY <1>2, <1>5, <2>1 DEF SignalDevices
<1> QED
  BY <1>3, <1>4, <1>5

LEMMA SignalKeeps ==
  ASSUME Inv, SignalState \/ SignalServices \/ SignalDevices
  PROVE  Inv'
<1> USE DEF Inv
<1>1. /\ seen = [state |-> state, services |-> services, devices |-> devices]
      /\ ~Reading /\ ~Exporting
  BY DEF PublishInv, SignalState, SignalServices, SignalDevices, Reading, Exporting, Signalling
<1>2. /\ state \in ShillState /\ services \in Seq(Service) /\ devices \in Seq(Dev)
      /\ signalled \in [state : ShillState \cup {"never"}, services : Nat \cup {Never},
                         devices : Nat \cup {Never}]
      /\ ticking \in BOOLEAN
  BY DEF Typed, TypeOK
<1>3. signalled' =
        [state |-> IF pc = "signalState" THEN state ELSE signalled.state,
         services |-> IF pc = "signalServices" THEN Len(services) ELSE signalled.services,
         devices |-> IF pc = "signalDevices" THEN Len(devices) ELSE signalled.devices]
  BY <1>1, SignalStep
<1>4. signalled' \in [state : ShillState \cup {"never"}, services : Nat \cup {Never},
                      devices : Nat \cup {Never}]
  BY <1>2, <1>3
<1>5. /\ UNCHANGED <<nm, manager, serviceObjects, deviceObjects, ticking>>
      /\ \/ pc = "signalState" /\ pc' = "signalServices" /\ UNCHANGED <<todo, seen, pos>>
         \/ pc = "signalServices" /\ pc' = "signalDevices" /\ UNCHANGED <<todo, seen, pos>>
         \/ pc = "signalDevices" /\ Rest
  BY DEF SignalState, SignalServices, SignalDevices
<1>6. Typed' /\ ReadInv'
  <2>1. CASE Rest
    BY <1>2, <1>4, <1>5, <2>1, RestTyped
  <2>2. CASE pc' \in {"signalServices", "signalDevices"} /\ UNCHANGED <<todo, seen, pos>>
    BY <1>4, <1>5, <2>2 DEF Typed, TypeOK, TodoTyped, ReadInv, nm, manager, Stage
  <2> QED
    BY <1>5, <2>1, <2>2
<1>7. PublishInv'
  BY <1>5 DEF PublishInv, manager, Reading, Exporting, Signalling, Rest
<1>8. ExportInv'
  <2>1. Len(services) <= Len(serviceObjects) /\ Len(devices) <= Len(deviceObjects)
    BY <1>1 DEF ExportInv, Behind, Exporting
  <2>2. SignalledPathsExist'
    BY <1>3, <1>5, <2>1 DEF ExportInv, SignalledPathsExist
  <2>3. ~Exporting'
    BY <1>5 DEF Exporting, Rest
  <2> QED
    BY <1>1, <1>5, <2>2, <2>3 DEF ExportInv, Exporting, manager
<1>9. SignalInv'
  BY <1>2, <1>3, <1>5 DEF SignalInv, Reading, Exporting, Signalling, manager, Rest
<1> QED
  BY <1>6, <1>7, <1>8, <1>9

-----------------------------------------------------------------------------
(* The theorems.                                                           *)

LEMMA BridgeIdle == ASSUME Inv, NmTyped', UNCHANGED Bridge PROVE Inv'
<1> USE DEF Inv, Bridge, manager, bus, query
<1>1. Typed'
  BY DEF Typed, TypeOK, TodoTyped, NmTyped
<1>2. ReadInv' /\ PublishInv'
  BY DEF ReadInv, PublishInv, Reading, Exporting, Signalling
<1>3. ExportInv' /\ SignalInv'
  BY DEF ExportInv, SignalInv, SignalledPathsExist, Reading, Exporting, Signalling
<1> QED
  BY <1>1, <1>2, <1>3

LEMMA Inductive == Inv /\ [Next]_vars => Inv'
<1> SUFFICES ASSUME Inv, [Next]_vars PROVE Inv'
  OBVIOUS
<1>1. CASE Poll
  BY <1>1, ReadsKeepInv, PublishKeeps, ExportServiceKeeps, ServicesExportedKeeps,
     ExportDeviceKeeps, DevicesExportedKeeps, SignalKeeps DEF Poll, Reads
<1>2. CASE Environment
  BY <1>2, EnvironmentKeeps, BridgeIdle DEF Inv
<1>3. CASE UNCHANGED vars
  <2>1. NmTyped' /\ UNCHANGED Bridge
    BY <1>3 DEF vars, nm, Bridge, NmTyped, Inv, Typed, TypeOK
  <2> QED
    BY <2>1, BridgeIdle
<1> QED
  BY <1>1, <1>2, <1>3 DEF Next

LEMMA InitHolds == Init => Inv
<1> SUFFICES ASSUME Init PROVE Inv
  OBVIOUS
<1>1. NmTyped
  <2>1. nmDevices \in Seq(Dev) /\ nmActive \in Seq(Con)
    BY OrdersTyped DEF Init
  <2> QED
    BY <2>1, NmMirrorAssumption DEF Init, NmTyped, Connection
<1>2. <<>> \in Seq(Dev) /\ <<>> \in Seq(Con) /\ <<>> \in Seq(Service) /\ "offline" \in ShillState
  BY DEF ShillState
<1>3. Nothing \in [state : ShillState, services : Seq(Service), devices : Seq(Dev)]
  BY <1>2 DEF Nothing
<1>4. Typed
  BY <1>1, <1>2, <1>3 DEF Init, NmTyped, Typed, TypeOK, TodoTyped, Stage
<1>5. ReadInv /\ PublishInv
  BY DEF Init, ReadInv, PublishInv, AllMatch, Nothing, Reading, Exporting, Signalling
<1>6. ExportInv /\ SignalInv
  BY DEF Init, ExportInv, SignalInv, SignalledPathsExist, Behind, Never, Reading, Exporting,
         Signalling
<1> QED
  BY <1>4, <1>5, <1>6 DEF Inv

LEMMA Invariant == Spec => []Inv
BY InitHolds, Inductive, PTL DEF Spec

(* Type correctness, for any devices, connections and changes to them.     *)
THEOREM TypeCorrect == Spec => []TypeOK
<1>1. Inv => TypeOK
  BY DEF Inv, Typed
<1> QED
  BY <1>1, Invariant, PTL

(* A published service names no device, or the device its connection runs  *)
(* over, however NetworkManager changed while it was read (SH 437-495).    *)
THEOREM DevicesAlwaysMatch == Spec => []DevicesMatch
<1>1. Inv => DevicesMatch
  BY DEF Inv, PublishInv, AllMatch, Matches, DevicesMatch
<1> QED
  BY <1>1, Invariant, PTL

(* No signal names a path without an object.                               *)
THEOREM SignalledPathsAlwaysExist == Spec => []SignalledPathsExist
<1>1. Inv => SignalledPathsExist
  BY DEF Inv, ExportInv
<1> QED
  BY <1>1, Invariant, PTL

(* Between polls the objects are those of the published lists, although    *)
(* they are replaced one by one and never removed.                         *)
THEOREM ObjectsAlwaysAgree == Spec => []ObjectsAgree
<1>1. Inv => ObjectsAgree
  <2> SUFFICES ASSUME Inv, pc = "rest" PROVE ObjectsAgree
    BY DEF ObjectsAgree
  <2>1. Behind(serviceObjects, services, Len(services))
        /\ Behind(deviceObjects, devices, Len(devices))
    BY DEF Inv, ExportInv, Exporting
  <2>2. services \in Seq(Service) /\ devices \in Seq(Dev)
    BY DEF Inv, Typed, TypeOK
  <2> QED
    BY <2>1, <2>2 DEF ObjectsAgree, Behind
<1> QED
  BY <1>1, Invariant, PTL

(* Between polls the last signals say what GetProperties says, although a  *)
(* list is signalled only when its length changes.                         *)
THEOREM SignalsAlwaysAgree == Spec => []SignalsAgree
<1>1. Inv => SignalsAgree
  BY DEF Inv, SignalInv, SignalsAgree, Reading, Exporting, Signalling
<1> QED
  BY <1>1, Invariant, PTL

-----------------------------------------------------------------------------
(* A query that NetworkManager leaves alone.  Of each list, what has been  *)
(* read so far is what counts of its first n entries, and the rest is      *)
(* still to be read.                                                       *)

KeptUpTo(list, all, set, n) ==
  \E at \in [DOMAIN list -> 1..n] :
    /\ \A i, j \in DOMAIN list : i < j => at[i] < at[j]
    /\ \A i \in DOMAIN list : list[i] = all[at[i]]
    /\ \A k \in 1..n : all[k] \in set <=> \E i \in DOMAIN list : at[i] = k

Suffix(rest, all) ==
  /\ Len(rest) <= Len(all)
  /\ \A i \in 1..Len(rest) : rest[i] = all[Len(all) - Len(rest) + i]

LEMMA KeptAll ==
  ASSUME NEW S, NEW all \in Seq(S), NEW list, NEW set,
         KeptUpTo(list, all, set, Len(all))
  PROVE  KeptOf(list, all, set)
<1>1. DOMAIN all = 1..Len(all)
  OBVIOUS
<1> QED
  BY <1>1 DEF KeptUpTo, KeptOf

LEMMA KeptNone == ASSUME NEW all, NEW set PROVE KeptUpTo(<<>>, all, set, 0)
<1> DEFINE at == [i \in DOMAIN <<>> |-> 0]
<1>1. DOMAIN <<>> = {} /\ 1..0 = {}
  OBVIOUS
<1>2. at \in [DOMAIN <<>> -> 1..0]
  BY <1>1
<1> QED
  BY <1>1, <1>2 DEF KeptUpTo

LEMMA KeptSkip ==
  ASSUME NEW S, NEW list \in Seq(S), NEW all, NEW set, NEW n \in Nat,
         KeptUpTo(list, all, set, n), all[n + 1] \notin set
  PROVE  KeptUpTo(list, all, set, n + 1)
<1>1. PICK at \in [DOMAIN list -> 1..n] :
        /\ \A i, j \in DOMAIN list : i < j => at[i] < at[j]
        /\ \A i \in DOMAIN list : list[i] = all[at[i]]
        /\ \A k \in 1..n : all[k] \in set <=> \E i \in DOMAIN list : at[i] = k
  BY DEF KeptUpTo
<1>2. at \in [DOMAIN list -> 1..(n + 1)]
  OBVIOUS
<1>3. ASSUME NEW k \in 1..(n + 1)
      PROVE  all[k] \in set <=> \E i \in DOMAIN list : at[i] = k
  <2>1. CASE k \in 1..n
    BY <1>1, <2>1
  <2>2. CASE k = n + 1
    BY <2>2
  <2> QED
    BY <2>1, <2>2
<1> QED
  BY <1>1, <1>2, <1>3 DEF KeptUpTo

LEMMA KeptTake ==
  ASSUME NEW S, NEW list \in Seq(S), NEW all, NEW set, NEW n \in Nat,
         KeptUpTo(list, all, set, n), all[n + 1] \in set, all[n + 1] \in S
  PROVE  KeptUpTo(Append(list, all[n + 1]), all, set, n + 1)
<1>1. PICK at \in [DOMAIN list -> 1..n] :
        /\ \A i, j \in DOMAIN list : i < j => at[i] < at[j]
        /\ \A i \in DOMAIN list : list[i] = all[at[i]]
        /\ \A k \in 1..n : all[k] \in set <=> \E i \in DOMAIN list : at[i] = k
  BY DEF KeptUpTo
<1> DEFINE now == Append(list, all[n + 1])
           m == Len(list) + 1
           put == [i \in 1..m |-> IF i = m THEN n + 1 ELSE at[i]]
<1>2. /\ DOMAIN list = 1..Len(list) /\ Len(list) \in Nat
      /\ DOMAIN now = 1..m /\ now[m] = all[n + 1]
      /\ \A i \in 1..Len(list) : now[i] = list[i]
  OBVIOUS
<1>3. put \in [DOMAIN now -> 1..(n + 1)]
  BY <1>1, <1>2
<1>4. /\ put[m] = n + 1
      /\ \A i \in DOMAIN list : put[i] = at[i] /\ at[i] \in 1..n /\ i \in 1..m /\ i < m
      /\ \A i \in 1..m : i = m \/ i \in DOMAIN list
  BY <1>1, <1>2
<1> HIDE DEF now, m, put
<1>5. \A i, j \in DOMAIN now : i < j => put[i] < put[j]
  <2> SUFFICES ASSUME NEW i \in DOMAIN now, NEW j \in DOMAIN now, i < j PROVE put[i] < put[j]
    OBVIOUS
  <2>1. i \in DOMAIN list
    BY <1>2, <1>4 DEF m
  <2> QED
    BY <1>1, <1>2, <1>4, <2>1
<1>6. \A i \in DOMAIN now : now[i] = all[put[i]]
  BY <1>1, <1>2, <1>4
<1>7. ASSUME NEW k \in 1..(n + 1)
      PROVE  all[k] \in set <=> \E i \in DOMAIN now : put[i] = k
  <2>1. CASE k = n + 1
    BY <1>2, <1>4, <2>1 DEF m
  <2>2. CASE k \in 1..n
    <3>1. (\E i \in DOMAIN now : put[i] = k) <=> (\E i \in DOMAIN list : at[i] = k)
      BY <1>2, <1>4, <2>2
    <3> QED
      BY <1>1, <2>2, <3>1
  <2> QED
    BY <2>1, <2>2
<1> QED
  BY <1>3, <1>5, <1>6, <1>7 DEF KeptUpTo, now

LEMMA SuffixTail ==
  ASSUME NEW S, NEW all \in Seq(S), NEW rest \in Seq(S), rest # <<>>, Suffix(rest, all)
  PROVE  /\ Suffix(Tail(rest), all)
         /\ Len(all) - Len(rest) \in Nat
         /\ Len(all) - Len(Tail(rest)) = Len(all) - Len(rest) + 1
         /\ Head(rest) = all[Len(all) - Len(rest) + 1]
         /\ Head(rest) \in S /\ Contains(all, Head(rest))
<1>1. Len(Tail(rest)) = Len(rest) - 1 /\ Len(rest) \in Nat \ {0} /\ Len(all) \in Nat
  OBVIOUS
<1>2. \A i \in 1..Len(Tail(rest)) : Tail(rest)[i] = rest[i + 1]
  OBVIOUS
<1>3. Suffix(Tail(rest), all)
  <2> SUFFICES ASSUME NEW i \in 1..Len(Tail(rest))
               PROVE  Tail(rest)[i] = all[Len(all) - Len(Tail(rest)) + i]
    BY <1>1 DEF Suffix
  <2>1. i + 1 \in 1..Len(rest) /\ Tail(rest)[i] = rest[i + 1]
    BY <1>1, <1>2
  <2>2. Len(all) - Len(rest) + (i + 1) = Len(all) - Len(Tail(rest)) + i
    BY <1>1
  <2> QED
    BY <2>1, <2>2 DEF Suffix
<1>4. Head(rest) = rest[1] /\ 1 \in 1..Len(rest) /\ Head(rest) \in S
  BY <1>1
<1>5. Head(rest) = all[Len(all) - Len(rest) + 1]
  BY <1>4 DEF Suffix
<1>6. Len(all) - Len(rest) + 1 \in 1..Len(all)
  BY <1>1 DEF Suffix
<1> QED
  BY <1>1, <1>3, <1>4, <1>5, <1>6 DEF Suffix, Contains

LEMMA SuffixWhole == ASSUME NEW S, NEW all \in Seq(S) PROVE Suffix(all, all)
BY DEF Suffix

LEMMA ConnectionsTyped ==
  ASSUME NEW entries \in Seq(Service)
  PROVE  Connections(entries) \in Seq(Con) /\ Len(Connections(entries)) = Len(entries)
<1>1. Len(entries) \in Nat /\ DOMAIN entries = 1..Len(entries)
  OBVIOUS
<1>2. ASSUME NEW i \in 1..Len(entries) PROVE entries[i].con \in Con
  <2>1. entries[i] \in Service
    OBVIOUS
  <2> QED
    BY <2>1 DEF Service
<1>3. Connections(entries) \in [1..Len(entries) -> Con]
  BY <1>1, <1>2 DEF Connections
<1> QED
  BY <1>1, <1>3

LEMMA ConnectionsAppend ==
  ASSUME NEW entries \in Seq(Service), NEW s \in Service
  PROVE  Connections(Append(entries, s)) = Append(Connections(entries), s.con)
<1> DEFINE more == Append(entries, s)
           cons == Connections(entries)
           now == Connections(more)
<1>1. more \in Seq(Service) /\ s.con \in Con
  BY DEF Service
<1>2. /\ DOMAIN more = 1..(Len(entries) + 1) /\ more[Len(entries) + 1] = s
      /\ \A i \in 1..Len(entries) : more[i] = entries[i]
  OBVIOUS
<1>3. /\ cons \in Seq(Con) /\ Len(cons) = Len(entries)
      /\ \A i \in 1..Len(entries) : cons[i] = entries[i].con
  <2>1. DOMAIN entries = 1..Len(entries)
    OBVIOUS
  <2> QED
    BY <2>1, ConnectionsTyped DEF Connections
<1>4. /\ now \in Seq(Con)
      /\ now = [i \in 1..(Len(entries) + 1) |-> more[i].con]
  BY <1>1, <1>2, ConnectionsTyped DEF Connections
<1> HIDE DEF more, cons, now
<1>5. Append(cons, s.con) = now
  BY <1>1, <1>2, <1>3, <1>4
<1> QED
  BY <1>5 DEF more, cons, now

LEMMA ConnectionsOver ==
  ASSUME NEW entries \in Seq(Service), entries # <<>>, NEW i \in Nat
  PROVE  Connections(Over(entries, i)) = Connections(entries)
<1>1. /\ Over(entries, i) \in Seq(Service) /\ Len(Over(entries, i)) = Len(entries)
      /\ \A j \in 1..Len(entries) : Over(entries, i)[j].con = entries[j].con
  BY DeviceFound
<1> QED
  BY <1>1 DEF Connections

(* What the query has read is what NetworkManager has, as far as it goes.  *)
DevicesRead(n) == KeptUpTo(seen.devices, nmDevices, OurDev, n)

ServicesRead(n) ==
  /\ KeptUpTo(Connections(seen.services), nmActive, OurCon, n)
  /\ \A i \in DOMAIN seen.services :
       \/ Accurate(seen.services[i], seen.devices)
       \/ /\ pc = "conDevices" /\ i = Len(seen.services)
          /\ seen.services[i].state = nmAcToShillState(conState[seen.services[i].con])
          /\ seen.services[i].device = NoDevice

Past(all) == Len(all) - Len(todo)

Faithful ==
  /\ reachable
  /\ pc \notin {"rest", "query"} => seen.state = nmToShillState(nmState)
  /\ pc = "devices" => seen.devices = <<>>
  /\ pc \in {"devices", "device"} => seen.services = <<>>
  /\ pc = "device" => Suffix(todo, nmDevices) /\ DevicesRead(Past(nmDevices))
  /\ pc \notin {"rest", "query", "devices", "device"} => DevicesRead(Len(nmDevices))
  /\ pc \in {"connection", "conState", "conDevices"} => Suffix(todo, nmActive)
  /\ pc \in {"connection", "conState"} => ServicesRead(Past(nmActive))
  /\ pc = "conState" => Head(todo) \in OurCon
  /\ pc = "conDevices" => ServicesRead(Past(nmActive) + 1)
  /\ ~Reading => ServicesRead(Len(nmActive))
  /\ pc = "rest" => Displayed

(* A step of the query while NetworkManager stays as it is.                *)
Undisturbed == Inv /\ Faithful /\ UNCHANGED nm

LEMMA TodoFacts ==
  ASSUME Undisturbed
  PROVE  /\ nmDevices \in Seq(Dev) /\ nmActive \in Seq(Con)
         /\ seen \in Read /\ seen.services \in Seq(Service) /\ seen.devices \in Seq(Dev)
         /\ pc = "device" => todo \in Seq(Dev)
         /\ pc \in {"connection", "conState", "conDevices"} => todo \in Seq(Con)
BY DEF Undisturbed, Inv, Typed, TypeOK, TodoTyped, Read

LEMMA FaithfulStart ==
  ASSUME Undisturbed, Tick \/ ReadState \/ ListDevices
  PROVE  Faithful'
<1> USE DEF Undisturbed, nm
<1>1. CASE Tick
  BY <1>1 DEF Tick, Faithful, Reading, Exporting, Signalling
<1>2. CASE ReadState
  <2>1. /\ pc' = "devices" /\ reachable'
        /\ seen' = [Nothing EXCEPT !.state = nmToShillState(nmState)]
    BY <1>2 DEF ReadState, Faithful
  <2>2. ASSUME NEW x
        PROVE  [Nothing EXCEPT !.state = x] = [state |-> x, services |-> <<>>, devices |-> <<>>]
    BY DEF Nothing
  <2>3. seen' = [state |-> nmToShillState(nmState), services |-> <<>>, devices |-> <<>>]
    BY <2>1, <2>2
  <2>4. seen'.services = <<>> /\ seen'.devices = <<>> /\ seen'.state = nmToShillState(nmState')
    BY <2>3
  <2> QED
    BY <2>1, <2>4 DEF Faithful, Reading, Exporting, Signalling
<1>3. CASE ListDevices
  <2>1. /\ pc = "devices" /\ pc' = "device" /\ todo' = nmDevices /\ UNCHANGED seen
        /\ seen.devices = <<>> /\ seen.services = <<>>
    BY <1>3 DEF ListDevices, Faithful
  <2>2. Len(nmDevices) - Len(nmDevices) = 0 /\ nmDevices \in Seq(Dev)
    BY TodoFacts
  <2>3. Suffix(todo', nmDevices')
    BY <2>1, <2>2, SuffixWhole
  <2>4. KeptUpTo(seen.devices, nmDevices, OurDev, 0)
    BY <2>1, KeptNone
  <2>5. DevicesRead(Past(nmDevices))'
    BY <2>1, <2>2, <2>4 DEF DevicesRead, Past
  <2> QED
    BY <2>1, <2>3, <2>5 DEF Faithful, Reading, Exporting, Signalling
<1> QED
  BY <1>1, <1>2, <1>3

LEMMA FaithfulDevice ==
  ASSUME Undisturbed, ReadDevice
  PROVE  Faithful'
<1> USE DEF Undisturbed, nm
<1> DEFINE d == Head(todo)
           n == Past(nmDevices)
<1>1. /\ pc = "device" /\ todo # <<>> /\ todo' = Tail(todo) /\ pc' = pc
      /\ seen.services = <<>> /\ seen.state = nmToShillState(nmState)
      /\ Suffix(todo, nmDevices) /\ DevicesRead(n) /\ reachable
  BY DEF ReadDevice, Faithful
<1>2. nmDevices \in Seq(Dev) /\ todo \in Seq(Dev) /\ seen.devices \in Seq(Dev)
  BY <1>1, TodoFacts
<1>3. /\ Suffix(todo', nmDevices) /\ n \in Nat /\ Past(nmDevices)' = n + 1
      /\ d = nmDevices[n + 1] /\ d \in Dev /\ Present(d)
  BY <1>1, <1>2, SuffixTail DEF Past, Present
<1>4. \/ DevKind[d] = "other" /\ seen' = seen
      \/ /\ DevKind[d] # "other"
         /\ seen' = [state |-> seen.state, services |-> seen.services,
                     devices |-> Append(seen.devices, d)]
  BY <1>3, ReadDeviceStep DEF Inv
<1> HIDE DEF d, n
<1>5. /\ seen'.services = seen.services /\ seen'.state = seen.state
      /\ \/ d \notin OurDev /\ seen'.devices = seen.devices
         \/ d \in OurDev /\ seen'.devices = Append(seen.devices, d)
  BY <1>3, <1>4 DEF OurDev
<1>6. KeptUpTo(seen'.devices, nmDevices, OurDev, n + 1)
  BY <1>1, <1>2, <1>3, <1>5, KeptSkip, KeptTake DEF DevicesRead
<1>7. DevicesRead(Past(nmDevices))'
  BY <1>3, <1>6 DEF DevicesRead
<1> QED
  BY <1>1, <1>3, <1>5, <1>7 DEF Faithful, Reading, Exporting, Signalling

LEMMA FaithfulConnections ==
  ASSUME Undisturbed, ListConnections \/ ReadType
  PROVE  Faithful'
<1> USE DEF Undisturbed, nm
<1>1. CASE ListConnections
  <2>1. /\ pc = "device" /\ pc' = "connection" /\ todo = <<>> /\ todo' = nmActive
        /\ UNCHANGED seen /\ seen.services = <<>> /\ seen.state = nmToShillState(nmState)
        /\ DevicesRead(Past(nmDevices)) /\ reachable
    BY <1>1 DEF ListConnections, Faithful
  <2>2. nmDevices \in Seq(Dev) /\ nmActive \in Seq(Con)
    BY TodoFacts
  <2>3. Past(nmDevices) = Len(nmDevices) /\ Past(nmActive)' = 0
    BY <2>1, <2>2 DEF Past
  <2>4. DevicesRead(Len(nmDevices))'
    BY <2>1, <2>3 DEF DevicesRead
  <2>5. DOMAIN seen.services = {} /\ Connections(seen.services) = <<>>
    BY <2>1 DEF Connections
  <2>6. ServicesRead(Past(nmActive))'
    BY <2>1, <2>3, <2>5, KeptNone DEF ServicesRead
  <2>7. Suffix(todo', nmActive')
    BY <2>1, <2>2, SuffixWhole
  <2> QED
    BY <2>1, <2>4, <2>6, <2>7 DEF Faithful, Reading, Exporting, Signalling
<1>2. CASE ReadType
  <2> DEFINE c == Head(todo)
             n == Past(nmActive)
  <2>1. /\ pc = "connection" /\ todo # <<>> /\ UNCHANGED seen /\ Suffix(todo, nmActive)
        /\ seen.state = nmToShillState(nmState) /\ DevicesRead(Len(nmDevices))
        /\ ServicesRead(n) /\ reachable
    BY <1>2 DEF ReadType, Faithful
  <2>2. nmActive \in Seq(Con) /\ todo \in Seq(Con) /\ seen.services \in Seq(Service)
    BY <2>1, TodoFacts
  <2>3. /\ Suffix(Tail(todo), nmActive) /\ n \in Nat
        /\ Len(nmActive) - Len(Tail(todo)) = n + 1
        /\ c = nmActive[n + 1] /\ c \in Con /\ Active(c)
    BY <2>1, <2>2, SuffixTail DEF Past, Active
  <2>4. \/ c \in OurCon /\ pc' = "conState" /\ todo' = todo
        \/ c \notin OurCon /\ pc' = "connection" /\ todo' = Tail(todo)
    BY <1>2, <2>1, <2>3 DEF ReadType, OurCon
  <2>5. DevicesRead(Len(nmDevices))'
    BY <2>1 DEF DevicesRead
  <2>6. CASE c \in OurCon /\ pc' = "conState" /\ todo' = todo
    <3>1. ServicesRead(Past(nmActive))'
      BY <2>1, <2>6 DEF ServicesRead, Past, Accurate
    <3> QED
      BY <2>1, <2>5, <2>6, <3>1 DEF Faithful, Reading, Exporting, Signalling
  <2>7. CASE c \notin OurCon /\ pc' = "connection" /\ todo' = Tail(todo)
    <3>1. KeptUpTo(Connections(seen.services), nmActive, OurCon, n)
      BY <2>1 DEF ServicesRead
    <3>2. KeptUpTo(Connections(seen.services), nmActive, OurCon, n + 1)
      BY <2>2, <2>3, <2>7, <3>1, KeptSkip, ConnectionsTyped
    <3>3. Past(nmActive)' = n + 1
      BY <2>3, <2>7 DEF Past
    <3>4. ServicesRead(Past(nmActive))'
      BY <2>1, <2>7, <3>2, <3>3 DEF ServicesRead, Accurate
    <3> QED
      BY <2>1, <2>3, <2>5, <2>7, <3>4 DEF Faithful, Reading, Exporting, Signalling
  <2> QED
    BY <2>4, <2>6, <2>7
<1> QED
  BY <1>1, <1>2

LEMMA FaithfulConState ==
  ASSUME Undisturbed, ReadConState
  PROVE  Faithful'
<1> USE DEF Undisturbed, nm
<1> DEFINE c == Head(todo)
           n == Past(nmActive)
<1>1. /\ pc = "conState" /\ pc' = "conDevices" /\ todo' = todo
      /\ todo # <<>> /\ Suffix(todo, nmActive) /\ c \in OurCon
      /\ seen.state = nmToShillState(nmState) /\ DevicesRead(Len(nmDevices))
      /\ ServicesRead(n) /\ reachable
  BY DEF ReadConState, Faithful, Inv, ReadInv
<1>2. nmActive \in Seq(Con) /\ todo \in Seq(Con) /\ seen.services \in Seq(Service)
  BY <1>1, TodoFacts
<1>3. n \in Nat /\ c = nmActive[n + 1] /\ c \in Con /\ Active(c)
  BY <1>1, <1>2, SuffixTail DEF Past, Active
<1>4. PICK s \in Service :
        /\ s.con = c /\ s.device = NoDevice
        /\ Active(s.con) => s.state = nmAcToShillState(conState[s.con])
        /\ seen' = [state |-> seen.state, services |-> Append(seen.services, s),
                    devices |-> seen.devices]
  BY ReadConStateStep DEF Inv
<1> HIDE DEF c, n
<1>5. /\ seen'.state = seen.state /\ seen'.devices = seen.devices
      /\ seen'.services = Append(seen.services, s)
      /\ s.state = nmAcToShillState(conState[s.con])
  BY <1>3, <1>4
<1>6. KeptUpTo(Connections(seen'.services), nmActive, OurCon, n + 1)
  <2>1. Connections(seen'.services) = Append(Connections(seen.services), c)
    BY <1>2, <1>4, <1>5, ConnectionsAppend
  <2>2. Connections(seen.services) \in Seq(Con)
    BY <1>2, ConnectionsTyped
  <2> QED
    BY <1>1, <1>3, <2>1, <2>2, KeptTake DEF ServicesRead
<1>7. /\ DOMAIN seen'.services = 1..Len(seen'.services)
      /\ Len(seen'.services) = Len(seen.services) + 1
      /\ seen'.services[Len(seen'.services)] = s
      /\ \A i \in DOMAIN seen'.services :
           \/ i = Len(seen'.services)
           \/ i \in DOMAIN seen.services /\ seen'.services[i] = seen.services[i]
  <2> DEFINE old  == seen.services
             more == Append(old, s)
  <2>1. old \in Seq(Service) /\ s \in Service
    BY <1>2, <1>4
  <2> HIDE DEF old
  <2>2. /\ DOMAIN more = 1..Len(more) /\ Len(more) = Len(old) + 1
        /\ more[Len(more)] = s
        /\ \A i \in DOMAIN more :
             \/ i = Len(more)
             \/ i \in DOMAIN old /\ more[i] = old[i]
    BY <2>1
  <2> QED
    BY <1>5, <2>2 DEF old
<1>8. \A i \in DOMAIN seen.services : Accurate(seen.services[i], seen.devices)
  BY <1>1 DEF ServicesRead
<1>9. ServicesRead(Past(nmActive) + 1)'
  <2>1. Past(nmActive)' = n
    BY <1>1 DEF Past, n
  <2>2. ASSUME NEW i \in DOMAIN seen'.services, i # Len(seen'.services)
        PROVE  Accurate(seen.services[i], seen.devices)' /\ i \in DOMAIN seen.services
    BY <1>5, <1>7, <1>8, <2>2 DEF Accurate
  <2> QED
    BY <1>1, <1>4, <1>5, <1>6, <1>7, <2>1, <2>2 DEF ServicesRead
<1>10. DevicesRead(Len(nmDevices))'
  BY <1>1, <1>5 DEF DevicesRead
<1> QED
  BY <1>1, <1>5, <1>9, <1>10 DEF Faithful, Reading, Exporting, Signalling

LEMMA FaithfulConDevices ==
  ASSUME Undisturbed, ReadConDevices
  PROVE  Faithful'
<1> USE DEF Undisturbed, nm
<1> DEFINE c == Head(todo)
           n == Past(nmActive)
           m == Len(seen.services)
<1>1. /\ pc = "conDevices" /\ pc' = "connection" /\ todo' = Tail(todo)
      /\ todo # <<>> /\ Suffix(todo, nmActive)
      /\ seen.services # <<>> /\ seen.services[m].con = c
      /\ seen.state = nmToShillState(nmState) /\ DevicesRead(Len(nmDevices))
      /\ ServicesRead(n + 1) /\ reachable
  BY DEF ReadConDevices, Faithful, Inv, ReadInv
<1>2. /\ nmActive \in Seq(Con) /\ todo \in Seq(Con) /\ seen.services \in Seq(Service)
      /\ seen.devices \in Seq(Dev)
  BY <1>1, TodoFacts
<1>3. /\ Suffix(todo', nmActive) /\ n \in Nat /\ Past(nmActive)' = n + 1
      /\ c \in Con /\ Active(c)
  BY <1>1, <1>2, SuffixTail DEF Past, Active
<1>4. m \in DOMAIN seen.services /\ DOMAIN seen.services = 1..m
  BY <1>1, <1>2
<1>5. \A i \in 1..m : i # m => Accurate(seen.services[i], seen.devices)
  BY <1>4, <1>1 DEF ServicesRead
<1>6. \/ Accurate(seen.services[m], seen.devices)
      \/ /\ seen.services[m].state = nmAcToShillState(conState[c])
         /\ seen.services[m].device = NoDevice
  BY <1>4, <1>1 DEF ServicesRead
<1>7. seen.services[m].state = nmAcToShillState(conState[c])
  BY <1>1, <1>6 DEF Accurate
<1>8. ASSUME seen' = seen, \A i \in DOMAIN seen.devices : seen.devices[i] # ConDev[c]
      PROVE  ServicesRead(Past(nmActive))' /\ UNCHANGED <<seen.devices, seen.state>>
  <2>1. Accurate(seen.services[m], seen.devices)
    BY <1>1, <1>6, <1>8 DEF Accurate
  <2> QED
    BY <1>1, <1>3, <1>4, <1>5, <1>8, <2>1 DEF ServicesRead, Accurate
<1>9. ASSUME NEW i \in DOMAIN seen.devices, seen.devices[i] = ConDev[c],
             seen' = [state |-> seen.state, services |-> Over(seen.services, i),
                      devices |-> seen.devices]
      PROVE  ServicesRead(Past(nmActive))' /\ UNCHANGED <<seen.devices, seen.state>>
  <2> DEFINE now == Over(seen.services, i)
  <2>1. i \in Nat
    BY <1>2
  <2>2. /\ now \in Seq(Service) /\ Len(now) = m
        /\ now[m].con = c /\ now[m].device = i
        /\ \A j \in 1..m : j # m => now[j] = seen.services[j]
    BY <1>1, <1>2, <2>1, DeviceFound
  <2>3. Connections(now) = Connections(seen.services)
    BY <1>1, <1>2, <2>1, ConnectionsOver
  <2>4. now[m].state = seen.services[m].state
    <3>1. now = [seen.services EXCEPT ![m] = [@ EXCEPT !.device = i]]
      BY DEF Over
    <3>2. seen.services[m] \in Service
      BY <1>2, <1>4
    <3> DEFINE entry == [seen.services[m] EXCEPT !.device = i]
    <3>3. entry.state = seen.services[m].state
      BY <3>2 DEF Service
    <3>4. now = [seen.services EXCEPT ![m] = entry]
      BY <3>1
    <3> HIDE DEF entry, now
    <3>5. now[m] = entry
      BY <1>2, <1>4, <3>4
    <3> QED
      BY <3>3, <3>5
  <2> HIDE DEF now
  <2>5. seen'.services = now /\ seen'.devices = seen.devices /\ seen'.state = seen.state
    BY <1>9 DEF now
  <2>6. ASSUME NEW j \in 1..m PROVE Accurate(now[j], seen.devices)
    BY <1>5, <1>7, <1>9, <2>2, <2>4 DEF Accurate
  <2>7. DOMAIN now = 1..m
    BY <2>2
  <2> QED
    BY <1>1, <1>3, <2>3, <2>5, <2>6, <2>7 DEF ServicesRead, Accurate
<1>10. ServicesRead(Past(nmActive))' /\ UNCHANGED <<seen.devices, seen.state>>
  BY <1>3, <1>8, <1>9, ReadConDevicesStep DEF Inv
<1>11. DevicesRead(Len(nmDevices))'
  BY <1>1, <1>10 DEF DevicesRead
<1> QED
  BY <1>1, <1>3, <1>10, <1>11 DEF Faithful, Reading, Exporting, Signalling

(* What was read is published, exported and signalled.                     *)
LEMMA FaithfulEnd ==
  ASSUME Undisturbed,
         \/ Publish \/ ExportService \/ ServicesExported \/ ExportDevice
         \/ DevicesExported \/ SignalState \/ SignalServices \/ SignalDevices
  PROVE  Faithful'
<1> USE DEF Undisturbed, nm, Reading, Exporting, Signalling
<1>1. CASE Publish
  <2>1. /\ pc = "connection" /\ todo = <<>> /\ pc' = "exportServices" /\ UNCHANGED seen
        /\ seen.state = nmToShillState(nmState) /\ DevicesRead(Len(nmDevices))
        /\ ServicesRead(Past(nmActive)) /\ reachable
    BY <1>1 DEF Publish, Faithful
  <2>2. Past(nmActive) = Len(nmActive)
    <3>1. nmActive \in Seq(Con)
      BY TodoFacts
    <3> QED
      BY <2>1, <3>1 DEF Past
  <2>3. DevicesRead(Len(nmDevices))' /\ ServicesRead(Len(nmActive))'
    BY <2>1, <2>2 DEF DevicesRead, ServicesRead, Accurate
  <2> QED
    BY <2>1, <2>3 DEF Faithful
<1>2. ASSUME ~Reading, ~Reading', UNCHANGED seen
      PROVE  Faithful'
  <2>1. /\ seen.state = nmToShillState(nmState) /\ DevicesRead(Len(nmDevices))
        /\ ServicesRead(Len(nmActive)) /\ reachable
    BY <1>2 DEF Faithful
  <2>2. DevicesRead(Len(nmDevices))' /\ ServicesRead(Len(nmActive))'
    BY <1>2, <2>1 DEF DevicesRead, ServicesRead, Accurate
  <2> QED
    BY <1>2, <2>1, <2>2 DEF Faithful
<1>3. ASSUME ~Reading, Rest, UNCHANGED manager
      PROVE  Faithful'
  <2>1. /\ seen.state = nmToShillState(nmState) /\ DevicesRead(Len(nmDevices))
        /\ ServicesRead(Len(nmActive)) /\ reachable /\ pc # "conDevices"
    BY <1>3 DEF Faithful
  <2>2. seen.state = state /\ seen.services = services /\ seen.devices = devices
    BY <1>3 DEF Inv, PublishInv
  <2>3. nmDevices \in Seq(Dev) /\ nmActive \in Seq(Con)
    BY TodoFacts
  <2>4. Displayed
    BY <2>1, <2>2, <2>3, KeptAll DEF Displayed, DevicesRead, ServicesRead
  <2>5. Displayed'
    BY <1>3, <2>4 DEF Displayed, Accurate, manager
  <2> QED
    BY <1>3, <2>1, <2>5 DEF Faithful, Rest
<1>4. CASE ExportService \/ ServicesExported \/ ExportDevice \/ SignalState \/ SignalServices
  BY <1>2, <1>4 DEF ExportService, ServicesExported, ExportDevice, SignalState, SignalServices
<1>5. CASE DevicesExported \/ SignalDevices
  BY <1>2, <1>3, <1>5 DEF DevicesExported, SignalDevices
<1> QED
  BY <1>1, <1>4, <1>5

LEMMA FaithfulKeeps == Inv /\ Faithful /\ [Next]_vars /\ [FALSE]_nm => Faithful'
<1> SUFFICES ASSUME Undisturbed, [Next]_vars PROVE Faithful'
  BY DEF Undisturbed
<1>1. CASE Poll
  BY <1>1, FaithfulStart, FaithfulDevice, FaithfulConnections, FaithfulConState,
     FaithfulConDevices, FaithfulEnd DEF Poll
<1>2. CASE Environment
  <2>1. Change
    BY <1>2 DEF Environment, ChangeState, AddDevice, RemoveDevice, ActivateConnection,
           ConnectionChanges, DropConnection
  <2>2. changes' = changes + 1 /\ changes' = changes
    BY <2>1 DEF Change, Undisturbed, nm
  <2>3. changes \in Nat
    BY NmMirrorAssumption DEF Undisturbed, Inv, Typed, TypeOK
  <2> QED
    BY <2>2, <2>3
<1>3. CASE UNCHANGED vars
  BY <1>3 DEF vars, nm, manager, bus, query, Undisturbed, Faithful, DevicesRead,
         ServicesRead, Accurate, Past, Displayed, Reading, Exporting, Signalling
<1> QED
  BY <1>1, <1>2, <1>3 DEF Next

(* A query that finds NetworkManager there, and that NetworkManager leaves *)
(* alone, ends with Ash being shown NetworkManager as it is: its state,    *)
(* all devices and connections of the types known, in order, each service  *)
(* over the right device; and it stays so (SH 419-552, 621-660).           *)
THEOREM LeftAloneIsDisplayed ==
  Spec => [](pc = "query" /\ reachable /\ [][FALSE]_nm => [](pc = "rest" => Displayed))
<1>1. pc = "query" /\ reachable => Faithful
  BY DEF Faithful, Reading, Exporting, Signalling
<1>2. Faithful /\ pc = "rest" => Displayed
  BY DEF Faithful
<1> QED
  BY <1>1, <1>2, FaithfulKeeps, Invariant, PTL DEF Spec

=============================================================================
