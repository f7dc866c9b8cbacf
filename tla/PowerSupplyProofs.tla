-------------------------- MODULE PowerSupplyProofs --------------------------
(***************************************************************************)
(* Proofs about PowerSupply, for any devices, readings, changes and        *)
(* failures.                                                               *)
(***************************************************************************)
EXTENDS PowerSupply, TLAPS

Message(x) == encodePowerSupplyProps(powerSupplyPropsFromBattery(x))

LEMMA PowerdTyped == \A s \in UPowerState : upowerToPowerd(s) \in PowerdState
BY DEF UPowerState, upowerToPowerd, PowerdState

LEMMA NoBatteryTyped == NoBattery \in Values(PowerdState)
BY DEF NoBattery, Values, PowerdState

LEMMA MessageTyped ==
  ASSUME NEW x \in Values(PowerdState)
  PROVE  /\ Message(x) \in Props /\ Message(x) # Never
         /\ Message(x).state = x.state /\ Message(x).timeToEmptySec = x.timeToEmpty
         /\ Message(x).batteryPresent = (x.state # NotPresent)
<1>1. x.state \in PowerdState /\ x.percent \in Int /\ x.timeToEmpty \in Int /\ x.timeToFull \in Int
  BY DEF Values
<1>2. x.state # -1
  BY <1>1 DEF PowerdState, Full, Charging, Discharging, NotPresent
<1>3. powerSupplyPropsFromBattery(x) \in Props
  BY <1>1 DEF powerSupplyPropsFromBattery, Props
<1>4. Message(x) \in Props
  BY <1>3 DEF Message, encodePowerSupplyProps, Props
<1>5. Message(x).state = x.state /\ Message(x).timeToEmptySec = x.timeToEmpty
      /\ Message(x).batteryPresent = (x.state # NotPresent)
  BY DEF Message, encodePowerSupplyProps, powerSupplyPropsFromBattery
<1> QED
  BY <1>2, <1>4, <1>5 DEF Never

(* The device that is read is one of those that were listed.               *)
LEMMA TurnTyped ==
  ASSUME NEW left \in SUBSET Device, Turn(left)
  PROVE  at' \in Device \cup {End} /\ (at' # End => at' \in left)
BY DEF Turn

LEMMA ReadingTyped ==
  ASSUME reading \in [Device -> Reading], at \in Device
  PROVE  reading[at] \in Values(UPowerState)
BY PowerSupplyAssumption

-----------------------------------------------------------------------------
(* A device is being read in the stages that read its properties.          *)
AtDevice == {"present", "percentage", "state", "timeToEmpty", "timeToFull"}

TypeInv == TypeOK /\ (pc \in AtDevice => at \in Device)

LEMMA CallsTyped ==
  ASSUME failures \in 0..MaxFailures, steady \in BOOLEAN, Works \/ Fails
  PROVE  failures' \in 0..MaxFailures /\ steady' \in BOOLEAN
<1>1. CASE Works
  BY <1>1 DEF Works, calls
<1>2. CASE Fails
  <2>1. MaxFailures \in Nat
    BY PowerSupplyAssumption
  <2>2. failures' \in 0..MaxFailures
    BY <1>2, <2>1 DEF Fails
  <2>3. steady' \in BOOLEAN
    BY <1>2 DEF Fails
  <2> QED
    BY <2>2, <2>3
<1> QED
  BY <1>1, <1>2

LEMMA SkipTyped ==
  ASSUME TypeInv, Skip
  PROVE  pc' = "type" /\ found' = found /\ b' = b /\ at' \in Device \cup {End}
<1>1. {d \in found : d > at} \in SUBSET Device
  BY DEF TypeInv, TypeOK
<1> QED
  BY <1>1, TurnTyped DEF Skip

LEMMA TypeStep == TypeInv /\ [Next]_vars => TypeInv'
<1> SUFFICES ASSUME TypeInv, [Next]_vars PROVE TypeInv'
  OBVIOUS
<1> USE DEF TypeInv, TypeOK, upower, poll, bridge, calls, AtDevice
<1>1. CASE Enumerate
  <2>1. PICK listed \in {FALSE, TRUE} :
          /\ Calls(TRUE, FALSE, listed)
          /\ found' = {d \in Device : listed /\ there[d] # "gone"}
          /\ pc' = IF listed THEN "type" ELSE "store"
    BY <1>1 DEF Enumerate
  <2>2. found' \in SUBSET Device /\ at' \in Device \cup {End}
    BY <1>1, <2>1, TurnTyped DEF Enumerate
  <2> QED
    BY <1>1, <2>1, <2>2, CallsTyped, NoBatteryTyped DEF Enumerate, Calls
<1>2. CASE ReadType
  <2>1. PICK battery \in BOOLEAN :
          /\ Calls(at \in Battery /\ there[at] # "gone", FALSE, battery)
          /\ IF battery THEN pc' = "present" /\ UNCHANGED <<found, at, b>> ELSE Skip
    BY <1>2 DEF ReadType
  <2>2. failures' \in 0..MaxFailures /\ steady' \in BOOLEAN
    BY <2>1, CallsTyped DEF Calls
  <2>3. CASE battery
    BY <1>2, <2>1, <2>2, <2>3 DEF ReadType
  <2>4. CASE ~battery
    BY <1>2, <2>1, <2>2, <2>4, SkipTyped DEF ReadType
  <2> QED
    BY <2>3, <2>4
<1>3. CASE ReadPresent
  <2>1. PICK present \in BOOLEAN :
          /\ getProp(TRUE, FALSE, present)
          /\ IF present THEN pc' = "percentage" /\ UNCHANGED <<found, at, b>> ELSE Skip
    BY <1>3 DEF ReadPresent
  <2>2. failures' \in 0..MaxFailures /\ steady' \in BOOLEAN
    BY <2>1, CallsTyped DEF getProp, Calls
  <2>3. CASE present
    BY <1>3, <2>1, <2>2, <2>3 DEF ReadPresent
  <2>4. CASE ~present
    BY <1>3, <2>1, <2>2, <2>4, SkipTyped DEF ReadPresent
  <2> QED
    BY <2>3, <2>4
<1>4. CASE NoneFound
  BY <1>4 DEF NoneFound
<1>5. CASE ReadPercentage
  <2>1. PICK v \in {0, reading[at].percent} :
          getProp(reading[at].percent, 0, v) /\ b' = [b EXCEPT !.percent = v]
    BY <1>5 DEF ReadPercentage
  <2>2. failures' \in 0..MaxFailures /\ steady' \in BOOLEAN
    BY <2>1, CallsTyped DEF getProp, Calls
  <2>3. b' \in Values(PowerdState)
    BY <1>5, <2>1, ReadingTyped DEF ReadPercentage, Values
  <2> QED
    BY <1>5, <2>2, <2>3 DEF ReadPercentage
<1>6. CASE ReadState
  <2>1. PICK v \in {0, reading[at].state} :
          getProp(reading[at].state, 0, v) /\ b' = [b EXCEPT !.state = upowerToPowerd(v)]
    BY <1>6 DEF ReadState
  <2>2. failures' \in 0..MaxFailures /\ steady' \in BOOLEAN
    BY <2>1, CallsTyped DEF getProp, Calls
  <2>3. v \in UPowerState
    BY <1>6, <2>1, ReadingTyped DEF ReadState, Values, UPowerState
  <2>4. b' \in Values(PowerdState)
    BY <2>1, <2>3, PowerdTyped DEF Values
  <2> QED
    BY <1>6, <2>2, <2>4 DEF ReadState
<1>7. CASE ReadTimeToEmpty
  <2>1. PICK v \in {0, reading[at].timeToEmpty} :
          getProp(reading[at].timeToEmpty, 0, v) /\ b' = [b EXCEPT !.timeToEmpty = v]
    BY <1>7 DEF ReadTimeToEmpty
  <2>2. failures' \in 0..MaxFailures /\ steady' \in BOOLEAN
    BY <2>1, CallsTyped DEF getProp, Calls
  <2>3. b' \in Values(PowerdState)
    BY <1>7, <2>1, ReadingTyped DEF ReadTimeToEmpty, Values
  <2> QED
    BY <1>7, <2>2, <2>3 DEF ReadTimeToEmpty
<1>8. CASE ReadTimeToFull
  <2>1. PICK v \in {0, reading[at].timeToFull} :
          getProp(reading[at].timeToFull, 0, v) /\ b' = [b EXCEPT !.timeToFull = v]
    BY <1>8 DEF ReadTimeToFull
  <2>2. failures' \in 0..MaxFailures /\ steady' \in BOOLEAN
    BY <2>1, CallsTyped DEF getProp, Calls
  <2>3. b' \in Values(PowerdState)
    BY <1>8, <2>1, ReadingTyped DEF ReadTimeToFull, Values
  <2> QED
    BY <1>8, <2>2, <2>3 DEF ReadTimeToFull
<1>9. CASE StoreFirst
  BY <1>9 DEF StoreFirst, BeginPoll, SomePresent
<1>10. CASE Store
  BY <1>10 DEF Store
<1>11. CASE Emit
  BY <1>11, MessageTyped DEF Emit, Message
<1>12. CASE Tick
  BY <1>12 DEF Tick, BeginPoll, SomePresent
<1>13. ASSUME NEW d \in Device, Change(d) PROVE TypeInv'
  <2>1. changes' \in 0..MaxChanges
    BY <1>13, PowerSupplyAssumption DEF Change
  <2>2. seen' \in BOOLEAN
    BY <1>13 DEF Change, SomePresent
  <2> QED
    BY <1>13, <2>1, <2>2 DEF Change
<1>14. CASE UNCHANGED vars
  BY <1>14 DEF vars
<1> QED
  BY <1>1, <1>2, <1>3, <1>4, <1>5, <1>6, <1>7, <1>8, <1>9, <1>10, <1>11, <1>12, <1>13, <1>14
  DEF Next, Poll, Reads

LEMMA TypeInit == Init => TypeInv
<1> SUFFICES ASSUME Init PROVE TypeInv
  OBVIOUS
<1>1. MaxChanges \in Nat /\ MaxFailures \in Nat
  BY PowerSupplyAssumption
<1>2. seen \in BOOLEAN
  BY DEF Init, SomePresent
<1>3. changes \in 0..MaxChanges /\ failures \in 0..MaxFailures
  BY <1>1 DEF Init
<1>4. signalled \in Props \cup {Never} /\ at \in Device \cup {End}
  BY DEF Init
<1>5. b \in Values(PowerdState) /\ batt \in Values(PowerdState)
  BY NoBatteryTyped DEF Init
<1> QED
  BY <1>2, <1>3, <1>4, <1>5 DEF Init, TypeInv, TypeOK, AtDevice

(* Type correctness, whatever UPower lists and says (PW 466-495, 572-582). *)
THEOREM TypeCorrect == Spec => []TypeOK
<1>1. TypeInv => TypeOK
  BY DEF TypeInv
<1> QED
  BY <1>1, TypeInit, TypeStep, PTL DEF Spec

-----------------------------------------------------------------------------
(* A message that is on its way says what has just been stored.            *)

SignalInv ==
  /\ TypeInv /\ SignalIsState
  /\ pc = "emit" => main /\ batt = b
  /\ signalled # Never => main

(* The reading part of a poll shows nothing to anyone.                     *)
LEMMA ReadsKeep ==
  Reads => /\ pc \notin {"idle", "store", "emit"} /\ pc' \notin {"idle", "emit"}
           /\ UNCHANGED <<bridge, upower, seen>>
BY DEF Reads, Enumerate, ReadType, ReadPresent, NoneFound, ReadPercentage, ReadState,
       ReadTimeToEmpty, ReadTimeToFull, Skip

LEMMA SignalStep == SignalInv /\ [Next]_vars => SignalInv'
<1> SUFFICES ASSUME SignalInv, [Next]_vars PROVE SignalInv'
  OBVIOUS
<1>1. TypeInv'
  BY TypeStep DEF SignalInv
<1> USE DEF SignalInv, SignalIsState, GetPowerSupplyProperties, GetBatteryState
<1>2. CASE Reads
  BY <1>1, <1>2, ReadsKeep DEF bridge
<1>3. CASE StoreFirst
  BY <1>1, <1>3 DEF StoreFirst, BeginPoll
<1>4. CASE Store
  BY <1>1, <1>4 DEF Store
<1>5. CASE Emit
  <2>1. signalled' = Message(b) /\ batt' = b /\ main' = main /\ main /\ pc' = "idle"
    BY <1>5 DEF Emit, Message
  <2>2. b \in Values(PowerdState)
    BY DEF TypeInv, TypeOK
  <2> QED
    BY <1>1, <2>1, <2>2, MessageTyped DEF Message
<1>6. CASE Tick
  BY <1>1, <1>6 DEF Tick, BeginPoll, bridge
<1>7. ASSUME NEW d \in Device, Change(d) PROVE SignalInv'
  BY <1>1, <1>7 DEF Change, poll, bridge
<1>8. CASE UNCHANGED vars
  BY <1>1, <1>8 DEF vars, poll, bridge
<1> QED
  BY <1>2, <1>3, <1>4, <1>5, <1>6, <1>7, <1>8 DEF Next, Poll

(* What the calls answer is what was signalled last, save between storing  *)
(* and signalling (PW 103-107, 157-161, 572-582).                          *)
THEOREM SignalAlwaysState == Spec => []SignalIsState
<1>1. Init => SignalInv
  BY TypeInit DEF Init, SignalInv, SignalIsState
<1>2. SignalInv => SignalIsState
  BY DEF SignalInv
<1> QED
  BY <1>1, <1>2, SignalStep, PTL DEF Spec

-----------------------------------------------------------------------------
(* Whoever reads a percentage has found a battery, and what a poll has     *)
(* read is a battery's only if there was one.                              *)

PhantomInv ==
  /\ TypeInv /\ NoPhantom
  /\ SomePresent => seen
  /\ pc = "present" => at \in Battery
  /\ pc \in AtDevice \ {"present"} => seen
  /\ pc \in {"type", "present", "store", "emit"} /\ b.state # NotPresent => seen

LEMMA PhantomStep == PhantomInv /\ [Next]_vars => PhantomInv'
<1> SUFFICES ASSUME PhantomInv, [Next]_vars PROVE PhantomInv'
  OBVIOUS
<1>1. TypeInv'
  BY TypeStep DEF PhantomInv
<1>2. ASSUME UNCHANGED upower PROVE SomePresent' = SomePresent
  BY <1>2 DEF upower, SomePresent, Present
<1>3. CASE Enumerate
  <2>1. b'.state = NotPresent
    BY <1>3 DEF Enumerate, NoBattery
  <2> QED
    BY <1>1, <1>2, <1>3, <2>1 DEF Enumerate, PhantomInv, AtDevice, NoPhantom
<1>4. CASE ReadType
  BY <1>1, <1>2, <1>4 DEF ReadType, Calls, Skip, PhantomInv, AtDevice, NoPhantom
<1>5. CASE ReadPresent
  <2>1. PICK present \in BOOLEAN :
          /\ getProp(TRUE, FALSE, present)
          /\ IF present THEN pc' = "percentage" /\ UNCHANGED <<found, at, b>> ELSE Skip
    BY <1>5 DEF ReadPresent
  <2>2. CASE present
    <3>1. there[at] = "present"
      BY <2>1, <2>2 DEF getProp, Calls
    <3>2. seen
      BY <1>5, <3>1 DEF ReadPresent, PhantomInv, TypeInv, AtDevice, SomePresent, Present
    <3> QED
      BY <1>1, <1>2, <1>5, <2>1, <2>2, <3>2 DEF ReadPresent, PhantomInv, AtDevice, NoPhantom
  <2>3. CASE ~present
    BY <1>1, <1>2, <1>5, <2>1, <2>3 DEF ReadPresent, Skip, PhantomInv, AtDevice, NoPhantom
  <2> QED
    BY <2>2, <2>3
<1>6. CASE NoneFound
  BY <1>1, <1>2, <1>6 DEF NoneFound, PhantomInv, AtDevice, NoPhantom
<1>7. CASE ReadPercentage \/ ReadState \/ ReadTimeToEmpty \/ ReadTimeToFull
  BY <1>1, <1>2, <1>7
  DEF ReadPercentage, ReadState, ReadTimeToEmpty, ReadTimeToFull, PhantomInv, AtDevice, NoPhantom
<1>8. CASE StoreFirst \/ Tick
  <2>1. UNCHANGED upower /\ pc' = "enumerate" /\ seen' = SomePresent
    BY <1>8 DEF StoreFirst, Tick, BeginPoll
  <2> QED
    BY <1>1, <1>2, <2>1 DEF PhantomInv, AtDevice, NoPhantom
<1>9. CASE Store
  BY <1>1, <1>2, <1>9 DEF Store, PhantomInv, AtDevice, NoPhantom
<1>10. CASE Emit
  <2>1. signalled' = Message(b) /\ b \in Values(PowerdState)
    BY <1>10 DEF Emit, Message, PhantomInv, TypeInv, TypeOK
  <2>2. signalled'.batteryPresent => b.state # NotPresent
    BY <2>1, MessageTyped
  <2> QED
    BY <1>1, <1>2, <1>10, <2>2 DEF Emit, PhantomInv, AtDevice, NoPhantom
<1>11. ASSUME NEW d \in Device, Change(d) PROVE PhantomInv'
  <2>1. seen' = (seen \/ SomePresent')
    BY <1>11 DEF Change
  <2> QED
    BY <1>1, <1>11, <2>1 DEF Change, poll, bridge, PhantomInv, AtDevice, NoPhantom
<1>12. CASE UNCHANGED vars
  BY <1>1, <1>2, <1>12 DEF vars, poll, bridge, PhantomInv, AtDevice, NoPhantom
<1> QED
  BY <1>3, <1>4, <1>5, <1>6, <1>7, <1>8, <1>9, <1>10, <1>11, <1>12 DEF Next, Poll, Reads

(* A battery that Ash is shown was there during the poll that reported it  *)
(* (PW 475-494).                                                           *)
THEOREM NeverPhantom == Spec => []NoPhantom
<1>1. Init => PhantomInv
  BY TypeInit DEF Init, PhantomInv, NoPhantom, AtDevice
<1>2. PhantomInv => NoPhantom
  BY DEF PhantomInv
<1> QED
  BY <1>1, <1>2, PhantomStep, PTL DEF Spec

-----------------------------------------------------------------------------
(* While nothing changes and no call fails, a poll has read what the       *)
(* battery it is at says, has passed only what is no battery, and knows    *)
(* which devices there are.                                                *)

Translated(d) == [reading[d] EXCEPT !.state = upowerToPowerd(@)]

First(d) == Present(d) /\ \A e \in Device : Present(e) => d <= e

(* y is what there is to be known of the supply. *)
Known(y) ==
  \/ \E d \in Device : First(d) /\ y = Translated(d)
  \/ ~SomePresent /\ y = NoBattery

Passed == \A e \in Device : e < at => ~Present(e)

Listed == \A e \in Device : e \notin found => there[e] = "gone"

Progress ==
  /\ pc = "type" => Listed /\ Passed /\ b = NoBattery
  /\ pc \in AtDevice => Listed /\ Passed /\ at \in Battery
  /\ pc = "present" => b = NoBattery
  /\ pc \in AtDevice \ {"present"} => Present(at)
  /\ pc \in {"state", "timeToEmpty", "timeToFull"} => b.percent = reading[at].percent
  /\ pc \in {"timeToEmpty", "timeToFull"} => b.state = upowerToPowerd(reading[at].state)
  /\ pc = "timeToFull" => b.timeToEmpty = reading[at].timeToEmpty
  /\ pc \in {"store", "emit"} => Known(b)
  /\ pc = "idle" => IsTrue(signalled)

SteadyInv == TypeInv /\ (steady => Progress)

LEMMA KnownIsTrue == ASSUME NEW y, Known(y) PROVE IsTrue(Message(y))
BY DEF Known, IsTrue, Message, First, Translated

(* The next device that is read passes none that was listed.               *)
LEMMA SkipPasses ==
  ASSUME TypeInv, Listed, Passed, at \in Device, ~Present(at), Skip, UNCHANGED upower
  PROVE  Listed' /\ Passed'
<1> USE DEF TypeInv, TypeOK, Device, Present, upower
<1>1. NumDevices \in Nat
  BY PowerSupplyAssumption
<1>2. found' = found /\ Turn({d \in found : d > at})
  BY DEF Skip
<1>3. Listed'
  BY <1>2 DEF Listed
<1>4. at' \in Int /\ \A d \in found : d > at => at' <= d
  BY <1>1, <1>2 DEF Turn, End
<1>5. ASSUME NEW e \in Device, e < at' PROVE ~Present(e)'
  <2>1. CASE e < at
    BY <2>1 DEF Passed
  <2>2. CASE e = at
    BY <2>2
  <2>3. CASE e > at
    BY <1>4, <1>5, <2>3 DEF Listed
  <2> QED
    BY <2>1, <2>2, <2>3
<1> QED
  BY <1>3, <1>5 DEF Passed

(* A stage that reads on at the same device keeps what is known of it.     *)
LEMMA SameDevice ==
  ASSUME UNCHANGED <<found, at, upower>>
  PROVE  /\ Listed' = Listed /\ Passed' = Passed /\ Present(at)' = Present(at)
         /\ reading'[at'] = reading[at]
         /\ \A y : Known(y)' = Known(y)
BY DEF Listed, Passed, Present, Known, First, SomePresent, Translated, upower

LEMMA SteadyStep == SteadyInv /\ [Next]_vars => SteadyInv'
<1> SUFFICES ASSUME SteadyInv, [Next]_vars, steady' PROVE Progress'
  BY TypeStep DEF SteadyInv
<1> USE DEF AtDevice
<1>0. TypeInv /\ NumDevices \in Nat /\ (Fails => steady' = FALSE)
  BY PowerSupplyAssumption DEF SteadyInv, Fails
<1>1. CASE Enumerate
  <2>1. found' = {d \in Device : there[d] # "gone"} /\ pc' = "type"
    BY <1>0, <1>1 DEF Enumerate, Calls
  <2>2. Turn(found') /\ b' = NoBattery /\ there' = there
    BY <1>1 DEF Enumerate, upower
  <2>3. Listed'
    BY <2>1, <2>2 DEF Listed
  <2>4. at' \in Int /\ \A e \in Device : there[e] # "gone" => at' <= e
    BY <1>0, <2>1, <2>2 DEF Turn, Device, End
  <2>5. Passed'
    BY <2>2, <2>4 DEF Passed, Present, Device
  <2> QED
    BY <2>1, <2>2, <2>3, <2>5 DEF Progress
<1>2. ASSUME Reads, ~Enumerate PROVE Progress'
  <2>1. Works /\ steady /\ Progress /\ UNCHANGED upower
    BY <1>0, <1>2, ReadsKeep
    DEF Reads, ReadType, ReadPresent, NoneFound, ReadPercentage, ReadState, ReadTimeToEmpty,
        ReadTimeToFull, getProp, Calls, Works, calls, SteadyInv
  <2>2. CASE ReadType
    <3>1. at \in Device /\ Listed /\ Passed /\ b = NoBattery
      BY <1>0, <2>1, <2>2 DEF ReadType, Progress, TypeInv, TypeOK
    <3>2. CASE at \in Battery /\ there[at] # "gone" /\ pc' = "present"
      BY <2>1, <2>2, <3>1, <3>2, SameDevice DEF ReadType, Skip, Progress
    <3>3. CASE ~Present(at) /\ Skip
      BY <1>0, <2>1, <3>1, <3>3, SkipPasses DEF Skip, Progress
    <3> QED
      BY <1>0, <2>2, <3>2, <3>3 DEF ReadType, Calls, Present
  <2>3. CASE ReadPresent
    <3>1. at \in Device /\ at \in Battery /\ Listed /\ Passed /\ b = NoBattery
      BY <1>0, <2>1, <2>3 DEF ReadPresent, Progress, TypeInv
    <3>2. CASE Present(at) /\ pc' = "percentage" /\ UNCHANGED <<found, at, b>>
      BY <2>1, <3>1, <3>2, SameDevice DEF Progress
    <3>3. CASE ~Present(at) /\ Skip
      BY <1>0, <2>1, <3>1, <3>3, SkipPasses DEF Skip, Progress
    <3> QED
      BY <1>0, <2>3, <3>1, <3>2, <3>3 DEF ReadPresent, getProp, Calls, Present
  <2>4. CASE NoneFound
    <3>1. at = End /\ pc' = "store" /\ Passed /\ UNCHANGED <<found, at, b>> /\ b = NoBattery
      BY <2>1, <2>4 DEF NoneFound, Progress
    <3>2. ~SomePresent
      BY <1>0, <3>1 DEF Passed, SomePresent, Device, End
    <3> QED
      BY <2>1, <3>1, <3>2, SameDevice DEF Progress, Known
  <2>5. CASE ReadPercentage \/ ReadState \/ ReadTimeToEmpty \/ ReadTimeToFull
    <3>1. at \in Device /\ Present(at) /\ Listed /\ Passed /\ UNCHANGED <<found, at>>
      BY <1>0, <2>1, <2>5
      DEF ReadPercentage, ReadState, ReadTimeToEmpty, ReadTimeToFull, Progress, TypeInv
    <3>2. \A value, zero, v : getProp(value, zero, v) => v = value
      BY <1>0, <3>1 DEF getProp, Calls, Present
    <3>3. b \in Values(PowerdState)
      BY <1>0 DEF TypeInv, TypeOK
    <3>4. CASE ReadPercentage
      BY <2>1, <3>1, <3>2, <3>3, <3>4, SameDevice DEF ReadPercentage, Progress, Values
    <3>5. CASE ReadState
      BY <2>1, <3>1, <3>2, <3>3, <3>5, SameDevice DEF ReadState, Progress, Values
    <3>6. CASE ReadTimeToEmpty
      BY <2>1, <3>1, <3>2, <3>3, <3>6, SameDevice DEF ReadTimeToEmpty, Progress, Values
    <3>7. CASE ReadTimeToFull
      <4>1. /\ b.percent = reading[at].percent
            /\ b.state = upowerToPowerd(reading[at].state)
            /\ b.timeToEmpty = reading[at].timeToEmpty
        BY <2>1, <3>7 DEF ReadTimeToFull, Progress
      <4>2. b' = [b EXCEPT !.timeToFull = reading[at].timeToFull]
        BY <3>2, <3>7 DEF ReadTimeToFull
      <4>3. reading[at] \in Values(UPowerState)
        BY <1>0, <3>1, ReadingTyped DEF TypeInv, TypeOK
      <4>4. b' = Translated(at)
        BY <3>3, <4>1, <4>2, <4>3 DEF Translated, Values
      <4>5. First(at)
        BY <1>0, <3>1 DEF First, Passed, Device
      <4>6. Known(b')
        BY <3>1, <4>4, <4>5 DEF Known
      <4>7. Known(b)'
        BY <2>1, <3>1, <4>6 DEF Known, First, Present, SomePresent, Translated, upower
      <4> QED
        BY <3>7, <4>7 DEF ReadTimeToFull, Progress
    <3> QED
      BY <2>5, <3>4, <3>5, <3>6, <3>7
  <2> QED
    BY <1>2, <2>2, <2>3, <2>4, <2>5 DEF Reads
<1>3. CASE StoreFirst \/ Tick
  BY <1>3 DEF StoreFirst, Tick, BeginPoll, Progress
<1>4. CASE Store
  <2>1. Known(b)
    BY <1>4 DEF Store, SteadyInv, Progress, calls
  <2>2. Known(b)'
    BY <1>4, <2>1 DEF Store, Known, First, Present, SomePresent, Translated, upower
  <2> QED
    BY <1>4, <2>2 DEF Store, Progress
<1>5. CASE Emit
  <2>1. IsTrue(Message(b))
    BY <1>5, KnownIsTrue DEF Emit, SteadyInv, Progress, calls
  <2>2. signalled' = Message(b) /\ UNCHANGED upower /\ pc' = "idle"
    BY <1>5 DEF Emit, Message
  <2>3. IsTrue(signalled)'
    BY <2>1, <2>2 DEF IsTrue, Present, SomePresent, upower
  <2> QED
    BY <2>2, <2>3 DEF Progress
<1>6. ASSUME NEW d \in Device, Change(d) PROVE FALSE
  BY <1>6 DEF Change
<1>7. CASE UNCHANGED vars
  <2>1. steady /\ Progress /\ UNCHANGED <<found, at, b, upower, pc, signalled>>
    BY <1>7 DEF vars, poll, bridge, calls, SteadyInv
  <2>2. IsTrue(signalled)' = IsTrue(signalled)
    BY <2>1 DEF IsTrue, Present, SomePresent, upower
  <2>3. Known(b)' = Known(b)
    BY <2>1 DEF Known, First, Present, SomePresent, Translated, upower
  <2> QED
    BY <2>1, <2>2, <2>3, SameDevice DEF Progress, upower
<1> QED
  BY <1>1, <1>2, <1>3, <1>4, <1>5, <1>6, <1>7 DEF Next, Poll

(* A poll during which nothing changed and no call failed tells Ash the    *)
(* truth, whatever earlier polls met (PW 466-495, 572-582).                *)
THEOREM SteadyAlwaysReported == Spec => []SteadyIsReported
<1>1. Init => SteadyInv
  BY TypeInit DEF Init, SteadyInv, Progress, AtDevice
<1>2. SteadyInv => SteadyIsReported
  BY DEF SteadyInv, Progress, SteadyIsReported
<1> QED
  BY <1>1, <1>2, SteadyStep, PTL DEF Spec
=============================================================================
