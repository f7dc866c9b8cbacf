----------------------------- MODULE PowerSupply -----------------------------
(***************************************************************************)
(* The power supply in power-bridge: a poll reads the battery from UPower  *)
(* in one call per property, stores it and signals it to Ash.  main reads  *)
(* it once before it serves calls, then polls at once and every 30         *)
(* seconds.  UPower goes on changing between the calls of a poll, and any  *)
(* call may fail.  A zero stands for a property that could not be read.    *)
(***************************************************************************)
EXTENDS Integers

CONSTANTS
  NumDevices,  \* UPower's devices, numbered in the order it lists them
  Battery,     \* those of type 2
  Reading,     \* what UPower may say of a battery
  MaxChanges,  \* how often UPower changes
  MaxFailures  \* how many calls to it fail

Device == 1..NumDevices
End    == NumDevices + 1

(* UPower's battery; state is an UpDeviceState.  What the bridge keeps of  *)
(* it has the same fields, with one of the four states of powerd.          *)
UPowerState == 0..6

Values(states) == [percent : Int, state : states, timeToEmpty : Int, timeToFull : Int]

ASSUME PowerSupplyAssumption ==
  /\ NumDevices \in Nat /\ Battery \subseteq Device
  /\ Reading \subseteq Values(UPowerState)
  /\ MaxChanges \in Nat /\ MaxFailures \in Nat

VARIABLES
  there, reading,     \* each device in UPower: is it there, what does it say?
  pc, found, at,      \* the poll: its stage, the devices listed, the one read
  b,                  \* what it has read
  main,               \* has main's first reading been stored?
  batt, signalled,    \* powerManager.batt; the last PowerSupplyPoll
  changes, failures,
  steady, seen        \* history, since the poll began: has nothing changed or
                      \* failed; was there a battery at any time?

upower == <<there, reading, changes>>
poll   == <<pc, found, at, b>>
bridge == <<main, batt, signalled>>
calls  == <<failures, steady>>
vars   == <<upower, poll, bridge, calls, seen>>

Full         == 0
Charging     == 1
Discharging  == 2
NotPresent   == 3
AC           == 0
Disconnected == 2

PowerdState == {Full, Charging, Discharging, NotPresent}

Props == [state : PowerdState, externalPower : {AC, Disconnected}, timeToEmptySec : Int,
          timeToFullSec : Int, batteryPresent : BOOLEAN, isCalculating : BOOLEAN, percent : Int]

Never == [state |-> -1]

TypeOK ==
  /\ there \in [Device -> {"gone", "empty", "present"}]
  /\ reading \in [Device -> Reading]
  /\ pc \in {"idle", "enumerate", "type", "present", "percentage", "state", "timeToEmpty",
             "timeToFull", "store", "emit"}
  /\ found \subseteq Device /\ at \in Device \cup {End}
  /\ b \in Values(PowerdState) /\ batt \in Values(PowerdState)
  /\ main \in BOOLEAN
  /\ signalled \in Props \cup {Never}
  /\ changes \in 0..MaxChanges /\ failures \in 0..MaxFailures
  /\ steady \in BOOLEAN /\ seen \in BOOLEAN

NoBattery == [percent |-> 100, state |-> NotPresent, timeToEmpty |-> 0, timeToFull |-> 0]

Present(d) == d \in Battery /\ there[d] = "present"

SomePresent == \E d \in Device : Present(d)

-----------------------------------------------------------------------------
(* What Ash is told of a battery.                                          *)

upowerToPowerd(s) ==
  IF s \in {1, 5} THEN Charging ELSE IF s \in {2, 3, 6} THEN Discharging
  ELSE IF s = 4 THEN Full ELSE NotPresent

powerSupplyPropsFromBattery(x) ==
  [state |-> x.state,
   externalPower |-> IF x.state = Discharging THEN Disconnected ELSE AC,
   timeToEmptySec |-> x.timeToEmpty, timeToFullSec |-> x.timeToFull,
   batteryPresent |-> x.state # NotPresent,
   isCalculating |-> \/ x.state = Charging /\ x.timeToFull <= 0
                     \/ x.state = Discharging /\ x.timeToEmpty <= 0,
   percent |-> x.percent]

(* The message; a field that is left out of it is zero. *)
encodePowerSupplyProps(p) == [p EXCEPT !.percent = IF p.batteryPresent THEN @ ELSE 0]

GetPowerSupplyProperties == encodePowerSupplyProps(powerSupplyPropsFromBattery(batt))

GetBatteryState == <<batt.percent, batt.state, batt.timeToEmpty>>

-----------------------------------------------------------------------------

Init ==
  /\ there \in [Device -> {"gone", "empty", "present"}]
  /\ reading \in [Device -> Reading]
  /\ pc = "enumerate" /\ found = {} /\ at = End /\ b = NoBattery
  /\ main = FALSE /\ batt = NoBattery /\ signalled = Never
  /\ changes = 0 /\ failures = 0
  /\ steady = TRUE /\ seen = SomePresent

(* UPower: a device comes, goes, is put in or taken out, or reads          *)
(* otherwise.                                                              *)
Change(d) ==
  /\ changes < MaxChanges /\ changes' = changes + 1
  /\ \E t \in {"gone", "empty", "present"}, r \in Reading :
       /\ there' = [there EXCEPT ![d] = t] /\ reading' = [reading EXCEPT ![d] = r]
       /\ t = there[d] \/ r = reading[d]
  /\ steady' = FALSE /\ seen' = (seen \/ SomePresent')
  /\ UNCHANGED <<poll, bridge, failures>>

(* A call to UPower works, or fails and leaves the zero in its result.     *)
Works == UNCHANGED calls

Fails == failures < MaxFailures /\ failures' = failures + 1 /\ steady' = FALSE

Calls(value, zero, v) == (v = value /\ Works) \/ (v = zero /\ Fails)

(* getProp: v is what the call for a property of the device returns.  One  *)
(* that asks a device that has gone fails, and there is nothing to say     *)
(* about the battery of an empty bay.                                      *)
getProp(value, zero, v) == Calls(IF there[at] = "present" THEN value ELSE zero, zero, v)

(* The first of the devices that are left is read next. *)
Turn(left) == at' \in left \cup {End} /\ \A d \in left : at' <= d

Skip == pc' = "type" /\ Turn({d \in found : d > at}) /\ UNCHANGED <<found, b>>

Enumerate ==
  /\ pc = "enumerate"
  /\ \E listed \in {FALSE, TRUE} :
       /\ Calls(TRUE, FALSE, listed)
       /\ found' = {d \in Device : listed /\ there[d] # "gone"}
       /\ pc' = IF listed THEN "type" ELSE "store"
  /\ Turn(found') /\ b' = NoBattery
  /\ UNCHANGED <<upower, bridge, seen>>

(* Mutant: what a mouse says of its battery is taken for the supply. *)
ReadType_AnyDevice ==
  /\ pc = "type" /\ at # End
  /\ pc' = "present" /\ UNCHANGED <<found, at, b, upower, bridge, calls, seen>>

ReadType ==
  /\ pc = "type" /\ at # End
  /\ \E battery \in BOOLEAN :
       /\ Calls(at \in Battery /\ there[at] # "gone", FALSE, battery)
       /\ IF battery THEN pc' = "present" /\ UNCHANGED <<found, at, b>> ELSE Skip
  /\ UNCHANGED <<upower, bridge, seen>>

(* Mutant: a battery that is not there ends the search. *)
ReadPresent_Ends ==
  /\ pc = "present"
  /\ \E present \in BOOLEAN :
       /\ getProp(TRUE, FALSE, present)
       /\ pc' = IF present THEN "percentage" ELSE "store"
  /\ UNCHANGED <<found, at, b, upower, bridge, seen>>

ReadPresent ==
  /\ pc = "present"
  /\ \E present \in BOOLEAN :
       /\ getProp(TRUE, FALSE, present)
       /\ IF present THEN pc' = "percentage" /\ UNCHANGED <<found, at, b>> ELSE Skip
  /\ UNCHANGED <<upower, bridge, seen>>

(* No device is left. *)
NoneFound ==
  /\ pc = "type" /\ at = End
  /\ pc' = "store" /\ UNCHANGED <<found, at, b, upower, bridge, calls, seen>>

ReadPercentage ==
  /\ pc = "percentage" /\ pc' = "state"
  /\ \E v \in {0, reading[at].percent} :
       getProp(reading[at].percent, 0, v) /\ b' = [b EXCEPT !.percent = v]
  /\ UNCHANGED <<found, at, upower, bridge, seen>>

ReadState ==
  /\ pc = "state" /\ pc' = "timeToEmpty"
  /\ \E v \in {0, reading[at].state} :
       getProp(reading[at].state, 0, v) /\ b' = [b EXCEPT !.state = upowerToPowerd(v)]
  /\ UNCHANGED <<found, at, upower, bridge, seen>>

ReadTimeToEmpty ==
  /\ pc = "timeToEmpty" /\ pc' = "timeToFull"
  /\ \E v \in {0, reading[at].timeToEmpty} :
       getProp(reading[at].timeToEmpty, 0, v) /\ b' = [b EXCEPT !.timeToEmpty = v]
  /\ UNCHANGED <<found, at, upower, bridge, seen>>

ReadTimeToFull ==
  /\ pc = "timeToFull" /\ pc' = "store"
  /\ \E v \in {0, reading[at].timeToFull} :
       getProp(reading[at].timeToFull, 0, v) /\ b' = [b EXCEPT !.timeToFull = v]
  /\ UNCHANGED <<found, at, upower, bridge, seen>>

-----------------------------------------------------------------------------

BeginPoll == pc' = "enumerate" /\ steady' = TRUE /\ seen' = SomePresent

(* The first reading is not signalled; the calls are served once it is     *)
(* stored.                                                                 *)
StoreFirst ==
  /\ pc = "store" /\ ~main
  /\ main' = TRUE /\ batt' = b /\ BeginPoll
  /\ UNCHANGED <<found, at, b, upower, signalled, failures>>

(* Mutant: an answer that knows of no battery is not stored. *)
Store_UnlessNone ==
  /\ pc = "store" /\ main
  /\ pc' = "emit" /\ batt' = IF b.state = NotPresent THEN batt ELSE b
  /\ UNCHANGED <<found, at, b, upower, main, signalled, calls, seen>>

Store ==
  /\ pc = "store" /\ main
  /\ pc' = "emit" /\ batt' = b
  /\ UNCHANGED <<found, at, b, upower, main, signalled, calls, seen>>

(* Mutant: Ash is only told when a battery comes or goes. *)
Emit_OnHotplug ==
  /\ pc = "emit" /\ pc' = "idle"
  /\ signalled' = IF signalled # Never /\ signalled.batteryPresent = (b.state # NotPresent)
                  THEN signalled
                  ELSE encodePowerSupplyProps(powerSupplyPropsFromBattery(b))
  /\ UNCHANGED <<found, at, b, upower, main, batt, calls, seen>>

Emit ==
  /\ pc = "emit" /\ pc' = "idle"
  /\ signalled' = encodePowerSupplyProps(powerSupplyPropsFromBattery(b))
  /\ UNCHANGED <<found, at, b, upower, main, batt, calls, seen>>

(* Thirty seconds have passed. *)
Tick == pc = "idle" /\ BeginPoll /\ UNCHANGED <<found, at, b, upower, bridge, failures>>

Reads ==
  \/ Enumerate \/ ReadType \/ ReadPresent \/ NoneFound
  \/ ReadPercentage \/ ReadState \/ ReadTimeToEmpty \/ ReadTimeToFull

Poll == Reads \/ StoreFirst \/ Store \/ Emit \/ Tick

Next == Poll \/ \E d \in Device : Change(d)

(* The ticker never stops and every call to UPower returns. *)
Spec == Init /\ [][Next]_vars /\ WF_vars(Poll)

-----------------------------------------------------------------------------

(* x is the message that UPower, as it is, calls for: the battery that is  *)
(* listed first of those that are there.                                   *)
IsTrue(x) ==
  LET of(y) == x = encodePowerSupplyProps(powerSupplyPropsFromBattery(y))
  IN  \/ \E d \in Device : /\ Present(d) /\ \A e \in Device : Present(e) => d <= e
                           /\ of([reading[d] EXCEPT !.state = upowerToPowerd(@)])
      \/ ~SomePresent /\ of(NoBattery)

(* A poll during which nothing changed and no call failed tells Ash the    *)
(* truth, whatever an earlier poll met (PW 466-495, 572-582).              *)
SteadyIsReported == pc = "idle" /\ steady => IsTrue(signalled)

(* What GetPowerSupplyProperties and GetBatteryState answer is what was    *)
(* signalled last, save between the two statements that store and signal,  *)
(* and before the first signal (PW 103-107, 157-161, 572-582).             *)
SignalIsState ==
  pc # "emit" /\ signalled # Never =>
    /\ signalled = GetPowerSupplyProperties
    /\ GetBatteryState[2] = signalled.state
    /\ GetBatteryState[3] = signalled.timeToEmptySec

(* A battery that Ash is shown was there at some time during the poll that *)
(* reported it: neither another device nor an empty bay is taken for one,  *)
(* and no earlier poll's battery stays (PW 475-494).                       *)
NoPhantom == pc = "idle" /\ signalled.batteryPresent => seen

(* Once UPower stops changing and calls stop failing, Ash is told the      *)
(* truth and then nothing else (PW 559-565).                               *)
EventuallyReported == <>[]IsTrue(signalled)

=============================================================================
