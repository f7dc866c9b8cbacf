------------------------ MODULE ScreenBrightnessProofs ------------------------
(***************************************************************************)
(* Proofs about ScreenBrightness, for any calls and any backlight.         *)
(***************************************************************************)
EXTENDS ScreenBrightness, TLAPS

USE ScreenBrightnessAssumption DEF hardware, locals, Percent, Goto

LEMMA ClampInPercent ==
  ASSUME NEW p \in Int \cup {NaN}
  PROVE  /\ clampPercent(p) \in Percent
         /\ clampPercent(p) = 0 => p # NaN /\ p <= 0
BY DEF clampPercent

(* A percentage above zero never turns the backlight off, however coarse.  *)
LEMMA LitAboveZero ==
  ASSUME NEW p \in Percent, Level(p) = 0
  PROVE  p = 0
BY DEF Level

(* Neither the backlight nor xrandr is ever given a value out of its range.  *)
LEMMA LevelInRange ==
  ASSUME NEW p \in Percent
  PROVE  Level(p) \in 0..MaxLevel
<1>1. MaxLevel \in Nat \ {0} /\ p \in 0..100
  OBVIOUS
<1>2. p * MaxLevel \in Nat /\ p * MaxLevel <= 100 * MaxLevel
  BY <1>1
<1> DEFINE product == p * MaxLevel
<1> HIDE DEF product
<1>3. (2 * product + 100) \div 200 \in 0..MaxLevel
  BY <1>1, <1>2 DEF product
<1>4. 2 * p * MaxLevel = 2 * product
  BY <1>1 DEF product
<1> QED
  BY <1>1, <1>3, <1>4 DEF Level

LEMMA GammaInRange ==
  ASSUME NEW p \in Percent
  PROVE  Gamma(p) \in 1..100
BY DEF Gamma

(* What a call will set is known to keep the screen lit, unless it asked   *)
(* for or allowed the opposite; this rests on the stored percentage never  *)
(* being negative.                                                         *)
Inv ==
  /\ screenBrightness \in Percent
  /\ pc \in [Call -> {"new", "apply", "store", "signal", "done"}]
  /\ next \in [Call -> Int \cup {NaN}]
  /\ mayDarken \in [Call -> BOOLEAN]
  /\ \A c \in Call : pc[c] = "store" => next[c] \in Percent
  /\ \A c \in Call : pc[c] = "apply" /\ ~mayDarken[c] =>
                       next[c] = NaN \/ next[c] >= 1

LEMMA BeginStep ==
  ASSUME Inv, NEW c \in Call, NEW p \in Int \cup {NaN}, NEW dark \in BOOLEAN,
         ~dark => p = NaN \/ p >= 1, Begin(c, p, dark)
  PROVE  Inv' /\ level' = level
BY DEF Begin, Inv

LEMMA InvStep == Inv /\ [Next]_vars => Inv'
<1> SUFFICES ASSUME Inv, [Next]_vars PROVE Inv'
  OBVIOUS
<1>1. ASSUME NEW c \in Call, NEW p \in Requested, SetScreenBrightness(c, p)
      PROVE  Inv'
  <2> DEFINE dark == p # NaN /\ p <= 0
  <2>1. Begin(c, p, dark) /\ dark \in BOOLEAN /\ p \in Int \cup {NaN}
    BY <1>1 DEF SetScreenBrightness
  <2>2. ~dark => p = NaN \/ p >= 1
    BY <2>1
  <2> HIDE DEF dark
  <2> QED
    BY <2>1, <2>2, BeginStep
<1>2. ASSUME NEW c \in Call, IncreaseScreenBrightness(c) PROVE Inv'
  <2> DEFINE p == screenBrightness + 10
  <2>1. Begin(c, p, FALSE)
    BY <1>2 DEF IncreaseScreenBrightness
  <2>2. p \in Int /\ p >= 1
    BY DEF Inv
  <2> HIDE DEF p
  <2> QED
    BY <2>1, <2>2, BeginStep
<1>3. ASSUME NEW c \in Call, NEW allowOff \in BOOLEAN,
             DecreaseScreenBrightness(c, allowOff)
      PROVE  Inv'
  <2> DEFINE lower == screenBrightness - 10
             p == IF ~allowOff /\ lower < 1 THEN 1 ELSE lower
  <2>1. Begin(c, p, allowOff)
    BY <1>3 DEF DecreaseScreenBrightness
  <2>2. p \in Int /\ (~allowOff => p >= 1)
    BY DEF Inv
  <2> HIDE DEF p
  <2> QED
    BY <2>1, <2>2, BeginStep
<1>4. ASSUME NEW c \in Call, Apply(c) PROVE Inv'
  <2>1. clampPercent(next[c]) \in Percent
    BY ClampInPercent DEF Inv
  <2> QED
    BY <1>4, <2>1 DEF Apply, Inv
<1>5. ASSUME NEW c \in Call, Store(c) \/ Signal(c) PROVE Inv'
  BY <1>5 DEF Store, Signal, Inv
<1>6. CASE StartupRead \/ StartupSignal
  BY <1>6 DEF StartupRead, StartupSignal, Inv
<1>7. CASE UNCHANGED vars
  BY <1>7 DEF vars, Inv
<1> QED
  BY <1>1, <1>2, <1>3, <1>4, <1>5, <1>6, <1>7 DEF Next

(* The rest of the types: what a call hands to the hardware, to the store  *)
(* and to the signal has been clamped.                                     *)
TypeInv ==
  /\ Inv /\ TypeOK
  /\ \A c \in Call : pc[c] = "signal" => next[c] \in Percent

LEMMA TypeStep == TypeInv /\ [Next]_vars => TypeInv'
<1> SUFFICES ASSUME TypeInv, [Next]_vars PROVE TypeInv'
  OBVIOUS
<1>0. Inv /\ Inv'
  BY InvStep DEF TypeInv
<1> USE DEF TypeInv, TypeOK, main
<1>1. ASSUME NEW c \in Call, NEW p, NEW dark, Begin(c, p, dark) PROVE TypeInv'
  <2>1. overlapped' \in BOOLEAN
    BY <1>1 DEF Begin
  <2> QED
    BY <1>0, <1>1, <2>1 DEF Begin, Inv
<1>2. ASSUME NEW c \in Call, Apply(c) PROVE TypeInv'
  <2>1. clampPercent(next[c]) \in Percent
    BY <1>0, ClampInPercent DEF Inv
  <2>2. level' \in 0..MaxLevel /\ gamma' \in 1..100
    BY <1>2, <2>1, LevelInRange, GammaInRange DEF Apply
  <2> QED
    BY <1>0, <1>2, <2>1, <2>2 DEF Apply, Inv
<1>3. ASSUME NEW c \in Call, Store(c) \/ Signal(c) PROVE TypeInv'
  BY <1>0, <1>3 DEF Store, Signal, Inv
<1>4. CASE StartupRead \/ StartupSignal
  BY <1>0, <1>4 DEF StartupRead, StartupSignal, Inv
<1>5. CASE UNCHANGED vars
  BY <1>0, <1>5 DEF vars
<1> QED
  BY <1>1, <1>2, <1>3, <1>4, <1>5
     DEF Next, SetScreenBrightness, IncreaseScreenBrightness, DecreaseScreenBrightness

(* Type correctness: every stored, signalled and applied value is in its   *)
(* range, whatever Ash asks for (PW 243-254, 334-345, 385-429).            *)
THEOREM TypeCorrect == Spec => []TypeOK
<1>1. Init => TypeInv
  <2> SUFFICES ASSUME Init PROVE TypeInv
    OBVIOUS
  <2>1. level \in 0..MaxLevel
    BY LevelInRange DEF Init
  <2>2. Inv
    BY DEF Init, Inv
  <2>3. \A c \in Call : pc[c] # "signal"
    BY DEF Init
  <2>4. TypeOK
    <3>1. /\ signalled = Never /\ startup = "read" /\ first \in Percent
          /\ gamma \in 1..100
      BY DEF Init
    <3>2. written \in BOOLEAN /\ overlapped \in BOOLEAN
      BY Zenon DEF Init
    <3> QED
      BY <2>1, <2>2, <3>1, <3>2 DEF Inv, TypeOK
  <2> QED
    BY <2>2, <2>3, <2>4 DEF TypeInv
<1>2. TypeInv => TypeOK
  BY DEF TypeInv
<1> QED
  BY <1>1, <1>2, TypeStep, PTL DEF Spec

(* The screen goes dark only on request.                                   *)
THEOREM LitUnlessAsked == Spec => DarkOnlyOnRequest
<1> DEFINE Asked ==
      level > 0 /\ level' = 0 =>
        \E c \in Call : pc[c] = "apply" /\ pc'[c] = "store" /\ mayDarken[c]
<1>1. Init => Inv
  BY DEF Init, Inv
<1>2. Inv /\ [Next]_vars => [Asked]_vars
  <2> SUFFICES ASSUME Inv, Next, level > 0, level' = 0
               PROVE  \E c \in Call :
                        pc[c] = "apply" /\ pc'[c] = "store" /\ mayDarken[c]
    OBVIOUS
  <2>1. PICK c \in Call : Apply(c)
    BY DEF Next, SetScreenBrightness, IncreaseScreenBrightness,
           DecreaseScreenBrightness, Begin, Store, Signal, StartupRead,
           StartupSignal, Inv
  <2>2. level' = Level(clampPercent(next[c]))
    BY <2>1 DEF Apply
  <2>3. next[c] # NaN /\ next[c] <= 0
    BY <2>2, ClampInPercent, LitAboveZero DEF Inv
  <2> QED
    BY <2>1, <2>3 DEF Apply, Inv
<1> QED
  BY <1>1, <1>2, InvStep, PTL DEF Spec, DarkOnlyOnRequest

-----------------------------------------------------------------------------
(* Calls one at a time.                                                    *)

(* One call, or main's first signal, is in progress at most; the backlight *)
(* follows the percentage the call will store, the signal comes last.      *)
InTurn ==
  /\ \A c, d \in Call : ~Idle(c) /\ ~Idle(d) => c = d
  /\ startup # "done" => \A c \in Call : Idle(c)
  /\ startup = "emit" => first = screenBrightness
  /\ (\A c \in Call : pc[c] # "store") =>
       (written => level = Level(screenBrightness))
  /\ \A c \in Call : pc[c] = "store" => (written => level = Level(next[c]))
  /\ \A c \in Call : pc[c] = "signal" => next[c] = screenBrightness
  /\ startup = "done" /\ (\A c \in Call : pc[c] \notin {"store", "signal"}) =>
       signalled = screenBrightness

Settled ==
  /\ Inv
  /\ startup \in {"read", "emit", "done"}
  /\ overlapped \in BOOLEAN
  /\ ~overlapped => InTurn

LEMMA BeginInTurn ==
  ASSUME Settled, NEW c \in Call, NEW p, NEW dark, Begin(c, p, dark)
  PROVE  ~overlapped' => InTurn'
<1> SUFFICES ASSUME ~overlapped' PROVE InTurn'
  OBVIOUS
<1>1. ~overlapped /\ Quiet /\ InTurn
  BY DEF Begin, Settled
<1>2. /\ pc' = [pc EXCEPT ![c] = "apply"]
      /\ next' = [next EXCEPT ![c] = p]
      /\ UNCHANGED <<screenBrightness, level, written, startup, first, signalled>>
  BY DEF Begin, main
<1> QED
  BY <1>1, <1>2 DEF Settled, Inv, InTurn, Quiet, Idle

LEMMA SettledStep == Settled /\ [Next]_vars => Settled'
<1> SUFFICES ASSUME Settled, [Next]_vars PROVE Settled'
  OBVIOUS
<1>0. Inv'
  BY InvStep DEF Settled
<1>1. ASSUME NEW c \in Call, NEW p, NEW dark, Begin(c, p, dark)
      PROVE  Settled'
  <2>1. startup' = startup /\ overlapped' \in BOOLEAN
    BY <1>1 DEF Begin, main
  <2> QED
    BY <1>0, <1>1, <2>1, BeginInTurn DEF Settled
<1>2. ASSUME NEW c \in Call, Apply(c) PROVE Settled'
  <2>1. /\ pc[c] = "apply" /\ pc' = [pc EXCEPT ![c] = "store"]
        /\ next' = [next EXCEPT ![c] = clampPercent(next[c])]
        /\ written' => level' = Level(clampPercent(next[c]))
        /\ UNCHANGED <<screenBrightness, startup, first, signalled, overlapped>>
    BY <1>2 DEF Apply, main
  <2> QED
    BY <1>0, <2>1 DEF Settled, Inv, InTurn, Idle
<1>3. ASSUME NEW c \in Call, Store(c) PROVE Settled'
  BY <1>0, <1>3 DEF Store, main, Settled, Inv, InTurn, Idle
<1>4. ASSUME NEW c \in Call, Signal(c) PROVE Settled'
  BY <1>0, <1>4 DEF Signal, main, Settled, Inv, InTurn, Idle
<1>5. CASE StartupRead
  BY <1>0, <1>5 DEF StartupRead, Settled, Inv, InTurn, Idle
<1>6. CASE StartupSignal
  BY <1>0, <1>6 DEF StartupSignal, Settled, Inv, InTurn, Idle
<1>7. CASE UNCHANGED vars
  BY <1>0, <1>7 DEF vars, main, Settled, Inv, InTurn, Idle
<1> QED
  BY <1>1, <1>2, <1>3, <1>4, <1>5, <1>6, <1>7
     DEF Next, SetScreenBrightness, IncreaseScreenBrightness,
         DecreaseScreenBrightness

(* As long as calls take turns, every call leaves the stored percentage    *)
(* and the last signal in agreement, and the backlight if it could be      *)
(* written, whatever writes failed before.                                 *)
THEOREM AgreesInTurn == Spec => []BrightnessAgrees
<1>1. Init => Settled
  <2> SUFFICES ASSUME Init PROVE Settled
    OBVIOUS
  <2>1. Inv
    BY DEF Init, Inv
  <2>2. \A c \in Call : pc[c] = "new"
    BY DEF Init
  <2>3. InTurn
    BY <2>2 DEF Init, InTurn, Idle
  <2> QED
    BY <2>1, <2>3 DEF Init, Settled
<1>2. Settled => BrightnessAgrees
  BY DEF Settled, InTurn, BrightnessAgrees, Quiet, Idle
<1> QED
  BY <1>1, <1>2, SettledStep, PTL DEF Spec
=============================================================================
