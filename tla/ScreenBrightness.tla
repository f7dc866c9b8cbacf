--------------------------- MODULE ScreenBrightness ---------------------------
(***************************************************************************)
(* Screen brightness in power-bridge: the handlers that set, raise and     *)
(* lower it, each a goroutine that reads the stored percentage, drives the *)
(* hardware, stores the new percentage and signals it, four steps that     *)
(* other calls can come between.  Percentages are whole numbers here, they *)
(* are float64 in the code; NaN is the one float that is no number.        *)
(***************************************************************************)
EXTENDS Integers

CONSTANTS
  Call,       \* the calls Ash makes, each served once
  Requested,  \* the percentages SetScreenBrightness is given; may hold NaN
  NaN,        \* not a number
  MaxLevel    \* max_brightness of the backlight

ASSUME ScreenBrightnessAssumption ==
  /\ NaN \notin Int
  /\ Requested \subseteq Int \cup {NaN}
  /\ MaxLevel \in Nat \ {0}

VARIABLES
  screenBrightness,  \* powerManager.screenBrightness
  written,           \* history: did the last call write the backlight?
  level,             \* what the backlight is set to
  gamma,             \* the xrandr brightness, in percent
  pc, next,          \* each call: its stage and the percentage it will set
  mayDarken,         \* each call: does it ask for, or allow, a dark screen?
  startup, first,    \* main: its stage and the percentage it will announce
  signalled,         \* the last ScreenBrightnessChanged
  overlapped         \* history: has a call arrived while something was going on?

hardware == <<written, level, gamma>>
locals   == <<next, mayDarken>>
main     == <<startup, first>>
vars     == <<screenBrightness, hardware, pc, locals, main, signalled, overlapped>>

Percent == 0..100

Never == -1

TypeOK ==
  /\ screenBrightness \in Percent /\ signalled \in Percent \cup {Never}
  /\ written \in BOOLEAN /\ level \in 0..MaxLevel /\ gamma \in 1..100
  /\ pc \in [Call -> {"new", "apply", "store", "signal", "done"}]
  /\ next \in [Call -> Int \cup {NaN}]
  /\ mayDarken \in [Call -> BOOLEAN]
  /\ startup \in {"read", "emit", "done"} /\ first \in Percent
  /\ overlapped \in BOOLEAN

-----------------------------------------------------------------------------

(* Mutant: no upper bound. *)
clampPercent_BelowOnly(p) == IF p = NaN THEN 100 ELSE IF p < 0 THEN 0 ELSE p

clampPercent(p) ==
  IF p = NaN THEN 100 ELSE IF p < 0 THEN 0 ELSE IF p > 100 THEN 100 ELSE p

(* Mutant: rounding may switch the backlight off. *)
Level_JustRounded(p) == (2 * p * MaxLevel + 100) \div 200

(* writeBacklightPercent: rounded half up, but never 0 for more than 0%.   *)
Level(p) ==
  LET rounded == (2 * p * MaxLevel + 100) \div 200
  IN  IF p > 0 /\ rounded < 1 THEN 1 ELSE rounded

(* applyXrandrBrightness never goes below 1%.                              *)
Gamma(p) == IF p < 1 THEN 1 ELSE p

(* initialScreenBrightness, read from the backlight; the manager is        *)
(* exported, nothing is signalled.                                         *)
Init ==
  /\ screenBrightness \in Percent
  /\ signalled = Never /\ startup = "read" /\ first = 0
  /\ written = TRUE /\ level = Level(screenBrightness) /\ gamma = 100
  /\ pc = [c \in Call |-> "new"]
  /\ next = [c \in Call |-> 0]
  /\ mayDarken = [c \in Call |-> FALSE]
  /\ overlapped = FALSE

Idle(c) == pc[c] \in {"new", "done"}

Quiet == startup = "done" /\ \A c \in Call : Idle(c)

Goto(c, stage) == pc' = [pc EXCEPT ![c] = stage]

(* main's first signal: Ash can call between the unlocked read of the      *)
(* percentage and the signal.                                              *)
StartupRead ==
  /\ startup = "read"
  /\ startup' = "emit" /\ first' = screenBrightness
  /\ UNCHANGED <<screenBrightness, hardware, pc, locals, signalled, overlapped>>

StartupSignal ==
  /\ startup = "emit"
  /\ startup' = "done" /\ signalled' = first
  /\ UNCHANGED <<screenBrightness, hardware, pc, locals, first, overlapped>>

(* A call arrives and works out the percentage it will set. *)
Begin(c, p, dark) ==
  /\ pc[c] = "new"
  /\ overlapped' = (overlapped \/ ~Quiet)
  /\ next' = [next EXCEPT ![c] = p]
  /\ mayDarken' = [mayDarken EXCEPT ![c] = dark]
  /\ Goto(c, "apply")
  /\ UNCHANGED <<screenBrightness, hardware, main, signalled>>

SetScreenBrightness(c, p) == Begin(c, p, p # NaN /\ p <= 0)

IncreaseScreenBrightness(c) == Begin(c, screenBrightness + 10, FALSE)

DecreaseScreenBrightness(c, allowOff) ==
  LET lower == screenBrightness - 10
  IN  Begin(c, IF ~allowOff /\ lower < 1 THEN 1 ELSE lower, allowOff)

(* setScreenBrightness, up to its lock.  Any write of the backlight may    *)
(* fail, for good or once; the xrandr fallback may fail too, the error is  *)
(* logged and the call goes on.                                            *)
Apply(c) ==
  /\ pc[c] = "apply"
  /\ LET p == clampPercent(next[c])
     IN  /\ next' = [next EXCEPT ![c] = p]
         /\ \/ written' = TRUE /\ level' = Level(p) /\ UNCHANGED gamma
            \/ written' = FALSE /\ gamma' \in {Gamma(p), gamma} /\ UNCHANGED level
  /\ Goto(c, "store")
  /\ UNCHANGED <<screenBrightness, mayDarken, main, signalled, overlapped>>

(* Mutant: a dark screen is not remembered. *)
Store_UnlessDark(c) ==
  /\ pc[c] = "store"
  /\ screenBrightness' = IF next[c] = 0 THEN screenBrightness ELSE next[c]
  /\ Goto(c, "signal")
  /\ UNCHANGED <<hardware, locals, main, signalled, overlapped>>

Store(c) ==
  /\ pc[c] = "store"
  /\ screenBrightness' = next[c]
  /\ Goto(c, "signal")
  /\ UNCHANGED <<hardware, locals, main, signalled, overlapped>>

Signal(c) ==
  /\ pc[c] = "signal"
  /\ signalled' = next[c]
  /\ Goto(c, "done")
  /\ UNCHANGED <<screenBrightness, hardware, locals, main, overlapped>>

Next ==
  \/ \E c \in Call :
       \/ \E p \in Requested : SetScreenBrightness(c, p)
       \/ IncreaseScreenBrightness(c)
       \/ \E allowOff \in BOOLEAN : DecreaseScreenBrightness(c, allowOff)
       \/ Apply(c) \/ Store(c) \/ Signal(c)
  \/ StartupRead \/ StartupSignal

Spec == Init /\ [][Next]_vars

-----------------------------------------------------------------------------
(* Properties.                                                             *)

(* Whatever calls overlap, the screen goes dark only in a call that asks   *)
(* for it or allows it: no chain of lowering steps, no lost update and no  *)
(* rounding on a coarse backlight switches it off.                         *)
DarkOnlyOnRequest ==
  [][level > 0 /\ level' = 0 =>
       \E c \in Call : pc[c] = "apply" /\ pc'[c] = "store" /\ mayDarken[c]]_vars

(* As long as calls have overlapped neither each other nor main's first    *)
(* signal: whenever nothing is in progress, the stored percentage and the  *)
(* last signal agree, and so does the backlight if the last call could     *)
(* write it, whichever writes before it failed.                            *)
BrightnessAgrees ==
  Quiet /\ ~overlapped =>
    /\ signalled = screenBrightness
    /\ written => level = Level(screenBrightness)
=============================================================================
