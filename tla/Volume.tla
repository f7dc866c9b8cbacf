-------------------------------- MODULE Volume --------------------------------
(***************************************************************************)
(* Output volume in cras-bridge: what Ash sets, what GetVolumeState and    *)
(* the signals tell it, and the PulseAudio sink behind them, which other   *)
(* programs use too.  A handler changes the bridge's own state under its   *)
(* lock and only then runs pactl; the poller runs pactl twice, compares    *)
(* with what it last read, and stores and signals what changed.            *)
(***************************************************************************)
EXTENDS Integers

CONSTANTS
  Call,         \* the Set calls Ash makes, each served once by a goroutine
  Requested,    \* the volumes Ash asks for
  Level,        \* the volumes other programs give the sink
  MaxExternal   \* how often others change the sink or stop PulseAudio: a bound

ASSUME VolumeAssumption ==
  /\ Requested \subseteq Int
  /\ Level \subseteq Nat
  /\ MaxExternal \in Nat

VARIABLES
  st,         \* crasControl.st: output volume and mute
  sink,       \* PulseAudio: the default sink
  reachable,  \* PulseAudio: does pactl work?
  external,   \* how often others interfered
  overlapped, \* history: has a call arrived while another ran pactl?
  pc, request,   \* each call: its stage and its clamped volume or mute flag
  poll, read, last,   \* the poller: its stage, what it read, lastVol and lastMute
  signalled   \* the last OutputVolumeChanged, Never before the first, and the
              \* flag of the last OutputMuteChanged as a set, {} before the first

audio  == <<sink, reachable>>
calls  == <<pc, request>>
poller == <<poll, read, last, signalled>>
vars   == <<st, audio, external, overlapped, calls, poller>>

Percent == 0..100

Volumes == Percent \cup Level \cup {75}

State == [volume : Volumes, muted : BOOLEAN]

Never == -1

TypeOK ==
  /\ st \in State /\ sink \in State /\ reachable \in BOOLEAN
  /\ external \in 0..MaxExternal /\ overlapped \in BOOLEAN
  /\ pc \in [Call -> {"new", "setVolume", "setMute", "done"}]
  /\ request \in [Call -> [volume : Percent, muted : BOOLEAN]]
  /\ poll \in {"rest", "volume", "mute", "store", "signalVolume", "signalMute"}
  /\ read \in State
  /\ last \in [volume : Volumes \cup {Never}, muted : BOOLEAN]
  /\ signalled \in [volume : Volumes \cup {Never}, muted : SUBSET BOOLEAN]

Blank == [volume |-> 0, muted |-> FALSE]

(* main asks pactlVolume for a first state, or takes 75% when pactl does   *)
(* not work; others may have changed the sink since.                       *)
Init ==
  /\ sink \in [volume : Level, muted : BOOLEAN] /\ reachable \in BOOLEAN
  /\ st \in [volume : Level, muted : BOOLEAN] \cup {[volume |-> 75, muted |-> FALSE]}
  /\ external = 0 /\ overlapped = FALSE
  /\ pc = [c \in Call |-> "new"] /\ request = [c \in Call |-> Blank]
  /\ poll = "rest" /\ read = Blank
  /\ last = [volume |-> Never, muted |-> FALSE]
  /\ signalled = [volume |-> Never, muted |-> {}]

-----------------------------------------------------------------------------
(* Ash's calls.                                                            *)

(* Mutant: no upper bound. *)
Clamp_BelowOnly(v) == IF v < 0 THEN 0 ELSE v

Clamp(v) == IF v < 0 THEN 0 ELSE IF v > 100 THEN 100 ELSE v

Idle(c) == pc[c] \in {"new", "done"}

Arrives(c) ==
  /\ pc[c] = "new"
  /\ overlapped' = (overlapped \/ \E d \in Call : ~Idle(d))

Goto(c, stage) == pc' = [pc EXCEPT ![c] = stage]

(* Mutant: the state is not clamped. *)
SetOutputVolume_StoresRaw(c, v) ==
  /\ Arrives(c)
  /\ st' = [st EXCEPT !.volume = v]
  /\ request' = [request EXCEPT ![c].volume = Clamp(v)]
  /\ Goto(c, "setVolume")
  /\ UNCHANGED <<audio, external, poller>>

(* SetOutputNodeVolume ignores the node and does the same. *)
SetOutputVolume(c, v) ==
  /\ Arrives(c)
  /\ st' = [st EXCEPT !.volume = Clamp(v)]
  /\ request' = [request EXCEPT ![c].volume = Clamp(v)]
  /\ Goto(c, "setVolume")
  /\ UNCHANGED <<audio, external, poller>>

SetOutputUserMute(c, muted) ==
  /\ Arrives(c)
  /\ st' = [st EXCEPT !.muted = muted]
  /\ request' = [request EXCEPT ![c].muted = muted]
  /\ Goto(c, "setMute")
  /\ UNCHANGED <<audio, external, poller>>

(* pactl set-sink-volume and set-sink-mute; a failure is only logged. *)
PactlSet(c) ==
  /\ \/ /\ pc[c] = "setVolume" /\ reachable
        /\ sink' = [sink EXCEPT !.volume = request[c].volume]
     \/ /\ pc[c] = "setMute" /\ reachable
        /\ sink' = [sink EXCEPT !.muted = request[c].muted]
     \/ /\ pc[c] \in {"setVolume", "setMute"} /\ ~reachable
        /\ UNCHANGED sink
  /\ Goto(c, "done")
  /\ UNCHANGED <<st, reachable, external, overlapped, request, poller>>

-----------------------------------------------------------------------------
(* The poller.                                                             *)

Tick ==
  /\ poll = "rest"
  /\ poll' = "volume"
  /\ UNCHANGED <<st, audio, external, overlapped, calls, read, last, signalled>>

PollVolume ==
  /\ poll = "volume"
  /\ \/ /\ reachable
        /\ read' = [read EXCEPT !.volume = sink.volume]
        /\ poll' = "mute"
     \/ ~reachable /\ poll' = "rest" /\ UNCHANGED read
  /\ UNCHANGED <<st, audio, external, overlapped, calls, last, signalled>>

(* An unreadable mute flag counts as not muted. *)
PollMute ==
  /\ poll = "mute"
  /\ read' = [read EXCEPT !.muted = reachable /\ sink.muted]
  /\ poll' = "store"
  /\ UNCHANGED <<st, audio, external, overlapped, calls, last, signalled>>

(* Mutant: what was read is compared with the state. *)
PollStore_AgainstState ==
  /\ poll = "store"
  /\ \/ /\ read # st
        /\ st' = read
        /\ poll' = "signalVolume"
     \/ read = st /\ poll' = "rest" /\ UNCHANGED st
  /\ UNCHANGED <<audio, external, overlapped, calls, read, last, signalled>>

PollStore ==
  /\ poll = "store"
  /\ \/ /\ read # last
        /\ st' = read
        /\ poll' = "signalVolume"
     \/ read = last /\ poll' = "rest" /\ UNCHANGED st
  /\ UNCHANGED <<audio, external, overlapped, calls, read, last, signalled>>

(* lastVol and lastMute are updated before the signals; as only the poller *)
(* looks at them, each is updated here with its signal.                    *)
SignalVolume ==
  /\ poll = "signalVolume"
  /\ \/ /\ read.volume # last.volume
        /\ signalled' = [signalled EXCEPT !.volume = read.volume]
     \/ read.volume = last.volume /\ UNCHANGED signalled
  /\ last' = [last EXCEPT !.volume = read.volume]
  /\ poll' = "signalMute"
  /\ UNCHANGED <<st, audio, external, overlapped, calls, read>>

SignalMute ==
  /\ poll = "signalMute"
  /\ \/ /\ read.muted # last.muted
        /\ signalled' = [signalled EXCEPT !.muted = {read.muted}]
     \/ read.muted = last.muted /\ UNCHANGED signalled
  /\ last' = [last EXCEPT !.muted = read.muted]
  /\ poll' = "rest"
  /\ UNCHANGED <<st, audio, external, overlapped, calls, read>>

-----------------------------------------------------------------------------

(* Another program moves the slider, or PulseAudio goes away or returns. *)
Interfere ==
  /\ external < MaxExternal /\ external' = external + 1
  /\ \/ sink' \in [volume : Level, muted : BOOLEAN] /\ UNCHANGED reachable
     \/ reachable' = ~reachable /\ UNCHANGED sink
  /\ UNCHANGED <<st, overlapped, calls, poller>>

Poll ==
  Tick \/ PollVolume \/ PollMute \/ PollStore \/ SignalVolume \/ SignalMute

Next ==
  \/ \E c \in Call :
       \/ \E v \in Requested : SetOutputVolume(c, v)
       \/ \E b \in BOOLEAN : SetOutputUserMute(c, b)
       \/ PactlSet(c)
  \/ Poll
  \/ Interfere

(* The ticker ticks and pactl returns. *)
Fairness == WF_vars(Poll) /\ \A c \in Call : WF_vars(PactlSet(c))

Spec == Init /\ [][Next]_vars /\ Fairness

-----------------------------------------------------------------------------
(* Properties.                                                             *)

(* The last signals give what the sink is set to, and if there was none    *)
(* about mute the sink is not muted: the poller takes it for that at       *)
(* first, and is silent if it finds it so.                                 *)
SignalsFit ==
  /\ signalled.volume = sink.volume
  /\ signalled.muted = {sink.muted} \/ (signalled.muted = {} /\ ~sink.muted)

(* The signals Ash gets settle on what the sink is set to, by whomever and *)
(* however the changes raced with the two reads of the poller.  For a      *)
(* bridge whose first state is not muted, no mute signal at all stands for *)
(* "not muted", which is what GetVolumeState said at first.  One whose     *)
(* first state is muted may meet a sink that was unmuted before the first  *)
(* poll and then sends no mute signal: of its mute signals only those that *)
(* are sent are claimed to be right.                                       *)
SinkAnnounced ==
  /\ ~st.muted => <>[](reachable => SignalsFit)
  /\ <>[](reachable =>
            /\ signalled.volume = sink.volume
            /\ signalled.muted # {} => signalled.muted = {sink.muted})

(* GetVolumeState settles on what the sink is set to.                      *)
StateTracksSink ==
  <>[](reachable => st = sink)

(* It does when the bridge alone moves the sink, one call at a time.       *)
AloneTracksSink ==
  [](external = 0 /\ ~overlapped) => StateTracksSink

(* As long as that is so: whenever no call is in progress, what            *)
(* GetVolumeState says is right, or the next poll will find a difference   *)
(* and store it.  So no race of a handler with the poller can make the     *)
(* bridge's state stale for good.                                          *)
DriftIsSeen ==
  (external = 0 /\ ~overlapped /\ reachable /\ poll = "rest" /\ \A c \in Call : Idle(c))
    => (st = sink \/ last # sink)
=============================================================================
