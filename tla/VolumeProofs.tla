----------------------------- MODULE VolumeProofs -----------------------------
(***************************************************************************)
(* Proofs about Volume, for any number of calls and any volumes.           *)
(***************************************************************************)
EXTENDS Volume, TLAPS

USE DEF audio, calls, poller, Volumes, Percent, State, Goto

LEMMA ClampInRange == \A v \in Int : Clamp(v) \in Percent
BY DEF Clamp

(* Every variable stays in its type; above 100 is only what others chose.  *)
LEMMA TypeStep == TypeOK /\ [Next]_vars => TypeOK'
<1> SUFFICES ASSUME TypeOK, [Next]_vars PROVE TypeOK'
  OBVIOUS
<1> USE VolumeAssumption DEF TypeOK
<1>1. ASSUME NEW c \in Call, NEW v \in Requested, SetOutputVolume(c, v)
      PROVE  TypeOK'
  <2>1. Clamp(v) \in Percent
    BY ClampInRange
  <2>2. st' \in State /\ request' \in [Call -> [volume : Percent, muted : BOOLEAN]]
    BY <1>1, <2>1 DEF SetOutputVolume
  <2>3. overlapped' \in BOOLEAN
    BY <1>1 DEF SetOutputVolume, Arrives
  <2> QED
    BY <1>1, <2>2, <2>3 DEF SetOutputVolume
<1>2. ASSUME NEW c \in Call, NEW b \in BOOLEAN, SetOutputUserMute(c, b)
      PROVE  TypeOK'
  <2>1. overlapped' \in BOOLEAN
    BY <1>2 DEF SetOutputUserMute, Arrives
  <2> QED
    BY <1>2, <2>1 DEF SetOutputUserMute
<1>3. ASSUME NEW c \in Call, PactlSet(c) PROVE TypeOK'
  BY <1>3 DEF PactlSet
<1>4. CASE Poll
  <2>1. CASE Tick BY <2>1 DEF Tick
  <2>2. CASE PollVolume BY <2>2 DEF PollVolume
  <2>3. CASE PollMute BY <2>3 DEF PollMute
  <2>4. CASE PollStore BY <2>4 DEF PollStore
  <2>5. CASE SignalVolume BY <2>5 DEF SignalVolume
  <2>6. CASE SignalMute BY <2>6 DEF SignalMute
  <2> QED BY <1>4, <2>1, <2>2, <2>3, <2>4, <2>5, <2>6 DEF Poll
<1>5. CASE Interfere
  <2>1. external' \in 0..MaxExternal
    BY <1>5 DEF Interfere
  <2>2. sink' \in State
    BY <1>5 DEF Interfere
  <2>3. reachable' \in BOOLEAN
    BY <1>5, Zenon DEF Interfere
  <2> QED
    BY <1>5, <2>1, <2>2, <2>3 DEF Interfere
<1>6. CASE UNCHANGED vars
  BY <1>6 DEF vars
<1> QED
  BY <1>1, <1>2, <1>3, <1>4, <1>5, <1>6 DEF Next

LEMMA InitTypeOK == Init => TypeOK
<1> SUFFICES ASSUME Init PROVE TypeOK
  OBVIOUS
<1>1. /\ sink \in State /\ st \in State
  <2>1. [volume : Level, muted : BOOLEAN] \subseteq State
    OBVIOUS
  <2>2. [volume |-> 75, muted |-> FALSE] \in State
    OBVIOUS
  <2>3. /\ sink \in [volume : Level, muted : BOOLEAN]
        /\ st \in [volume : Level, muted : BOOLEAN]
             \cup {[volume |-> 75, muted |-> FALSE]}
    BY DEF Init
  <2> QED
    BY ONLY <2>1, <2>2, <2>3
<1>2. external \in 0..MaxExternal
  BY VolumeAssumption DEF Init
<1>3. /\ pc \in [Call -> {"new", "setVolume", "setMute", "done"}]
      /\ request \in [Call -> [volume : Percent, muted : BOOLEAN]]
  BY DEF Init, Blank
<1>4. /\ read \in State
      /\ last \in [volume : Volumes \cup {Never}, muted : BOOLEAN]
      /\ signalled \in [volume : Volumes \cup {Never}, muted : SUBSET BOOLEAN]
  BY DEF Init, Blank
<1> QED
  BY <1>1, <1>2, <1>3, <1>4 DEF Init, TypeOK

THEOREM TypeCorrect == Spec => []TypeOK
BY InitTypeOK, TypeStep, PTL DEF Spec

-----------------------------------------------------------------------------
(* As long as calls take turns and nobody else is at the sink.             *)

Busy(c) == pc[c] \in {"setVolume", "setMute"}

OneAtATime == \A c, d \in Call : Busy(c) /\ Busy(d) => c = d

(* What lastVol and lastMute will be when the poll that is under way ends, *)
(* if it has stored.                                                       *)
Remembered == IF poll \in {"signalVolume", "signalMute"} THEN read ELSE last

(* Each half of the state is right or will be found to differ; while a     *)
(* call is about to set the sink, the state is already as requested, or a  *)
(* poll has overwritten it with what it will remember.  Until the first    *)
(* poll stores, it remembers nothing and will find a difference.           *)
VolumeTracked ==
  IF \E c \in Call : pc[c] = "setVolume"
  THEN \A c \in Call : pc[c] = "setVolume" =>
         st.volume \in {request[c].volume, Remembered.volume}
  ELSE st.volume = sink.volume \/ Remembered.volume # sink.volume

MuteTracked ==
  IF \E c \in Call : pc[c] = "setMute"
  THEN \A c \in Call : pc[c] = "setMute" =>
         st.muted = request[c].muted \/ st.muted = Remembered.muted
  ELSE \/ st.muted = sink.muted
       \/ Remembered.muted # sink.muted
       \/ Remembered.volume = Never

InTurn ==
  /\ OneAtATime
  /\ (reachable => VolumeTracked /\ MuteTracked)

Tracked ==
  /\ TypeOK
  /\ (poll = "signalMute" => last.volume = read.volume)
  /\ (external = 0 /\ ~overlapped => InTurn)

LEMMA TrackedStep == Tracked /\ [Next]_vars => Tracked'
<1> SUFFICES ASSUME Tracked, [Next]_vars PROVE Tracked'
  OBVIOUS
<1> USE DEF Tracked, InTurn, OneAtATime, Busy, Idle, VolumeTracked,
            MuteTracked, Remembered
<1>0. TypeOK'
  BY TypeStep
<1>1. ASSUME NEW c \in Call, NEW v \in Requested, SetOutputVolume(c, v)
      PROVE  Tracked'
  <2>1. Clamp(v) \in Percent
    BY ClampInRange, VolumeAssumption
  <2>2. ~overlapped' => ~overlapped /\ \A d \in Call : ~Busy(d)
    BY <1>1 DEF SetOutputVolume, Arrives, TypeOK
  <2>3. /\ pc' = [pc EXCEPT ![c] = "setVolume"]
        /\ st' = [st EXCEPT !.volume = Clamp(v)]
        /\ request' = [request EXCEPT ![c].volume = Clamp(v)]
        /\ UNCHANGED <<audio, external, poller>>
    BY <1>1 DEF SetOutputVolume
  <2> QED
    BY <1>0, <2>1, <2>2, <2>3 DEF TypeOK
<1>2. ASSUME NEW c \in Call, NEW b \in BOOLEAN, SetOutputUserMute(c, b)
      PROVE  Tracked'
  <2>1. ~overlapped' => ~overlapped /\ \A d \in Call : ~Busy(d)
    BY <1>2 DEF SetOutputUserMute, Arrives, TypeOK
  <2>2. /\ pc' = [pc EXCEPT ![c] = "setMute"]
        /\ st' = [st EXCEPT !.muted = b]
        /\ request' = [request EXCEPT ![c].muted = b]
        /\ UNCHANGED <<audio, external, poller>>
    BY <1>2 DEF SetOutputUserMute
  <2> QED
    BY <1>0, <2>1, <2>2 DEF TypeOK
<1>3. ASSUME NEW c \in Call, PactlSet(c) PROVE Tracked'
  BY <1>0, <1>3 DEF PactlSet, TypeOK
<1>4. CASE Poll
  <2>1. CASE Tick BY <1>0, <2>1 DEF Tick, TypeOK
  <2>2. CASE PollVolume BY <1>0, <2>2 DEF PollVolume, TypeOK
  <2>3. CASE PollMute BY <1>0, <2>3 DEF PollMute, TypeOK
  <2>4. CASE PollStore
    <3>1. read.volume # Never /\ sink.volume # Never
      BY VolumeAssumption DEF TypeOK, Never
    <3> QED
      BY <1>0, <2>4, <3>1 DEF PollStore, TypeOK
  <2>5. CASE SignalVolume BY <1>0, <2>5 DEF SignalVolume, TypeOK
  <2>6. CASE SignalMute BY <1>0, <2>6 DEF SignalMute, TypeOK
  <2> QED BY <1>4, <2>1, <2>2, <2>3, <2>4, <2>5, <2>6 DEF Poll
<1>5. CASE Interfere
  <2>1. external' # 0 /\ UNCHANGED <<poll, last, read>>
    BY <1>5 DEF Interfere, TypeOK
  <2> QED
    BY <1>0, <2>1
<1>6. CASE UNCHANGED vars
  BY <1>0, <1>6 DEF vars
<1> QED
  BY <1>1, <1>2, <1>3, <1>4, <1>5, <1>6 DEF Next

LEMMA TrackedInit == Init => Tracked
<1> SUFFICES ASSUME Init PROVE Tracked
  OBVIOUS
<1>1. TypeOK /\ \A c \in Call : ~Busy(c)
  BY InitTypeOK DEF Init, Busy
<1>2. last.volume # sink.volume
  BY VolumeAssumption DEF Init, Never
<1> QED
  BY <1>1, <1>2 DEF Init, Tracked, InTurn, OneAtATime, Busy, VolumeTracked,
                    MuteTracked, Remembered

(* No race of the handlers with the poller leaves a stale state behind     *)
(* that the poller does not notice.                                        *)
THEOREM DriftAlwaysSeen == Spec => []DriftIsSeen
<1>1. Tracked => DriftIsSeen
  <2>1. TypeOK => sink.volume # Never
    BY VolumeAssumption DEF TypeOK, Never
  <2> QED
    BY <2>1 DEF Tracked, InTurn, VolumeTracked, MuteTracked, Remembered,
                DriftIsSeen, Idle, TypeOK
<1> QED
  BY <1>1, TrackedInit, TrackedStep, PTL DEF Spec

-----------------------------------------------------------------------------
(* A poll while nobody touches the sink.  What is signalled is what the    *)
(* poller remembers, however it got there; a mute flag it has not          *)
(* signalled is the one it began with.                                     *)

Consistent ==
  /\ Tracked
  /\ signalled.volume = last.volume
  /\ signalled.muted = {last.muted} \/ (signalled.muted = {} /\ ~last.muted)

LEMMA ConsistentStep == Consistent /\ [Next]_vars => Consistent'
<1> SUFFICES ASSUME Consistent, [Next]_vars PROVE Consistent'
  OBVIOUS
<1>1. Tracked'
  BY TrackedStep DEF Consistent
<1>2. CASE SignalVolume
  BY <1>1, <1>2 DEF SignalVolume, Consistent, Tracked, TypeOK
<1>3. CASE SignalMute
  BY <1>1, <1>3 DEF SignalMute, Consistent, Tracked, TypeOK
<1>4. CASE UNCHANGED <<last, signalled>>
  BY <1>1, <1>4 DEF Consistent
<1>5. SignalVolume \/ SignalMute \/ UNCHANGED <<last, signalled>>
  BY DEF Next, Poll, Tick, PollVolume, PollMute, PollStore, SetOutputVolume,
         SetOutputUserMute, PactlSet, Interfere, vars
<1> QED
  BY <1>2, <1>3, <1>4, <1>5

LEMMA AlwaysConsistent == Spec => []Consistent
<1>1. Init => Consistent
  BY TrackedInit DEF Init, Consistent
<1> QED
  BY <1>1, ConsistentStep, PTL DEF Spec

(* What the poll under way, or the last one, has found out.                *)
Reads ==
  /\ reachable
  /\ poll \in {"mute", "store", "signalVolume", "signalMute"} => read.volume = sink.volume
  /\ poll \in {"store", "signalVolume", "signalMute"} => read.muted = sink.muted
  /\ poll = "rest" => last = sink

LEMMA ReadsStep == Consistent /\ Reads /\ [Next]_vars /\ [FALSE]_audio => Reads'
<1> SUFFICES ASSUME Consistent, Reads, [Next]_vars, UNCHANGED audio PROVE Reads'
  BY DEF audio
<1> USE DEF Consistent, Tracked, TypeOK, Reads
<1>1. CASE Poll
  <2>1. CASE Tick BY <2>1 DEF Tick
  <2>2. CASE PollVolume BY <2>2 DEF PollVolume
  <2>3. CASE PollMute BY <2>3 DEF PollMute
  <2>4. CASE PollStore BY <2>4 DEF PollStore
  <2>5. CASE SignalVolume BY <2>5 DEF SignalVolume
  <2>6. CASE SignalMute BY <2>6 DEF SignalMute
  <2> QED BY <1>1, <2>1, <2>2, <2>3, <2>4, <2>5, <2>6 DEF Poll
<1>2. CASE UNCHANGED poller
  BY <1>2
<1> QED
  BY <1>1, <1>2 DEF Next, SetOutputVolume, SetOutputUserMute, PactlSet, Interfere, vars

(* A poll during which nobody touches the sink ends with the last signals  *)
(* giving the sink's volume and mute flag, or with no mute signal sent and *)
(* the sink not muted, whatever calls come meanwhile and however the reads *)
(* of earlier polls were torn; and so do those that follow it.             *)
THEOREM UndisturbedPollAnnounces ==
  Spec => [](poll = "volume" /\ reachable /\ [][FALSE]_audio
               => [](poll = "rest" => SignalsFit))
<1>1. poll = "volume" /\ reachable => Reads
  BY DEF Reads
<1>2. Consistent /\ Reads /\ poll = "rest" => SignalsFit
  BY DEF Consistent, Reads, SignalsFit
<1> QED
  BY <1>1, <1>2, ReadsStep, AlwaysConsistent, PTL DEF Spec

(* The state is right, or the poll will store.                             *)
Repairs ==
  /\ Reads
  /\ poll \in {"volume", "mute", "store"} => st = sink \/ last # sink
  /\ poll \notin {"volume", "mute", "store"} => st = sink

LEMMA RepairsStep ==
  Consistent /\ Repairs /\ [Next]_vars /\ [FALSE]_<<audio, calls>> => Repairs'
<1> SUFFICES ASSUME Consistent, Repairs, [Next]_vars, UNCHANGED <<audio, calls>>
             PROVE  Repairs'
  OBVIOUS
<1>1. Reads'
  BY ReadsStep DEF Repairs
<1> USE DEF Consistent, Tracked, TypeOK, Repairs, Reads
<1>2. CASE Poll
  <2>1. CASE Tick BY <1>1, <2>1 DEF Tick
  <2>2. CASE PollVolume BY <1>1, <2>2 DEF PollVolume
  <2>3. CASE PollMute BY <1>1, <2>3 DEF PollMute
  <2>4. CASE PollStore
    <3>1. read = sink
      BY <2>4 DEF PollStore
    <3> QED
      BY <1>1, <2>4, <3>1 DEF PollStore
  <2>5. CASE SignalVolume BY <1>1, <2>5 DEF SignalVolume
  <2>6. CASE SignalMute BY <1>1, <2>6 DEF SignalMute
  <2> QED BY <1>2, <2>1, <2>2, <2>3, <2>4, <2>5, <2>6 DEF Poll
<1>3. CASE UNCHANGED <<poller, st>>
  BY <1>1, <1>3
<1>4. ASSUME NEW c \in Call, pc[c] = "new", Goto(c, "setVolume") \/ Goto(c, "setMute")
      PROVE  FALSE
  BY <1>4
<1> QED
  BY <1>2, <1>3, <1>4 DEF Next, SetOutputVolume, SetOutputUserMute, Arrives, PactlSet,
                          Interfere, vars

(* The bridge alone has moved the sink, one call at a time; none is in     *)
(* progress, and a poll begins.                                            *)
QuietPoll ==
  /\ poll = "volume" /\ reachable /\ external = 0 /\ ~overlapped
  /\ \A c \in Call : Idle(c)

(* When no call comes during such a poll it ends with the state right,     *)
(* whatever races of handlers with the poller there were before.           *)
THEOREM UndisturbedPollRepairs ==
  Spec => [](QuietPoll /\ [][FALSE]_<<audio, calls>> => [](poll = "rest" => st = sink))
<1>1. Consistent /\ QuietPoll => Repairs
  <2>1. TypeOK => sink.volume # Never
    BY VolumeAssumption DEF TypeOK, Never
  <2> QED
    BY <2>1 DEF QuietPoll, Consistent, Tracked, InTurn, VolumeTracked, MuteTracked,
                Remembered, Idle, TypeOK, Repairs, Reads
<1>2. Repairs /\ poll = "rest" => st = sink
  BY DEF Repairs
<1> QED
  BY <1>1, <1>2, RepairsStep, AlwaysConsistent, PTL DEF Spec
=============================================================================
