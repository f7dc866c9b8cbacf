-------------------------- MODULE AshSessionProofs --------------------------
(***************************************************************************)
(* Proofs about AshSession, for any bridges, names, number of sessions and *)
(* prompts, and before them about LoginPrompts, which is a part of it.     *)
(***************************************************************************)
EXTENDS AshSession, FiniteSetTheorems, TLAPS

LEMMA Sizes ==
  /\ MaxSessions \in Nat \ {0} /\ Capacity \in Nat \ {0}
  /\ Len(Bridges) \in Nat /\ DOMAIN Bridges = 1..Len(Bridges)
  /\ \A i \in DOMAIN Bridges : Bridges[i] \in Bridge
  /\ \A b \in Bridge : Names[b] \in Nat \ {0}
BY AshSessionAssumption

-----------------------------------------------------------------------------
(* LoginPrompts by itself.  The channel is never over its capacity, no     *)
(* dropped token loses a prompt, and tokens and signals together are never *)
(* more than prompts.                                                      *)

LoginInv ==
  /\ LP!TypeOK /\ LP!AnswerUnderWay /\ LP!OneSignalPerPrompt
  /\ IsFiniteSet(prompts)

LEMMA Counts == ASSUME NEW S PROVE LP!Cardinality(S) = Cardinality(S)
BY DEF LP!Cardinality, Cardinality

LEMMA LoginInit == LP!Init => LoginInv
<1> SUFFICES ASSUME LP!Init PROVE LoginInv
  OBVIOUS
<1>1. IsFiniteSet({}) /\ Cardinality({}) = 0
  BY FS_EmptySet
<1> QED
  BY <1>1, Sizes, Counts
     DEF LP!Init, LoginInv, LP!TypeOK, LP!AnswerUnderWay, LP!OneSignalPerPrompt

LEMMA PromptKeeps ==
  ASSUME LoginInv, NEW p \in Prompt, LP!EmitLoginPromptVisible(p)
  PROVE  LoginInv'
<1>1. Capacity \in Nat \ {0}
  BY Sizes
<1>2. /\ IsFiniteSet(prompts')
      /\ Cardinality(prompts') = Cardinality(prompts) + 1
      /\ Cardinality(prompts) \in Nat
  BY FS_AddElement, FS_CardinalityType DEF LoginInv, LP!EmitLoginPromptVisible
<1>3. LP!TypeOK' /\ LP!AnswerUnderWay'
  BY <1>1 DEF LoginInv, LP!TypeOK, LP!AnswerUnderWay, LP!EmitLoginPromptVisible
<1>4. emitted' = emitted /\ consumer' = consumer /\ queued' <= queued + 1
      /\ queued \in Nat /\ queued' \in Nat /\ emitted \in Nat
  BY <1>1 DEF LoginInv, LP!TypeOK, LP!EmitLoginPromptVisible
<1>5. LP!OneSignalPerPrompt'
  BY <1>2, <1>4, Counts DEF LoginInv, LP!OneSignalPerPrompt
<1> QED
  BY <1>2, <1>3, <1>5 DEF LoginInv

LEMMA ConsumeKeeps == LoginInv /\ LP!Consume => LoginInv'
<1> SUFFICES ASSUME LoginInv, LP!Consume PROVE LoginInv'
  OBVIOUS
<1>1. Capacity \in Nat \ {0} /\ Cardinality(prompts) \in Nat
  BY Sizes, FS_CardinalityType DEF LoginInv
<1> USE Counts DEF LoginInv, LP!TypeOK, LP!AnswerUnderWay, LP!OneSignalPerPrompt
<1>2. CASE LP!Receive
  BY <1>1, <1>2 DEF LP!Receive
<1>3. CASE LP!Wake
  BY <1>1, <1>3 DEF LP!Wake
<1>4. CASE LP!EmitSessionStateChanged
  BY <1>1, <1>4 DEF LP!EmitSessionStateChanged
<1> QED
  BY <1>2, <1>3, <1>4 DEF LP!Consume

(* A process that exits takes its tokens and its unanswered prompts along. *)
Forget ==
  /\ queued' = 0 /\ consumer' = "receive" /\ unanswered' = {}
  /\ UNCHANGED <<prompts, emitted>>

LEMMA ForgetKeeps == LoginInv /\ Forget => LoginInv'
<1> SUFFICES ASSUME LoginInv, Forget PROVE LoginInv'
  OBVIOUS
<1>1. Capacity \in Nat \ {0} /\ Cardinality(prompts) \in Nat
  BY Sizes, FS_CardinalityType DEF LoginInv
<1> QED
  BY <1>1, Counts
     DEF LoginInv, LP!TypeOK, LP!AnswerUnderWay, LP!OneSignalPerPrompt, Forget

LEMMA PromptsIdle == LoginInv /\ UNCHANGED login => LoginInv'
BY DEF LoginInv, LP!TypeOK, LP!AnswerUnderWay, LP!OneSignalPerPrompt, login

(* A prompt that has no signal yet has one on its way, whatever tokens     *)
(* were dropped, and no signal is without a prompt (SE 189-231).           *)
THEOREM PromptsAnswered ==
  LP!Spec => [](LP!TypeOK /\ LP!AnswerUnderWay /\ LP!OneSignalPerPrompt)
<1>1. LoginInv => LP!TypeOK /\ LP!AnswerUnderWay /\ LP!OneSignalPerPrompt
  BY DEF LoginInv
<1>2. LoginInv /\ [LP!Next]_(LP!vars) => LoginInv'
  BY PromptKeeps, ConsumeKeeps, PromptsIdle DEF LP!Next, LP!vars, login
<1> QED
  BY <1>1, <1>2, LoginInit, PTL DEF LP!Spec

-----------------------------------------------------------------------------
(* Prompts.  Whatever happens to the bridges, the prompts are served as    *)
(* LoginPrompts does it, or forgotten with their bridge.                   *)

LoginStep ==
  \/ \E p \in Prompt : LP!EmitLoginPromptVisible(p)
  \/ LP!Consume \/ Forget \/ UNCHANGED login

LEMMA ForgetStep ==
  ASSUME NEW b, NEW s, ForgetPrompts(b, s)
  PROVE  LoginStep
BY DEF ForgetPrompts, LoginStep, Forget

LEMMA NextLogin == [Next]_vars => LoginStep
<1> SUFFICES ASSUME [Next]_vars PROVE LoginStep
  OBVIOUS
<1>1. CASE Script
  BY <1>1
  DEF Script, StartBridge, StartStub, RemoveStale, LaunchAsh, SocketSeen, XWaited, AshEnded,
      StopSommelier, KillAsh, ExitTrap, LoginStep
<1>2. CASE AnswerPrompts
  BY <1>2 DEF AnswerPrompts, LoginStep
<1>3. ASSUME NEW s \in Session, StubStep(s) PROVE LoginStep
  BY <1>3 DEF StubStep, StubRemove, StubListen, StubExit, LoginStep
<1>4. ASSUME NEW b \in Bridge, NEW s \in Session, BridgeStep(b, s) PROVE LoginStep
  BY <1>4, ForgetStep DEF BridgeStep, RequestName, BridgeExit, Ask, Leave, LoginStep
<1>5. CASE TermTrap \/ KillScript \/ NewSession \/ AshUp \/ AshExit \/ StopSession
  BY <1>5 DEF TermTrap, KillScript, NewSession, AshUp, AshExit, StopSession, LoginStep
<1>6. CASE AshPrompts
  BY <1>6 DEF AshPrompts, LoginStep
<1>7. CASE UNCHANGED vars
  BY <1>7 DEF vars, LoginStep
<1> QED
  BY <1>1, <1>2, <1>3, <1>4, <1>5, <1>6, <1>7 DEF Next, Process

LEMMA LoginKeeps == LoginInv /\ [Next]_vars => LoginInv'
<1> SUFFICES ASSUME LoginInv, LoginStep PROVE LoginInv'
  BY NextLogin
<1> QED
  BY PromptKeeps, ConsumeKeeps, ForgetKeeps, PromptsIdle DEF LoginStep

LEMMA LoginHolds == Spec => []LoginInv
<1>1. Init => LoginInv
  BY LoginInit DEF Init
<1> QED
  BY <1>1, LoginKeeps, PTL DEF Spec

(* No dropped token and no bridge that comes or goes leaves a prompt       *)
(* without a signal on its way (SE 189-231).                               *)
THEOREM AnswerAlwaysUnderWay == Spec => []AnswerUnderWay
<1>1. LoginInv => AnswerUnderWay
  BY DEF LoginInv, AnswerUnderWay
<1> QED
  BY <1>1, LoginHolds, PTL

(* There is never a signal without a prompt of its own (SE 189-231).       *)
THEOREM NeverMoreSignals == Spec => []OneSignalPerPrompt
<1>1. LoginInv => OneSignalPerPrompt
  BY DEF LoginInv, OneSignalPerPrompt
<1> QED
  BY <1>1, LoginHolds, PTL

-----------------------------------------------------------------------------
(* Names.  A process owns exactly the names it has asked for and not been  *)
(* refused; one that has not begun, or has exited, has asked for none.     *)

BridgeTyped ==
  /\ session \in Session /\ started \in 0..Len(Bridges)
  /\ proc \in [Bridge -> [Session -> {"none", "asking", "up", "told", "gone"}]]
  /\ asked \in [Bridge -> [Session -> Nat]]
  /\ bus \in [BusName -> Session \cup {Nobody}]

Asked(b, s) ==
  /\ asked[b][s] <= Names[b]
  /\ proc[b][s] \in {"none", "gone"} => asked[b][s] = 0
  /\ proc[b][s] = "asking" => asked[b][s] < Names[b]
  /\ proc[b][s] = "up" => asked[b][s] = Names[b]
  /\ \A k \in 1..Names[b] : bus[<<b, k>>] = s <=> k <= asked[b][s]

BridgeInv ==
  /\ BridgeTyped
  /\ \A b \in Bridge, s \in Session : Asked(b, s)
  /\ \A b \in Bridge, s \in Session : s > session => proc[b][s] = "none"
  /\ \A i \in DOMAIN Bridges : i > started => proc[Bridges[i]][session] = "none"

LEMMA Named == ASSUME NEW b \in Bridge, NEW k \in 1..Names[b] PROVE <<b, k>> \in BusName
BY DEF BusName

LEMMA Unnamed ==
  ASSUME NEW n \in BusName
  PROVE  \E b \in Bridge : \E k \in 1..Names[b] : n = <<b, k>>
BY DEF BusName

(* What a step does to the bridges.                                        *)
Told ==
  /\ StopBridges(Session)
  /\ UNCHANGED <<asked, bus, session, started>>

BridgesStep ==
  \/ StartBridge \/ NewSession \/ Told
  \/ \E b \in Bridge, s \in Session : RequestName(b, s) \/ BridgeExit(b, s)
  \/ UNCHANGED <<proc, asked, bus, session, started>>

LEMMA NextBridges == [Next]_vars => BridgesStep
<1> SUFFICES ASSUME [Next]_vars PROVE BridgesStep
  OBVIOUS
<1> USE DEF BridgesStep, bridges, At, script, vars
<1>1. CASE Script
  BY <1>1
  DEF Script, StartStub, RemoveStale, LaunchAsh, SocketSeen, XWaited, AshEnded,
      StopSommelier, KillAsh, ExitTrap, stop_all_bridges, Told
<1>2. CASE AnswerPrompts
  BY <1>2 DEF AnswerPrompts
<1>3. ASSUME NEW s \in Session, StubStep(s) PROVE BridgesStep
  BY <1>3 DEF StubStep, StubRemove, StubListen, StubExit
<1>4. ASSUME NEW b \in Bridge, NEW s \in Session, BridgeStep(b, s) PROVE BridgesStep
  BY <1>4 DEF BridgeStep
<1>5. CASE TermTrap
  BY <1>5 DEF TermTrap, stop_all_bridges, Told
<1>6. CASE KillScript \/ NewSession \/ AshUp \/ AshExit \/ StopSession \/ AshPrompts
  BY <1>6 DEF KillScript, AshUp, AshExit, StopSession, AshPrompts
<1>7. CASE UNCHANGED vars
  BY <1>7
<1> QED
  BY <1>1, <1>2, <1>3, <1>4, <1>5, <1>6, <1>7 DEF Next, Process

(* A process that asks gets a free name, or leaves with what it had.       *)
LEMMA AskKeeps ==
  ASSUME BridgeInv, NEW b \in Bridge, NEW s \in Session, proc[b][s] = "asking",
         bus[<<b, asked[b][s] + 1>>] = Nobody, Ask(b, s, <<b, asked[b][s] + 1>>)
  PROVE  /\ asked' \in [Bridge -> [Session -> Nat]]
         /\ proc' \in [Bridge -> [Session -> {"none", "asking", "up", "told", "gone"}]]
         /\ bus' \in [BusName -> Session \cup {Nobody}]
         /\ \A c \in Bridge, t \in Session : Asked(c, t)'
         /\ proc'[b][s] \in {"asking", "up"}
         /\ \A c \in Bridge, t \in Session : c # b \/ t # s => proc'[c][t] = proc[c][t]
<1> DEFINE n == asked[b][s] + 1
<1>0. BridgeTyped /\ Names[b] \in Nat \ {0}
  BY Sizes DEF BridgeInv
<1>1. asked[b][s] \in Nat /\ asked[b][s] < Names[b]
  BY <1>0 DEF BridgeInv, BridgeTyped, Asked
<1>2. n \in 1..Names[b] /\ <<b, n>> \in BusName
  BY <1>0, <1>1, Named
<1>3. asked' = [asked EXCEPT ![b][s] = n] /\ bus' = [bus EXCEPT ![<<b, n>>] = s]
      /\ proc' = [proc EXCEPT ![b][s] = IF n = Names[b] THEN "up" ELSE "asking"]
  <2>1. asked' = [asked EXCEPT ![b][s] = n] /\ bus' = [bus EXCEPT ![<<b, n>>] = s]
    BY DEF Ask
  <2>2. asked'[b][s] = n
    BY <1>0, <2>1 DEF BridgeTyped
  <2> QED
    BY <2>1, <2>2 DEF Ask
<1>4. asked' \in [Bridge -> [Session -> Nat]]
  BY <1>0, <1>1, <1>3 DEF BridgeTyped
<1>5. proc' \in [Bridge -> [Session -> {"none", "asking", "up", "told", "gone"}]]
  BY <1>0, <1>3 DEF BridgeTyped
<1>6. bus' \in [BusName -> Session \cup {Nobody}]
  BY <1>0, <1>3 DEF BridgeTyped
<1>7. ASSUME NEW c \in Bridge, NEW t \in Session PROVE Asked(c, t)'
  <2>0. Asked(c, t) /\ Names[c] \in Nat
    BY Sizes DEF BridgeInv
  <2>1. \A k \in 1..Names[c] : <<c, k>> \in BusName
    BY Named
  <2>2. CASE c # b
    <3>1. asked'[c][t] = asked[c][t] /\ proc'[c][t] = proc[c][t]
          /\ \A k \in 1..Names[c] : bus'[<<c, k>>] = bus[<<c, k>>]
      BY <1>0, <1>3, <2>1, <2>2 DEF BridgeTyped
    <3> QED
      BY <2>0, <3>1 DEF Asked
  <2>3. CASE c = b /\ t # s
    <3>1. asked'[c][t] = asked[c][t] /\ proc'[c][t] = proc[c][t]
      BY <1>0, <1>3, <2>3 DEF BridgeTyped
    <3>2. ASSUME NEW k \in 1..Names[c] PROVE bus'[<<c, k>>] = t <=> k <= asked[c][t]
      <4>1. CASE k = n
        <5>1. bus'[<<c, k>>] = s /\ bus[<<c, k>>] = Nobody /\ t # Nobody
          BY <1>0, <1>2, <1>3, <2>3, <4>1 DEF BridgeTyped, Nobody, Session
        <5> QED
          BY <2>0, <2>3, <5>1 DEF Asked
      <4>2. CASE k # n
        <5>1. bus'[<<c, k>>] = bus[<<c, k>>]
          BY <1>0, <1>2, <1>3, <2>1, <4>2 DEF BridgeTyped
        <5> QED
          BY <2>0, <5>1 DEF Asked
      <4> QED
        BY <4>1, <4>2
    <3> QED
      BY <2>0, <3>1, <3>2 DEF Asked
  <2>4. CASE c = b /\ t = s
    <3>1. asked'[c][t] = n /\ proc'[c][t] = IF n = Names[b] THEN "up" ELSE "asking"
      BY <1>0, <1>3, <2>4 DEF BridgeTyped
    <3>2. ASSUME NEW k \in 1..Names[c] PROVE bus'[<<c, k>>] = t <=> k <= n
      <4>1. CASE k = n
        BY <1>0, <1>2, <1>3, <2>4, <4>1 DEF BridgeTyped
      <4>2. CASE k # n
        <5>1. bus'[<<c, k>>] = bus[<<c, k>>]
          BY <1>0, <1>2, <1>3, <2>1, <4>2 DEF BridgeTyped
        <5>2. k <= n <=> k <= asked[c][t]
          BY <1>1, <2>4, <4>2
        <5> QED
          BY <2>0, <5>1, <5>2 DEF Asked
      <4> QED
        BY <4>1, <4>2
    <3>3. n <= Names[c] /\ (proc'[c][t] = "asking" => n < Names[c])
      BY <1>1, <1>0, <2>4, <3>1
    <3> QED
      BY <2>4, <3>1, <3>2, <3>3 DEF Asked
  <2> QED
    BY <2>2, <2>3, <2>4
<1>8. proc'[b][s] \in {"asking", "up"}
  BY <1>0, <1>3 DEF BridgeTyped
<1>9. \A c \in Bridge, t \in Session : c # b \/ t # s => proc'[c][t] = proc[c][t]
  BY <1>0, <1>3 DEF BridgeTyped
<1> QED
  BY <1>4, <1>5, <1>6, <1>7, <1>8, <1>9

LEMMA LeaveKeeps ==
  ASSUME BridgeInv, NEW b \in Bridge, NEW s \in Session, Leave(b, s)
  PROVE  /\ asked' \in [Bridge -> [Session -> Nat]]
         /\ proc' \in [Bridge -> [Session -> {"none", "asking", "up", "told", "gone"}]]
         /\ bus' \in [BusName -> Session \cup {Nobody}]
         /\ \A c \in Bridge, t \in Session : Asked(c, t)'
         /\ proc'[b][s] = "gone"
         /\ \A c \in Bridge, t \in Session : c # b \/ t # s => proc'[c][t] = proc[c][t]
<1>0. BridgeTyped
  BY DEF BridgeInv
<1>1. proc' = [proc EXCEPT ![b][s] = "gone"] /\ asked' = [asked EXCEPT ![b][s] = 0]
      /\ bus' = [n \in BusName |-> IF n[1] = b /\ bus[n] = s THEN Nobody ELSE bus[n]]
  BY DEF Leave
<1>2. asked' \in [Bridge -> [Session -> Nat]]
  BY <1>0, <1>1 DEF BridgeTyped
<1>3. proc' \in [Bridge -> [Session -> {"none", "asking", "up", "told", "gone"}]]
  BY <1>0, <1>1 DEF BridgeTyped
<1>4. bus' \in [BusName -> Session \cup {Nobody}]
  BY <1>0, <1>1 DEF BridgeTyped
<1>5. ASSUME NEW c \in Bridge, NEW t \in Session PROVE Asked(c, t)'
  <2>0. Asked(c, t) /\ Names[c] \in Nat \ {0} /\ t # Nobody /\ s # Nobody
    BY Sizes DEF BridgeInv, Nobody, Session
  <2>1. ASSUME NEW k \in 1..Names[c]
        PROVE  bus'[<<c, k>>] = IF c = b /\ bus[<<c, k>>] = s THEN Nobody ELSE bus[<<c, k>>]
    BY <1>1, Named
  <2>2. CASE c = b /\ t = s
    <3>1. asked'[c][t] = 0 /\ proc'[c][t] = "gone"
      BY <1>0, <1>1, <2>2 DEF BridgeTyped
    <3>2. \A k \in 1..Names[c] : bus'[<<c, k>>] # t
      BY <2>0, <2>1, <2>2
    <3> QED
      BY <2>0, <3>1, <3>2 DEF Asked
  <2>3. CASE ~(c = b /\ t = s)
    <3>1. asked'[c][t] = asked[c][t] /\ proc'[c][t] = proc[c][t]
      BY <1>0, <1>1, <2>3 DEF BridgeTyped
    <3>2. \A k \in 1..Names[c] : bus'[<<c, k>>] = t <=> bus[<<c, k>>] = t
      BY <2>0, <2>1, <2>3
    <3> QED
      BY <2>0, <3>1, <3>2 DEF Asked
  <2> QED
    BY <2>2, <2>3
<1>6. proc'[b][s] = "gone" /\ \A c \in Bridge, t \in Session : c # b \/ t # s => proc'[c][t] = proc[c][t]
  BY <1>0, <1>1 DEF BridgeTyped
<1> QED
  BY <1>2, <1>3, <1>4, <1>5, <1>6

LEMMA BridgeInit == Init => BridgeInv
<1> SUFFICES ASSUME Init PROVE BridgeInv
  OBVIOUS
<1>1. BridgeTyped
  BY Sizes DEF Init, BridgeTyped, Session
<1>2. ASSUME NEW b \in Bridge, NEW s \in Session PROVE Asked(b, s)
  <2>1. asked[b][s] = 0 /\ proc[b][s] = "none" /\ s # Nobody /\ Names[b] \in Nat
    BY <1>2, Sizes DEF Init, Session, Nobody
  <2>2. \A k \in 1..Names[b] : bus[<<b, k>>] = Nobody
    BY Named DEF Init
  <2> QED
    BY <2>1, <2>2 DEF Asked
<1> QED
  BY <1>1, <1>2, Sizes DEF BridgeInv, Init, Session

LEMMA BridgeKeeps == BridgeInv /\ [Next]_vars => BridgeInv'
<1> SUFFICES ASSUME BridgeInv, BridgesStep PROVE BridgeInv'
  BY NextBridges
<1>0. BridgeTyped
  BY DEF BridgeInv
<1>1. CASE StartBridge
  <2> DEFINE b == Bridges[started + 1]
  <2>1. started \in 0..Len(Bridges) /\ started + 1 \in DOMAIN Bridges /\ session \in Session
    BY <1>0, <1>1, Sizes DEF BridgeTyped, StartBridge
  <2>2. b \in Bridge /\ proc[b][session] = "none" /\ Names[b] \in Nat \ {0}
    BY <2>1, Sizes DEF BridgeInv
  <2>3. proc' = [proc EXCEPT ![b][session] = "asking"] /\ started' = started + 1
        /\ UNCHANGED <<session, asked, bus>>
    BY <1>1 DEF StartBridge
  <2>4. BridgeTyped'
    BY <1>0, <2>1, <2>2, <2>3, Sizes DEF BridgeTyped
  <2>5. proc'[b][session] = "asking"
        /\ \A c \in Bridge, t \in Session : c # b \/ t # session => proc'[c][t] = proc[c][t]
    BY <1>0, <2>1, <2>2, <2>3 DEF BridgeTyped
  <2> HIDE DEF b
  <2>6. ASSUME NEW c \in Bridge, NEW t \in Session PROVE Asked(c, t)'
    <3>1. Asked(c, t)
      BY DEF BridgeInv
    <3>2. CASE c = b /\ t = session
      BY <2>2, <2>3, <2>5, <3>1, <3>2 DEF Asked
    <3>3. CASE ~(c = b /\ t = session)
      BY <2>3, <2>5, <3>1, <3>3 DEF Asked
    <3> QED
      BY <3>2, <3>3
  <2>7. \A c \in Bridge, t \in Session : t > session' => proc'[c][t] = "none"
    BY <2>1, <2>3, <2>5 DEF BridgeInv, Session
  <2>8. ASSUME NEW i \in DOMAIN Bridges, i > started' PROVE proc'[Bridges[i]][session'] = "none"
    <3>1. i # started + 1 /\ i > started
      BY <2>1, <2>3, <2>8, Sizes
    <3>2. Bridges[i] # b /\ Bridges[i] \in Bridge
      BY <2>1, <3>1, AshSessionAssumption, Sizes DEF b
    <3> QED
      BY <2>1, <2>3, <2>5, <3>1, <3>2 DEF BridgeInv
  <2> QED
    BY <2>4, <2>6, <2>7, <2>8 DEF BridgeInv
<1>2. CASE NewSession
  <2>1. session' = session + 1 /\ started' = 0 /\ UNCHANGED <<proc, asked, bus>>
        /\ session < MaxSessions
    BY <1>2 DEF NewSession, bridges
  <2>2. session' \in Session /\ session \in Nat
    BY <1>0, <2>1, Sizes DEF BridgeTyped, Session
  <2>3. BridgeTyped'
    BY <1>0, <2>1, <2>2, Sizes DEF BridgeTyped
  <2>4. \A b \in Bridge, s \in Session : Asked(b, s)'
    BY <2>1 DEF BridgeInv, Asked
  <2>5. \A b \in Bridge, s \in Session : s > session' => proc'[b][s] = "none"
    BY <2>1, <2>2 DEF BridgeInv, Session
  <2>6. \A i \in DOMAIN Bridges : proc'[Bridges[i]][session'] = "none"
    BY <2>1, <2>2, Sizes DEF BridgeInv, Session
  <2> QED
    BY <2>3, <2>4, <2>5, <2>6 DEF BridgeInv
<1>3. CASE Told
  <2>1. UNCHANGED <<asked, bus, session, started>>
        /\ proc' = [b \in Bridge |-> [s \in Session |->
             IF proc[b][s] \in {"asking", "up"} THEN "told" ELSE proc[b][s]]]
    BY <1>3 DEF Told, StopBridges
  <2>2. \A b \in Bridge, s \in Session :
          proc'[b][s] = IF proc[b][s] \in {"asking", "up"} THEN "told" ELSE proc[b][s]
    BY <2>1
  <2>3. BridgeTyped'
    BY <1>0, <2>1 DEF BridgeTyped
  <2>4. \A b \in Bridge, s \in Session : Asked(b, s)'
    BY <2>1, <2>2 DEF BridgeInv, Asked
  <2>5. \A b \in Bridge, s \in Session : proc[b][s] = "none" => proc'[b][s] = "none"
    BY <2>2
  <2> QED
    BY <1>0, <2>1, <2>3, <2>4, <2>5, Sizes DEF BridgeInv, BridgeTyped
<1>4. ASSUME NEW b \in Bridge, NEW s \in Session, RequestName(b, s) \/ BridgeExit(b, s)
      PROVE  BridgeInv'
  <2>1. UNCHANGED <<session, started>> /\ proc[b][s] # "none"
    BY <1>4 DEF RequestName, BridgeExit, script
  <2>2. Leave(b, s)
        \/ /\ proc[b][s] = "asking" /\ bus[<<b, asked[b][s] + 1>>] = Nobody
           /\ Ask(b, s, <<b, asked[b][s] + 1>>)
    BY <1>4 DEF RequestName, BridgeExit
  <2>3. /\ asked' \in [Bridge -> [Session -> Nat]]
        /\ proc' \in [Bridge -> [Session -> {"none", "asking", "up", "told", "gone"}]]
        /\ bus' \in [BusName -> Session \cup {Nobody}]
        /\ \A c \in Bridge, t \in Session : Asked(c, t)'
        /\ \A c \in Bridge, t \in Session : c # b \/ t # s => proc'[c][t] = proc[c][t]
    BY <2>2, AskKeeps, LeaveKeeps
  <2>4. BridgeTyped'
    BY <1>0, <2>1, <2>3 DEF BridgeTyped
  <2>5. \A c \in Bridge, t \in Session : proc[c][t] = "none" => proc'[c][t] = "none"
    BY <2>1, <2>3
  <2> QED
    BY <1>0, <2>1, <2>3, <2>4, <2>5, Sizes DEF BridgeInv, BridgeTyped
<1>5. CASE UNCHANGED <<proc, asked, bus, session, started>>
  BY <1>5 DEF BridgeInv, BridgeTyped, Asked
<1> QED
  BY <1>1, <1>2, <1>3, <1>4, <1>5 DEF BridgesStep

(* However the processes of two sessions interleave, two processes of one  *)
(* bridge never share its names between them (SE 198-210, CO 870-889).     *)
THEOREM NamesAlwaysTogether == Spec => []NamesTogether
<1>1. BridgeInv => NamesTogether
  <2> SUFFICES ASSUME BridgeInv, NEW b \in Bridge, NEW j \in 1..Names[b], NEW k \in 1..Names[b],
                      bus[<<b, j>>] # Nobody, bus[<<b, k>>] # Nobody
               PROVE  bus[<<b, j>>] = bus[<<b, k>>]
    BY DEF NamesTogether
  <2>1. Names[b] \in Nat \ {0} /\ 1 \in 1..Names[b]
    BY Sizes
  <2>2. bus[<<b, j>>] \in Session /\ bus[<<b, k>>] \in Session
    BY Named DEF BridgeInv, BridgeTyped
  <2>3. ASSUME NEW m \in 1..Names[b], bus[<<b, m>>] \in Session
        PROVE  bus[<<b, 1>>] = bus[<<b, m>>]
    <3> DEFINE s == bus[<<b, m>>]
    <3>1. Asked(b, s) /\ asked[b][s] \in Nat
      BY <2>3 DEF BridgeInv, BridgeTyped
    <3>2. 1 <= asked[b][s]
      BY <2>1, <3>1 DEF Asked
    <3> QED
      BY <2>1, <3>1, <3>2 DEF Asked
  <2> QED
    BY <2>2, <2>3
<1> QED
  BY <1>1, BridgeInit, BridgeKeeps, PTL DEF Spec

-----------------------------------------------------------------------------
(* The rest of the state.                                                  *)

RestTyped ==
  /\ pc \in {"bridges", "clear", "launch", "socket", "xready", "wait",
             "cleanup", "reap", "exit", "over"}
  /\ stub \in [Session -> {"none", "forked", "removed", "listening", "told", "gone"}]
  /\ path \in Session \cup {Nobody}
  /\ ash \in {"none", "starting", "running", "gone"}
  /\ socket \in Session \cup {Nobody}
  /\ sommelier \in BOOLEAN /\ quitFile \in BOOLEAN
  /\ clean \in BOOLEAN /\ termed \in BOOLEAN /\ killed \in BOOLEAN

LEMMA RestKeeps == session \in Session /\ RestTyped /\ [Next]_vars => RestTyped'
<1> SUFFICES ASSUME session \in Session, RestTyped, [Next]_vars PROVE RestTyped'
  OBVIOUS
<1> USE DEF RestTyped, At, script, bridges, mojo, desktop, history
<1>1. CASE StartBridge \/ StartStub
  BY <1>1 DEF StartBridge, StartStub
<1>2. CASE RemoveStale \/ LaunchAsh \/ SocketSeen
  BY <1>2 DEF RemoveStale, LaunchAsh, SocketSeen
<1>3. CASE XWaited \/ AshEnded \/ StopSommelier \/ KillAsh
  BY <1>3 DEF XWaited, AshEnded, StopSommelier, KillAsh
<1>4. CASE ExitTrap \/ TermTrap
  <2>1. stub' \in [Session -> {"none", "forked", "removed", "listening", "told", "gone"}]
    BY <1>4 DEF ExitTrap, TermTrap, stop_all_bridges, StopBridges
  <2> QED
    BY <1>4, <2>1 DEF ExitTrap, TermTrap, stop_all_bridges
<1>5. ASSUME NEW s \in Session, StubStep(s) PROVE RestTyped'
  BY <1>5 DEF StubStep, StubRemove, StubListen, StubExit
<1>6. ASSUME NEW b \in Bridge, NEW s \in Session, BridgeStep(b, s) PROVE RestTyped'
  BY <1>6 DEF BridgeStep, RequestName, BridgeExit
<1>7. CASE AshUp \/ AshExit \/ StopSession
  BY <1>7 DEF AshUp, AshExit, StopSession
<1>8. CASE AnswerPrompts \/ AshPrompts
  BY <1>8 DEF AnswerPrompts, AshPrompts
<1>9. CASE KillScript \/ NewSession
  <2>1. clean' \in BOOLEAN
    BY <1>9 DEF KillScript, NewSession
  <2> QED
    BY <1>9, <2>1 DEF KillScript, NewSession
<1>10. CASE UNCHANGED vars
  BY <1>10 DEF vars
<1> QED
  BY <1>1, <1>2, <1>3, <1>4, <1>5, <1>6, <1>7, <1>8, <1>9, <1>10 DEF Next, Process, Script

(* All invariants that later ones rest on.                                 *)
Base == LoginInv /\ BridgeInv /\ RestTyped

LEMMA BaseInit == Init => Base
<1>1. Init => RestTyped
  BY DEF Init, RestTyped, Nobody
<1> QED
  BY <1>1, LoginInit, BridgeInit DEF Base, Init

LEMMA BaseKeeps == Base /\ [Next]_vars => Base'
BY LoginKeeps, BridgeKeeps, RestKeeps DEF Base, BridgeInv, BridgeTyped

(* Type correctness, for any number of bridges, names and sessions.        *)
THEOREM TypeCorrect == Spec => []TypeOK
<1>1. Base => TypeOK
  BY DEF Base, LoginInv, BridgeInv, BridgeTyped, RestTyped, TypeOK
<1> QED
  BY <1>1, BaseInit, BaseKeeps, PTL DEF Spec

-----------------------------------------------------------------------------
(* The end.  Once the script has passed StopSommelier and KillAsh neither  *)
(* comes back, and once it has ended no process is left that has not been  *)
(* told to stop.                                                           *)

EndInv ==
  /\ Base
  /\ pc \in {"reap", "exit"} => ~sommelier
  /\ pc = "exit" => ash = "gone"
  /\ NothingOutlives

LEMMA EndKeeps == EndInv /\ [Next]_vars => EndInv'
<1> SUFFICES ASSUME EndInv, [Next]_vars PROVE EndInv'
  OBVIOUS
<1>0. Base' /\ Base /\ RestTyped
  BY BaseKeeps DEF EndInv, Base
<1> USE DEF EndInv, RestTyped, At, NothingOutlives, mojo, bridges, desktop, history, script
<1>1. CASE StartBridge \/ StartStub \/ RemoveStale \/ LaunchAsh \/ SocketSeen \/ XWaited \/ AshEnded
  BY <1>0, <1>1
  DEF StartBridge, StartStub, RemoveStale, LaunchAsh, SocketSeen, XWaited, AshEnded
<1>2. CASE StopSommelier \/ KillAsh
  BY <1>0, <1>2 DEF StopSommelier, KillAsh
<1>3. CASE ExitTrap \/ TermTrap
  <2>1. StopBridges(Session) /\ UNCHANGED <<ash, sommelier, killed>>
    BY <1>3 DEF ExitTrap, TermTrap, stop_all_bridges
  <2>2. \A s \in Session : /\ stub'[s] \in {"none", "told", "gone"}
                           /\ \A b \in Bridge : proc'[b][s] \in {"none", "told", "gone"}
    BY <1>0, <2>1 DEF StopBridges, Base, BridgeInv, BridgeTyped
  <2>3. CASE ExitTrap
    BY <1>0, <2>1, <2>2, <2>3 DEF ExitTrap
  <2>4. CASE TermTrap
    BY <1>0, <2>1, <2>2, <2>4 DEF TermTrap
  <2> QED
    BY <1>3, <2>3, <2>4
<1>4. ASSUME NEW s \in Session, StubStep(s) PROVE EndInv'
  BY <1>0, <1>4 DEF StubStep, StubRemove, StubListen, StubExit
<1>5. ASSUME NEW b \in Bridge, NEW s \in Session, BridgeStep(b, s) PROVE EndInv'
  <2>1. UNCHANGED <<script, mojo, desktop, history>> /\ proc[b][s] \in {"asking", "told"}
    BY <1>5 DEF BridgeStep, RequestName, BridgeExit
  <2>2. proc[b][s] = "told" => Leave(b, s)
    BY <1>5 DEF BridgeStep, RequestName, BridgeExit
  <2>3. CASE proc[b][s] = "told"
    <3>1. proc'[b][s] = "gone"
          /\ \A c \in Bridge, t \in Session : c # b \/ t # s => proc'[c][t] = proc[c][t]
      BY <1>0, <2>2, <2>3, LeaveKeeps DEF Base
    <3> QED
      BY <1>0, <2>1, <3>1
  <2>4. CASE proc[b][s] = "asking"
    BY <1>0, <2>1, <2>4
  <2> QED
    BY <2>1, <2>3, <2>4
<1>6. CASE AshUp \/ AshExit \/ StopSession \/ AnswerPrompts \/ AshPrompts
  BY <1>0, <1>6 DEF AshUp, AshExit, StopSession, AnswerPrompts, AshPrompts
<1>7. CASE KillScript \/ NewSession
  BY <1>0, <1>7 DEF KillScript, NewSession
<1>8. CASE UNCHANGED vars
  BY <1>0, <1>8 DEF vars
<1> QED
  BY <1>1, <1>2, <1>3, <1>4, <1>5, <1>6, <1>7, <1>8 DEF Next, Process, Script

(* A script that comes to its end leaves nothing running that has not been *)
(* told to stop, even of scripts that were killed (AS 44-55, 249-257).     *)
THEOREM NothingEverOutlives == Spec => []NothingOutlives
<1>1. Init => EndInv
  BY BaseInit DEF Init, EndInv, NothingOutlives
<1>2. EndInv => NothingOutlives
  BY DEF EndInv
<1> QED
  BY <1>1, <1>2, EndKeeps, PTL DEF Spec

-----------------------------------------------------------------------------
(* The beginning.  Ash is not there before it is launched, and from the    *)
(* removal of what earlier sessions left the socket is this session's.     *)

FreshInv ==
  /\ Base /\ QuitFileIsFresh
  /\ pc \in {"bridges", "clear", "launch"} => ash = "none"
  /\ pc \notin {"bridges", "clear", "over"} => socket \in {Nobody, session}

LEMMA FreshKeeps ==
  FreshInv /\ [Next]_vars => FreshInv' /\ (~sommelier /\ sommelier' => socket = session)
<1> SUFFICES ASSUME FreshInv, [Next]_vars
             PROVE  FreshInv' /\ (~sommelier /\ sommelier' => socket = session)
  OBVIOUS
<1>0. Base' /\ RestTyped
  BY BaseKeeps DEF FreshInv, Base
<1> USE DEF FreshInv, RestTyped, At, QuitFileIsFresh, mojo, bridges, desktop, history, script
<1>1. CASE StartBridge \/ StartStub \/ RemoveStale \/ LaunchAsh
  BY <1>0, <1>1 DEF StartBridge, StartStub, RemoveStale, LaunchAsh
<1>2. CASE SocketSeen \/ XWaited \/ AshEnded
  BY <1>0, <1>2 DEF SocketSeen, XWaited, AshEnded
<1>3. CASE StopSommelier \/ KillAsh \/ ExitTrap \/ TermTrap
  BY <1>0, <1>3 DEF StopSommelier, KillAsh, ExitTrap, TermTrap
<1>4. ASSUME NEW s \in Session, StubStep(s)
      PROVE  FreshInv' /\ (~sommelier /\ sommelier' => socket = session)
  BY <1>0, <1>4 DEF StubStep, StubRemove, StubListen, StubExit
<1>5. ASSUME NEW b \in Bridge, NEW s \in Session, BridgeStep(b, s)
      PROVE  FreshInv' /\ (~sommelier /\ sommelier' => socket = session)
  BY <1>0, <1>5 DEF BridgeStep, RequestName, BridgeExit
<1>6. CASE AshUp \/ AshExit \/ StopSession \/ AnswerPrompts \/ AshPrompts
  BY <1>0, <1>6 DEF AshUp, AshExit, StopSession, AnswerPrompts, AshPrompts
<1>7. CASE KillScript \/ NewSession
  <2>1. \/ pc' = "over" /\ ash' = "gone" /\ sommelier' = FALSE
        \/ pc' = "bridges" /\ ash' = "none" /\ sommelier' = sommelier
    BY <1>7 DEF KillScript, NewSession
  <2> QED
    BY <1>0, <2>1
<1>8. CASE UNCHANGED vars
  BY <1>0, <1>8 DEF vars
<1> QED
  BY <1>1, <1>2, <1>3, <1>4, <1>5, <1>6, <1>7, <1>8 DEF Next, Process, Script

LEMMA FreshInit == Init => FreshInv
BY BaseInit DEF Init, FreshInv, QuitFileIsFresh

(* No session comes to Ash with an earlier quit file (AS 169-174).         *)
THEOREM QuitFileAlwaysFresh == Spec => []QuitFileIsFresh
<1>1. FreshInv => QuitFileIsFresh
  BY DEF FreshInv
<1> QED
  BY <1>1, FreshInit, FreshKeeps, PTL DEF Spec

(* sommelier is started on the socket of this session's Ash, whatever a    *)
(* crash has left (AS 172, 211-226).                                       *)
THEOREM SommelierAlwaysFindsAsh == Spec => SommelierFindsAsh
BY FreshInit, FreshKeeps, PTL DEF Spec, SommelierFindsAsh

-----------------------------------------------------------------------------
(* A session that found no process of an earlier one, and is not sent      *)
(* TERM: its bridges are those of the script, and nobody else is about.    *)

Alone ==
  /\ \A t \in Session : t # session =>
       /\ stub[t] \in {"none", "gone"}
       /\ \A b \in Bridge : proc[b][t] \in {"none", "gone"}
  /\ \A i \in 1..started : proc[Bridges[i]][session] \in {"asking", "up"}
  /\ stub[session] = "listening" => path = session

LostInv ==
  /\ Base
  /\ \A t \in Session : t > session => stub[t] = "none"
  /\ clean /\ ~termed /\ pc # "over" => Alone

LEMMA LaterStubs ==
  ASSUME Base, [Next]_vars, \A t \in Session : t > session => stub[t] = "none"
  PROVE  \A t \in Session : t > session' => stub'[t] = "none"
<1> USE DEF Base, BridgeInv, BridgeTyped, RestTyped, Session
<1>1. session \in Nat
  OBVIOUS
<1>2. CASE StartStub
  BY <1>1, <1>2 DEF StartStub, At
<1>3. ASSUME NEW s \in Session, StubStep(s)
      PROVE  \A t \in Session : t > session' => stub'[t] = "none"
  <2>1. stub[s] # "none" /\ session' = session /\ \A t \in Session : t # s => stub'[t] = stub[t]
    BY <1>3 DEF StubStep, StubRemove, StubListen, StubExit, script
  <2> QED
    BY <2>1
<1>4. CASE ExitTrap \/ TermTrap
  BY <1>4 DEF ExitTrap, TermTrap, stop_all_bridges, StopBridges, At
<1>5. CASE NewSession
  <2>1. session' = session + 1 /\ stub' = stub
    BY <1>5 DEF NewSession, mojo
  <2> QED
    BY <1>1, <2>1
<1>6. CASE UNCHANGED <<session, stub>>
  BY <1>6
<1>7. CASE Script
  BY <1>2, <1>4, <1>6, <1>7
  DEF Script, StartBridge, RemoveStale, LaunchAsh, SocketSeen, XWaited, AshEnded,
      StopSommelier, KillAsh, At, mojo
<1>8. ASSUME NEW b \in Bridge, NEW s \in Session, BridgeStep(b, s) PROVE UNCHANGED <<session, stub>>
  BY <1>8 DEF BridgeStep, RequestName, BridgeExit, script, mojo
<1>9. CASE AnswerPrompts \/ AshPrompts \/ KillScript \/ AshUp \/ AshExit \/ StopSession
           \/ UNCHANGED vars
  BY <1>6, <1>9
  DEF AnswerPrompts, AshPrompts, KillScript, AshUp, AshExit, StopSession, script, mojo, vars
<1> QED
  BY <1>3, <1>4, <1>5, <1>6, <1>7, <1>8, <1>9 DEF Next, Process

(* The bridge of such a session finds its next name free.                  *)
LEMMA NameFree ==
  ASSUME Base, Alone, NEW b \in Bridge, proc[b][session] = "asking"
  PROVE  bus[<<b, asked[b][session] + 1>>] = Nobody
<1> DEFINE k == asked[b][session] + 1
<1>1. BridgeTyped /\ Asked(b, session) /\ Names[b] \in Nat \ {0}
  BY Sizes DEF Base, BridgeInv, BridgeTyped
<1>2. asked[b][session] \in Nat /\ k \in 1..Names[b]
  BY <1>1 DEF BridgeTyped, Asked
<1>3. bus[<<b, k>>] \in Session \cup {Nobody}
  BY <1>1, <1>2, Named DEF BridgeTyped
<1>4. ASSUME NEW t \in Session, bus[<<b, k>>] = t PROVE FALSE
  <2>1. Asked(b, t) /\ asked[b][t] \in Nat
    BY <1>1 DEF Base, BridgeInv, BridgeTyped
  <2>2. k <= asked[b][t]
    BY <1>2, <1>4, <2>1 DEF Asked
  <2>3. t = session
    BY <1>2, <2>1, <2>2 DEF Alone, Asked
  <2> QED
    BY <1>2, <2>2, <2>3
<1> QED
  BY <1>3, <1>4

LEMMA LostKeeps == LostInv /\ [Next]_vars => LostInv'
<1> SUFFICES ASSUME LostInv, [Next]_vars, clean', ~termed', pc' # "over" PROVE Alone'
  BY BaseKeeps, LaterStubs DEF LostInv
<1>0. Base /\ Base' /\ BridgeTyped /\ RestTyped
  BY BaseKeeps DEF LostInv, Base, BridgeInv
<1>1. CASE NewSession
  <2>1. session' = session + 1 /\ started' = 0 /\ UNCHANGED <<proc, stub>> /\ session \in Nat
    BY <1>0, <1>1 DEF NewSession, bridges, mojo, BridgeTyped, Session
  <2>2. \A t \in 1..session : /\ stub[t] \in {"none", "gone"}
                              /\ \A b \in Bridge : proc[b][t] \in {"none", "gone"}
    BY <1>1 DEF NewSession
  <2>3. \A t \in Session : t > session =>
          stub[t] = "none" /\ \A b \in Bridge : proc[b][t] = "none"
    BY <1>0 DEF LostInv, Base, BridgeInv
  <2>4. \A t \in Session : t \in 1..session \/ t > session
    BY <2>1 DEF Session
  <2>5. session' \in Session /\ session' > session
    BY <1>0, <2>1 DEF Base, BridgeInv, BridgeTyped
  <2>6. \A t \in Session : /\ stub[t] \in {"none", "gone"}
                          /\ \A b \in Bridge : proc[b][t] \in {"none", "gone"}
    BY <2>2, <2>3, <2>4
  <2>7. stub'[session'] = "none" /\ 1..started' = {}
    BY <1>0, <2>1, <2>5 DEF LostInv
  <2> QED
    BY <2>1, <2>6, <2>7 DEF Alone
<1>2. CASE TermTrap \/ ExitTrap \/ KillScript
  BY <1>2 DEF TermTrap, ExitTrap, KillScript, At
<1> SUFFICES ASSUME ~NewSession, ~TermTrap, ~ExitTrap, ~KillScript PROVE Alone'
  BY <1>1, <1>2
<1>3. clean /\ ~termed /\ pc # "over" /\ session' = session
  <2>0. clean \in BOOLEAN /\ termed \in BOOLEAN
    BY <1>0 DEF RestTyped
  <2> USE <2>0 DEF At, script, history
  <2>1. CASE Script
    <3>1. CASE StartBridge \/ StartStub \/ RemoveStale \/ LaunchAsh \/ SocketSeen
      BY <3>1 DEF StartBridge, StartStub, RemoveStale, LaunchAsh, SocketSeen
    <3>2. CASE XWaited \/ AshEnded \/ StopSommelier \/ KillAsh
      BY <3>2 DEF XWaited, AshEnded, StopSommelier, KillAsh
    <3> QED
      BY <2>1, <3>1, <3>2 DEF Script
  <2>2. ASSUME NEW t \in Session, StubStep(t) PROVE UNCHANGED <<script, history>>
    BY <2>2 DEF StubStep, StubRemove, StubListen, StubExit
  <2>3. ASSUME NEW b \in Bridge, NEW t \in Session, BridgeStep(b, t)
        PROVE  UNCHANGED <<script, history>>
    BY <2>3 DEF BridgeStep, RequestName, BridgeExit
  <2>4. CASE AnswerPrompts \/ AshUp \/ AshExit \/ AshPrompts \/ StopSession \/ UNCHANGED vars
    BY <2>4 DEF AnswerPrompts, AshUp, AshExit, AshPrompts, StopSession, vars
  <2>5. ASSUME UNCHANGED <<script, history>>
        PROVE  clean /\ ~termed /\ pc # "over" /\ session' = session
    <3>1. clean' = clean /\ termed' = termed /\ pc' = pc /\ session' = session
      BY <2>5
    <3> QED
      BY <3>1
  <2> QED
    BY <2>1, <2>2, <2>3, <2>4, <2>5 DEF Next, Process
<1>4. Alone
  BY <1>3 DEF LostInv
<1>5. CASE StartBridge
  <2> DEFINE b == Bridges[started + 1]
  <2>1. proc' = [proc EXCEPT ![b][session] = "asking"] /\ started' = started + 1
        /\ UNCHANGED <<stub, path>> /\ started < Len(Bridges)
    BY <1>5 DEF StartBridge, mojo
  <2>2. started + 1 \in 1..Len(Bridges) /\ started \in Nat /\ b \in Bridge /\ session \in Session
    BY <1>0, <2>1, Sizes DEF BridgeTyped
  <2>3. \A c \in Bridge, t \in Session :
          proc'[c][t] = IF c = b /\ t = session THEN "asking" ELSE proc[c][t]
    BY <1>0, <2>1, <2>2 DEF BridgeTyped
  <2>4. \A i \in 1..started' : i = started + 1 \/ i \in 1..started
    BY <2>1, <2>2
  <2>5. \A i \in 1..started' : Bridges[i] \in Bridge
    BY <2>1, <2>2, Sizes
  <2>6. \A i \in 1..started' : proc'[Bridges[i]][session] \in {"asking", "up"}
    BY <1>4, <2>2, <2>3, <2>4, <2>5 DEF Alone
  <2>7. \A t \in Session, c \in Bridge : t # session => proc'[c][t] = proc[c][t]
    BY <2>3
  <2> QED
    BY <1>3, <1>4, <2>1, <2>6, <2>7 DEF Alone
<1>6. CASE StartStub
  BY <1>0, <1>3, <1>4, <1>6 DEF StartStub, At, bridges, Alone, BridgeTyped, RestTyped
<1>7. ASSUME NEW s \in Session, StubStep(s) PROVE Alone'
  <2>1. UNCHANGED <<proc, started>> /\ stub[s] \notin {"none", "gone"}
    BY <1>7 DEF StubStep, StubRemove, StubListen, StubExit, bridges, script
  <2>2. s = session
    BY <1>4, <2>1 DEF Alone
  <2>3. (stub'[s] = "listening" => path' = s) /\ \A t \in Session : t # s => stub'[t] = stub[t]
    BY <1>0, <1>7 DEF StubStep, StubRemove, StubListen, StubExit, RestTyped
  <2> QED
    BY <1>3, <1>4, <2>1, <2>2, <2>3 DEF Alone
<1>8. ASSUME NEW b \in Bridge, NEW s \in Session, BridgeStep(b, s) PROVE Alone'
  <2>1. UNCHANGED <<stub, path, started>> /\ proc[b][s] \in {"asking", "told"}
    BY <1>8 DEF BridgeStep, RequestName, BridgeExit, mojo, script
  <2>2. s = session
    BY <1>4, <2>1 DEF Alone
  <2>3. CASE proc[b][s] = "asking"
    <3>1. bus[<<b, asked[b][s] + 1>>] = Nobody
      BY <1>0, <1>4, <2>2, <2>3, NameFree
    <3>2. Ask(b, s, <<b, asked[b][s] + 1>>)
      BY <1>8, <2>3, <3>1 DEF BridgeStep, RequestName, BridgeExit
    <3>3. /\ proc'[b][s] \in {"asking", "up"}
          /\ \A c \in Bridge, t \in Session : c # b \/ t # s => proc'[c][t] = proc[c][t]
      BY <1>0, <2>3, <3>1, <3>2, AskKeeps DEF Base
    <3>4. \A i \in 1..started : Bridges[i] \in Bridge
      BY <1>0, Sizes DEF BridgeTyped
    <3> QED
      BY <1>3, <1>4, <2>1, <2>2, <3>3, <3>4 DEF Alone
  <2>4. CASE proc[b][s] = "told"
    <3>0. \A i \in 1..started : Bridges[i] \in Bridge
      BY <1>0, Sizes DEF BridgeTyped
    <3>1. \A i \in 1..started : Bridges[i] # b
      BY <1>4, <2>2, <2>4 DEF Alone
    <3>2. /\ proc'[b][s] = "gone"
          /\ \A c \in Bridge, t \in Session : c # b \/ t # s => proc'[c][t] = proc[c][t]
      BY <1>0, <1>8, <2>4, LeaveKeeps DEF Base, BridgeStep, RequestName, BridgeExit
    <3> QED
      BY <1>3, <1>4, <2>1, <2>2, <3>0, <3>1, <3>2 DEF Alone
  <2> QED
    BY <2>1, <2>3, <2>4
<1>9. CASE UNCHANGED <<proc, stub, path, started>>
  BY <1>3, <1>4, <1>9 DEF Alone
<1>10. CASE Script
  BY <1>5, <1>6, <1>9, <1>10
  DEF Script, RemoveStale, LaunchAsh, SocketSeen, XWaited, AshEnded, StopSommelier, KillAsh, At,
      bridges, mojo
<1>11. CASE AnswerPrompts \/ AshPrompts \/ AshUp \/ AshExit \/ StopSession \/ UNCHANGED vars
  BY <1>9, <1>11
  DEF AnswerPrompts, AshPrompts, AshUp, AshExit, StopSession, script, bridges, mojo, vars
<1> QED
  BY <1>7, <1>8, <1>9, <1>10, <1>11 DEF Next, Process

(* A session that finds no process of an earlier one, and is not sent      *)
(* TERM, loses no bridge and not the socket of its stub (AS 35-67).        *)
THEOREM NoBridgeEverLost == Spec => []NoBridgeLost
<1>1. Init => LostInv
  <2> SUFFICES ASSUME Init PROVE LostInv
    OBVIOUS
  <2>0. Base /\ 1..started = {} /\ session \in Session
    BY BaseInit DEF Init, Base, BridgeInv, BridgeTyped
  <2>1. Alone
    BY <2>0 DEF Init, Alone
  <2> QED
    BY <2>1, BaseInit DEF Init, LostInv
<1>2. LostInv => NoBridgeLost
  <2> SUFFICES ASSUME LostInv, clean, ~termed, pc # "over", NEW i \in 1..started
               PROVE  LET b == Bridges[i] IN
                      \/ proc[b][session] = "asking"
                      \/ /\ proc[b][session] = "up"
                         /\ \A k \in 1..Names[b] : bus[<<b, k>>] = session
    BY DEF NoBridgeLost, LostInv, Alone
  <2>1. Bridges[i] \in Bridge /\ session \in Session
    BY Sizes DEF LostInv, Base, BridgeInv, BridgeTyped
  <2>2. Asked(Bridges[i], session) /\ asked[Bridges[i]][session] \in Nat
        /\ Names[Bridges[i]] \in Nat
    BY <2>1, Sizes DEF LostInv, Base, BridgeInv, BridgeTyped
  <2>3. proc[Bridges[i]][session] \in {"asking", "up"}
    BY DEF LostInv, Alone
  <2>4. ASSUME NEW b \in Bridge, b = Bridges[i], proc[b][session] = "up", NEW k \in 1..Names[b]
        PROVE  bus[<<b, k>>] = session
    <3>1. Asked(b, session) /\ Names[b] \in Nat
      BY <2>2, <2>4
    <3>2. asked[b][session] = Names[b]
      BY <2>4, <3>1 DEF Asked
    <3>3. k <= Names[b]
      BY <3>1
    <3>4. bus[<<b, k>>] = session <=> k <= asked[b][session]
      BY <3>1 DEF Asked
    <3> QED
      BY <3>2, <3>3, <3>4
  <2> QED
    BY <2>1, <2>3, <2>4
<1> QED
  BY <1>1, <1>2, LostKeeps, PTL DEF Spec
=============================================================================
