------------------------------ MODULE AshSession ------------------------------
(***************************************************************************)
(* One ChromeOS session after another: the script chromeos-ash-session,    *)
(* the bridges and the Mojo stub it starts and tells to stop, the names    *)
(* they take on the system bus, Ash, sommelier, and the prompts Ash makes  *)
(* to session-bridge (LoginPrompts).  The display manager starts a script  *)
(* when the one before has ended; a bridge of that one may still be there. *)
(***************************************************************************)
EXTENDS Integers, Sequences

CONSTANTS
  Bridges,      \* the bridges in the order the script starts them
  Names,        \* each bridge: how many names it asks for, in turn
  Login,        \* the bridge that answers login prompts
  MaxSessions,  \* how many sessions there are
  Prompt, Capacity

Bridge  == {Bridges[i] : i \in DOMAIN Bridges}
Session == 1..MaxSessions
Nobody  == 0

ASSUME AshSessionAssumption ==
  /\ Bridges \in Seq(Bridge) /\ Login \in Bridge
  /\ \A i, j \in DOMAIN Bridges : Bridges[i] = Bridges[j] => i = j
  /\ Names \in [Bridge -> Nat \ {0}]
  /\ MaxSessions \in Nat \ {0} /\ Capacity \in Nat \ {0}

VARIABLES
  session, pc, started,  \* the script: which, where, how many bridges started
  proc, asked,           \* each bridge and session: its process, names asked for
  bus,                   \* the owner of each name
  stub, path,            \* each session: its Mojo stub; who made the socket there
  ash, socket,           \* Ash; which session's Ash made the Wayland socket there
  sommelier, quitFile,   \* does it run?  is there /tmp/ash-session-quit?
  clean, termed,         \* history: no process left at the start; TERM since
  killed,                \* history: was the script killed outright?
  queued, consumer, prompts, unanswered, emitted  \* LoginPrompts

LP == INSTANCE LoginPrompts

script  == <<session, pc, started>>
bridges == <<proc, asked, bus>>
mojo    == <<stub, path>>
desktop == <<ash, socket, sommelier, quitFile>>
history == <<clean, termed, killed>>
login   == <<queued, consumer, prompts, unanswered, emitted>>
vars    == <<script, bridges, mojo, desktop, history, login>>

BusName == UNION {{b} \X (1..Names[b]) : b \in Bridge}

TypeOK ==
  /\ session \in Session /\ started \in 0..Len(Bridges)
  /\ pc \in {"bridges", "clear", "launch", "socket", "xready", "wait",
             "cleanup", "reap", "exit", "over"}
  /\ proc \in [Bridge -> [Session -> {"none", "asking", "up", "told", "gone"}]]
  /\ asked \in [Bridge -> [Session -> Nat]]
  /\ bus \in [BusName -> Session \cup {Nobody}]
  /\ stub \in [Session -> {"none", "forked", "removed", "listening", "told", "gone"}]
  /\ path \in Session \cup {Nobody}
  /\ ash \in {"none", "starting", "running", "gone"}
  /\ socket \in Session \cup {Nobody}
  /\ sommelier \in BOOLEAN /\ quitFile \in BOOLEAN
  /\ clean \in BOOLEAN /\ termed \in BOOLEAN /\ killed \in BOOLEAN
  /\ LP!TypeOK

Init ==
  /\ session = 1 /\ pc = "bridges" /\ started = 0
  /\ proc = [b \in Bridge |-> [s \in Session |-> "none"]]
  /\ asked = [b \in Bridge |-> [s \in Session |-> 0]]
  /\ bus = [n \in BusName |-> Nobody]
  /\ stub = [s \in Session |-> "none"] /\ path = Nobody
  /\ ash = "none" /\ socket = Nobody
  /\ sommelier = FALSE /\ quitFile = FALSE
  /\ clean = TRUE /\ termed = FALSE /\ killed = FALSE
  /\ LP!Init

-----------------------------------------------------------------------------
(* A bridge: ask for each name in turn without queueing, and exit when one *)
(* is held; once told to stop, exit.  Exiting gives up all its names.      *)

(* What session-bridge has not answered is lost with it. *)
ForgetPrompts(b, s) ==
  IF b = Login /\ bus[<<b, 1>>] = s
  THEN /\ queued' = 0 /\ consumer' = "receive" /\ unanswered' = {}
       /\ UNCHANGED <<prompts, emitted>>
  ELSE UNCHANGED login

Leave(b, s) ==
  /\ proc' = [proc EXCEPT ![b][s] = "gone"]
  /\ asked' = [asked EXCEPT ![b][s] = 0]
  /\ bus' = [n \in BusName |-> IF n[1] = b /\ bus[n] = s THEN Nobody ELSE bus[n]]
  /\ ForgetPrompts(b, s)

Ask(b, s, name) ==
  /\ asked' = [asked EXCEPT ![b][s] = @ + 1]
  /\ proc' = [proc EXCEPT ![b][s] = IF asked'[b][s] = Names[b] THEN "up" ELSE @]
  /\ bus' = IF bus[name] = Nobody THEN [bus EXCEPT ![name] = s] ELSE bus
  /\ UNCHANGED login

(* Mutant: a held name is logged and the next one asked for. *)
RequestName_GoesOn(b, s) ==
  /\ proc[b][s] = "asking"
  /\ Ask(b, s, <<b, asked[b][s] + 1>>)
  /\ UNCHANGED <<script, mojo, desktop, history>>

RequestName(b, s) ==
  /\ proc[b][s] = "asking"
  /\ LET name == <<b, asked[b][s] + 1>>
     IN  IF bus[name] = Nobody THEN Ask(b, s, name) ELSE Leave(b, s)
  /\ UNCHANGED <<script, mojo, desktop, history>>

BridgeExit(b, s) ==
  /\ proc[b][s] = "told"
  /\ Leave(b, s)
  /\ UNCHANGED <<script, mojo, desktop, history>>

-----------------------------------------------------------------------------
(* The Mojo stub removes what is at its path and listens there.            *)

StubRemove(s) ==
  /\ stub[s] = "forked"
  /\ stub' = [stub EXCEPT ![s] = "removed"] /\ path' = Nobody
  /\ UNCHANGED <<script, bridges, desktop, history, login>>

StubListen(s) ==
  /\ stub[s] = "removed"
  /\ \/ path = Nobody /\ stub' = [stub EXCEPT ![s] = "listening"] /\ path' = s
     \/ path # Nobody /\ stub' = [stub EXCEPT ![s] = "gone"] /\ UNCHANGED path
  /\ UNCHANGED <<script, bridges, desktop, history, login>>

(* Closing the listener removes the path, whoever made what is there now;  *)
(* a stub told before it waits for signals dies without closing.           *)
StubExit(s) ==
  /\ stub[s] = "told"
  /\ stub' = [stub EXCEPT ![s] = "gone"] /\ path' \in {path, Nobody}
  /\ UNCHANGED <<script, bridges, desktop, history, login>>

-----------------------------------------------------------------------------
(* The script.                                                             *)

At(here, there) == pc = here /\ pc' = there /\ UNCHANGED <<session, started>>

StopBridges(whose) ==
  /\ proc' = [b \in Bridge |-> [s \in Session |->
       IF s \in whose /\ proc[b][s] \in {"asking", "up"} THEN "told" ELSE proc[b][s]]]
  /\ stub' = [s \in Session |->
       IF s \in whose /\ stub[s] \in {"forked", "removed"} THEN "gone"
       ELSE IF s \in whose /\ stub[s] = "listening" THEN "told" ELSE stub[s]]

(* Mutant: only the processes this script started. *)
stop_all_bridges_Own == StopBridges({session}) /\ UNCHANGED <<asked, bus, path>>

(* By process id those of this script, then by name all there are. *)
stop_all_bridges == StopBridges(Session) /\ UNCHANGED <<asked, bus, path>>

StartBridge ==
  /\ pc = "bridges" /\ started < Len(Bridges)
  /\ proc' = [proc EXCEPT ![Bridges[started + 1]][session] = "asking"]
  /\ started' = started + 1
  /\ UNCHANGED <<session, pc, asked, bus, mojo, desktop, history, login>>

(* Mutant: leftovers are cleared away when everything is started. *)
StartStub_ThenClears ==
  /\ started = Len(Bridges) /\ At("bridges", "clear")
  /\ proc' = [b \in Bridge |-> [s \in Session |->
       IF proc[b][s] \in {"asking", "up"} THEN "told" ELSE proc[b][s]]]
  /\ stub' = [stub EXCEPT ![session] = "forked"]
  /\ UNCHANGED <<asked, bus, path, desktop, history, login>>

StartStub ==
  /\ started = Len(Bridges) /\ At("bridges", "clear")
  /\ stub' = [stub EXCEPT ![session] = "forked"]
  /\ UNCHANGED <<path, bridges, desktop, history, login>>

(* Mutant: what earlier sessions left stays. *)
RemoveStale_NotAtAll ==
  /\ At("clear", "launch")
  /\ UNCHANGED <<desktop, bridges, mojo, history, login>>

(* The registry of apps, which comes here too, is modelled in AppRegistry. *)
RemoveStale ==
  /\ At("clear", "launch")
  /\ quitFile' = FALSE /\ socket' = Nobody
  /\ UNCHANGED <<ash, sommelier, bridges, mojo, history, login>>

LaunchAsh ==
  /\ At("launch", "socket")
  /\ ash' = "starting"
  /\ UNCHANGED <<socket, sommelier, quitFile, bridges, mojo, history, login>>

(* Nothing looks whether Ash is still there. *)
SocketSeen ==
  /\ socket # Nobody /\ At("socket", "xready")
  /\ sommelier' = TRUE
  /\ UNCHANGED <<ash, socket, quitFile, bridges, mojo, history, login>>

(* Half a minute at most; the script goes on with or without an X server.  *)
XWaited == At("xready", "wait") /\ UNCHANGED <<bridges, mojo, desktop, history, login>>

(* Mutant: a bare wait, for all background processes. *)
AshEnded_BareWait ==
  /\ ash = "gone" /\ \A b \in Bridge : proc[b][session] = "gone"
  /\ At("wait", "cleanup")
  /\ UNCHANGED <<bridges, mojo, desktop, history, login>>

AshEnded ==
  /\ ash = "gone" /\ At("wait", "cleanup")
  /\ UNCHANGED <<bridges, mojo, desktop, history, login>>

StopSommelier ==
  /\ At("cleanup", "reap")
  /\ sommelier' = FALSE
  /\ UNCHANGED <<ash, socket, quitFile, bridges, mojo, history, login>>

(* TERM for Ash before the sleep, KILL after it. *)
KillAsh ==
  /\ At("reap", "exit")
  /\ ash' = "gone" /\ quitFile' = FALSE
  /\ UNCHANGED <<socket, sommelier, bridges, mojo, history, login>>

ExitTrap ==
  /\ At("exit", "over")
  /\ stop_all_bridges
  /\ UNCHANGED <<desktop, history, login>>

(* The trap runs when the command under way has ended, and the script goes *)
(* on with the next; only the wait for Ash is cut short.                   *)
TermTrap ==
  /\ pc # "over"
  /\ pc' = IF pc = "wait" THEN "cleanup" ELSE pc
  /\ stop_all_bridges
  /\ termed' = TRUE
  /\ UNCHANGED <<session, started, desktop, clean, killed, login>>

Script ==
  \/ StartBridge \/ StartStub \/ RemoveStale \/ LaunchAsh \/ SocketSeen
  \/ XWaited \/ AshEnded \/ StopSommelier \/ KillAsh \/ ExitTrap

-----------------------------------------------------------------------------
(* Outside: Ash, the display manager.                                      *)

AshUp ==
  /\ ash = "starting"
  /\ ash' = "running" /\ socket' = session
  /\ UNCHANGED <<sommelier, quitFile, script, bridges, mojo, history, login>>

(* At logout, at TERM, or in a crash, which leaves the socket. *)
AshExit ==
  /\ ash \in {"starting", "running"}
  /\ ash' = "gone" /\ socket' \in {socket, Nobody}
  /\ UNCHANGED <<sommelier, quitFile, script, bridges, mojo, history, login>>

(* Whoever owns the name gets the call.  Before its object is exported,    *)
(* right after the name is taken, the call fails and changes nothing: such *)
(* a prompt was not served, and is no step here.                           *)
AshPrompts ==
  /\ ash = "running" /\ bus[<<Login, 1>>] # Nobody
  /\ \E p \in Prompt : LP!EmitLoginPromptVisible(p)
  /\ UNCHANGED <<script, bridges, mojo, desktop, history>>

(* The file is made and nobody looks for it. *)
StopSession ==
  /\ ash = "running" /\ bus[<<Login, 1>>] # Nobody
  /\ quitFile' = TRUE
  /\ UNCHANGED <<ash, socket, sommelier, script, bridges, mojo, history, login>>

(* session-bridge starts its consumer when it has all its names. *)
AnswerPrompts ==
  /\ \A k \in 1..Names[Login] : bus[<<Login, k>>] # Nobody
  /\ LP!Consume
  /\ UNCHANGED <<script, bridges, mojo, desktop, history>>

(* No trap runs; Ash and sommelier end with their displays. *)
KillScript ==
  /\ pc # "over" /\ pc' = "over" /\ killed' = TRUE
  /\ ash' = "gone" /\ sommelier' = FALSE
  /\ UNCHANGED <<session, started, socket, quitFile, clean, termed, bridges, mojo, login>>

NewSession ==
  /\ pc = "over" /\ session < MaxSessions
  /\ session' = session + 1 /\ pc' = "bridges" /\ started' = 0
  /\ ash' = "none" /\ termed' = FALSE /\ killed' = FALSE
  /\ clean' = \A s \in 1..session : /\ stub[s] \in {"none", "gone"}
                                    /\ \A b \in Bridge : proc[b][s] \in {"none", "gone"}
  /\ UNCHANGED <<socket, sommelier, quitFile, bridges, mojo, login>>

BridgeStep(b, s) == RequestName(b, s) \/ BridgeExit(b, s)

StubStep(s) == StubRemove(s) \/ StubListen(s) \/ StubExit(s)

Process ==
  \/ Script \/ AnswerPrompts
  \/ \E s \in Session : StubStep(s) \/ \E b \in Bridge : BridgeStep(b, s)

Next ==
  \/ Process \/ TermTrap \/ KillScript \/ NewSession
  \/ AshUp \/ AshExit \/ AshPrompts \/ StopSession

(* Some process that can run is run.  That is enough for each of them:     *)
(* none can run forever.  Nothing makes Ash start up, prompt or end.       *)
Spec == Init /\ [][Next]_vars /\ WF_vars(Process)

-----------------------------------------------------------------------------
(* Properties.                                                             *)

(* When a script has come to its end, every bridge and stub of its own and *)
(* of scripts that were killed before has been told to stop, and neither   *)
(* Ash nor sommelier is left.                                              *)
NothingOutlives ==
  pc = "over" /\ ~killed =>
    /\ ash = "gone" /\ ~sommelier
    /\ \A s \in Session : /\ stub[s] \in {"none", "told", "gone"}
                          /\ \A b \in Bridge : proc[b][s] \in {"none", "told", "gone"}

(* Two processes of one bridge never share its names between them.         *)
NamesTogether ==
  \A b \in Bridge : \A j, k \in 1..Names[b] :
    bus[<<b, j>>] # Nobody /\ bus[<<b, k>>] # Nobody => bus[<<b, j>>] = bus[<<b, k>>]

(* A session that finds no process of an earlier one, and is not sent      *)
(* TERM, loses no bridge: each is asking for its names or owns them all.   *)
NoBridgeLost ==
  clean /\ ~termed /\ pc # "over" =>
    /\ \A i \in 1..started :
         LET b == Bridges[i] IN
         \/ proc[b][session] = "asking"
         \/ /\ proc[b][session] = "up"
            /\ \A k \in 1..Names[b] : bus[<<b, k>>] = session
    /\ stub[session] = "listening" => path = session

(* sommelier is started on the socket of this session's Ash, whatever a    *)
(* crash has left.                                                         *)
SommelierFindsAsh == [][~sommelier /\ sommelier' => socket = session]_vars

(* No session comes to Ash with the quit file of an earlier one.           *)
QuitFileIsFresh == pc = "launch" \/ ash = "starting" => ~quitFile

(* When Ash ends after its socket was there, the script comes to its end.  *)
SessionEnds ==
  ash = "gone" /\ (socket = session \/ pc \in {"xready", "wait"}) ~> pc = "over"

(* LoginPrompts' promises, while bridges come and go: a dropped token      *)
(* loses no answer, there is no signal without a prompt of its own, and a  *)
(* prompt is answered unless its bridge exits.                             *)
AnswerUnderWay == LP!AnswerUnderWay
OneSignalPerPrompt == LP!OneSignalPerPrompt
EveryPromptAnswered == LP!EveryPromptAnswered
=============================================================================
