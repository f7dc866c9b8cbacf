------------------------------ MODULE CrostiniVm ------------------------------
(***************************************************************************)
(* The virtual machine crostini-bridge pretends to run: StartVm and StopVm *)
(* with the signals that follow StartVm at a distance, the owner every     *)
(* handler learns from its request, and the two goroutines that scan the   *)
(* desktop files.  Delays are not measured: a signal may come at any time  *)
(* after the step before it.                                               *)
(***************************************************************************)
EXTENDS Integers, Sequences

CONSTANTS
  Start, Stop,  \* the StartVm and StopVm calls Ash makes, each once
  User,         \* the ids Ash has for the owner of its virtual machines
  Vm, Reserved, \* "termina"; the six names setOwnerID knows for no owner's
  Name,         \* any other names, of virtual machines and containers say
  Placeholder,  \* "test-user", the owner until one is learned
  None,         \* the empty string, and what is missing
  Requests,     \* what Ash sends to the handlers that learn the owner
  MaxChanges    \* how often desktop files are installed or removed

Field == 1..7

(* A request is a sequence of fields.  A garbled text is not valid UTF-8;  *)
(* a group is a wire type the decoder does not know.                       *)
Entry == [type : {"text", "garbled", "number", "group"},
          field : Field, text : User \cup Reserved \cup Name \cup {None}]

ASSUME CrostiniVmAssumption ==
  /\ Vm \in Reserved /\ (User \cup Name) \cap (Reserved \cup {None}) = {}
  /\ User \cap Name = {}
  /\ Placeholder \notin Reserved \cup {None} /\ None \notin Reserved
  /\ Requests \subseteq Seq(Entry)
  /\ MaxChanges \in Nat

VARIABLES
  owner, ready,      \* owner.id, session.ready
  start, stop,       \* each StartVm and StopVm: its stage
  named,             \* each StartVm: the owner in the signal it is about to emit
  told,              \* was a running container the last Ash was told?
  files, apps,       \* how often desktop files changed; cicerone.apps
  timed, rescan,     \* the two scanning goroutines: the change they began at
  hangup,            \* how many signals the SIGHUP channel holds
  familiar,          \* history, each StartVm: was a user known when it came, and
                     \* has no request since put a Name where the owner is looked for
  stopped,           \* history, each StartVm: was StopVm since
  overlapped,        \* history: have StartVm and StopVm ever overlapped?
  rescanFrom         \* history: files at the last SIGHUP after the first scan

vm      == <<ready, start, stop, named, told, stopped, overlapped>>
scanner == <<files, apps, timed, rescan, hangup, rescanFrom>>
vars    == <<owner, familiar, vm, scanner>>

Owner == User \cup Name \cup {Placeholder}

Asleep == -1
Over   == -2

TypeOK ==
  /\ owner \in Owner
  /\ ready \in BOOLEAN /\ told \in BOOLEAN /\ overlapped \in BOOLEAN
  /\ start \in [Start -> {"new", "boot", "vm", "settle", "container", "done"}]
  /\ stop \in [Stop -> {"new", "mark", "reply", "done"}]
  /\ named \in [Start -> Owner \cup {None}]
  /\ familiar \in [Start -> BOOLEAN] /\ stopped \in [Start -> BOOLEAN]
  /\ files \in 0..MaxChanges /\ apps \in 0..MaxChanges
  /\ timed \in 0..MaxChanges \cup {Asleep, Over}
  /\ rescan \in 0..MaxChanges \cup {Asleep}
  /\ hangup \in 0..1 /\ rescanFrom \in 0..MaxChanges

Init ==
  /\ owner = Placeholder
  /\ ready = FALSE /\ told = FALSE /\ overlapped = FALSE
  /\ start = [s \in Start |-> "new"]
  /\ stop = [p \in Stop |-> "new"]
  /\ named = [s \in Start |-> None]
  /\ familiar = [s \in Start |-> FALSE] /\ stopped = [s \in Start |-> FALSE]
  /\ files = 0 /\ apps = 0
  /\ timed = Asleep /\ rescan = Asleep
  /\ hangup = 0 /\ rescanFrom = 0

-----------------------------------------------------------------------------
(* Reading a request and learning the owner.                               *)

(* Decoding ends at a wire type it does not know; of several texts for a   *)
(* field the last valid one counts.                                        *)
decodeStringFields(req) ==
  [f \in Field |->
     LET at == {i \in DOMAIN req : /\ req[i].type = "text" /\ req[i].field = f
                                   /\ \A j \in 1..i : req[j].type # "group"}
     IN  IF at = {} THEN None
         ELSE req[CHOOSE i \in at : \A j \in at : j <= i].text]

OwnerFields == <<2, 1, 7, 5, 3>>

(* The first field that holds anything, whatever it holds. *)
OwnerIn(fields) ==
  LET held == {i \in DOMAIN OwnerFields : fields[OwnerFields[i]] # None}
  IN  IF held = {} THEN None
      ELSE fields[OwnerFields[CHOOSE i \in held : \A j \in held : i <= j]]

(* Mutant: the name of the virtual machine passes for an owner. *)
setOwnerID_AnyName(v) == owner' = IF v \in {None} \cup (Reserved \ {Vm}) THEN owner ELSE v

(* Six fixed names are no owner's; any other is taken for one. *)
setOwnerID(v) == owner' = IF v \in {None} \cup Reserved THEN owner ELSE v

learnOwnerID(req) == setOwnerID(OwnerIn(decodeStringFields(req)))

(* History: a request that holds a Name in a field that is looked at may   *)
(* displace the user.                                                      *)
Heard(req, looked) ==
  familiar' = IF \E f \in looked : decodeStringFields(req)[f] \in Name
              THEN [s \in Start |-> FALSE] ELSE familiar

LearnFields == {1, 2, 3, 5, 7}

(* GetVmLaunchAllowed, ListVms, ListVmDisks, GetVmInfo, CreateDiskImage,   *)
(* ListRunningContainers, the LXD calls, GetGarconSessionInfo: they change *)
(* nothing but the owner.                                                  *)
Learn(req) ==
  /\ learnOwnerID(req)
  /\ Heard(req, LearnFields)
  /\ UNCHANGED <<vm, scanner>>

(* LaunchContainerApplication has the owner in field 4. *)
Launch(req) ==
  /\ setOwnerID(decodeStringFields(req)[4])
  /\ Heard(req, {4})
  /\ UNCHANGED <<vm, scanner>>

(* What GetVmInfo answers for a name after that, and whom ListVms names. *)
GetVmInfoSuccess(name) == name = Vm /\ ready
ListVmsOwner == owner

-----------------------------------------------------------------------------
(* StartVm and its goroutine; StopVm.                                      *)

Starting(s) == start[s] \notin {"new", "done"}
Stopping(p) == stop[p] \notin {"new", "done"}

StartAt(s, stage) == start' = [start EXCEPT ![s] = stage]

(* Mutant: a second start changes nothing while the first is under way. *)
StartVm_UnlessStarting(s) ==
  /\ start[s] = "new"
  /\ ready' = (ready \/ \A t \in Start : ~Starting(t))
  /\ StartAt(s, "boot")
  /\ familiar' = [familiar EXCEPT ![s] = owner \in User]
  /\ overlapped' = (overlapped \/ \E p \in Stop : Stopping(p))
  /\ UNCHANGED <<owner, stop, named, told, stopped, scanner>>

(* The request is not looked at. *)
StartVm(s) ==
  /\ start[s] = "new"
  /\ ready' = TRUE
  /\ StartAt(s, "boot")
  /\ familiar' = [familiar EXCEPT ![s] = owner \in User]
  /\ overlapped' = (overlapped \/ \E p \in Stop : Stopping(p))
  /\ UNCHANGED <<owner, stop, named, told, stopped, scanner>>

(* The owner in a signal is read when the signal is due. *)
Encode(s, due, encoded) ==
  /\ start[s] = due
  /\ StartAt(s, encoded)
  /\ named' = [named EXCEPT ![s] = owner]
  /\ UNCHANGED <<owner, familiar, ready, stop, told, stopped, overlapped, scanner>>

EncodeVmStarted(s) == Encode(s, "boot", "vm")

EmitVmStarted(s) ==
  /\ start[s] = "vm"
  /\ StartAt(s, "settle")
  /\ named' = [named EXCEPT ![s] = None]
  /\ UNCHANGED <<owner, familiar, ready, stop, told, stopped, overlapped, scanner>>

(* Mutant: no container for an owner that is not known yet. *)
EncodeContainerStarted_IfKnown(s) ==
  \/ owner # Placeholder /\ Encode(s, "settle", "container")
  \/ owner = Placeholder /\ Encode(s, "settle", "done")

EncodeContainerStarted(s) == Encode(s, "settle", "container")

EmitContainerStarted(s) ==
  /\ start[s] = "container"
  /\ StartAt(s, "done")
  /\ told' = TRUE
  /\ named' = [named EXCEPT ![s] = None]
  /\ UNCHANGED <<owner, familiar, ready, stop, stopped, overlapped, scanner>>

StopVm(p, req) ==
  /\ stop[p] = "new"
  /\ learnOwnerID(req)
  /\ Heard(req, LearnFields)
  /\ stop' = [stop EXCEPT ![p] = "mark"]
  /\ overlapped' = (overlapped \/ \E s \in Start : Starting(s))
  /\ UNCHANGED <<ready, start, named, told, stopped, scanner>>

(* Mutant: StopVm is answered and nothing is stopped. *)
MarkStopped_NotAtAll(p) ==
  /\ stop[p] = "mark"
  /\ stop' = [stop EXCEPT ![p] = "reply"]
  /\ stopped' = [s \in Start |-> start[s] # "new"]
  /\ UNCHANGED <<owner, familiar, ready, start, named, told, overlapped, scanner>>

MarkStopped(p) ==
  /\ stop[p] = "mark"
  /\ ready' = FALSE
  /\ stop' = [stop EXCEPT ![p] = "reply"]
  /\ stopped' = [s \in Start |-> start[s] # "new"]
  /\ UNCHANGED <<owner, familiar, start, named, told, overlapped, scanner>>

ReplyStopped(p) ==
  /\ stop[p] = "reply"
  /\ told' = FALSE
  /\ stop' = [stop EXCEPT ![p] = "done"]
  /\ UNCHANGED <<owner, familiar, ready, start, named, stopped, overlapped, scanner>>

-----------------------------------------------------------------------------
(* The desktop files, scanned once after 15 seconds and on every SIGHUP.   *)

(* A desktop file is installed or removed. *)
Change ==
  /\ files < MaxChanges
  /\ files' = files + 1
  /\ UNCHANGED <<owner, familiar, vm, apps, timed, rescan, hangup, rescanFrom>>

(* A scan reads one directory after the other: it has seen the changes     *)
(* before it began, and may have seen those since.                         *)
Scanned(begun) == begun..files

TimedScan ==
  /\ timed = Asleep
  /\ timed' = files
  /\ UNCHANGED <<owner, familiar, vm, files, apps, rescan, hangup, rescanFrom>>

TimedStore ==
  /\ timed >= 0
  /\ apps' \in Scanned(timed)
  /\ timed' = Over
  /\ UNCHANGED <<owner, familiar, vm, files, rescan, hangup, rescanFrom>>

(* The runtime drops a signal whose channel is full. *)
Sighup ==
  /\ hangup' = 1
  /\ rescanFrom' = IF timed = Over THEN files ELSE rescanFrom
  /\ UNCHANGED <<owner, familiar, vm, files, apps, timed, rescan>>

Rescan ==
  /\ hangup = 1 /\ rescan = Asleep
  /\ hangup' = 0
  /\ rescan' = files
  /\ UNCHANGED <<owner, familiar, vm, files, apps, timed, rescanFrom>>

(* Mutant: the scan answers the signals that came during it. *)
RescanStore_DropsSignal ==
  /\ rescan >= 0
  /\ apps' \in Scanned(rescan)
  /\ rescan' = Asleep /\ hangup' = 0
  /\ UNCHANGED <<owner, familiar, vm, files, timed, rescanFrom>>

RescanStore ==
  /\ rescan >= 0
  /\ apps' \in Scanned(rescan)
  /\ rescan' = Asleep
  /\ UNCHANGED <<owner, familiar, vm, files, timed, hangup, rescanFrom>>

-----------------------------------------------------------------------------

Announce(s) ==
  \/ EncodeVmStarted(s) \/ EmitVmStarted(s)
  \/ EncodeContainerStarted(s) \/ EmitContainerStarted(s)

Next ==
  \/ \E req \in Requests : Learn(req) \/ Launch(req)
  \/ \E s \in Start : StartVm(s) \/ Announce(s)
  \/ \E p \in Stop : MarkStopped(p) \/ ReplyStopped(p)
                     \/ \E req \in Requests : StopVm(p, req)
  \/ Change \/ TimedScan \/ TimedStore \/ Sighup \/ Rescan \/ RescanStore

(* The goroutine of a StartVm is scheduled and its sleeps end. *)
Spec == Init /\ [][Next]_vars /\ \A s \in Start : WF_vars(Announce(s))

-----------------------------------------------------------------------------
(* Properties.                                                             *)

(* However starts and stops overlap: when Ash has been told that the       *)
(* container of a StartVm runs, GetVmInfo says so too, unless StopVm came  *)
(* after that StartVm.                                                     *)
AnnouncedIsRunning ==
  \A s \in Start : start[s] = "done" /\ ~stopped[s] => GetVmInfoSuccess(Vm)

(* As long as StartVm and StopVm have not overlapped: when neither is      *)
(* under way, the last Ash was told is what GetVmInfo answers.             *)
ToldAgrees ==
  ~overlapped /\ (\A s \in Start : ~Starting(s)) /\ (\A p \in Stop : ~Stopping(p))
    => (told <=> GetVmInfoSuccess(Vm))

(* Once Ash's id is learned it stays: requests that name the virtual       *)
(* machine, the container and its user before the owner, garbled and       *)
(* unknown fields, and names in fields that are not looked at do not make  *)
(* the bridge take another name for it, so that a StartVm signals a user   *)
(* both times and ListVms names one.  Not so once a request has put a Name *)
(* the bridge does not know into a field it looks at: it may be taken for  *)
(* the owner.                                                              *)
KnownUserNamed ==
  \A s \in Start : start[s] # "new" /\ familiar[s] =>
    ListVmsOwner \in User /\ named[s] \in User \cup {None}

(* The one-place channel loses no rescan: when the scanners rest, apps are *)
(* as new as the files were at the last SIGHUP, if that came after the     *)
(* first scan.                                                             *)
RescanSeesChanges ==
  timed = Over /\ rescan = Asleep /\ hangup = 0 => apps >= rescanFrom

(* A virtual machine that runs and is not stopped is announced to Ash.     *)
RunningIsTold == ready ~> (told \/ ~ready \/ overlapped)
=============================================================================
