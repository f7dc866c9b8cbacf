# A verification project for weenzite's ChromeOS session

weenzite is a Fedora (bazzite) image that offers the ChromeOS desktop, Ash, as
one of its sessions. Ash expects the daemons of ChromeOS on the system bus;
`build_files/cros/dbus-bridges` holds small Go programs that take their names
and answer from what a Linux desktop has: NetworkManager, PulseAudio, UPower,
the backlight, `.desktop` files. These bridges, the session script that starts
them and the terminal page are the program logic of the repository, and what
is modelled here. Everything else builds or decorates an image.

Paths below are relative to `src/build_files/cros/`; `cmd/` stands for
`dbus-bridges/cmd/`. `PROJECT.json` maps every definition to its source lines.

## Inventory

**How the parts interact.** The session script `chromeos-ash-session` starts
the bridges, runs `register-apps`, starts Ash, waits for it, and stops
everything. Ash calls the bridges over D-Bus and gets signals back. godbus
serves every call in a goroutine of its own, so all calls to a bridge can
overlap each other and the bridge's background goroutines; each bridge has one
mutex, held for the assignments only, never across a D-Bus call, a subprocess
or a signal. No bridge keeps anything on disk; `register-apps` writes Chrome's
Preferences file, which Chrome reads and writes too.

| component | state | operations | hard behaviour | what makes it correct |
|---|---|---|---|---|
| shill-bridge, tethering | `tetheringActive`, `tetheringState`; NetworkManager's hotspots | EnableTethering, DisableTethering, and the goroutines createNMHotspot and deactivateNMHotspot they leave behind | background work of several calls in any order; failed and misread calls; a radio that goes away | the status is a switch and starting is resolved; the last signal is the status; off means that no hotspot runs |
| shill-bridge, mirror | `state`, `services`, `devices`; exported objects; last signalled values | queryNM at startup and every 5 s, sync*Objects, PropertyChanged | a snapshot read in many calls while NetworkManager changes; identity by position; objects never unexported | paths in signals exist; services name their own device; signals and objects agree with the lists; Ash is shown NetworkManager as it is once it rests |
| cras-bridge | `st` (volume, mutes, gain); the poller's `lastVol`, `lastMute`; the sink | SetOutputVolume, SetOutputNodeVolume, SetOutputUserMute, the 3 s poller | handler, poller and other programs race for one sink | state and signals settle on the sink |
| power-bridge, brightness | `screenBrightness`, the backlight or xrandr | SetScreenBrightness(Percent), Increase, Decrease, main's first signal | read, act, store and signal are four steps; rounding on a coarse backlight; NaN | dark only on request; percentage, signal and backlight agree |
| power-bridge, supply | `batt`, the last signal | the first reading in main, the 30 s UPower poll, GetBatteryState, GetPowerSupplyProperties | one reading is up to 15 calls to a UPower that changes in between; failed calls leave zeros; other devices and empty bays | a reading that nothing disturbed is the truth; no battery is made up; answers and signal agree |
| session-bridge | `startCh` and its consumer | EmitLoginPromptVisible; StopSession creates a file | a channel of one token that drops; the process is replaced between sessions | every prompt is answered, none twice |
| crostini-bridge | `session.ready`, `owner.id`, `apps` | StartVm, StopVm, GetVmInfo, the handlers that learn the owner, LaunchContainerApplication, two scanners | delayed signals that do not look back; owners in any field of a request; three ways of choosing a `.desktop` file | what Ash was told is what it can ask for; a known user stays known; what is listed can be launched |
| register-apps | the Preferences file | one read-merge-write | a crash between truncation and write; stale entries | Ash starts on a readable file with every app in it |
| chromeos-ash-session | the processes of the session, sockets and files they leave | start, wait, kill, a trap | names held by dying bridges of an earlier session; signals at any moment; a wait for a socket | no process outlives the session; Ash has its bridges; what an earlier session left is not taken for this one's |
| terminal-ui.js | `lines`, `row`, `col`, saved cursor | printed characters, CSI commands | cursor moves beyond the buffer; sequences split between chunks | the cursor is in the buffer; lines have no holes |
| mojo-stub, rmad-bridge | a socket; a bus name | a fixed handshake; constant answers | an older stub removes the socket of a newer one | as for the session |

The remaining components (image build, CI, live image, widgets, D-Bus policy)
are listed in `PROJECT.json` with the reason why they are not modelled.

## Modules

| module | models | checked by |
|---|---|---|
| `HotspotSwitch` | what tethering promises Ash: a status that behaves like a switch | the target of a refinement |
| `Tethering` | tethering in shill-bridge and NetworkManager's hotspots | `TetheringOverlap`, `TetheringSerial`, `TetheringStray`, `TetheringHidden` |
| `TetheringProofs` | theorems | TLAPS |
| `NmMirror`, `MCNmMirror` | the NetworkManager mirror in shill-bridge | `NmMirror` |
| `NmMirrorProofs` | theorems | TLAPS |
| `Volume`, `MCVolume` | output volume and mute in cras-bridge and the sink | `Volume`, `VolumeStale` |
| `VolumeProofs` | theorems | TLAPS |
| `LoginPrompts` | the login prompt channel of session-bridge | `AshSession`, which it is a part of |
| `AshSession`, `MCAshSession` | one session after another: the script, bridges, stub, Ash, sommelier, and `LoginPrompts` | `AshSession` |
| `AshSessionProofs` | theorems | TLAPS |
| `CrostiniVm`, `MCCrostiniVm` | the virtual machine crostini-bridge pretends to run | `CrostiniVm` |
| `CrostiniVmProofs` | theorems | TLAPS |
| `PowerSupply`, `MCPowerSupply` | the battery in power-bridge, read from UPower | `PowerSupply` |
| `PowerSupplyProofs` | theorems | TLAPS |
| `ScreenBrightness`, `MCScreenBrightness` | screen brightness in power-bridge | `ScreenBrightness` |
| `ScreenBrightnessProofs` | theorems | TLAPS |
| `AppRegistry`, `MCAppRegistry` | register-apps, its callers, and starting an app in crostini-bridge | `AppRegistry` |
| `AppRegistryProofs` | theorems | TLAPS |

**Steps.** A goroutine is a program counter. A critical section is one step,
and so is each call to another process, each evaluation of a signal's argument
that takes the lock again, and each signal. What happens between two such
steps touches nothing shared and belongs to the first of them. Operators whose
names have a suffix (`HotspotFailed_Silent`) are mutants: the definition with a
plausible bug, which the run of some property has to find.

**Tethering.** A call is one goroutine from the handler to the end of its
background work: the handler starts that work with its last step, so the two
never run at the same time. `EnableTethering` is the read lock (admission on
the mirrored device list), `StartTethering` the write lock; `EvaluateStatus`
and `EmitStatus` are `tetheringStatusLocked` and `conn.Emit`; `FindWifiDevice`,
`AddHotspot`, `HotspotUp` and `HotspotFailed` are createNMHotspot,
`ListConnections`, `FindHotspot` and `DropHotspot` deactivateNMHotspot. The
reads of findWifiDevicePath are one step whose outcome is left open where radios
come and go or a read fails: any radio there is, or none. NetworkManager is
external: a radio runs one connection, a hotspot may go down, a radio may come
and go. `Faults` says which of that may happen; `"reply"` is the case that
AddAndActivateConnection is carried out and the caller sees an error:
NetworkManager documents two result values, the code stores the reply into one
variable, and godbus reports an error for a reply of another length. The model
leaves both outcomes open. `tetheringClients` is always 0 and left out.

**NmMirror.** One action per property that `queryNM` reads; NetworkManager may
change between any two. A failed read leaves what the code leaves: nothing for
`State`, an empty list, a skipped entry or a zero value. Positions stand for
the paths `/service/i` and `/device/i`; names, interfaces, strengths and the
constant properties are left out. A connection runs over one device. A device
that goes takes its connections along; those that stay may be listed in another
order afterwards.

**Volume.** A handler sets `st` and then runs pactl; the poller reads volume and
mute in two runs, compares with what it read last, stores and signals. What Ash
was signalled last is kept apart from any real value before the first signal:
`Never`, and the empty set for the mute flag.
`Interfere` is everybody else: another program at the sink, or PulseAudio going
away and coming back. `SetInputMute` and `SetInputNodeGain` set fields that
reach neither PulseAudio nor a signal and are left out, as is the constant node
list.

**LoginPrompts.** The channel, the non-blocking send and the consumer's
receive, sleep and emit. `AshSession` has it as an instance, `LP`.

**AshSession.** The script is a program counter (`pc`); its steps are the
points at which another process can notice something. A bridge (`RequestName`,
`BridgeExit`) asks for its names one after the other, gives up when one is held,
and exits when told to; all six mains are this one pattern, with one, two or
five names. A bridge that exits leaves the bus and forgets what its channel
held. `path` says whose stub made the socket that is there, `socket` whose Ash
made the Wayland socket. Signals to processes are marks (`told`) that the
process reacts to when it runs, so that it may live on into the next session.
`TermTrap` is the trap: the bridges are told and the script goes on, only a
`wait` is cut short. `KillScript` is SIGKILL for the script, with no trap; the
display goes with it, and Ash and sommelier with the display. The registration
of apps, which the script also runs, is `AppRegistry`.

**CrostiniVm.** A StartVm is its handler and then the goroutine it leaves
behind: for each of its two signals the owner is read (`Encode...`) and then the
signal is sent (`Emit...`). A StopVm learns the owner, clears `ready` and
answers. Every other handler that gets a request learns the owner and changes
nothing else; they are one action, `Learn`. A request is a sequence of fields as
the protobuf wire format has them, some of them garbled, numbers, or of a kind
that ends the decoding; its texts are Ash's user ids, the six names setOwnerID
lists (`Reserved`), any other names, of virtual machines and containers say
(`Name`), and the empty string. A `Name` is taken for an owner like a user's id.
Both scanners start at one version of
the desktop files and store what they saw, which may be newer; `hangup` is the
signal channel with its one place, which the Go runtime drops signals to.

**PowerSupply.** A poll is one call to UPower after another: the list of
devices, then of each its type and presence, until the first battery that is
there is read property by property. UPower may change between any two. A call
that fails, or whose device has gone, leaves the zero value, as getProp does.
main stores one reading without signalling it, then polls at once and every 30 s.
The message is the record of its fields; a field that is not in the bytes is
zero.

**ScreenBrightness.** `Begin` is a handler up to setScreenBrightness, `Apply`
the hardware, `Store` the lock, `Signal` the signal; `StartupRead` and
`StartupSignal` are main's first signal, which is computed without the lock
after the object is exported. Percentages are whole numbers in the model and
float64 in the code; NaN is kept. Any write of the backlight may fail, and so may
the xrandr fallback that follows it.

**AppRegistry.** The session script as one sequence: the perl edit of
Preferences, two runs of register-apps, Ash. A run reads the directories one by
one (`ScanDirectory`), reads Preferences, empties it and writes it
(`os.WriteFile` is those two steps, and what it has written stays: there is no
fsync in the code, and a crash of the machine that undoes a write is left out). It may be killed at each of them, or fail to
write, and the script goes on (`|| true`); everything may stop at any moment
(`Stop`, which is also the end of a session). A Preferences file is what can be
read of it: nothing of a file that is missing, empty or cut off. An entry is told
by the directory whose file it was made from, which stands for its name, command
line and time. Chrome is external: it starts from defaults when it cannot parse
the file, and replaces the file as a whole when it saves. In crostini-bridge,
`Launch` and `findApp` are LaunchContainerApplication, again directory by
directory; a program that is found may still fail to start.

## Runs, bounds and what they show

* `TetheringOverlap` (3 calls, 1 radio, failing calls, losses): a third call
  can overtake two others in every stage, which is enough for each pair of late
  background goroutines. Shows that a status of "starting" always has a goroutine
  under way that will replace it (`StartingUnderWay`) and that the observable
  status refines `HotspotSwitch` with its liveness: "starting" is resolved on
  every path, and a late success after a switch-off does not revive the status.
* `TetheringSerial` (4 calls in turn, 2 radios, misread replies): two failed
  enables, a successful one and a disable fit. Shows that the last signal is
  the status, that an active status is true, and that DisableTethering leaves
  nothing behind. The last is less obvious than it looks: deactivateNMHotspot
  stops one hotspot only, and is enough because findWifiDevicePath always picks
  the same radio and a radio runs one hotspot.
* `TetheringStray` (violation): with overlapping calls and no fault, a
  DisableTethering that overtakes createNMHotspot leaves the hotspot running.
* `TetheringHidden` (violation): a hotspot that came up while the reply did not
  fit is reported as idle.
* `NmMirror` (2 devices, 2 connections, one of each of a type the bridge leaves
  out, 3 changes, so that a query can be torn twice and the next one too). Shows
  that torn reads never give a service another connection's device, that
  objects, lists and signals agree between polls although each is brought up to
  date in its own way, and (`Converges`) that once NetworkManager stops changing
  Ash is shown it as it is: `Displayed` says what that means, each list being
  what is left of NetworkManager's (`KeptOf`) without the types the bridge leaves
  out, and each entry `Accurate`.
* `Volume` (2 calls, requests below, inside and above the range, a sink at 40%
  or 150%, 2 interferences). Shows that the signals settle on the sink
  (`SinkAnnounced`: for a bridge whose first state is not muted, no mute signal
  stands for "not muted"; for one whose first state is muted only the mute
  signals that are sent are claimed to be right), and that after calls in turn
  GetVolumeState does. `VolumeStale` (violation) needs one call and one
  interference.
* `CrostiniVm` (2 StartVm and a StopVm in any overlap; one user, the virtual
  machine, one other reserved name and one the bridge does not list; requests with
  the user before, after and beside these names, with the unlisted name where it
  is taken for the owner and where it must not be, and one that decoding gives up
  on; one change of the desktop files, which is enough to tell a scan from an
  older one). Two starts and a stop are what it takes for a signal of the first
  start to follow a stop and a second start. Shows that no overlap makes Ash believe in a container that GetVmInfo
  denies, unless a stop came after its start; that in turn both always agree;
  that a user, once learned, is displaced by nothing but an unlisted name in a
  field the handler looks at;
  and that the one-place channel loses no rescan.
* `AshSession` (2 sessions, session-bridge with its two names, the stub, 2
  prompts): one session that can leave everything behind and one that finds it.
  Two names are what it takes to hold one and be refused the other. More bridges
  multiply the states and do not interact but in the script's list; the theorems
  are for any number of them. Shows that nothing outlives a script that came to
  its end, that the processes of two sessions never share a bridge's names, that
  a session which finds the earlier processes gone loses no bridge, that
  sommelier and Ash do not meet leftovers, and that prompts are answered while
  session-bridge is replaced.
* `PowerSupply` (a mouse and two battery bays in every initial state, 2 changes
  and 1 failure at any of the calls): one reading can be torn and fail too, and
  the next can be torn again. Shows that an undisturbed poll is the truth
  whatever happened before, and that no other device, empty bay or earlier poll
  is taken for a battery.
* `ScreenBrightness` (2 calls from every percentage, requests NaN, -5, 1 and
  95, a backlight of 30 levels: coarser than percent, so that 1% rounds to 0).
* `AppRegistry` (2 apps, 2 directories, every assignment of files to them at
  the start, 2 changes, so that a file can move from one directory to another
  during a search; 2 sessions, so that one can find what a broken one left). Shows
  that the launcher is complete whatever earlier sessions left behind, that the
  two searches agree, that an app is not found only if it lost a file, and that
  Preferences loses nothing but in the one window between emptying and writing.

Deadlock is checked except in `AshSession`, `CrostiniVm`, `ScreenBrightness` and
`AppRegistry`, where all calls, or sessions, may be over.

**Fairness.** A goroutine that can run is run and every call to NetworkManager
and pactl returns (`WF` of the steps of a call that has arrived, of the poller
and of the consumer). A ticker ticks. In `AshSession` one weak fairness for all
processes together is enough: some process that can run is run, and none can run
for ever. Nothing makes Ash call, prompt, start up or end, or the outside world
change. UPower, like NetworkManager, answers every call. godbus calls have no timeout in the code: a NetworkManager that
never answers is outside what liveness is claimed for.

**History variables.** `overlapped` (in `Volume` and `ScreenBrightness`) records
whether a call ever arrived while another was in progress. The code promises
agreement between its copies only for calls in turn; with the history the runs
explore all behaviours and the properties speak about those in turn. In
`AppRegistry`, `last` is Preferences as last written in full (nothing, once a
writer was stopped in the window), `touched` the apps whose files changed since
the current run of register-apps began, `removed` those that ever lost a file.
In `CrostiniVm`, `overlapped` is as above, `familiar` whether a user was known
when a StartVm came and no request since had an unlisted name in a field its
handler looks at, `stopped` whether a StopVm has come since, `rescanFrom` the
version of the files at the last SIGHUP after the first scan. In `ScreenBrightness`, `written`
says whether the last call could write the backlight. In `AshSession`,
`clean` says whether a session found no process of an earlier one, `termed`
whether its script was sent TERM, `killed` whether it was killed. In
`PowerSupply`, `steady` says whether nothing changed or failed since the poll
began, `seen` whether a battery was there at any time in it. None of them is read
by a guard.

## Findings

1. *DisableTethering can be overtaken.* `deactivateNMHotspot` looks for the
   hotspot once; if `createNMHotspot` of an earlier call activates it
   afterwards, the access point stays on while Ash shows it off
   (`TetheringStray`).
2. *A hotspot that works is reported as failed.* The reply of
   AddAndActivateConnection has two values and is stored into one
   (`TetheringHidden`).
3. *The volume state can go stale for good.* The poller compares with its last
   reading instead of the state the handlers write (`VolumeStale`).

## What is proved

* `TetheringProofs`: type correctness, `StartingUnderWay`, the step simulation of
  `HotspotSwitch` (`ImplementsSwitch`), and, for calls in turn, `SignalAgreement`
  and that the two fields say the same (`FieldsAgreeInTurn`), both under every
  fault, `ReportedHotspotRuns` and `DisableCleansUp`. When calls overlap the fields
  can say the opposite of each other: the simulation rests on `FieldsFit`, which
  names the pairs that occur, inactive with "active" among them. The invariant
  behind the theorems about calls in turn says who is under way
  (at most one call), what the fields and the last signal are in each stage of
  it, and that all hotspots are on the first radio.
* `VolumeProofs`: type correctness and `DriftIsSeen`. The invariant `Tracked`
  says for volume and mute separately that the state is right, or that what the
  poller will remember when its current poll ends differs from the sink; the
  subtle case is a poll that stores while a call is between its lock and pactl.
  `UndisturbedPollAnnounces` and `UndisturbedPollRepairs` are the safety halves
  of `SinkAnnounced` and `AloneTracksSink`: a poll that nothing disturbs ends
  with what the sink is set to signalled (or the sink not muted and no mute signal
  ever sent) and, after calls in turn, stored. The
  second needs `Tracked` where the poll begins: had a race left a stale state
  that is no news to the poller, it would not be stored.
* `NmMirrorProofs`: all invariants of the run, for any devices, connections and
  number of changes. None of them is inductive. `ReadInv` says of what a query
  has read that every entry matches the devices read before it, and that the
  last one is of the connection being read; `PublishInv` that from publishing on
  what was read is what is published; `ExportInv` how far the objects are behind
  the lists (`Behind`): up to the position being exported while a query exports,
  not at all otherwise, and never shorter than what was signalled; `SignalInv`
  which signals are out at each stage. `LeftAloneIsDisplayed` is the
  safety half of `Converges`: a query that NetworkManager leaves alone ends with
  `Displayed`. Its invariant, `Faithful`, says of each list that what has been
  read is what is left of its first n entries (`KeptUpTo`), and that what is
  still to be read is the rest of it (`Suffix`). That such a query comes and ends
  is the other half, and needs fairness.
* `AshSessionProofs`: all invariants of the run and `SommelierFindsAsh`, for any
  bridges, names and sessions. It begins with the login prompts by themselves
  (`PromptsAnswered`): what each of their actions keeps is a lemma of its own,
  and so is that forgetting everything (`Forget`) keeps it; every step of
  `AshSession` is then shown to be one of these for the variables of
  `LoginPrompts`. For the bridges, the invariant says that a process owns exactly
  the names it has asked for and not been refused (`Asked`), which names it has
  asked for in each stage, that sessions to come have no processes, and, for a
  clean session that was not sent TERM, that no other session's process holds
  anything.
* `CrostiniVmProofs`: all invariants of the run. For `KnownUserNamed` it is shown
  of the decoder, for requests of any length, that what it returns is a text or
  nothing, and of the search for the owner that what it finds is held by one of
  the five fields.
* `PowerSupplyProofs`: all invariants of the run, for any devices and readings.
  The invariant says at each stage of a poll what has been read so far: while
  nothing was disturbed, that no device before the one being read is a battery
  that is there, and that the fields read are those of the device.
* `ScreenBrightnessProofs`: `DarkOnlyOnRequest` for any backlight and any
  overlap (from the fact that the percentage of a call that may not darken is
  at least 1, which needs the stored percentage never to be negative),
  `BrightnessAgrees`, and type correctness, from the ranges of the rounding.
* `AppRegistryProofs`: all properties of the run, for any apps, directories,
  settings, sessions and changes. `Copies` says where the file, what is about to
  be written and Ash's copy can differ; `Entries` that every entry's file is
  still there or its app lost one, and that a search never passes the file of
  the entry it is for; `Coverage` what a scan knows after each directory.

Assumed: the named ASSUMEs of each module only; sets of devices, calls, volumes,
users or readings need not be finite. Where type correctness is proved
for a model whose other properties already exercise its definitions (tethering,
`AshSession`, `CrostiniVm`, `PowerSupply`), and for `QuitFileIsFresh`, the run
does not repeat it.

Every invariant and every action property of the runs is proved. Left to TLC is
what holds only under fairness, which the prover does not cover: the liveness
part of `HotspotSwitch`, `Converges`, `SinkAnnounced`, `AloneTracksSink`,
`EventuallyReported`, `RunningIsTold`, `SessionEnds` and `EveryPromptAnswered`.
For most of these the safety half is a theorem all the same: `ImplementsSwitch`,
`LeftAloneIsDisplayed`, `UndisturbedPollAnnounces`, `UndisturbedPollRepairs`,
`SteadyIsReported`, `ToldAgrees` and `AnswerUnderWay`, in the order above without
`SessionEnds`; what is missing is that such a poll, or the end of a call, comes.

## Limits of the code the models show, without a property

* A createNMHotspot that succeeds after a DisableTethering leaves `tetheringState`
  at "active" with `tetheringActive` false. The status masks the pair, and the next
  EnableTethering or DisableTethering overwrites it; until then a second look at
  the state field alone would be wrong.
* The volume poller begins with "not muted" and signals differences. A sink that
  is muted when cras-bridge starts, as GetVolumeState then says, and unmuted before
  the first poll is never signalled as unmuted.
* setOwnerID ignores six fixed names. The name of any other virtual machine or
  container, in the first field of a request that holds something, replaces a
  known user as the owner until a request with the user's id comes.
* A prompt that comes between session-bridge's RequestName and its Export gets an
  error and is not answered.
* Between `Publish` and the exports a GetProperties answer can name a path
  without an object; a list is signalled when its length changes, so a service
  that replaces another is not.
* StopSession creates `/tmp/ash-session-quit`; the session script removes that
  file and never looks at it, so the call does not end the session.
* A session that begins while bridges of the last one still hold their names
  loses those bridges: RequestName does not queue, the new process exits, and
  nothing starts it again. An older mojo-stub that closes late removes the
  socket of the new one.
* A TERM before Ash is started stops the bridges and starts Ash all the same,
  without them. If Ash dies before it made its Wayland socket, the script waits
  for that socket for good.
* VmStarted and ContainerStarted of a StartVm come also when StopVm came in
  between; ListVms always names a running virtual machine; StartVm does not
  learn the owner from its own request.
* Only the battery UPower lists first is reported. A failed read of a type, of
  the presence or of the state makes it "no battery, on AC" until the next poll.
* An entry of the registry is never refreshed or removed: a renamed app keeps
  its old name, and an app that is gone stays in the launcher.
* getDesktopIcon takes the first file of a name, findApp the first that parses:
  an app can have the icon of a file that is hidden.
* launchApp puts its overrides before the inherited environment, and Go lets
  the last entry win.

## Not modelled, and why

* `terminal-ui.js`: a screen buffer and a parser of escape sequences that runs
  alone, one chunk of output after the other. What can go wrong in it (listed
  under the hazards) is a function of the text.
* The protobuf coding byte by byte (`decodeVarint`, `appendVarint`): requests and
  messages are their fields. Requests Ash does not make, with lengths beyond
  their end, are left out.
* cras-bridge's input gain and mute, which reach nothing, and its constant nodes.
* Icons (read, scaled and sent, not kept), DLC, debugd and image loader answers,
  which are constants.
* `Local State`, the display bounds and the injection of the terminal page in the
  session script; the build, the live image, CI, widgets and static
  configuration, which are linear scripts or data.

## Plan

1. `ShillBridge`: `NmMirror` and `Tethering` composed over one device list.
2. `TerminalScreen`: the buffer, the cursor and split escape sequences.
3. Ash as a client of `NmMirror`, which reads objects when a signal comes: an
   abstract specification of what it then shows, and the refinement proved.
