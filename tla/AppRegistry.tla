----------------------------- MODULE AppRegistry -----------------------------
(***************************************************************************)
(* How a Linux app gets into Ash's launcher and is started from it: the    *)
(* session script runs register-apps twice on Chrome's Preferences file    *)
(* and then Ash, which reads the file, shows the registry in it and asks   *)
(* crostini-bridge to start an app.  Packages come and go meanwhile, a run *)
(* of register-apps may be killed, and everything may stop at any moment.  *)
(***************************************************************************)
EXTENDS Integers

CONSTANTS
  Id,          \* desktop file names
  Dirs,        \* the number of directories in appDirs, the first one first
  Settings,    \* what else a user keeps in Preferences
  Default,     \* Settings of a user who has none
  None,        \* no desktop file is being looked for
  MaxSessions, \* bound: sessions
  MaxChanges   \* bound: changes of desktop files

ASSUME AppRegistryAssumption ==
  /\ Dirs \in Nat \ {0}
  /\ Default \in Settings
  /\ None \notin Id
  /\ MaxSessions \in Nat /\ MaxChanges \in Nat

VARIABLES
  desktop,        \* desktop[d][id]: the file id.desktop in directory d
  prefs,          \* Preferences on disk
  script, run,    \* where the session script is; the run of register-apps
  dir, found,     \* scanApps: the directory it reads next, the apps so far
  data,           \* what register-apps is going to write
  ash,            \* Ash's copy of Preferences
  seeking, at,    \* findApp: the app it looks for and the directory it is at
  answer,         \* the last answer of LaunchContainerApplication, for each app
  sessions, changes,
  last,           \* history: Preferences as last written in full
  killed,         \* history: has the latest run of register-apps been killed?
  touched,        \* history: apps some file of which changed since that run began
  removed         \* history: apps that ever lost a file that parses

bridge   == <<seeking, at, answer>>
locals   == <<dir, found, data>>
scanning == <<run, locals, killed>>
vars == <<desktop, prefs, script, scanning, ash, bridge, sessions, changes,
          last, touched, removed>>

Dir == 1..Dirs

(* 0 is an app that has no entry; an entry is told by the directory of the *)
(* file that it was made from.                                             *)
Registry == [Id -> 0..Dirs]

Preferences ==
  [readable : BOOLEAN, enabled : BOOLEAN, settings : Settings, registry : Registry]

(* A file that is not there, or empty, or cut off: nothing is read of it.  *)
NoPrefs == [readable |-> FALSE, enabled |-> FALSE, settings |-> Default,
            registry |-> [id \in Id |-> 0]]

TypeOK ==
  /\ desktop \in [Dir -> [Id -> {"none", "app", "other"}]]
  /\ prefs \in Preferences /\ data \in Preferences
  /\ ash \in Preferences /\ last \in Preferences
  /\ script \in {"off", "edit", "scan", "read", "truncate", "write", "start", "ash"}
  /\ run \in {1, 2} /\ dir \in Dir /\ found \in Registry
  /\ seeking \in Id \cup {None} /\ at \in Dir
  /\ answer \in [Id -> {"none", "success", "error", "not found"}]
  /\ sessions \in 0..MaxSessions /\ changes \in 0..MaxChanges
  /\ killed \in BOOLEAN /\ touched \subseteq Id /\ removed \subseteq Id

-----------------------------------------------------------------------------
(* Desktop files.                                                          *)

(* parseDesktop: an application, with a name, and not hidden.              *)
parseDesktop(d, id) == desktop[d][id] = "app"

Available(id) == \E d \in Dir : parseDesktop(d, id)

(* The first directory in which the file parses.                           *)
First(id) ==
  IF Available(id)
    THEN CHOOSE d \in Dir : /\ parseDesktop(d, id)
                            /\ \A e \in 1..(d - 1) : ~parseDesktop(e, id)
    ELSE 0

(* A package manager, or the user, at any moment.                          *)
ChangeFile(d, id, kind) ==
  /\ changes < MaxChanges
  /\ desktop[d][id] # kind
  /\ desktop' = [desktop EXCEPT ![d][id] = kind]
  /\ touched' = touched \cup {id}
  /\ removed' = IF desktop[d][id] = "app" THEN removed \cup {id} ELSE removed
  /\ changes' = changes + 1
  /\ UNCHANGED <<prefs, script, scanning, ash, bridge, sessions, last>>

-----------------------------------------------------------------------------
(* The session script and register-apps.                                   *)

Init ==
  /\ desktop \in [Dir -> [Id -> {"none", "app", "other"}]]
  /\ prefs \in {NoPrefs} \cup {[NoPrefs EXCEPT !.readable = TRUE, !.settings = s] :
                                  s \in Settings}
  /\ last = prefs
  /\ script = "off" /\ run = 1 /\ dir = 1 /\ found = NoPrefs.registry
  /\ data = NoPrefs /\ ash = NoPrefs
  /\ seeking = None /\ at = 1 /\ answer = [id \in Id |-> "none"]
  /\ sessions = 0 /\ changes = 0
  /\ killed = FALSE /\ touched = {} /\ removed = {}

Login ==
  /\ script = "off" /\ sessions < MaxSessions
  /\ script' = "edit" /\ sessions' = sessions + 1
  /\ UNCHANGED <<desktop, prefs, scanning, ash, bridge, changes, last, touched, removed>>

Rewrite(p) == prefs' = p /\ last' = p

(* The variables of register-apps before and after a run. *)
ClearLocals == dir' = 1 /\ found' = NoPrefs.registry /\ data' = NoPrefs

(* register-apps starts on its n-th run, or the script goes on to Ash.     *)
Continue(n) ==
  /\ ClearLocals
  /\ IF n <= 2
       THEN script' = "scan" /\ run' = n /\ killed' = FALSE /\ touched' = {}
       ELSE script' = "start" /\ UNCHANGED <<run, killed, touched>>

(* The script's perl edit: a file it cannot parse is put back as it was,   *)
(* and so is any file if perl is killed.  perl -i renames a finished copy. *)
(* What it deletes of the user's account is not among Settings.            *)
EditPreferences ==
  /\ script = "edit"
  /\ \/ prefs.readable /\ Rewrite([prefs EXCEPT !.enabled = TRUE])
     \/ UNCHANGED <<prefs, last>>
  /\ Continue(1)
  /\ UNCHANGED <<desktop, ash, bridge, sessions, changes, removed>>

(* Mutant: a later directory wins. *)
ScanDirectory_LastWins ==
  /\ script = "scan"
  /\ found' = [id \in Id |-> IF parseDesktop(dir, id) THEN dir ELSE found[id]]
  /\ IF dir < Dirs THEN dir' = dir + 1 /\ UNCHANGED script
                   ELSE script' = "read" /\ UNCHANGED dir
  /\ UNCHANGED <<desktop, prefs, run, data, killed, ash, bridge, sessions, changes,
                 last, touched, removed>>

(* scanApps, one directory: an app that was seen is not looked at again,   *)
(* a file that does not parse does not count as seen.                      *)
ScanDirectory ==
  /\ script = "scan"
  /\ found' = [id \in Id |-> IF found[id] = 0 /\ parseDesktop(dir, id)
                               THEN dir ELSE found[id]]
  /\ IF dir < Dirs THEN dir' = dir + 1 /\ UNCHANGED script
                   ELSE script' = "read" /\ UNCHANGED dir
  /\ UNCHANGED <<desktop, prefs, run, data, killed, ash, bridge, sessions, changes,
                 last, touched, removed>>

(* Mutant: entries are always made anew. *)
Register_Afresh(p, apps) ==
  [p EXCEPT !.readable = TRUE, !.enabled = TRUE, !.registry = apps]

(* Mutant: a registry with entries in it is left alone. *)
Register_OnlyOnce(p, apps) ==
  [p EXCEPT !.readable = TRUE, !.enabled = TRUE,
            !.registry = IF p.registry = NoPrefs.registry THEN apps ELSE p.registry]

(* An app without an entry gets one; the entries there are stay.           *)
Register(p, apps) ==
  [p EXCEPT !.readable = TRUE, !.enabled = TRUE,
            !.registry = [id \in Id |-> IF p.registry[id] # 0 THEN p.registry[id]
                                        ELSE apps[id]]]

ReadPreferences ==
  /\ script = "read"
  /\ data' = Register(prefs, found)
  /\ script' = "truncate"
  /\ UNCHANGED <<desktop, prefs, run, dir, found, killed, ash, bridge, sessions,
                 changes, last, touched, removed>>

(* os.WriteFile empties the file ... *)
TruncatePreferences ==
  /\ script = "truncate"
  /\ prefs' = NoPrefs
  /\ script' = "write"
  /\ UNCHANGED <<desktop, scanning, ash, bridge, sessions, changes, last, touched, removed>>

(* ... and then writes it.                                                 *)
WritePreferences ==
  /\ script = "write"
  /\ Rewrite(data)
  /\ Continue(run + 1)
  /\ UNCHANGED <<desktop, ash, bridge, sessions, changes, removed>>

(* What was in a file that is left empty is lost.                          *)
Lose == IF script = "write" THEN last' = NoPrefs ELSE UNCHANGED last

(* register-apps is killed, or cannot write; the script does not mind.     *)
KillRegisterApps ==
  /\ script \in {"scan", "read", "truncate", "write"}
  /\ Lose
  /\ IF run = 1
       THEN Continue(2)
       ELSE ClearLocals /\ script' = "start" /\ killed' = TRUE /\ UNCHANGED <<run, touched>>
  /\ UNCHANGED <<desktop, prefs, ash, bridge, sessions, changes, removed>>

(* The session ends, or the power goes, at any moment.                     *)
Stop ==
  /\ script # "off"
  /\ Lose
  /\ script' = "off" /\ ash' = NoPrefs
  /\ ClearLocals
  /\ seeking' = None /\ at' = 1 /\ answer' = [id \in Id |-> "none"]
  /\ UNCHANGED <<desktop, prefs, run, killed, sessions, changes, touched, removed>>

-----------------------------------------------------------------------------
(* Ash, which starts from nothing when it cannot read the file, and which  *)
(* replaces the file as a whole when it saves.                             *)

StartAsh ==
  /\ script = "start"
  /\ script' = "ash" /\ ash' = [prefs EXCEPT !.readable = TRUE]
  /\ UNCHANGED <<desktop, prefs, scanning, bridge, sessions, changes, last, touched, removed>>

ChangeSettings(s) ==
  /\ script = "ash"
  /\ ash' = [ash EXCEPT !.settings = s]
  /\ UNCHANGED <<desktop, prefs, script, scanning, bridge, sessions, changes, last,
                 touched, removed>>

SavePreferences ==
  /\ script = "ash"
  /\ Rewrite(ash)
  /\ UNCHANGED <<desktop, script, scanning, ash, bridge, sessions, changes, touched, removed>>

-----------------------------------------------------------------------------
(* LaunchContainerApplication in crostini-bridge.                          *)

(* The user picks an app that Ash shows.                                   *)
Launch(id) ==
  /\ script = "ash" /\ seeking = None
  /\ ash.enabled /\ ash.registry[id] # 0
  /\ seeking' = id /\ at' = 1
  /\ UNCHANGED <<desktop, prefs, script, scanning, ash, answer, sessions, changes, last,
                 touched, removed>>

Answer(a) == answer' = [answer EXCEPT ![seeking] = a] /\ seeking' = None /\ at' = 1

(* Mutant: the first file of that name decides. *)
findApp_FirstFile ==
  /\ seeking # None
  /\ \/ parseDesktop(at, seeking) /\ \E a \in {"success", "error"} : Answer(a)
     \/ /\ ~parseDesktop(at, seeking)
        /\ IF at < Dirs /\ desktop[at][seeking] = "none"
             THEN at' = at + 1 /\ UNCHANGED <<seeking, answer>>
             ELSE Answer("not found")
  /\ UNCHANGED <<desktop, prefs, script, scanning, ash, sessions, changes, last,
                 touched, removed>>

(* Mutant: one directory too many. *)
findApp_OneMore ==
  /\ seeking # None
  /\ \/ parseDesktop(at, seeking) /\ \E a \in {"success", "error"} : Answer(a)
     \/ /\ ~parseDesktop(at, seeking)
        /\ IF at <= Dirs THEN at' = at + 1 /\ UNCHANGED <<seeking, answer>>
                         ELSE Answer("not found")
  /\ UNCHANGED <<desktop, prefs, script, scanning, ash, sessions, changes, last,
                 touched, removed>>

(* findApp, one directory, and launchApp when it finds the app: an app     *)
(* without a command line is a success, a program may fail to start.       *)
findApp ==
  /\ seeking # None
  /\ \/ parseDesktop(at, seeking) /\ \E a \in {"success", "error"} : Answer(a)
     \/ /\ ~parseDesktop(at, seeking)
        /\ IF at < Dirs THEN at' = at + 1 /\ UNCHANGED <<seeking, answer>>
                        ELSE Answer("not found")
  /\ UNCHANGED <<desktop, prefs, script, scanning, ash, sessions, changes, last,
                 touched, removed>>

-----------------------------------------------------------------------------

Next ==
  \/ \E d \in Dir, id \in Id, kind \in {"none", "app", "other"} : ChangeFile(d, id, kind)
  \/ Login \/ EditPreferences
  \/ ScanDirectory \/ ReadPreferences \/ TruncatePreferences \/ WritePreferences
  \/ KillRegisterApps \/ Stop
  \/ StartAsh \/ (\E s \in Settings : ChangeSettings(s)) \/ SavePreferences
  \/ (\E id \in Id : Launch(id)) \/ findApp

Spec == Init /\ [][Next]_vars

-----------------------------------------------------------------------------
(* Properties.                                                             *)

(* However earlier sessions ended, Ash shows every app that can be         *)
(* started, unless this session's last run of register-apps was killed or  *)
(* the app's files changed since that run began.                           *)
AshShowsEveryApp ==
  script = "ash" /\ ~killed =>
    /\ ash.enabled
    /\ \A id \in Id \ touched : Available(id) => ash.registry[id] # 0

(* The scan of register-apps and the search of crostini-bridge choose the  *)
(* same file for an app whose files did not change during the scan.        *)
ScanAgreesWithFindApp ==
  script = "read" => \A id \in Id \ touched : found[id] = First(id)

(* An app that Ash shows is "not found" only if one of its files was       *)
(* removed, or hidden, at some time: never because of the directories and  *)
(* files that are skipped on the way, and never by a file that is added.   *)
NotFoundOnlyIfRemoved ==
  \A id \in Id : answer[id] = "not found" => id \in removed

(* Whatever is written to Preferences holds every entry of the contents it *)
(* replaces and, unless Ash writes, the same settings.  Only a run of      *)
(* register-apps stopped between emptying and writing loses them (Lose).   *)
NothingLost ==
  [][prefs' # prefs /\ prefs'.readable =>
       /\ \A id \in Id : last.registry[id] # 0 => prefs'.registry[id] = last.registry[id]
       /\ script # "ash" => prefs'.settings = last.settings]_vars
=============================================================================
