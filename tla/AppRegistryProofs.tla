-------------------------- MODULE AppRegistryProofs --------------------------
(* Proofs about AppRegistry: for any apps, directories and settings, and   *)
(* any number of sessions and changes.                                     *)
EXTENDS AppRegistry, TLAPS

(* A file of which nothing is read is a Preferences file like any other.   *)
LEMMA NoPrefsType ==
  NoPrefs \in Preferences /\ NoPrefs.registry \in Registry /\ 1 \in Dir
<1>1. [id \in Id |-> 0] \in Registry /\ 1 \in Dir
  BY AppRegistryAssumption DEF Registry, Dir
<1> QED BY <1>1, AppRegistryAssumption DEF NoPrefs, Preferences

LEMMA RegisterType ==
  ASSUME NEW p \in Preferences, NEW apps \in Registry
  PROVE  Register(p, apps) \in Preferences
<1>1. [id \in Id |-> IF p.registry[id] # 0 THEN p.registry[id] ELSE apps[id]] \in Registry
  BY DEF Preferences, Registry
<1> QED BY <1>1 DEF Register, Preferences

LEMMA ClearType ==
  ASSUME ClearLocals
  PROVE  dir' \in Dir /\ found' \in Registry /\ data' \in Preferences
BY NoPrefsType DEF ClearLocals

LEMMA ContinueType ==
  ASSUME NEW n \in {1, 2, 3}, Continue(n), run \in {1, 2}, killed \in BOOLEAN,
         touched \in SUBSET Id
  PROVE  /\ dir' \in Dir /\ found' \in Registry /\ data' \in Preferences
         /\ script' \in {"scan", "start"} /\ run' \in {1, 2}
         /\ killed' \in BOOLEAN /\ touched' \in SUBSET Id
<1>1. CASE n <= 2
  <2>1. n \in {1, 2}
    BY <1>1
  <2> QED BY <1>1, <2>1, ClearType DEF Continue
<1>2. CASE ~(n <= 2)
  BY <1>2, ClearType DEF Continue
<1> QED BY <1>1, <1>2

LEMMA LoseType == ASSUME Lose, last \in Preferences PROVE last' \in Preferences
  BY NoPrefsType DEF Lose

-----------------------------------------------------------------------------

LEMMA TypeInit == Init => TypeOK
<1> SUFFICES ASSUME Init PROVE TypeOK
  OBVIOUS
<1>1. prefs \in Preferences /\ last \in Preferences
  <2>1. ASSUME NEW s \in Settings
        PROVE  [NoPrefs EXCEPT !.readable = TRUE, !.settings = s] \in Preferences
    BY NoPrefsType DEF Preferences
  <2> QED BY <2>1, NoPrefsType DEF Init
<1>2. 0 \in 0..MaxSessions /\ 0 \in 0..MaxChanges
  BY AppRegistryAssumption
<1> QED BY <1>1, <1>2, NoPrefsType DEF Init, TypeOK

LEMMA TypeNext == TypeOK /\ [Next]_vars => TypeOK'
<1> SUFFICES ASSUME TypeOK, [Next]_vars PROVE TypeOK'
  OBVIOUS
<1>1. ASSUME NEW d \in Dir, NEW id \in Id, NEW kind \in {"none", "app", "other"},
             ChangeFile(d, id, kind)
      PROVE  TypeOK'
  <2>1. desktop' \in [Dir -> [Id -> {"none", "app", "other"}]]
    BY <1>1 DEF ChangeFile, TypeOK
  <2>2. changes' \in 0..MaxChanges
    <3>1. changes \in 0..MaxChanges
      BY DEF TypeOK
    <3> QED BY <1>1, <3>1, AppRegistryAssumption DEF ChangeFile
  <2>3. touched' \in SUBSET Id /\ removed' \in SUBSET Id
    BY <1>1 DEF ChangeFile, TypeOK
  <2> QED BY <1>1, <2>1, <2>2, <2>3 DEF ChangeFile, bridge, scanning, locals, TypeOK
<1>2. CASE Login
  <2>1. sessions' \in 0..MaxSessions
    <3>1. sessions \in 0..MaxSessions
      BY DEF TypeOK
    <3> QED BY <1>2, <3>1, AppRegistryAssumption DEF Login
  <2> QED BY <1>2, <2>1 DEF Login, scanning, locals, bridge, TypeOK
<1>3. CASE EditPreferences
  <2>1. prefs' \in Preferences /\ last' \in Preferences
    <3>1. [prefs EXCEPT !.enabled = TRUE] \in Preferences
      BY DEF Preferences, TypeOK
    <3> QED BY <1>3, <3>1 DEF EditPreferences, Rewrite, TypeOK
  <2> QED BY <1>3, <2>1, ContinueType DEF EditPreferences, bridge, TypeOK
<1>4. CASE ScanDirectory
  <2>1. found' \in Registry
    <3>1. dir \in Dir /\ found \in Registry
      BY DEF TypeOK
    <3>2. dir \in 0..Dirs
      BY <3>1, AppRegistryAssumption DEF Dir
    <3> QED BY <1>4, <3>1, <3>2 DEF ScanDirectory, Registry
  <2>2. dir' \in Dir
    <3>1. dir \in Dir
      BY DEF TypeOK
    <3> QED BY <1>4, <3>1, AppRegistryAssumption DEF ScanDirectory, Dir
  <2>3. script' \in {"scan", "read"}
    BY <1>4 DEF ScanDirectory
  <2> QED BY <1>4, <2>1, <2>2, <2>3 DEF ScanDirectory, bridge, TypeOK
<1>5. CASE ReadPreferences
  <2>1. data' \in Preferences
    BY <1>5, RegisterType DEF ReadPreferences, TypeOK
  <2> QED BY <1>5, <2>1 DEF ReadPreferences, bridge, TypeOK
<1>6. CASE TruncatePreferences
  BY <1>6, NoPrefsType DEF TruncatePreferences, scanning, locals, bridge, TypeOK
<1>7. CASE WritePreferences
  <2>1. run \in {1, 2}
    BY DEF TypeOK
  <2>2. run + 1 \in {1, 2, 3}
    BY <2>1
  <2> QED BY <1>7, <2>2, ContinueType DEF WritePreferences, Rewrite, bridge, TypeOK
<1>8. CASE KillRegisterApps
  <2>1. CASE run = 1
    BY <1>8, <2>1, ContinueType, LoseType DEF KillRegisterApps, bridge, TypeOK
  <2>2. CASE run # 1
    BY <1>8, <2>2, ClearType, LoseType DEF KillRegisterApps, bridge, TypeOK
  <2> QED BY <2>1, <2>2
<1>9. CASE Stop
  BY <1>9, ClearType, LoseType, NoPrefsType DEF Stop, TypeOK
<1>10. CASE StartAsh
  <2>1. ash' \in Preferences
    BY <1>10 DEF StartAsh, Preferences, TypeOK
  <2> QED BY <1>10, <2>1 DEF StartAsh, scanning, locals, bridge, TypeOK
<1>11. ASSUME NEW s \in Settings, ChangeSettings(s) PROVE TypeOK'
  <2>1. ash' \in Preferences
    BY <1>11 DEF ChangeSettings, Preferences, TypeOK
  <2> QED BY <1>11, <2>1 DEF ChangeSettings, scanning, locals, bridge, TypeOK
<1>12. CASE SavePreferences
  BY <1>12 DEF SavePreferences, Rewrite, scanning, locals, bridge, TypeOK
<1>13. ASSUME NEW id \in Id, Launch(id) PROVE TypeOK'
  BY <1>13, NoPrefsType DEF Launch, scanning, locals, TypeOK
<1>14. CASE findApp
  <2>1. ASSUME NEW a \in {"success", "error", "not found"}, Answer(a)
        PROVE  /\ answer' \in [Id -> {"none", "success", "error", "not found"}]
               /\ seeking' \in Id \cup {None} /\ at' \in Dir
    BY <2>1, NoPrefsType DEF Answer, TypeOK
  <2>2. ASSUME at' = at + 1, at < Dirs, UNCHANGED <<seeking, answer>>
        PROVE  /\ answer' \in [Id -> {"none", "success", "error", "not found"}]
               /\ seeking' \in Id \cup {None} /\ at' \in Dir
    <3>1. at \in Dir
      BY DEF TypeOK
    <3>2. at' \in Dir
      BY <2>2, <3>1, AppRegistryAssumption DEF Dir
    <3> QED BY <2>2, <3>2 DEF TypeOK
  <2>3. /\ answer' \in [Id -> {"none", "success", "error", "not found"}]
        /\ seeking' \in Id \cup {None} /\ at' \in Dir
    BY <1>14, <2>1, <2>2 DEF findApp, TypeOK
  <2> QED BY <1>14, <2>3 DEF findApp, scanning, locals, TypeOK
<1>15. CASE UNCHANGED vars
  BY <1>15 DEF vars, scanning, locals, bridge, TypeOK
<1> QED BY <1>1, <1>2, <1>3, <1>4, <1>5, <1>6, <1>7, <1>8, <1>9, <1>10, <1>11,
           <1>12, <1>13, <1>14, <1>15 DEF Next

(* Every variable keeps its type: in particular Preferences never holds    *)
(* anything but a whole file or nothing.                                   *)
THEOREM TypeCorrect == Spec => []TypeOK
  BY TypeInit, TypeNext, PTL DEF Spec

-----------------------------------------------------------------------------
(* What is on disk, and what the three copies of it hold.                  *)

(* The entries and settings of p, and maybe more entries. *)
Extends(p, q) ==
  /\ p.settings = q.settings
  /\ \A id \in Id : q.registry[id] # 0 => p.registry[id] = q.registry[id]

(* Only between emptying and writing does the file differ from what was    *)
(* last written in full; what is about to be written extends that; Ash,    *)
(* the one writer while it runs, has its entries.                          *)
Copies ==
  /\ prefs = IF script = "write" THEN NoPrefs ELSE last
  /\ script \in {"truncate", "write"} => Extends(data, last)
  /\ script = "ash" => ash.registry = last.registry

LEMMA EditKeeps ==
  ASSUME NEW p \in Preferences
  PROVE  /\ [p EXCEPT !.enabled = TRUE].settings = p.settings
         /\ [p EXCEPT !.enabled = TRUE].registry = p.registry
BY DEF Preferences

LEMMA RegisterExtends ==
  ASSUME NEW p \in Preferences, NEW apps \in Registry
  PROVE  Extends(Register(p, apps), p)
BY DEF Register, Extends, Preferences, Registry

LEMMA ContinueScript ==
  ASSUME NEW n, Continue(n)
  PROVE  script' \in {"scan", "start"}
BY DEF Continue

LEMMA CopiesNext == TypeOK /\ Copies /\ [Next]_vars => Copies'
<1> SUFFICES ASSUME TypeOK, Copies, [Next]_vars PROVE Copies'
  OBVIOUS
<1>t. prefs \in Preferences /\ ash \in Preferences /\ found \in Registry
  BY DEF TypeOK
<1>1. CASE UNCHANGED <<prefs, last, script, data, ash>>
  BY <1>1 DEF Copies
<1>2. CASE Login
  BY <1>2 DEF Login, scanning, locals, Copies
<1>3. CASE EditPreferences
  <2>1. prefs' = last' /\ script' \in {"scan", "start"}
    BY <1>3, ContinueScript DEF EditPreferences, Rewrite, Copies
  <2> QED BY <2>1 DEF Copies
<1>4. CASE ScanDirectory
  BY <1>4 DEF ScanDirectory, Copies
<1>5. CASE ReadPreferences
  <2>1. Extends(data', last)
    BY <1>5, <1>t, RegisterExtends DEF ReadPreferences, Copies
  <2> QED BY <1>5, <2>1 DEF ReadPreferences, Copies, Extends
<1>6. CASE TruncatePreferences
  BY <1>6 DEF TruncatePreferences, scanning, locals, Copies, Extends
<1>7. CASE WritePreferences
  <2>1. prefs' = last' /\ script' \in {"scan", "start"}
    BY <1>7, ContinueScript DEF WritePreferences, Rewrite
  <2> QED BY <2>1 DEF Copies
<1>8. CASE KillRegisterApps
  <2>1. script' \in {"scan", "start"}
    BY <1>8, ContinueScript DEF KillRegisterApps
  <2>2. prefs' = last'
    BY <1>8 DEF KillRegisterApps, Lose, Copies
  <2> QED BY <2>1, <2>2 DEF Copies
<1>9. CASE Stop
  BY <1>9 DEF Stop, Lose, Copies
<1>10. CASE StartAsh
  <2>1. ash'.registry = prefs.registry
    BY <1>10, <1>t DEF StartAsh, Preferences
  <2> QED BY <1>10, <2>1 DEF StartAsh, Copies
<1>11. ASSUME NEW s \in Settings, ChangeSettings(s) PROVE Copies'
  <2>1. ash'.registry = ash.registry
    BY <1>11, <1>t DEF ChangeSettings, Preferences
  <2> QED BY <1>11, <2>1 DEF ChangeSettings, Copies
<1>12. CASE SavePreferences
  BY <1>12 DEF SavePreferences, Rewrite, Copies
<1>13. ASSUME NEW d \in Dir, NEW id \in Id, NEW kind \in {"none", "app", "other"},
              ChangeFile(d, id, kind)
       PROVE  Copies'
  BY <1>13, <1>1 DEF ChangeFile, scanning, locals
<1>14. ASSUME NEW id \in Id, Launch(id) PROVE Copies'
  BY <1>14, <1>1 DEF Launch, scanning, locals
<1>15. CASE findApp
  BY <1>15, <1>1 DEF findApp, scanning, locals
<1>16. CASE UNCHANGED vars
  BY <1>16, <1>1 DEF vars, scanning, locals
<1> QED BY <1>2, <1>3, <1>4, <1>5, <1>6, <1>7, <1>8, <1>9, <1>10, <1>11, <1>12,
           <1>13, <1>14, <1>15, <1>16 DEF Next

LEMMA CopiesAlways == Spec => [](TypeOK /\ Copies)
<1>1. Init => Copies
  BY DEF Init, Copies
<1> QED BY <1>1, CopiesNext, TypeInit, TypeNext, PTL DEF Spec

(* A step that writes Preferences keeps the entries that were in it and,   *)
(* unless Ash takes it, the settings.                                      *)
LEMMA StepLosesNothing ==
  ASSUME TypeOK, Copies, [Next]_vars, prefs' # prefs, prefs'.readable
  PROVE  /\ \A id \in Id : last.registry[id] # 0 => prefs'.registry[id] = last.registry[id]
         /\ script # "ash" => prefs'.settings = last.settings
<1>1. NoPrefs.readable = FALSE
  BY DEF NoPrefs
<1>2. CASE EditPreferences
  <2>1. prefs' = [prefs EXCEPT !.enabled = TRUE] /\ prefs = last
    BY <1>2 DEF EditPreferences, Rewrite, Copies
  <2> QED BY <2>1, EditKeeps DEF TypeOK
<1>3. CASE WritePreferences
  BY <1>3 DEF WritePreferences, Rewrite, Copies, Extends
<1>4. CASE SavePreferences
  BY <1>4 DEF SavePreferences, Rewrite, Copies
<1>5. CASE TruncatePreferences
  BY <1>5, <1>1 DEF TruncatePreferences
<1>6. ASSUME prefs' = prefs PROVE FALSE
  BY <1>6
<1>7. ASSUME NEW d \in Dir, NEW id \in Id, NEW kind \in {"none", "app", "other"},
             ChangeFile(d, id, kind)
      PROVE  FALSE
  BY <1>7 DEF ChangeFile
<1>8. ASSUME NEW s \in Settings, ChangeSettings(s) PROVE FALSE
  BY <1>8 DEF ChangeSettings
<1>9. ASSUME NEW id \in Id, Launch(id) PROVE FALSE
  BY <1>9 DEF Launch
<1>10. ~Login /\ ~ScanDirectory /\ ~ReadPreferences /\ ~KillRegisterApps /\ ~Stop
       /\ ~StartAsh /\ ~findApp
  BY DEF Login, ScanDirectory, ReadPreferences, KillRegisterApps, Stop, StartAsh, findApp
<1>11. ~UNCHANGED vars
  BY DEF vars
<1> QED BY <1>2, <1>3, <1>4, <1>5, <1>7, <1>8, <1>9, <1>10, <1>11 DEF Next

(* Through any number of sessions, kills and crashes, no writer of         *)
(* Preferences drops or replaces an entry of the file last written, and    *)
(* none but Ash changes the settings in it.                                *)
THEOREM NothingEverLost == Spec => NothingLost
<1> DEFINE Kept ==
      prefs' # prefs /\ prefs'.readable =>
        /\ \A id \in Id : last.registry[id] # 0 => prefs'.registry[id] = last.registry[id]
        /\ script # "ash" => prefs'.settings = last.settings
<1>1. TypeOK /\ Copies /\ [Next]_vars => [Kept]_vars
  BY StepLosesNothing
<1> QED BY <1>1, CopiesAlways, PTL DEF Spec, NothingLost

-----------------------------------------------------------------------------
(* Entries and the files they were made from.                              *)

(* The file of an entry is still there, or its app has lost a file. *)
Backed(registry, files, gone) ==
  \A id \in Id : registry[id] # 0 /\ id \notin gone => files[registry[id]][id] = "app"

(* The search for an app that Ash shows has not passed the file of its     *)
(* entry: it would have ended there.                                       *)
Ahead ==
  seeking # None =>
    /\ script = "ash" /\ last.registry[seeking] # 0
    /\ seeking \notin removed => at <= last.registry[seeking]

Entries ==
  /\ Backed(found, desktop, removed)
  /\ Backed(last.registry, desktop, removed)
  /\ script \in {"truncate", "write"} => Backed(data.registry, desktop, removed)
  /\ Ahead
  /\ NotFoundOnlyIfRemoved

LEMMA NothingBacked ==
  ASSUME NEW files, NEW gone
  PROVE  Backed(NoPrefs.registry, files, gone)
BY DEF Backed, NoPrefs

(* A file that changes leaves no entry behind that is not accounted for. *)
LEMMA ChangeBacked ==
  ASSUME TypeOK, NEW r \in Registry, Backed(r, desktop, removed),
         NEW d \in Dir, NEW id \in Id, NEW kind \in {"none", "app", "other"},
         ChangeFile(d, id, kind)
  PROVE  Backed(r, desktop', removed')
<1> SUFFICES ASSUME NEW x \in Id, r[x] # 0, x \notin removed'
             PROVE  desktop'[r[x]][x] = "app"
  BY DEF Backed
<1>1. x \notin removed
  BY DEF ChangeFile
<1>2. desktop[r[x]][x] = "app"
  BY <1>1 DEF Backed
<1>3. r[x] \in Dir
  BY AppRegistryAssumption DEF Registry, Dir
<1>4. ~(r[x] = d /\ x = id)
  BY <1>2 DEF ChangeFile
<1>5. desktop'[r[x]][x] = desktop[r[x]][x]
  BY <1>3, <1>4 DEF ChangeFile, TypeOK
<1> QED BY <1>2, <1>5

LEMMA RegisterBacked ==
  ASSUME NEW p \in Preferences, NEW apps \in Registry, NEW files, NEW gone,
         Backed(p.registry, files, gone), Backed(apps, files, gone)
  PROVE  Backed(Register(p, apps).registry, files, gone)
BY DEF Backed, Register, Preferences, Registry

(* No step outside crostini-bridge and Ash disturbs a search or an answer. *)
LEMMA QuietSearch ==
  ASSUME Entries, UNCHANGED <<seeking, at, answer, removed>>, script # "ash"
  PROVE  Ahead' /\ NotFoundOnlyIfRemoved'
BY DEF Entries, Ahead, NotFoundOnlyIfRemoved

LEMMA EntriesNext == TypeOK /\ Copies /\ Entries /\ [Next]_vars => Entries'
<1> SUFFICES ASSUME TypeOK, Copies, Entries, [Next]_vars PROVE Entries'
  OBVIOUS
<1>t. /\ prefs \in Preferences /\ last \in Preferences /\ data \in Preferences
      /\ ash \in Preferences /\ found \in Registry
      /\ last.registry \in Registry /\ data.registry \in Registry
  BY DEF TypeOK, Preferences
<1>e. /\ Backed(found, desktop, removed)
      /\ Backed(last.registry, desktop, removed)
      /\ script \in {"truncate", "write"} => Backed(data.registry, desktop, removed)
  BY DEF Entries
<1>1. ASSUME NEW d \in Dir, NEW id \in Id, NEW kind \in {"none", "app", "other"},
             ChangeFile(d, id, kind)
      PROVE  Entries'
  <2>1. UNCHANGED <<found, last, data, script, seeking, at, answer>>
    BY <1>1 DEF ChangeFile, scanning, locals, bridge
  <2>2. removed \subseteq removed'
    BY <1>1 DEF ChangeFile
  <2>3. /\ Backed(found, desktop', removed')
        /\ Backed(last.registry, desktop', removed')
        /\ script \in {"truncate", "write"} => Backed(data.registry, desktop', removed')
    BY <1>1, <1>t, <1>e, ChangeBacked
  <2> QED BY <2>1, <2>2, <2>3 DEF Entries, Ahead, NotFoundOnlyIfRemoved
<1>2. CASE Login
  <2>1. Ahead' /\ NotFoundOnlyIfRemoved'
    BY <1>2, QuietSearch DEF Login, bridge
  <2> QED BY <1>2, <1>e, <2>1 DEF Login, Entries, scanning, locals
<1>3. CASE EditPreferences
  <2>1. Ahead' /\ NotFoundOnlyIfRemoved'
    BY <1>3, QuietSearch DEF EditPreferences, bridge
  <2>2. last'.registry = last.registry
    <3>1. prefs = last /\ (last' = last \/ last' = [prefs EXCEPT !.enabled = TRUE])
      BY <1>3 DEF EditPreferences, Rewrite, Copies
    <3> QED BY <1>t, <3>1, EditKeeps
  <2>3. script' \in {"scan", "start"} /\ found' = NoPrefs.registry
    BY <1>3, ContinueScript DEF EditPreferences, Continue, ClearLocals
  <2> QED BY <1>3, <1>e, <2>1, <2>2, <2>3, NothingBacked DEF EditPreferences, Entries
<1>4. CASE ScanDirectory
  <2>1. Ahead' /\ NotFoundOnlyIfRemoved'
    BY <1>4, QuietSearch DEF ScanDirectory, bridge
  <2>2. Backed(found', desktop, removed)
    BY <1>4, <1>e DEF ScanDirectory, Backed, parseDesktop
  <2> QED BY <1>4, <1>e, <2>1, <2>2 DEF ScanDirectory, Entries
<1>5. CASE ReadPreferences
  <2>1. Ahead' /\ NotFoundOnlyIfRemoved'
    BY <1>5, QuietSearch DEF ReadPreferences, bridge
  <2>2. data' = Register(last, found)
    BY <1>5 DEF ReadPreferences, Copies
  <2>3. Backed(data'.registry, desktop, removed)
    BY <1>t, <1>e, <2>2, RegisterBacked
  <2> QED BY <1>5, <1>e, <2>1, <2>3 DEF ReadPreferences, Entries
<1>6. CASE TruncatePreferences
  <2>1. Ahead' /\ NotFoundOnlyIfRemoved'
    BY <1>6, QuietSearch DEF TruncatePreferences, bridge
  <2> QED BY <1>6, <1>e, <2>1 DEF TruncatePreferences, Entries, scanning, locals
<1>7. CASE WritePreferences
  <2>1. Ahead' /\ NotFoundOnlyIfRemoved'
    BY <1>7, QuietSearch DEF WritePreferences, bridge
  <2>2. script' \in {"scan", "start"} /\ found' = NoPrefs.registry
    BY <1>7, ContinueScript DEF WritePreferences, Continue, ClearLocals
  <2> QED BY <1>7, <1>e, <2>1, <2>2, NothingBacked DEF WritePreferences, Rewrite, Entries
<1>l. ASSUME Lose PROVE Backed(last'.registry, desktop, removed)
  BY <1>l, <1>e, NothingBacked DEF Lose
<1>8. CASE KillRegisterApps
  <2>1. Ahead' /\ NotFoundOnlyIfRemoved'
    BY <1>8, QuietSearch DEF KillRegisterApps, bridge
  <2>2. script' \in {"scan", "start"} /\ found' = NoPrefs.registry
    BY <1>8, ContinueScript DEF KillRegisterApps, Continue, ClearLocals
  <2> QED BY <1>8, <1>l, <2>1, <2>2, NothingBacked DEF KillRegisterApps, Entries
<1>9. CASE Stop
  <2>1. Ahead' /\ NotFoundOnlyIfRemoved'
    BY <1>9 DEF Stop, Ahead, NotFoundOnlyIfRemoved
  <2> QED BY <1>9, <1>l, <2>1, NothingBacked DEF Stop, Entries, ClearLocals
<1>10. CASE StartAsh
  <2>1. Ahead' /\ NotFoundOnlyIfRemoved'
    BY <1>10, QuietSearch DEF StartAsh, bridge
  <2> QED BY <1>10, <1>e, <2>1 DEF StartAsh, Entries, scanning, locals
<1>11. ASSUME NEW s \in Settings, ChangeSettings(s) PROVE Entries'
  BY <1>11 DEF ChangeSettings, Entries, Ahead, NotFoundOnlyIfRemoved, scanning, locals, bridge
<1>12. CASE SavePreferences
  <2>1. last'.registry = last.registry
    BY <1>12 DEF SavePreferences, Rewrite, Copies
  <2> QED BY <1>12, <1>e, <2>1
        DEF SavePreferences, Entries, Ahead, NotFoundOnlyIfRemoved, scanning, locals, bridge
<1>13. ASSUME NEW id \in Id, Launch(id) PROVE Entries'
  <2>1. last.registry[id] \in 1..Dirs
    BY <1>13, <1>t, AppRegistryAssumption DEF Launch, Copies, Registry
  <2>2. Ahead'
    BY <1>13, <2>1, AppRegistryAssumption DEF Launch, Ahead
  <2> QED BY <1>13, <1>e, <2>2
        DEF Launch, Entries, NotFoundOnlyIfRemoved, scanning, locals
<1>14. CASE findApp
  <2>1. /\ seeking \in Id /\ at \in Dir /\ last.registry[seeking] \in 0..Dirs
    BY <1>14, <1>t DEF findApp, TypeOK, Registry
  <2>2. parseDesktop(at, seeking) \/ seeking \in removed \/ at < last.registry[seeking]
    <3>1. ASSUME seeking \notin removed
          PROVE  /\ at <= last.registry[seeking]
                 /\ parseDesktop(last.registry[seeking], seeking)
      BY <1>14, <1>e, <2>1, <3>1 DEF findApp, Entries, Ahead, Backed, parseDesktop
    <3>2. ASSUME at = last.registry[seeking], seeking \notin removed
          PROVE  parseDesktop(at, seeking)
      BY <3>1, <3>2
    <3> QED BY <2>1, <3>1, <3>2, AppRegistryAssumption DEF Dir
  <2>3. UNCHANGED <<desktop, last, data, found, script, removed>>
    BY <1>14 DEF findApp, scanning, locals
  <2>4. ASSUME NEW a, Answer(a), a = "not found" => seeking \in removed
        PROVE  Ahead' /\ NotFoundOnlyIfRemoved'
    <3>1. answer' = [answer EXCEPT ![seeking] = a] /\ answer \in [Id -> {"none", "success", "error", "not found"}]
      BY <2>4 DEF Answer, TypeOK
    <3>2. NotFoundOnlyIfRemoved'
      BY <2>3, <2>4, <3>1 DEF Entries, NotFoundOnlyIfRemoved
    <3>3. Ahead'
      BY <2>4 DEF Answer, Ahead
    <3> QED BY <3>2, <3>3
  <2>5. ASSUME ~parseDesktop(at, seeking), at < Dirs, at' = at + 1,
               UNCHANGED <<seeking, answer>>
        PROVE  Ahead' /\ NotFoundOnlyIfRemoved'
    <3>1. seeking \in removed \/ at + 1 <= last.registry[seeking]
      BY <2>1, <2>2, <2>5, AppRegistryAssumption DEF Dir
    <3> QED BY <1>14, <2>3, <2>5, <3>1 DEF Entries, Ahead, NotFoundOnlyIfRemoved
  <2>6. ASSUME ~parseDesktop(at, seeking), ~(at < Dirs)
        PROVE  seeking \in removed
    BY <2>1, <2>2, <2>6, AppRegistryAssumption DEF Dir
  <2>7. Ahead' /\ NotFoundOnlyIfRemoved'
    BY <1>14, <2>4, <2>5, <2>6 DEF findApp
  <2> QED BY <1>e, <2>3, <2>7 DEF Entries
<1>15. CASE UNCHANGED vars
  BY <1>15, <1>e DEF vars, Entries, Ahead, NotFoundOnlyIfRemoved, scanning, locals, bridge
<1> QED BY <1>1, <1>2, <1>3, <1>4, <1>5, <1>6, <1>7, <1>8, <1>9, <1>10, <1>11,
           <1>12, <1>13, <1>14, <1>15 DEF Next

(* Whatever is installed or removed while Ash runs and apps are looked     *)
(* for: an app that Ash shows is answered "not found" only if it lost one  *)
(* of its files at some time.                                              *)
THEOREM NotFoundIsTrue == Spec => []NotFoundOnlyIfRemoved
<1>1. Init => Copies
  BY DEF Init, Copies
<1>2. Init => Entries
  <2> SUFFICES ASSUME Init PROVE Entries
    OBVIOUS
  <2>1. last.registry = NoPrefs.registry
    <3>1. ASSUME NEW s \in Settings
          PROVE  [NoPrefs EXCEPT !.readable = TRUE, !.settings = s].registry = NoPrefs.registry
      BY DEF NoPrefs
    <3> QED BY <3>1 DEF Init
  <2> QED BY <2>1, NothingBacked DEF Init, Entries, Ahead, NotFoundOnlyIfRemoved
<1>3. Entries => NotFoundOnlyIfRemoved
  BY DEF Entries
<1> QED BY <1>1, <1>2, <1>3, TypeInit, TypeNext, CopiesNext, EntriesNext, PTL DEF Spec

-----------------------------------------------------------------------------
(* Completeness: what the scan knows, and what is registered from it.      *)

(* The directory r, within the first n, is where id is found first. *)
FoundWithin(files, n, id, r) ==
  IF r = 0 THEN \A e \in 1..n : files[e][id] # "app"
           ELSE /\ r \in 1..n /\ files[r][id] = "app"
                /\ \A e \in 1..(r - 1) : files[e][id] # "app"

Complete(p, files, changed) ==
  /\ p.enabled
  /\ \A id \in Id \ changed :
       (\E d \in Dir : files[d][id] = "app") => p.registry[id] # 0

Coverage ==
  /\ script = "scan" =>
       \A id \in Id \ touched : FoundWithin(desktop, dir - 1, id, found[id])
  /\ script = "read" =>
       \A id \in Id \ touched : FoundWithin(desktop, Dirs, id, found[id])
  /\ script \in {"truncate", "write"} => Complete(data, desktop, touched)
  /\ script = "start" /\ ~killed => Complete(prefs, desktop, touched)
  /\ script = "ash" /\ ~killed => Complete(ash, desktop, touched)

LEMMA CoverageNext == TypeOK /\ Coverage /\ [Next]_vars => Coverage'
<1> SUFFICES ASSUME TypeOK, Coverage, [Next]_vars PROVE Coverage'
  OBVIOUS
<1>t. /\ prefs \in Preferences /\ data \in Preferences /\ ash \in Preferences
      /\ found \in Registry /\ dir \in Dir
  BY DEF TypeOK
<1>n. ASSUME Continue(1) \/ Continue(2)
      PROVE  script' = "scan" /\ dir' = 1 /\ \A id \in Id : found'[id] = 0
  BY <1>n DEF Continue, ClearLocals, NoPrefs
<1>s. ASSUME script' = "scan", dir' = 1, \A id \in Id : found'[id] = 0
      PROVE  Coverage'
  BY <1>s DEF Coverage, FoundWithin
<1>1. ASSUME NEW d \in Dir, NEW id \in Id, NEW kind \in {"none", "app", "other"},
             ChangeFile(d, id, kind)
      PROVE  Coverage'
  <2>1. \A x \in Id \ touched', e \in Dir : desktop'[e][x] = desktop[e][x]
    BY <1>1 DEF ChangeFile, TypeOK
  <2>2. touched \subseteq touched'
    BY <1>1 DEF ChangeFile
  <2>3. UNCHANGED <<script, killed, dir, found, data, prefs, ash>>
    BY <1>1 DEF ChangeFile, scanning, locals
  <2>4. ASSUME NEW p, Complete(p, desktop, touched)
        PROVE  Complete(p, desktop', touched')
    BY <2>1, <2>2, <2>4 DEF Complete
  <2>5. ASSUME NEW n \in 0..Dirs, NEW x \in Id \ touched', NEW r,
               FoundWithin(desktop, n, x, r)
        PROVE  FoundWithin(desktop', n, x, r)
    BY <2>1, <2>5, AppRegistryAssumption DEF FoundWithin, Dir
  <2>6. dir - 1 \in 0..Dirs /\ Dirs \in 0..Dirs
    BY <1>t, AppRegistryAssumption DEF Dir
  <2> QED BY <2>2, <2>3, <2>4, <2>5, <2>6 DEF Coverage
<1>2. CASE Login
  BY <1>2 DEF Login, Coverage
<1>3. CASE EditPreferences
  BY <1>3, <1>n, <1>s DEF EditPreferences
<1>4. CASE ScanDirectory
  <2>1. UNCHANGED <<desktop, touched>> /\ script = "scan"
    BY <1>4 DEF ScanDirectory
  <2>2. ASSUME NEW id \in Id \ touched
        PROVE  FoundWithin(desktop, dir, id, found'[id])
    <3>1. FoundWithin(desktop, dir - 1, id, found[id])
      BY <2>1 DEF Coverage
    <3>2. found'[id] = IF found[id] = 0 /\ desktop[dir][id] = "app" THEN dir ELSE found[id]
      BY <1>4 DEF ScanDirectory, parseDesktop
    <3>3. dir \in Nat \ {0} /\ found[id] \in Nat
      BY <1>t, AppRegistryAssumption DEF Dir, Registry
    <3> QED BY <3>1, <3>2, <3>3 DEF FoundWithin
  <2>3. CASE dir < Dirs
    <3>1. script' = "scan" /\ dir' - 1 = dir
      BY <1>4, <1>t, <2>1, <2>3, AppRegistryAssumption DEF ScanDirectory, Dir
    <3> QED BY <2>1, <2>2, <3>1 DEF Coverage
  <2>4. CASE ~(dir < Dirs)
    <3>1. script' = "read" /\ dir = Dirs
      BY <1>4, <1>t, <2>4, AppRegistryAssumption DEF ScanDirectory, Dir
    <3> QED BY <2>1, <2>2, <3>1 DEF Coverage
  <2> QED BY <2>3, <2>4
<1>5. CASE ReadPreferences
  <2>1. data'.enabled /\ \A id \in Id : found[id] # 0 => data'.registry[id] # 0
    BY <1>5, <1>t DEF ReadPreferences, Register, Preferences
  <2>2. ASSUME NEW id \in Id \ touched, \E d \in Dir : desktop[d][id] = "app"
        PROVE  found[id] # 0
    BY <1>5, <2>2 DEF ReadPreferences, Coverage, FoundWithin, Dir
  <2>3. Complete(data', desktop, touched)
    BY <2>1, <2>2 DEF Complete
  <2> QED BY <1>5, <2>3 DEF ReadPreferences, Coverage
<1>6. CASE TruncatePreferences
  BY <1>6 DEF TruncatePreferences, Coverage, scanning, locals
<1>7. CASE WritePreferences
  <2>1. CASE run = 1
    BY <1>7, <2>1, <1>n, <1>s DEF WritePreferences
  <2>2. CASE run = 2
    BY <1>7, <2>2 DEF WritePreferences, Rewrite, Continue, Coverage
  <2> QED BY <2>1, <2>2 DEF TypeOK
<1>8. CASE KillRegisterApps
  <2>1. CASE run = 1
    BY <1>8, <2>1, <1>n, <1>s DEF KillRegisterApps
  <2>2. CASE run # 1
    BY <1>8, <2>2 DEF KillRegisterApps, Coverage
  <2> QED BY <2>1, <2>2
<1>9. CASE Stop
  BY <1>9 DEF Stop, Coverage
<1>10. CASE StartAsh
  <2>1. ash'.enabled = prefs.enabled /\ ash'.registry = prefs.registry
    BY <1>10, <1>t DEF StartAsh, Preferences
  <2> QED BY <1>10, <2>1 DEF StartAsh, Coverage, Complete, scanning, locals
<1>11. ASSUME NEW s \in Settings, ChangeSettings(s) PROVE Coverage'
  <2>1. ash'.enabled = ash.enabled /\ ash'.registry = ash.registry
    BY <1>11, <1>t DEF ChangeSettings, Preferences
  <2> QED BY <1>11, <2>1 DEF ChangeSettings, Coverage, Complete, scanning, locals
<1>12. CASE SavePreferences
  BY <1>12 DEF SavePreferences, Coverage, scanning, locals
<1>13. ASSUME NEW id \in Id, Launch(id) PROVE Coverage'
  BY <1>13 DEF Launch, Coverage, scanning, locals
<1>14. CASE findApp
  BY <1>14 DEF findApp, Coverage, scanning, locals
<1>15. CASE UNCHANGED vars
  BY <1>15 DEF vars, Coverage, scanning, locals
<1> QED BY <1>1, <1>2, <1>3, <1>4, <1>5, <1>6, <1>7, <1>8, <1>9, <1>10, <1>11,
           <1>12, <1>13, <1>14, <1>15 DEF Next

LEMMA CoverageAlways == Spec => [](TypeOK /\ Coverage)
<1>1. Init => Coverage
  BY DEF Init, Coverage
<1> QED BY <1>1, TypeInit, TypeNext, CoverageNext, PTL DEF Spec

(* Whatever happened to earlier sessions and to this session's first run   *)
(* of register-apps: Ash shows every app whose files did not change since  *)
(* the last run began, if that run was not killed.                         *)
THEOREM AshAlwaysShowsEveryApp == Spec => []AshShowsEveryApp
<1>1. Coverage => AshShowsEveryApp
  BY DEF Coverage, Complete, AshShowsEveryApp, Available, parseDesktop
<1> QED BY <1>1, CoverageAlways, PTL

(* The two searches of the directories, one that lists them all and one    *)
(* that asks for a name, choose the same file for every app.               *)
THEOREM ScanAlwaysAgrees == Spec => []ScanAgreesWithFindApp
<1>1. TypeOK /\ Coverage => ScanAgreesWithFindApp
  <2> SUFFICES ASSUME TypeOK, Coverage, script = "read", NEW id \in Id \ touched
               PROVE  found[id] = First(id)
    BY DEF ScanAgreesWithFindApp
  <2>1. FoundWithin(desktop, Dirs, id, found[id])
    BY DEF Coverage
  <2>2. CASE found[id] = 0
    BY <2>1, <2>2 DEF FoundWithin, First, Available, parseDesktop, Dir
  <2>3. CASE found[id] # 0
    <3> DEFINE Is(d) == parseDesktop(d, id) /\ \A e \in 1..(d - 1) : ~parseDesktop(e, id)
    <3>1. found[id] \in Dir /\ Is(found[id])
      BY <2>1, <2>3 DEF FoundWithin, parseDesktop, Dir
    <3>2. ASSUME NEW d \in Dir, Is(d) PROVE d = found[id]
      <4>1. ~(d < found[id]) /\ ~(found[id] < d)
        BY <3>1, <3>2, AppRegistryAssumption DEF Dir
      <4> QED BY <3>1, <4>1, AppRegistryAssumption DEF Dir
    <3>3. First(id) = CHOOSE d \in Dir : Is(d)
      BY <3>1 DEF First, Available
    <3> HIDE DEF Is
    <3> QED BY <3>1, <3>2, <3>3
  <2> QED BY <2>2, <2>3
<1> QED BY <1>1, CoverageAlways, PTL
=============================================================================
