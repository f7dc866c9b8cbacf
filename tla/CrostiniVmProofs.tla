--------------------------- MODULE CrostiniVmProofs ---------------------------
(***************************************************************************)
(* Proofs about CrostiniVm, for any calls, users, requests and number of   *)
(* changes to the desktop files.                                           *)
(***************************************************************************)
EXTENDS CrostiniVm, TLAPS, WellFoundedInduction

-----------------------------------------------------------------------------
(* Whatever request comes, the owner is a user, another name or the        *)
(* placeholder, and a user stays a user unless a Name is where the owner   *)
(* is looked for.                                                          *)

Text == User \cup Reserved \cup Name \cup {None}

LEMMA SmallestIndex ==
  ASSUME NEW S \in SUBSET Nat, S # {}
  PROVE  \E i \in S : \A j \in S : i <= j
<1> DEFINE R == OpToRel(<, Nat)
<1>1. IsWellFoundedOn(R, Nat)
  BY NatLessThanWellFounded
<1>2. PICK i \in S : \A j \in S : ~(<<j, i>> \in R)
  <2> HIDE DEF R
  <2> QED
    BY <1>1, WFMin
<1>3. ASSUME NEW j \in S PROVE i <= j
  <2>1. i \in Nat /\ j \in Nat
    OBVIOUS
  <2>2. ~(j < i)
    BY <1>2, <2>1 DEF OpToRel
  <2> QED
    BY <2>1, <2>2
<1> QED
  BY <1>3

LEMMA LargestIndex ==
  ASSUME NEW n \in Nat, NEW S \in SUBSET (1..n), S # {}
  PROVE  \E i \in S : \A j \in S : j <= i
<1> DEFINE T == {n - i : i \in S}
<1>1. ASSUME NEW i \in S PROVE i \in Int /\ n - i \in Nat
  OBVIOUS
<1>2. T \in SUBSET Nat /\ T # {}
  BY <1>1
<1>3. PICK x \in T : \A y \in T : x <= y
  <2> HIDE DEF T
  <2> QED
    BY <1>2, SmallestIndex
<1>4. PICK i \in S : x = n - i
  OBVIOUS
<1>5. ASSUME NEW j \in S PROVE j <= i
  <2>1. n - j \in T
    OBVIOUS
  <2>2. n - i <= n - j
    BY <1>3, <1>4, <2>1
  <2> QED
    BY <1>1, <2>2
<1> QED
  BY <1>5

LEMMA DecodedTyped ==
  ASSUME NEW req \in Requests
  PROVE  decodeStringFields(req) \in [Field -> Text]
<1>1. req \in Seq(Entry)
  BY CrostiniVmAssumption
<1>2. Len(req) \in Nat /\ DOMAIN req = 1..Len(req) /\ \A i \in DOMAIN req : req[i] \in Entry
  BY <1>1
<1>3. ASSUME NEW f \in Field PROVE decodeStringFields(req)[f] \in Text
  <2> DEFINE at == {i \in DOMAIN req : /\ req[i].type = "text" /\ req[i].field = f
                                       /\ \A j \in 1..i : req[j].type # "group"}
             last == CHOOSE i \in at : \A j \in at : j <= i
  <2>1. CASE at = {}
    BY <2>1 DEF decodeStringFields, Text
  <2>2. CASE at # {}
    <3>1. at \in SUBSET (1..Len(req))
      BY <1>2
    <3>2. \E i \in at : \A j \in at : j <= i
      <4> HIDE DEF at
      <4> QED
        BY <1>2, <2>2, <3>1, LargestIndex
    <3>3. last \in at
      <4> HIDE DEF at
      <4> QED
        BY <3>2
    <3>4. req[last] \in Entry
      BY <1>2, <3>3
    <3>5. req[last].text \in Text
      <4> HIDE DEF last
      <4> QED
        BY <3>4 DEF Entry, Text
    <3> QED
      BY <2>2, <3>5 DEF decodeStringFields
  <2> QED
    BY <2>1, <2>2
<1> QED
  BY <1>3 DEF decodeStringFields

LEMMA OwnerInHeld ==
  ASSUME NEW fields \in [Field -> Text]
  PROVE  \/ OwnerIn(fields) = None
         \/ \E f \in LearnFields : OwnerIn(fields) = fields[f]
<1> DEFINE held == {i \in 1..5 : fields[OwnerFields[i]] # None}
           first == CHOOSE i \in held : \A j \in held : i <= j
<1>1. \A i \in 1..5 : OwnerFields[i] \in LearnFields
  BY DEF OwnerFields, LearnFields
<1>2. DOMAIN OwnerFields = 1..5
  BY DEF OwnerFields
<1>3. CASE held = {}
  BY <1>2, <1>3 DEF OwnerIn
<1>4. CASE held # {}
  <2>1. \E i \in held : \A j \in held : i <= j
    <3>1. held \in SUBSET Nat
      OBVIOUS
    <3> HIDE DEF held
    <3> QED
      BY <1>4, <3>1, SmallestIndex
  <2>2. first \in held
    <3> HIDE DEF held
    <3> QED
      BY <2>1
  <2>3. OwnerFields[first] \in LearnFields
    BY <1>1, <2>2
  <2> QED
    BY <1>2, <1>4, <2>3 DEF OwnerIn
<1> QED
  BY <1>3, <1>4

(* Every action leaves the owner alone or learns it from a request, and    *)
(* what displaces a user is heard.                                         *)
Forgotten == familiar' = [s \in Start |-> FALSE]

OwnerStep ==
  /\ owner' \in Owner
  /\ owner \in User => owner' \in User \/ Forgotten

LEMMA SetOwner ==
  ASSUME owner \in Owner, NEW v \in Text, setOwnerID(v)
  PROVE  owner' \in Owner /\ (owner \in User => owner' \in User \/ v \in Name)
BY DEF setOwnerID, Owner, Text

LEMMA LearnOwner ==
  ASSUME owner \in Owner, NEW req \in Requests,
         learnOwnerID(req), Heard(req, LearnFields)
  PROVE  OwnerStep
<1> DEFINE fields == decodeStringFields(req)
<1>1. fields \in [Field -> Text]
  BY DecodedTyped
<1>2. LearnFields \subseteq Field
  BY DEF LearnFields, Field
<1>3. None \in Text /\ None \notin Name
  BY CrostiniVmAssumption DEF Text
<1> HIDE DEF fields
<1>4. OwnerIn(fields) \in Text
  BY <1>1, <1>2, <1>3, OwnerInHeld
<1>5. OwnerIn(fields) \in Name => \E f \in LearnFields : fields[f] \in Name
  BY <1>1, <1>3, OwnerInHeld
<1>6. owner' \in Owner /\ (owner \in User => owner' \in User \/ OwnerIn(fields) \in Name)
  BY <1>4, SetOwner DEF learnOwnerID, fields
<1>7. (\E f \in LearnFields : fields[f] \in Name) => Forgotten
  BY DEF Heard, Forgotten, fields
<1> QED
  BY <1>5, <1>6, <1>7 DEF OwnerStep

LEMMA LaunchOwner ==
  ASSUME owner \in Owner, NEW req \in Requests, Launch(req)
  PROVE  OwnerStep
<1>1. decodeStringFields(req)[4] \in Text
  BY DecodedTyped DEF Field
<1> QED
  BY <1>1, SetOwner DEF Launch, Heard, Forgotten, OwnerStep

LEMMA OwnerNext == owner \in Owner /\ [Next]_vars => OwnerStep
<1> SUFFICES ASSUME owner \in Owner, [Next]_vars PROVE OwnerStep
  OBVIOUS
<1>1. ASSUME NEW req \in Requests, Learn(req) PROVE OwnerStep
  BY <1>1, LearnOwner DEF Learn
<1>2. ASSUME NEW req \in Requests, Launch(req) PROVE OwnerStep
  BY <1>2, LaunchOwner
<1>3. ASSUME NEW p \in Stop, NEW req \in Requests, StopVm(p, req) PROVE OwnerStep
  BY <1>3, LearnOwner DEF StopVm
<1>4. ASSUME UNCHANGED owner PROVE OwnerStep
  BY <1>4 DEF OwnerStep
<1>5. ASSUME NEW s \in Start, StartVm(s) \/ Announce(s) PROVE UNCHANGED owner
  BY <1>5 DEF StartVm, Announce, EncodeVmStarted, EmitVmStarted, EncodeContainerStarted,
              EmitContainerStarted, Encode
<1>6. ASSUME NEW p \in Stop, MarkStopped(p) \/ ReplyStopped(p) PROVE UNCHANGED owner
  BY <1>6 DEF MarkStopped, ReplyStopped
<1>7. ASSUME Change \/ TimedScan \/ TimedStore \/ Sighup \/ Rescan \/ RescanStore
      PROVE  UNCHANGED owner
  BY <1>7 DEF Change, TimedScan, TimedStore, Sighup, Rescan, RescanStore
<1>8. ASSUME UNCHANGED vars PROVE UNCHANGED owner
  BY <1>8 DEF vars
<1> QED
  BY <1>1, <1>2, <1>3, <1>4, <1>5, <1>6, <1>7, <1>8 DEF Next

-----------------------------------------------------------------------------
(* What the calls do, for the conjuncts about the virtual machine: the     *)
(* handlers that only learn the owner, and the scans, do nothing to it,    *)
(* and hear at most a Name.                                                *)

VmStep ==
  \/ \E s \in Start : StartVm(s) \/ Announce(s)
  \/ \E p \in Stop : MarkStopped(p) \/ ReplyStopped(p)
                     \/ \E req \in Requests : StopVm(p, req)
  \/ UNCHANGED vm /\ (UNCHANGED familiar \/ Forgotten)

LEMMA NextVm == [Next]_vars => VmStep
BY DEF Next, VmStep, vars, Learn, Launch, Heard, Forgotten, Change, TimedScan, TimedStore, Sighup, Rescan,
       RescanStore

ScanStep ==
  \/ Change \/ TimedScan \/ TimedStore \/ Sighup \/ Rescan \/ RescanStore
  \/ UNCHANGED scanner

LEMMA NextScan == [Next]_vars => ScanStep
BY DEF Next, ScanStep, vars, Learn, Launch, StartVm, Announce, EncodeVmStarted, EmitVmStarted,
       EncodeContainerStarted, EmitContainerStarted, Encode, MarkStopped, ReplyStopped, StopVm

VmTyped ==
  /\ ready \in BOOLEAN /\ told \in BOOLEAN /\ overlapped \in BOOLEAN
  /\ start \in [Start -> {"new", "boot", "vm", "settle", "container", "done"}]
  /\ stop \in [Stop -> {"new", "mark", "reply", "done"}]
  /\ named \in [Start -> Owner \cup {None}]
  /\ familiar \in [Start -> BOOLEAN] /\ stopped \in [Start -> BOOLEAN]

ScanTyped ==
  /\ files \in 0..MaxChanges /\ apps \in 0..MaxChanges
  /\ timed \in 0..MaxChanges \cup {Asleep, Over}
  /\ rescan \in 0..MaxChanges \cup {Asleep}
  /\ hangup \in 0..1 /\ rescanFrom \in 0..MaxChanges

LEMMA Parts == TypeOK <=> owner \in Owner /\ VmTyped /\ ScanTyped
BY DEF TypeOK, VmTyped, ScanTyped

LEMMA VmTypedStep == owner \in Owner /\ VmTyped /\ VmStep => VmTyped'
<1> SUFFICES ASSUME owner \in Owner, VmTyped, VmStep PROVE VmTyped'
  OBVIOUS
<1> USE DEF VmTyped
<1>1. ASSUME NEW s \in Start, StartVm(s) PROVE VmTyped'
  BY <1>1 DEF StartVm, StartAt, Stopping
<1>2. ASSUME NEW s \in Start, EncodeVmStarted(s) \/ EncodeContainerStarted(s) PROVE VmTyped'
  BY <1>2 DEF EncodeVmStarted, EncodeContainerStarted, Encode, StartAt
<1>3. ASSUME NEW s \in Start, EmitVmStarted(s) \/ EmitContainerStarted(s) PROVE VmTyped'
  BY <1>3 DEF EmitVmStarted, EmitContainerStarted, StartAt
<1>4. ASSUME NEW p \in Stop, MarkStopped(p) \/ ReplyStopped(p) PROVE VmTyped'
  BY <1>4 DEF MarkStopped, ReplyStopped
<1>5. ASSUME NEW p \in Stop, NEW req \in Requests, StopVm(p, req) PROVE VmTyped'
  BY <1>5 DEF StopVm, Heard, Starting
<1>6. CASE UNCHANGED vm /\ (UNCHANGED familiar \/ Forgotten)
  BY <1>6 DEF vm, Forgotten
<1> QED
  BY <1>1, <1>2, <1>3, <1>4, <1>5, <1>6 DEF VmStep, Announce

LEMMA ScanTypedStep == ScanTyped /\ ScanStep => ScanTyped'
<1> SUFFICES ASSUME ScanTyped, ScanStep PROVE ScanTyped'
  OBVIOUS
<1>0. MaxChanges \in Nat
  BY CrostiniVmAssumption
<1> USE DEF ScanTyped, Asleep, Over
<1>1. CASE Change
  BY <1>0, <1>1 DEF Change
<1>2. CASE TimedScan
  BY <1>2 DEF TimedScan
<1>3. CASE TimedStore
  BY <1>0, <1>3 DEF TimedStore, Scanned
<1>4. CASE Sighup
  BY <1>4 DEF Sighup
<1>5. CASE Rescan
  BY <1>5 DEF Rescan
<1>6. CASE RescanStore
  BY <1>0, <1>6 DEF RescanStore, Scanned
<1>7. CASE UNCHANGED scanner
  BY <1>7 DEF scanner
<1> QED
  BY <1>1, <1>2, <1>3, <1>4, <1>5, <1>6, <1>7 DEF ScanStep

LEMMA TypeInit == Init => TypeOK
<1> SUFFICES ASSUME Init PROVE TypeOK
  OBVIOUS
<1>1. MaxChanges \in Nat
  BY CrostiniVmAssumption
<1>2. VmTyped
  BY DEF Init, VmTyped
<1>3. ScanTyped
  BY <1>1 DEF Init, ScanTyped
<1>4. owner \in Owner
  BY DEF Init, Owner
<1> QED
  BY <1>2, <1>3, <1>4, Parts

LEMMA TypeStep == TypeOK /\ [Next]_vars => TypeOK'
<1> SUFFICES ASSUME TypeOK, [Next]_vars PROVE TypeOK'
  OBVIOUS
<1>1. VmTyped' /\ ScanTyped'
  BY Parts, NextVm, NextScan, VmTypedStep, ScanTypedStep
<1>2. owner' \in Owner
  BY Parts, OwnerNext DEF OwnerStep
<1> QED
  BY <1>1, <1>2 DEF TypeOK, VmTyped, ScanTyped

(* Type correctness: the owner is the placeholder, a user or a name that   *)
(* is not one of the six the code lists, whatever requests come            *)
(* (CO 172-192, 293-328).                                                  *)
THEOREM TypeCorrect == Spec => []TypeOK
BY TypeInit, TypeStep, PTL DEF Spec

-----------------------------------------------------------------------------
(* The stage of a StartVm does not matter to what is known of it: until    *)
(* StopVm stops it, the virtual machine runs from its first step on.       *)

RunningInv == TypeOK /\ \A s \in Start : start[s] # "new" /\ ~stopped[s] => ready

LEMMA RunningStep == RunningInv /\ [Next]_vars => RunningInv'
<1> SUFFICES ASSUME RunningInv, [Next]_vars PROVE RunningInv'
  OBVIOUS
<1>1. TypeOK /\ TypeOK' /\ VmStep /\ VmTyped
  BY TypeStep, NextVm, Parts DEF RunningInv
<1> SUFFICES ASSUME NEW t \in Start, start'[t] # "new", ~stopped'[t] PROVE ready'
  BY <1>1 DEF RunningInv
<1> USE DEF VmTyped, RunningInv
<1>2. ASSUME NEW s \in Start, StartVm(s) PROVE ready'
  BY <1>2 DEF StartVm
<1>3. ASSUME NEW s \in Start, Announce(s) PROVE ready'
  BY <1>1, <1>3 DEF Announce, EncodeVmStarted, EncodeContainerStarted, EmitVmStarted,
                    EmitContainerStarted, Encode, StartAt
<1>4. ASSUME NEW p \in Stop, MarkStopped(p) PROVE ready'
  BY <1>1, <1>4 DEF MarkStopped
<1>5. ASSUME NEW p \in Stop, ReplyStopped(p) PROVE ready'
  BY <1>1, <1>5 DEF ReplyStopped
<1>6. ASSUME NEW p \in Stop, NEW req \in Requests, StopVm(p, req) PROVE ready'
  BY <1>1, <1>6 DEF StopVm
<1>7. CASE UNCHANGED vm
  BY <1>1, <1>7 DEF vm
<1> QED
  BY <1>1, <1>2, <1>3, <1>4, <1>5, <1>6, <1>7 DEF VmStep

(* A container that was announced runs, unless StopVm came after its       *)
(* StartVm, however calls and announcements overlap (CO 507-519, 548-553). *)
THEOREM AnnouncedAlwaysRunning == Spec => []AnnouncedIsRunning
<1>1. Init => RunningInv
  BY TypeInit DEF Init, RunningInv
<1>2. RunningInv => AnnouncedIsRunning
  BY DEF RunningInv, AnnouncedIsRunning, GetVmInfoSuccess
<1> QED
  BY <1>1, <1>2, RunningStep, PTL DEF Spec

-----------------------------------------------------------------------------
(* A StartVm has no owner in hand before it has begun, and what it takes   *)
(* in hand is the owner of the moment.                                     *)

NamedInv ==
  /\ TypeOK /\ KnownUserNamed
  /\ \A s \in Start : start[s] = "new" => named[s] = None

LEMMA NamedStep == NamedInv /\ [Next]_vars => NamedInv'
<1> SUFFICES ASSUME NamedInv, [Next]_vars PROVE NamedInv'
  OBVIOUS
<1>1. TypeOK /\ TypeOK' /\ VmStep /\ VmTyped /\ (owner \in User => owner' \in User \/ Forgotten)
  BY TypeStep, NextVm, Parts, OwnerNext DEF NamedInv, OwnerStep
<1> SUFFICES ASSUME NEW t \in Start
             PROVE  /\ start'[t] # "new" /\ familiar'[t] =>
                         owner' \in User /\ named'[t] \in User \cup {None}
                    /\ start'[t] = "new" => named'[t] = None
  BY <1>1 DEF NamedInv, KnownUserNamed, ListVmsOwner
<1> DEFINE P == /\ start'[t] # "new" /\ familiar'[t] =>
                      owner' \in User /\ named'[t] \in User \cup {None}
                /\ start'[t] = "new" => named'[t] = None
<1> USE DEF VmTyped, NamedInv, KnownUserNamed, ListVmsOwner
<1>2. ASSUME NEW s \in Start, StartVm(s) PROVE P
  BY <1>1, <1>2 DEF StartVm, StartAt
<1>3. ASSUME NEW s \in Start, Announce(s) PROVE P
  <2>1. CASE EncodeVmStarted(s) \/ EncodeContainerStarted(s)
    BY <1>1, <2>1 DEF EncodeVmStarted, EncodeContainerStarted, Encode, StartAt
  <2>2. CASE EmitVmStarted(s) \/ EmitContainerStarted(s)
    BY <1>1, <2>2 DEF EmitVmStarted, EmitContainerStarted, StartAt
  <2> QED
    BY <1>3, <2>1, <2>2 DEF Announce
<1>4. ASSUME NEW p \in Stop, MarkStopped(p) \/ ReplyStopped(p) PROVE P
  BY <1>1, <1>4 DEF MarkStopped, ReplyStopped
<1>5. ASSUME NEW p \in Stop, NEW req \in Requests, StopVm(p, req) PROVE P
  <2>1. UNCHANGED familiar \/ Forgotten
    BY <1>5 DEF StopVm, Heard, Forgotten
  <2>2. start' = start /\ named' = named
    BY <1>5 DEF StopVm
  <2> QED
    BY <1>1, <2>1, <2>2 DEF Forgotten
<1>6. CASE UNCHANGED vm /\ (UNCHANGED familiar \/ Forgotten)
  BY <1>1, <1>6 DEF vm, Forgotten
<1> QED
  BY <1>1, <1>2, <1>3, <1>4, <1>5, <1>6 DEF VmStep

(* Once Ash's id is learned, only a request with a name the bridge does    *)
(* not know, in a field it looks at, can displace it: until one comes,     *)
(* every StartVm that came since signals a user (CO 172-203, 267-273).     *)
THEOREM KnownUserAlwaysNamed == Spec => []KnownUserNamed
<1>1. Init => NamedInv
  BY TypeInit DEF Init, NamedInv, KnownUserNamed
<1>2. NamedInv => KnownUserNamed
  BY DEF NamedInv
<1> QED
  BY <1>1, <1>2, NamedStep, PTL DEF Spec

-----------------------------------------------------------------------------
(* As long as starts and stops do not overlap: a start leaves the machine  *)
(* running and no stop comes meanwhile, a stop that is about to answer has *)
(* stopped it, and otherwise Ash knows.                                    *)

ToldInv ==
  /\ TypeOK
  /\ ~overlapped =>
       /\ \A s \in Start : Starting(s) => ready /\ \A p \in Stop : ~Stopping(p)
       /\ \A p \in Stop : stop[p] = "reply" => ~ready
       /\ (\A s \in Start : ~Starting(s)) /\ (\A p \in Stop : stop[p] # "reply")
            => (told <=> ready)

LEMMA ToldStep == ToldInv /\ [Next]_vars => ToldInv'
<1> SUFFICES ASSUME ToldInv, [Next]_vars, ~overlapped' PROVE ToldInv'
  BY TypeStep DEF ToldInv
<1>1. TypeOK /\ TypeOK' /\ VmStep /\ VmTyped
  BY TypeStep, NextVm, Parts DEF ToldInv
<1> USE DEF VmTyped, ToldInv, Starting, Stopping
<1>2. ASSUME NEW s \in Start, StartVm(s) PROVE ToldInv'
  <2>1. ~overlapped /\ \A p \in Stop : ~Stopping(p)
    BY <1>1, <1>2 DEF StartVm
  <2>2. ready' /\ stop' = stop /\ Starting(s)'
    BY <1>1, <1>2 DEF StartVm, StartAt
  <2> QED
    BY <1>1, <2>1, <2>2
<1>3. ASSUME NEW s \in Start, Announce(s) PROVE ToldInv'
  <2>1. ~overlapped /\ Starting(s) /\ ready' = ready /\ stop' = stop
    BY <1>1, <1>3 DEF Announce, EncodeVmStarted, EncodeContainerStarted, EmitVmStarted,
                      EmitContainerStarted, Encode
  <2>2. ready /\ \A p \in Stop : ~Stopping(p)
    BY <2>1
  <2>3. Starting(s)' \/ told'
    BY <1>1, <1>3 DEF Announce, EncodeVmStarted, EncodeContainerStarted, EmitVmStarted,
                      EmitContainerStarted, Encode, StartAt
  <2> QED
    BY <1>1, <2>1, <2>2, <2>3
<1>4. ASSUME NEW p \in Stop, MarkStopped(p) PROVE ToldInv'
  <2>1. ~overlapped /\ Stopping(p) /\ start' = start /\ ~ready' /\ stop'[p] = "reply"
    BY <1>1, <1>4 DEF MarkStopped
  <2>2. \A s \in Start : ~Starting(s)
    BY <2>1
  <2> QED
    BY <1>1, <2>1, <2>2
<1>5. ASSUME NEW p \in Stop, ReplyStopped(p) PROVE ToldInv'
  <2>1. ~overlapped /\ stop[p] = "reply" /\ start' = start /\ ready' = ready /\ ~told'
    BY <1>1, <1>5 DEF ReplyStopped
  <2>2. ~ready /\ \A s \in Start : ~Starting(s)
    BY <2>1
  <2> QED
    BY <1>1, <2>1, <2>2
<1>6. ASSUME NEW p \in Stop, NEW req \in Requests, StopVm(p, req) PROVE ToldInv'
  <2>1. ~overlapped /\ start' = start /\ ready' = ready /\ told' = told
        /\ \A s \in Start : ~Starting(s)
    BY <1>1, <1>6 DEF StopVm
  <2>2. \A q \in Stop : stop'[q] = "reply" <=> stop[q] = "reply"
    BY <1>1, <1>6 DEF StopVm
  <2> QED
    BY <1>1, <2>1, <2>2
<1>7. CASE UNCHANGED vm
  BY <1>1, <1>7 DEF vm
<1> QED
  BY <1>1, <1>2, <1>3, <1>4, <1>5, <1>6, <1>7 DEF VmStep

(* As long as starts and stops do not overlap, the last Ash was told is    *)
(* what GetVmInfo answers (CO 507-519, 539-553).                           *)
THEOREM ToldAlwaysAgrees == Spec => []ToldAgrees
<1>1. Init => ToldInv
  BY TypeInit DEF Init, ToldInv, Starting
<1>2. ToldInv => ToldAgrees
  BY DEF ToldInv, ToldAgrees, GetVmInfoSuccess, Stopping, TypeOK
<1> QED
  BY <1>1, <1>2, ToldStep, PTL DEF Spec

-----------------------------------------------------------------------------
(* A SIGHUP that came is either still to be taken, or taken by a scan that *)
(* began later, or its scan is stored.                                     *)

RescanInv ==
  /\ ScanTyped
  /\ rescanFrom <= files /\ apps <= files
  /\ timed # Over => rescanFrom = 0
  /\ hangup = 0 => IF rescan = Asleep THEN apps >= rescanFrom ELSE rescan >= rescanFrom

LEMMA RescanStep == RescanInv /\ [Next]_vars => RescanInv'
<1> SUFFICES ASSUME RescanInv, [Next]_vars PROVE RescanInv'
  OBVIOUS
<1>1. ScanStep /\ ScanTyped'
  BY NextScan, ScanTypedStep DEF RescanInv
<1>0. MaxChanges \in Nat
  BY CrostiniVmAssumption
<1> USE DEF RescanInv, ScanTyped, Asleep, Over
<1>2. CASE Change
  BY <1>0, <1>1, <1>2 DEF Change
<1>3. CASE TimedScan
  BY <1>0, <1>1, <1>3 DEF TimedScan
<1>4. CASE TimedStore
  BY <1>0, <1>1, <1>4 DEF TimedStore, Scanned
<1>5. CASE Sighup
  BY <1>0, <1>1, <1>5 DEF Sighup
<1>6. CASE Rescan
  BY <1>0, <1>1, <1>6 DEF Rescan
<1>7. CASE RescanStore
  BY <1>0, <1>1, <1>7 DEF RescanStore, Scanned
<1>8. CASE UNCHANGED scanner
  BY <1>1, <1>8 DEF scanner
<1> QED
  BY <1>1, <1>2, <1>3, <1>4, <1>5, <1>6, <1>7, <1>8 DEF ScanStep

(* The one-place channel loses no rescan, however many SIGHUPs come and    *)
(* whenever the first scan ends (CO 900-920).                              *)
THEOREM RescanAlwaysSees == Spec => []RescanSeesChanges
<1>1. Init => RescanInv
  BY TypeInit, Parts DEF Init, RescanInv
<1>2. RescanInv => RescanSeesChanges
  BY DEF RescanInv, RescanSeesChanges
<1> QED
  BY <1>1, <1>2, RescanStep, PTL DEF Spec
=============================================================================
