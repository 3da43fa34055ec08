------------------------- MODULE WindowsInstallerProofs -------------------------
(***************************************************************************)
(* Proofs about WindowsInstaller, and about the helper that the bridge     *)
(* finds beside it (HelperChoice), for any setup processes and payloads    *)
(* and any number of interruptions.                                        *)
(***************************************************************************)
EXTENDS HelperChoice, TLAPS

LOCAL INSTANCE Functions
LOCAL INSTANCE SequencesExt

-----------------------------------------------------------------------------
(* The inductive invariant *)

Journals == {"journal", "journalTemp"}
Installs == {"copy", "copyTemp", "hosts", "hostsTemp", "present", "register", "finalTemp"}
Uninstalls == {"unregister", "removeHosts", "binaries", "cleanUp"}
\* Phases after the checks under the lock, and all phases that only its owner is in.
Checked == Journals \cup Installs \cup Uninstalls
Critical == {"recheck"} \cup Checked

Owned == Listed(receipt)

DiskOf(r, vd, hd, ds, bs, m, t) ==
  [receipt |-> r, versionsDir |-> vd, hostsDir |-> hd, dirs |-> ds, binaries |-> bs, manifest |-> m, torn |-> t]
WholeDisk == disk = DiskOf(receipt, versionsDir, hostsDir, dirs, binaries, manifest, torn)

Shape == WholeDisk /\ mine = [s \in Setup |-> mine[s]]

FilesAreOwned ==
  /\ dirs \subseteq Owned
  /\ torn \cap Version \subseteq dirs
  /\ manifest \in Owned \cup {None}

\* A listed version without its helper is being written or removed, or that was cut short.
Finished ==
  \A v \in Owned : v \in binaries \/ v \in interrupted \/ \E s \in Setup : v \in Unfinished(s)

\* Since the checks under the lock, no key is foreign unless others changed it.
OwnerHolds(s) ==
  /\ pc[s] \in Critical => lock = s
  /\ pc[s] # "binaries" => target[s] = None
  /\ pc[s] \in Checked => \A k \in Key : keys[k] = "foreign" => k \in changed

JournalHolds(s) == pc[s] \in Journals =>
  /\ job[s] \in Version
  /\ IsReceipt(mine[s]) /\ Listed(mine[s]) = Owned \cup {job[s]}

InstallHolds(s) == pc[s] \in Installs =>
  /\ job[s] \in Owned
  /\ receipt = mine[s] /\ IsReceipt(receipt)
  /\ pc[s] = "copyTemp" => job[s] \in dirs
  /\ pc[s] \notin {"copy", "copyTemp"} => job[s] \in binaries
  /\ pc[s] \in {"present", "register", "finalTemp"} => manifest = job[s]
  /\ pc[s] = "finalTemp" => todo[s] = {}
  /\ pc[s] \in {"register", "finalTemp"} =>
       \A b \in profiles \ (todo[s] \cup toggled) : KeyOf(b) \in changed \/ keys[KeyOf(b)] = "ours"

UninstallHolds(s) == pc[s] \in Uninstalls =>
  /\ job[s] = None
  /\ torn \cap Version = {}
  /\ dirs \subseteq doomed[s]
  /\ pc[s] = "unregister" => \A k \in Key : keys[k] = "ours" => \E b \in todo[s] : KeyOf(b) = k
  /\ pc[s] # "unregister" => manifest = None /\ \A k \in Key : keys[k] # "ours"
  /\ target[s] # None => target[s] \in doomed[s] \ binaries
  /\ pc[s] = "cleanUp" => doomed[s] = {}

HoldsOf(s) == OwnerHolds(s) /\ JournalHolds(s) /\ InstallHolds(s) /\ UninstallHolds(s)

SetupInv ==
  /\ TypeOK /\ Shape
  /\ RegistrationsLaunch /\ FilesAreOwned /\ Finished
  /\ \A s \in Setup : HoldsOf(s)

-----------------------------------------------------------------------------
(* Receipts *)

LEMMA Receipts ==
  /\ \A r : IsReceipt(r) => r \in Seq(Version) /\ r # NoReceipt /\ OrEmpty(r) = r /\ Listed(r) \subseteq Version
  /\ OrEmpty(NoReceipt) = <<>> /\ Listed(NoReceipt) = {}
<1>1. \A r : IsReceipt(r) => r \in Seq(Version) /\ r # NoReceipt BY NamesAssumption DEF IsReceipt, NoReceipt
<1>2. \A r : IsReceipt(r) => Listed(r) \subseteq Version BY <1>1 DEF Listed, OrEmpty, Range
<1>3. QED BY <1>1, <1>2 DEF OrEmpty, Listed, Range

\* What install journals is a receipt, since the limit was checked.
LEMMA LongerReceipt ==
  ASSUME TypeOK, NEW v \in Version, ~ Len(WithVersion(v)) > MaxVersions
  PROVE  IsReceipt(WithVersion(v)) /\ Listed(WithVersion(v)) = Owned \cup {v}
<1>1. CASE v \in Listed(receipt)
  BY <1>1, Receipts DEF TypeOK, WithVersion, Owned
<1>2. CASE v \notin Listed(receipt)
  <2> DEFINE r == OrEmpty(receipt)
             new == Append(r, v)
  <2>1. r \in Seq(Version) /\ IsInjective(r) /\ Listed(receipt) = Range(r)
    <3>1. Listed(receipt) = Range(r) BY DEF Listed
    <3>2. CASE receipt = NoReceipt BY <3>1, <3>2, Receipts DEF IsInjective
    <3>3. CASE IsReceipt(receipt) BY <3>1, <3>3, Receipts DEF IsReceipt
    <3>4. QED BY <3>2, <3>3 DEF TypeOK
  <2>2. WithVersion(v) = new BY <1>2 DEF WithVersion
  <2>3. /\ new \in Seq(Version) /\ Len(new) = Len(r) + 1 /\ DOMAIN new = 1..(Len(r) + 1)
        /\ \A i \in 1..Len(r) : new[i] = r[i]
        /\ new[Len(r) + 1] = v /\ DOMAIN r = 1..Len(r) /\ Len(r) \in Nat
    BY <2>1
  <2>4. Range(new) = Range(r) \cup {v}
    <3>1. \A x : x \in Range(new) <=> \E i \in 1..(Len(r) + 1) : x = new[i] BY <2>3 DEF Range
    <3>2. \A x : x \in Range(r) <=> \E i \in 1..Len(r) : x = r[i] BY <2>3 DEF Range
    <3>3. \A i \in 1..(Len(r) + 1) : i \in 1..Len(r) \/ i = Len(r) + 1 BY <2>3
    <3>4. 1..Len(r) \subseteq 1..(Len(r) + 1) /\ Len(r) + 1 \in 1..(Len(r) + 1) BY <2>3
    <3>5. QED BY <2>3, <3>1, <3>2, <3>3, <3>4
  <2>5. IsInjective(new)
    <3> SUFFICES ASSUME NEW i \in 1..(Len(r) + 1), NEW j \in 1..(Len(r) + 1), new[i] = new[j] PROVE i = j
      BY <2>3 DEF IsInjective
    <3>1. CASE i \in 1..Len(r) /\ j \in 1..Len(r) BY <2>1, <2>3, <3>1 DEF IsInjective
    <3>2. \A x \in 1..Len(r) : r[x] # v BY <1>2, <2>1, <2>3 DEF Range
    <3>3. (i \in 1..Len(r) \/ i = Len(r) + 1) /\ (j \in 1..Len(r) \/ j = Len(r) + 1) BY <2>3
    <3>4. QED BY <2>3, <3>1, <3>2, <3>3
  <2>6. Len(new) <= MaxVersions BY <2>2, <2>3, BoundAssumption
  <2> HIDE DEF new
  <2>7. IsReceipt(new) BY <2>3, <2>5, <2>6 DEF IsReceipt
  <2>8. Listed(new) = Range(new) BY <2>7, Receipts DEF Listed
  <2>9. QED BY <2>1, <2>2, <2>4, <2>7, <2>8 DEF Owned
<1>3. QED BY <1>1, <1>2

LEMMA InitInv == Init => SetupInv
<1> SUFFICES ASSUME Init PROVE SetupInv OBVIOUS
<1>1. /\ receipt = NoReceipt /\ versionsDir = FALSE /\ hostsDir = FALSE /\ dirs = {} /\ binaries = {}
      /\ manifest = None /\ torn = {} /\ Listed(receipt) = {} /\ Owned = {}
  BY Receipts DEF Init, receipt, versionsDir, hostsDir, dirs, binaries, manifest, torn, Owned
<1>2. Shape
  <2>1. mine = [s \in Setup |-> mine[s]] BY DEF Init
  <2>2. QED BY <1>1, <2>1 DEF Init, Shape, WholeDisk, DiskOf
<1>3. TypeOK
  <2>1. 0 \in 0..MaxCrashes /\ 0 \in 0..MaxOutside BY BoundAssumption
  <2>2. QED BY <1>1, <2>1 DEF Init, TypeOK, Phase, Ended
<1>4. RegistrationsLaunch /\ FilesAreOwned /\ Finished
  BY <1>1 DEF Init, RegistrationsLaunch, FilesAreOwned, Finished
<1>5. \A s \in Setup : HoldsOf(s)
  BY DEF Init, HoldsOf, OwnerHolds, Critical, Checked, Journals, Installs, Uninstalls, JournalHolds,
         InstallHolds, UninstallHolds
<1>6. QED BY <1>2, <1>3, <1>4, <1>5 DEF SetupInv

-----------------------------------------------------------------------------
(* Processes in nobody's way *)

FilesKept ==
  UNCHANGED <<receipt, versionsDir, hostsDir, dirs, binaries, manifest, torn>>

\* A step of one setup process leaves what the others keep alone.
OthersKept(s) == \A q \in Setup \ {s} :
  /\ pc'[q] = pc[q] /\ job'[q] = job[q] /\ mine'[q] = mine[q]
  /\ todo'[q] = todo[q] /\ doomed'[q] = doomed[q] /\ target'[q] = target[q]

StepKeeps(s) ==
  /\ TypeOK' /\ Shape'
  /\ RegistrationsLaunch' /\ FilesAreOwned' /\ Finished'
  /\ HoldsOf(s)' /\ OthersKept(s)

LEMMA SameDisk ==
  ASSUME UNCHANGED disk
  PROVE  FilesKept
BY DEF FilesKept, receipt, versionsDir, hostsDir, dirs, binaries, manifest, torn

LEMMA UnfinishedIs ==
  ASSUME NEW s \in Setup
  PROVE  /\ pc[s] \in {"copy", "copyTemp"} => Unfinished(s) = {job[s]}
         /\ pc[s] = "binaries" => Unfinished(s) = Owned
         /\ pc[s] \notin {"copy", "copyTemp", "binaries"} => Unfinished(s) = {}
BY DEF Unfinished, Owned

LEMMA UnfinishedIsOwned ==
  ASSUME SetupInv, NEW s \in Setup
  PROVE  Unfinished(s) \subseteq Owned
BY UnfinishedIs DEF SetupInv, HoldsOf, InstallHolds, Installs

\* While a process owns the mutex, no other has anything unfinished.
LEMMA OwnerFinishes ==
  ASSUME SetupInv, NEW s \in Setup, pc[s] \in Critical
  PROVE  /\ TypeOK /\ Shape /\ lock = s
         /\ \A v \in Owned : v \in binaries \/ v \in interrupted \/ v \in Unfinished(s)
<1>1. lock = s BY DEF SetupInv, HoldsOf, OwnerHolds
<1>2. \A q \in Setup \ {s} : pc[q] \notin Critical BY <1>1 DEF SetupInv, HoldsOf, OwnerHolds
<1>3. \A q \in Setup \ {s} : Unfinished(q) = {}
  BY <1>2, UnfinishedIs DEF Critical, Checked, Installs, Uninstalls
<1>4. QED BY <1>1, <1>3 DEF SetupInv, Finished

LEMMA EndLocals ==
  ASSUME TypeOK, Shape, NEW s \in Setup, NEW result \in Ended, End(s, result)
  PROVE  /\ OthersKept(s)
         /\ pc' \in [Setup -> Phase] /\ job' \in [Setup -> Version \cup {None}]
         /\ mine' = [q \in Setup |-> mine'[q]]
         /\ \A q \in Setup : mine'[q] = NoReceipt \/ IsReceipt(mine'[q])
         /\ todo' \in [Setup -> SUBSET Browser] /\ doomed' \in [Setup -> SUBSET Version]
         /\ target' \in [Setup -> Version \cup {None}]
         /\ lock' \in Setup \cup {None} /\ changed' \subseteq Key /\ toggled' \subseteq Browser
         /\ pc'[s] = result /\ target'[s] = None /\ (lock # s => UNCHANGED <<lock, seen>>)
         /\ HoldsOf(s)'
<1>1. pc'[s] = result /\ target'[s] = None BY DEF End, Goto, TypeOK
<1>2. HoldsOf(s)'
  BY <1>1 DEF HoldsOf, OwnerHolds, JournalHolds, InstallHolds, UninstallHolds, Critical, Checked,
              Journals, Installs, Uninstalls, Ended
<1>3. mine' = [mine EXCEPT ![s] = NoReceipt] BY DEF End
<1>4. mine' = [q \in Setup |-> IF q = s THEN NoReceipt ELSE mine[q]] BY <1>3 DEF Shape
<1>5. mine' = [q \in Setup |-> mine'[q]] /\ \A q \in Setup : mine'[q] = NoReceipt \/ IsReceipt(mine'[q])
  BY <1>4 DEF TypeOK
<1>6. OthersKept(s) BY <1>4 DEF End, Goto, TypeOK, OthersKept
<1>7. QED BY <1>1, <1>2, <1>5, <1>6 DEF End, Goto, TypeOK, Phase, Ended, seen

LEMMA EndKeeps ==
  ASSUME SetupInv, NEW s \in Setup, NEW result \in Ended, End(s, result),
         UNCHANGED <<disk, keys, profiles, bounds>>, interrupted' = interrupted \cup Unfinished(s)
  PROVE  StepKeeps(s)
<1>1. TypeOK /\ Shape BY DEF SetupInv
<1>2. FilesKept /\ Owned' = Owned BY SameDisk DEF Owned, FilesKept
<1>3. interrupted' \subseteq Listed(receipt') BY <1>1, <1>2, UnfinishedIsOwned DEF TypeOK, Owned, FilesKept
<1>4. TypeOK' BY <1>1, <1>2, <1>3, EndLocals DEF TypeOK, FilesKept, bounds
<1>5. Shape' BY <1>1, <1>2, EndLocals DEF Shape, WholeDisk, FilesKept
<1>6. RegistrationsLaunch' /\ FilesAreOwned'
  BY <1>2 DEF SetupInv, RegistrationsLaunch, FilesAreOwned, Owned, FilesKept
<1>7. \A q \in Setup \ {s} : Unfinished(q)' = Unfinished(q)
  BY <1>1, <1>2, EndLocals DEF OthersKept, Unfinished, FilesKept
<1>8. Finished' BY <1>2, <1>7 DEF SetupInv, Finished, FilesKept
<1>9. QED BY <1>1, <1>4, <1>5, <1>6, <1>8, EndLocals DEF StepKeeps

LEMMA IdleHolds ==
  ASSUME NEW q \in Setup, HoldsOf(q), pc[q] \notin Critical, pc'[q] = pc[q], target'[q] = target[q]
  PROVE  HoldsOf(q)'
BY DEF HoldsOf, OwnerHolds, JournalHolds, InstallHolds, UninstallHolds, Critical, Checked

LEMMA SameHolds ==
  ASSUME NEW q \in Setup, HoldsOf(q), UNCHANGED <<disk, keys, profiles, lock, seen>>,
         pc'[q] = pc[q], job'[q] = job[q], mine'[q] = mine[q],
         todo'[q] = todo[q], doomed'[q] = doomed[q], target'[q] = target[q]
  PROVE  HoldsOf(q)'
<1>1. FilesKept BY SameDisk
<1>2. OwnerHolds(q)' /\ UninstallHolds(q)'
  BY <1>1 DEF HoldsOf, OwnerHolds, UninstallHolds, FilesKept, seen
<1>3. JournalHolds(q)' /\ InstallHolds(q)'
  BY <1>1 DEF HoldsOf, JournalHolds, InstallHolds, FilesKept, seen, Owned
<1>4. QED BY <1>2, <1>3 DEF HoldsOf

-----------------------------------------------------------------------------
(* Steps before the checks under the lock *)

LEMMA GotoKeeps ==
  ASSUME SetupInv, NEW s \in Setup, NEW phase \in Phase, Goto(s, phase),
         phase \notin Checked, pc[s] \notin Critical, phase = "recheck" => lock' = s,
         lock' \in Setup \cup {None},
         UNCHANGED <<disk, keys, profiles, todo, doomed, target, seen, interrupted, bounds>>,
         \E v \in Version \cup {None} : job' = [job EXCEPT ![s] = v],
         \E r : (r = NoReceipt \/ IsReceipt(r)) /\ mine' = [mine EXCEPT ![s] = r]
  PROVE  StepKeeps(s)
<1>1. TypeOK /\ Shape BY DEF SetupInv
<1>2. FilesKept /\ Owned' = Owned BY SameDisk DEF Owned, FilesKept
<1>3. PICK r : (r = NoReceipt \/ IsReceipt(r)) /\ mine' = [mine EXCEPT ![s] = r] OBVIOUS
<1>4. mine' = [q \in Setup |-> IF q = s THEN r ELSE mine[q]] BY <1>1, <1>3 DEF Shape
<1>5. mine' = [q \in Setup |-> mine'[q]] /\ \A q \in Setup : mine'[q] = NoReceipt \/ IsReceipt(mine'[q])
  BY <1>1, <1>3, <1>4 DEF TypeOK
<1>6. TypeOK' BY <1>1, <1>2, <1>5 DEF TypeOK, FilesKept, bounds, seen, Goto
<1>7. Shape' BY <1>1, <1>2, <1>5 DEF Shape, WholeDisk, FilesKept
<1>8. RegistrationsLaunch' /\ FilesAreOwned'
  BY <1>2 DEF SetupInv, RegistrationsLaunch, FilesAreOwned, Owned, FilesKept
<1>9. pc'[s] = phase /\ target'[s] = None /\ OthersKept(s)
  BY <1>1, <1>4 DEF TypeOK, Goto, OthersKept, SetupInv, HoldsOf, OwnerHolds, Critical, Checked, Uninstalls
<1>10. \A q \in Setup : Unfinished(q)' = Unfinished(q)
  <2>1. \A q \in Setup \ {s} : Unfinished(q)' = Unfinished(q)
    BY <1>2, <1>9 DEF OthersKept, Unfinished, FilesKept
  <2>2. Unfinished(s) = {} BY UnfinishedIs DEF Critical, Checked, Installs, Uninstalls
  <2>3. Unfinished(s)' = {} BY <1>9 DEF Unfinished, Checked, Installs, Uninstalls
  <2>4. QED BY <2>1, <2>2, <2>3
<1>11. Finished' BY <1>2, <1>10 DEF SetupInv, Finished, FilesKept
<1>12. HoldsOf(s)'
  BY <1>9 DEF HoldsOf, OwnerHolds, JournalHolds, InstallHolds, UninstallHolds, Critical, Checked,
              Journals, Installs, Uninstalls
<1>13. QED BY <1>6, <1>7, <1>8, <1>9, <1>11, <1>12 DEF StepKeeps

LEMMA BeforeChecks ==
  ASSUME SetupInv, NEW s \in Setup, Start(s) \/ ReadReceipt(s) \/ Precheck(s) \/ Lock(s) \/ Fail(s)
  PROVE  StepKeeps(s)
<1> USE DEF Ended, Phase, Critical, Checked, Journals, Installs, Uninstalls, Writing
<1>1. TypeOK BY DEF SetupInv
<1>2. job = [job EXCEPT ![s] = job[s]] /\ job[s] \in Version \cup {None}
  BY <1>1 DEF TypeOK
<1>3. mine = [mine EXCEPT ![s] = mine[s]] /\ (mine[s] = NoReceipt \/ IsReceipt(mine[s]))
  BY <1>1 DEF TypeOK, SetupInv, Shape
<1>4. lock \in Setup \cup {None} /\ (receipt = NoReceipt \/ IsReceipt(receipt)) BY <1>1 DEF TypeOK
<1>5. CASE Start(s)
  BY <1>3, <1>4, <1>5, GotoKeeps DEF Start
<1>6. CASE Refuse(s) /\ UNCHANGED <<disk, keys, profiles, bounds>>
  BY <1>6, EndKeeps DEF Refuse
<1>7. CASE ReadReceipt(s) /\ ~Refuse(s)
  BY <1>2, <1>4, <1>7, GotoKeeps DEF ReadReceipt
<1>8. CASE Precheck(s) /\ ~Refuse(s)
  <2>1. Unfinished(s) = {} /\ pc[s] = "precheck" BY <1>8, UnfinishedIs DEF Precheck
  <2>2. CASE End(s, "ok") BY <1>8, <2>1, <2>2, EndKeeps DEF Precheck
  <2>3. CASE ~End(s, "ok")
    <3>1. Goto(s, "lock") /\ UNCHANGED <<lock, locals, seen, interrupted, disk, keys, profiles, bounds>>
      BY <1>8, <2>3 DEF Precheck
    <3>2. QED BY <1>2, <1>3, <1>4, <2>1, <3>1, GotoKeeps DEF locals
  <2>4. QED BY <2>2, <2>3
<1>9. CASE Lock(s) /\ ~Refuse(s)
  <2>1. /\ lock' = s /\ Goto(s, "recheck") /\ pc[s] = "lock"
        /\ UNCHANGED <<locals, seen, interrupted, disk, keys, profiles, bounds>>
    BY <1>9 DEF Lock
  <2>2. QED BY <1>2, <1>3, <2>1, GotoKeeps DEF locals
<1>10. QED BY <1>5, <1>6, <1>7, <1>8, <1>9 DEF ReadReceipt, Precheck, Lock, Fail

-----------------------------------------------------------------------------
(* The checks under the lock *)

\* What goes on from the checks has its types, and the disk is as it was.
LEMMA GoesOnKeeps ==
  ASSUME SetupInv, NEW s \in Setup, pc[s] = "recheck", NEW phase \in {"journal", "unregister"},
         NEW r, IsReceipt(r), NEW browsers \in SUBSET Browser, NEW versions \in SUBSET Version,
         GoesOn(s, phase, r, browsers, versions), UNCHANGED <<disk, keys, profiles, bounds>>
  PROVE  /\ TypeOK' /\ Shape' /\ RegistrationsLaunch' /\ FilesAreOwned' /\ Finished'
         /\ OthersKept(s) /\ FilesKept
         /\ pc'[s] = phase /\ job'[s] = job[s] /\ mine'[s] = r /\ todo'[s] = browsers
         /\ doomed'[s] = versions /\ target'[s] = None /\ lock' = s
<1>1. TypeOK /\ Shape /\ lock = s /\ target[s] = None
  BY DEF SetupInv, HoldsOf, OwnerHolds, Critical
<1>2. /\ pc' = [pc EXCEPT ![s] = phase] /\ mine' = [mine EXCEPT ![s] = r]
      /\ todo' = [todo EXCEPT ![s] = browsers] /\ doomed' = [doomed EXCEPT ![s] = versions]
      /\ changed' = {} /\ toggled' = {} /\ UNCHANGED <<lock, job, target, interrupted>>
  BY DEF GoesOn, Goto
<1>3. FilesKept /\ Owned' = Owned BY SameDisk DEF Owned, FilesKept
<1>4. mine' = [q \in Setup |-> IF q = s THEN r ELSE mine[q]] BY <1>1, <1>2 DEF Shape
<1>5. mine' = [q \in Setup |-> mine'[q]] /\ \A q \in Setup : mine'[q] = NoReceipt \/ IsReceipt(mine'[q])
  BY <1>1, <1>4 DEF TypeOK
<1>6. TypeOK' BY <1>1, <1>2, <1>3, <1>5 DEF TypeOK, FilesKept, bounds, Phase
<1>7. Shape' BY <1>1, <1>3, <1>5 DEF Shape, WholeDisk, FilesKept
<1>8. RegistrationsLaunch' /\ FilesAreOwned'
  BY <1>3 DEF SetupInv, RegistrationsLaunch, FilesAreOwned, Owned, FilesKept
<1>9. OthersKept(s) BY <1>1, <1>2, <1>4 DEF OthersKept, TypeOK
<1>10. Finished'
  <2>1. \A v \in Owned : v \in binaries \/ v \in interrupted
    BY OwnerFinishes, UnfinishedIs DEF Critical
  <2>2. QED BY <1>2, <1>3, <2>1 DEF Finished, FilesKept
<1>11. QED BY <1>1, <1>2, <1>3, <1>4, <1>6, <1>7, <1>8, <1>9, <1>10 DEF TypeOK

LEMMA NothingForeign ==
  ASSUME TypeOK, Conflicts(receipt) = {}
  PROVE  /\ \A k \in Key : keys[k] # "foreign"
         /\ \A k \in Key : keys[k] = "ours" => \E b \in Registered(receipt) : KeyOf(b) = k
<1> SUFFICES ASSUME NEW k \in Key
             PROVE  keys[k] # "foreign" /\ (keys[k] = "ours" => \E b \in Registered(receipt) : KeyOf(b) = k)
  OBVIOUS
<1>1. PICK b \in Browser : KeyOf(b) = k BY DEF Key
<1>2. keys[k] # "none" => b \in Registered(receipt) BY <1>1 DEF Conflicts
<1>3. b \in Registered(receipt) => keys[k] = "ours" BY <1>1 DEF Registered
<1>4. QED BY <1>1, <1>2, <1>3

LEMMA RecheckKeeps ==
  ASSUME SetupInv, NEW s \in Setup, RecheckInstall(s) \/ RecheckUninstall(s)
  PROVE  StepKeeps(s)
<1>1. pc[s] = "recheck" /\ TypeOK /\ UNCHANGED <<disk, keys, profiles, bounds>>
  BY DEF SetupInv, RecheckInstall, RecheckUninstall
<1>2. CASE Refuse(s) BY <1>1, <1>2, EndKeeps DEF Refuse, Ended
<1>3. CASE End(s, "ok") /\ UNCHANGED interrupted BY <1>1, <1>3, EndKeeps, UnfinishedIs DEF Ended
<1>4. CASE RecheckInstall(s) /\ ~Refuse(s)
  <2> DEFINE r == WithVersion(job[s])
  <2>1. /\ GoesOn(s, "journal", r, {}, {}) /\ Conflicts(receipt) = {} /\ ~ Len(r) > MaxVersions
        /\ Installing(s)
    BY <1>4 DEF RecheckInstall
  <2>2. job[s] \in Version BY <1>1, <2>1 DEF Installing, TypeOK
  <2>3. IsReceipt(r) /\ Listed(r) = Owned \cup {job[s]} BY <1>1, <2>1, <2>2, LongerReceipt
  <2> HIDE DEF r
  <2>4. /\ TypeOK' /\ Shape' /\ RegistrationsLaunch' /\ FilesAreOwned' /\ Finished'
        /\ OthersKept(s) /\ FilesKept
        /\ pc'[s] = "journal" /\ job'[s] = job[s] /\ mine'[s] = r /\ target'[s] = None /\ lock' = s
    BY <1>1, <2>1, <2>3, GoesOnKeeps
  <2>5. OwnerHolds(s)'
    BY <1>1, <2>1, <2>4, NothingForeign DEF OwnerHolds
  <2>6. JournalHolds(s)' BY <2>2, <2>3, <2>4 DEF JournalHolds, Owned, FilesKept
  <2>7. InstallHolds(s)' /\ UninstallHolds(s)' BY <2>4 DEF InstallHolds, UninstallHolds, Installs, Uninstalls
  <2>8. QED BY <2>4, <2>5, <2>6, <2>7 DEF StepKeeps, HoldsOf
<1>5. CASE RecheckUninstall(s) /\ ~Refuse(s) /\ ~(End(s, "ok") /\ UNCHANGED interrupted)
  <2>1. /\ GoesOn(s, "unregister", receipt, Registered(receipt), Listed(receipt))
        /\ Conflicts(receipt) = {} /\ ~Installing(s)
        /\ \A v \in Listed(receipt) : ~ForeignDir(v, receipt)
        /\ receipt # NoReceipt
    BY <1>5 DEF RecheckUninstall
  <2>2. IsReceipt(receipt) /\ Registered(receipt) \in SUBSET Browser /\ Listed(receipt) \in SUBSET Version
    BY <1>1, <2>1, Receipts DEF TypeOK, Registered
  <2>3. /\ TypeOK' /\ Shape' /\ RegistrationsLaunch' /\ FilesAreOwned' /\ Finished'
        /\ OthersKept(s) /\ FilesKept
        /\ pc'[s] = "unregister" /\ job'[s] = job[s] /\ todo'[s] = Registered(receipt)
        /\ doomed'[s] = Listed(receipt) /\ target'[s] = None /\ lock' = s
    BY <1>1, <2>1, <2>2, GoesOnKeeps
  <2>4. OwnerHolds(s)' BY <1>1, <2>1, <2>3, NothingForeign DEF OwnerHolds
  <2>5. JournalHolds(s)' /\ InstallHolds(s)' BY <2>3 DEF JournalHolds, InstallHolds, Journals, Installs
  <2>6. torn \cap Version = {} /\ dirs \subseteq Listed(receipt)
    BY <2>1 DEF SetupInv, FilesAreOwned, ForeignDir, Temps, Owned
  <2>7. UninstallHolds(s)'
    BY <1>1, <2>1, <2>3, <2>6, NothingForeign DEF UninstallHolds, FilesKept, Installing
  <2>8. QED BY <2>3, <2>4, <2>5, <2>7 DEF StepKeeps, HoldsOf
<1>6. QED BY <1>2, <1>3, <1>4, <1>5

-----------------------------------------------------------------------------
(* Steps of the owner of the mutex *)

\* What all of them have in common.
OwnersStep(s, from, to) ==
  /\ TypeOK /\ Shape /\ lock = s /\ lock' = s /\ pc[s] = from /\ pc'[s] = to
  /\ pc' \in [Setup -> Phase]
  /\ \A q \in Setup \ {s} : pc'[q] = pc[q]
  /\ UNCHANGED <<profiles, lock, job, mine, target, changed, toggled, crashes, outside>>
  /\ \A v \in Owned : v \in binaries \/ v \in interrupted \/ v \in Unfinished(s)

LEMMA OwnerSteps ==
  ASSUME SetupInv, NEW s \in Setup, NEW from \in Critical, NEW to \in Phase, Step(s, from, to)
  PROVE  OwnersStep(s, from, to)
<1>1. pc[s] = from /\ pc' = [pc EXCEPT ![s] = to] BY DEF Step, Goto
<1>2. TypeOK /\ Shape /\ lock = s
      /\ \A v \in Owned : v \in binaries \/ v \in interrupted \/ v \in Unfinished(s)
  BY <1>1, OwnerFinishes
<1>3. QED BY <1>1, <1>2 DEF OwnersStep, Step, seen, bounds, TypeOK

\* Types of a step that changes files only.
LEMMA WriteTypes ==
  ASSUME TypeOK, Shape, NEW s \in Setup, pc' \in [Setup -> Phase],
         UNCHANGED <<profiles, lock, job, mine, target, changed, toggled, crashes, outside>>,
         UNCHANGED <<keys, todo, doomed>>,
         receipt' = NoReceipt \/ IsReceipt(receipt'), versionsDir' \in BOOLEAN, hostsDir' \in BOOLEAN,
         dirs' \subseteq Version, binaries' \subseteq dirs', manifest' \in Version \cup {None},
         torn' \subseteq Version \cup {Root, Hosts}, interrupted' \subseteq Listed(receipt'),
         WholeDisk',
         \A q \in Setup \ {s} : pc'[q] = pc[q]
  PROVE  TypeOK' /\ Shape' /\ OthersKept(s)
<1>1. TypeOK' BY DEF TypeOK
<1>2. Shape' BY DEF Shape
<1>3. OthersKept(s) BY DEF OthersKept
<1>4. QED BY <1>1, <1>2, <1>3

\* The fields of a disk that is written whole.
LEMMA Files ==
  ASSUME NEW r, NEW vd, NEW hd, NEW ds, NEW bs, NEW m, NEW t,
         disk' = DiskOf(r, vd, hd, ds, bs, m, t)
  PROVE  /\ receipt' = r /\ versionsDir' = vd /\ hostsDir' = hd /\ dirs' = ds /\ binaries' = bs
         /\ manifest' = m /\ torn' = t /\ WholeDisk'
BY DEF DiskOf, WholeDisk, receipt, versionsDir, hostsDir, dirs, binaries, manifest, torn

\* What the installing owner knows before a step.
InstallerKnows(s) ==
  /\ lock = s /\ job[s] \in Version /\ job[s] \in Owned /\ receipt = mine[s] /\ IsReceipt(receipt)
  /\ pc[s] = "copyTemp" => job[s] \in dirs
  /\ pc[s] \notin {"copy", "copyTemp"} => job[s] \in binaries
  /\ pc[s] \in {"present", "register", "finalTemp"} => manifest = job[s]
  /\ pc[s] = "finalTemp" => todo[s] = {}
  /\ pc[s] \in {"register", "finalTemp"} =>
       \A b \in profiles \ (todo[s] \cup toggled) : KeyOf(b) \in changed \/ keys[KeyOf(b)] = "ours"
  /\ target[s] = None
  /\ \A k \in Key : keys[k] = "foreign" => k \in changed

LEMMA InstallerKnowledge ==
  ASSUME SetupInv, NEW s \in Setup, pc[s] \in Installs
  PROVE  InstallerKnows(s)
BY Receipts DEF InstallerKnows, SetupInv, HoldsOf, InstallHolds, OwnerHolds, Critical, Checked, Installs, Owned

LEMMA JournalKeeps ==
  ASSUME SetupInv, NEW s \in Setup, JournalTemp(s) \/ JournalRename(s)
  PROVE  StepKeeps(s)
<1> USE DEF Critical, Checked, Journals, Installs, Uninstalls
<1>1. pc[s] \in Journals BY DEF JournalTemp, JournalRename, Step
<1>2. /\ job[s] \in Version /\ IsReceipt(mine[s]) /\ Listed(mine[s]) = Owned \cup {job[s]}
      /\ target[s] = None /\ \A k \in Key : keys[k] = "foreign" => k \in changed
  BY <1>1 DEF SetupInv, HoldsOf, JournalHolds, OwnerHolds
<1>3. Unfinished(s) = {} BY <1>1, UnfinishedIs
<1>4. CASE JournalTemp(s)
  <2>1. Step(s, "journal", "journalTemp") /\ disk' = disk /\ UNCHANGED <<keys, todo, doomed, interrupted>>
    BY <1>4 DEF JournalTemp, Writes
  <2>0. OwnersStep(s, "journal", "journalTemp")
    BY <2>1, OwnerSteps DEF Phase, Writing, Step
  <2> USE <2>0, <2>1 DEF OwnersStep
  <2>2. FilesKept /\ Owned' = Owned BY SameDisk DEF Owned, FilesKept
  <2>3. TypeOK' /\ Shape' /\ OthersKept(s)
    BY <2>2, WriteTypes DEF TypeOK, Shape, WholeDisk, FilesKept
  <2>4. RegistrationsLaunch' /\ FilesAreOwned'
    BY <2>2 DEF SetupInv, RegistrationsLaunch, FilesAreOwned, Owned, FilesKept
  <2>5. Finished' BY <1>3, <2>2 DEF Finished, FilesKept
  <2>6. HoldsOf(s)'
    BY <1>2, <2>2 DEF HoldsOf, OwnerHolds, JournalHolds, InstallHolds, UninstallHolds, FilesKept
  <2>7. QED BY <2>3, <2>4, <2>5, <2>6 DEF StepKeeps
<1>5. CASE JournalRename(s)
  <2>1. /\ Step(s, "journalTemp", "copy") /\ disk' = [disk EXCEPT !.receipt = mine[s]]
        /\ UNCHANGED <<keys, todo, doomed, interrupted>>
    BY <1>5 DEF JournalRename, Writes
  <2>2. disk' = DiskOf(mine[s], versionsDir, hostsDir, dirs, binaries, manifest, torn)
    BY <2>1 DEF SetupInv, Shape, WholeDisk, DiskOf
  <2>3. /\ receipt' = mine[s] /\ UNCHANGED <<versionsDir, hostsDir, dirs, binaries, manifest, torn>> /\ WholeDisk'
    BY <2>2, Files
  <2>0. OwnersStep(s, "journalTemp", "copy")
    BY <2>1, OwnerSteps DEF Phase, Writing, Step
  <2> USE <2>0, <2>1 DEF OwnersStep
  <2>4. Owned' = Owned \cup {job[s]} /\ Listed(receipt') = Owned' BY <1>2, <2>3 DEF Owned
  <2>5. TypeOK' /\ Shape' /\ OthersKept(s)
    BY <1>2, <2>3, <2>4, WriteTypes DEF TypeOK, Owned
  <2>6. RegistrationsLaunch' /\ FilesAreOwned'
    BY <2>3, <2>4 DEF SetupInv, RegistrationsLaunch, FilesAreOwned
  <2>7. Unfinished(s)' = {job[s]} BY DEF Unfinished
  <2>8. Finished' BY <1>3, <2>3, <2>4, <2>7 DEF Finished
  <2>9. HoldsOf(s)'
    BY <1>2, <2>3, <2>4 DEF HoldsOf, OwnerHolds, JournalHolds, InstallHolds, UninstallHolds
  <2>10. QED BY <2>5, <2>6, <2>8, <2>9 DEF StepKeeps
<1>6. QED BY <1>4, <1>5

LEMMA CopyKeeps ==
  ASSUME SetupInv, NEW s \in Setup, CopyTemp(s) \/ CopyRename(s)
  PROVE  StepKeeps(s)
<1> USE DEF Critical, Checked, Journals, Installs, Uninstalls
<1>1. pc[s] \in {"copy", "copyTemp"} BY DEF CopyTemp, CopyRename, Step
<1>2. Unfinished(s) = {job[s]} BY <1>1, UnfinishedIs
<1>3. CASE CopyTemp(s)
  <2>1. /\ Step(s, "copy", "copyTemp")
        /\ disk' = [disk EXCEPT !.versionsDir = TRUE, !.dirs = dirs \cup {job[s]}]
        /\ UNCHANGED <<keys, todo, doomed, interrupted>>
    BY <1>3 DEF CopyTemp, Writes, dirs
  <2>2. disk' = DiskOf(receipt, TRUE, hostsDir, dirs \cup {job[s]}, binaries, manifest, torn)
    BY <2>1 DEF SetupInv, Shape, WholeDisk, DiskOf
  <2>3. /\ versionsDir' = TRUE /\ dirs' = dirs \cup {job[s]}
        /\ UNCHANGED <<receipt, hostsDir, binaries, manifest, torn>> /\ WholeDisk'
    BY <2>2, Files
  <2>0. OwnersStep(s, "copy", "copyTemp") /\ InstallerKnows(s)
    BY <2>1, OwnerSteps, InstallerKnowledge DEF Phase, Writing, Step
  <2> USE <2>0, <2>1 DEF OwnersStep, InstallerKnows
  <2>4. Owned' = Owned BY <2>3 DEF Owned
  <2>5. TypeOK' /\ Shape' /\ OthersKept(s)
    BY <2>3, WriteTypes DEF TypeOK
  <2>6. RegistrationsLaunch' /\ FilesAreOwned'
    BY <2>3, <2>4 DEF SetupInv, RegistrationsLaunch, FilesAreOwned
  <2>7. Unfinished(s)' = {job[s]} BY DEF Unfinished
  <2>8. Finished' BY <1>2, <2>3, <2>4, <2>7 DEF Finished
  <2>9. HoldsOf(s)'
    BY <2>3, <2>4 DEF HoldsOf, OwnerHolds, JournalHolds, InstallHolds, UninstallHolds
  <2>10. QED BY <2>5, <2>6, <2>8, <2>9 DEF StepKeeps
<1>4. CASE CopyRename(s)
  <2>1. /\ Step(s, "copyTemp", "hosts") /\ disk' = [disk EXCEPT !.binaries = binaries \cup {job[s]}]
        /\ UNCHANGED <<keys, todo, doomed>> /\ interrupted' = interrupted \ {job[s]}
    BY <1>4 DEF CopyRename, Writes, binaries
  <2>2. disk' = DiskOf(receipt, versionsDir, hostsDir, dirs, binaries \cup {job[s]}, manifest, torn)
    BY <2>1 DEF SetupInv, Shape, WholeDisk, DiskOf
  <2>3. /\ binaries' = binaries \cup {job[s]}
        /\ UNCHANGED <<receipt, versionsDir, hostsDir, dirs, manifest, torn>> /\ WholeDisk'
    BY <2>2, Files
  <2>0. OwnersStep(s, "copyTemp", "hosts") /\ InstallerKnows(s)
    BY <2>1, OwnerSteps, InstallerKnowledge DEF Phase, Writing, Step
  <2> USE <2>0, <2>1 DEF OwnersStep, InstallerKnows
  <2>4. Owned' = Owned BY <2>3 DEF Owned
  <2>5. interrupted' \subseteq Listed(receipt') BY <2>3 DEF TypeOK
  <2>6. TypeOK' /\ Shape' /\ OthersKept(s)
    BY <2>3, <2>5, WriteTypes DEF TypeOK
  <2>7. RegistrationsLaunch' /\ FilesAreOwned'
    BY <2>3, <2>4 DEF SetupInv, RegistrationsLaunch, FilesAreOwned
  <2>8. Finished' BY <1>2, <2>3, <2>4 DEF Finished
  <2>9. HoldsOf(s)'
    BY <2>3, <2>4 DEF HoldsOf, OwnerHolds, JournalHolds, InstallHolds, UninstallHolds
  <2>10. QED BY <2>6, <2>7, <2>8, <2>9 DEF StepKeeps
<1>5. QED BY <1>3, <1>4

LEMMA HostsKeeps ==
  ASSUME SetupInv, NEW s \in Setup, HostsTemp(s) \/ HostsRename(s)
  PROVE  StepKeeps(s)
<1> USE DEF Critical, Checked, Journals, Installs, Uninstalls
<1>1. pc[s] \in {"hosts", "hostsTemp"} BY DEF HostsTemp, HostsRename, Step
<1>2. Unfinished(s) = {} BY <1>1, UnfinishedIs
<1>3. CASE HostsTemp(s)
  <2>1. /\ Step(s, "hosts", "hostsTemp") /\ disk' = [disk EXCEPT !.hostsDir = TRUE]
        /\ UNCHANGED <<keys, todo, doomed, interrupted>>
    BY <1>3 DEF HostsTemp, Writes
  <2>2. disk' = DiskOf(receipt, versionsDir, TRUE, dirs, binaries, manifest, torn)
    BY <2>1 DEF SetupInv, Shape, WholeDisk, DiskOf
  <2>3. /\ hostsDir' = TRUE /\ UNCHANGED <<receipt, versionsDir, dirs, binaries, manifest, torn>> /\ WholeDisk'
    BY <2>2, Files
  <2>0. OwnersStep(s, "hosts", "hostsTemp") /\ InstallerKnows(s)
    BY <2>1, OwnerSteps, InstallerKnowledge DEF Phase, Writing, Step
  <2> USE <2>0, <2>1 DEF OwnersStep, InstallerKnows
  <2>4. Owned' = Owned BY <2>3 DEF Owned
  <2>5. TypeOK' /\ Shape' /\ OthersKept(s)
    BY <2>3, WriteTypes DEF TypeOK
  <2>6. RegistrationsLaunch' /\ FilesAreOwned'
    BY <2>3, <2>4 DEF SetupInv, RegistrationsLaunch, FilesAreOwned
  <2>7. Finished' BY <1>2, <2>3, <2>4 DEF Finished
  <2>8. HoldsOf(s)'
    BY <2>3, <2>4 DEF HoldsOf, OwnerHolds, JournalHolds, InstallHolds, UninstallHolds
  <2>9. QED BY <2>5, <2>6, <2>7, <2>8 DEF StepKeeps
<1>4. CASE HostsRename(s)
  <2>1. /\ Step(s, "hostsTemp", "present") /\ disk' = [disk EXCEPT !.manifest = job[s]]
        /\ UNCHANGED <<keys, todo, doomed, interrupted>>
    BY <1>4 DEF HostsRename, Writes
  <2>2. disk' = DiskOf(receipt, versionsDir, hostsDir, dirs, binaries, job[s], torn)
    BY <2>1 DEF SetupInv, Shape, WholeDisk, DiskOf
  <2>3. /\ manifest' = job[s] /\ UNCHANGED <<receipt, versionsDir, hostsDir, dirs, binaries, torn>> /\ WholeDisk'
    BY <2>2, Files
  <2>0. OwnersStep(s, "hostsTemp", "present") /\ InstallerKnows(s)
    BY <2>1, OwnerSteps, InstallerKnowledge DEF Phase, Writing, Step
  <2> USE <2>0, <2>1 DEF OwnersStep, InstallerKnows
  <2>4. Owned' = Owned BY <2>3 DEF Owned
  <2>5. TypeOK' /\ Shape' /\ OthersKept(s)
    BY <2>3, WriteTypes DEF TypeOK
  <2>6. RegistrationsLaunch' /\ FilesAreOwned'
    BY <2>3, <2>4 DEF SetupInv, RegistrationsLaunch, FilesAreOwned
  <2>7. Finished' BY <1>2, <2>3, <2>4 DEF Finished
  <2>8. HoldsOf(s)'
    BY <2>3, <2>4 DEF HoldsOf, OwnerHolds, JournalHolds, InstallHolds, UninstallHolds
  <2>9. QED BY <2>5, <2>6, <2>7, <2>8 DEF StepKeeps
<1>5. QED BY <1>3, <1>4

\* Which browsers are to be registered is decided now; others' changes count from the checks on.
LEMMA PresentKeeps ==
  ASSUME SetupInv, NEW s \in Setup, Present(s)
  PROVE  StepKeeps(s)
<1> USE DEF Critical, Checked, Journals, Installs, Uninstalls
<1>1. /\ Step(s, "present", "register") /\ todo' = [todo EXCEPT ![s] = profiles]
      /\ UNCHANGED <<disk, keys, doomed, interrupted>>
  BY DEF Present
<1>2. OwnersStep(s, "present", "register") /\ InstallerKnows(s)
  BY <1>1, OwnerSteps, InstallerKnowledge DEF Phase, Step
<1>3. FilesKept /\ Owned' = Owned BY <1>1, SameDisk DEF Owned, FilesKept
<1> USE <1>1, <1>2, <1>3 DEF OwnersStep, InstallerKnows
<1>4. TypeOK' BY DEF TypeOK, FilesKept
<1>5. Shape' BY DEF Shape, WholeDisk, FilesKept
<1>6. todo'[s] = profiles /\ OthersKept(s) BY DEF TypeOK, OthersKept
<1>7. RegistrationsLaunch' /\ FilesAreOwned'
  BY DEF SetupInv, RegistrationsLaunch, FilesAreOwned, Owned, FilesKept
<1>8. Finished' BY UnfinishedIs DEF Finished, FilesKept
<1>9. HoldsOf(s)'
  BY <1>6 DEF HoldsOf, OwnerHolds, JournalHolds, InstallHolds, UninstallHolds, FilesKept
<1>10. QED BY <1>4, <1>5, <1>6, <1>7, <1>8, <1>9 DEF StepKeeps

\* A step that sets or deletes one registry value.
LEMMA KeyTypes ==
  ASSUME SetupInv, NEW s \in Setup, NEW b \in Browser, NEW value \in {"ours", "none"},
         NEW phase \in Phase, OwnersStep(s, phase, phase), SetKey(s, b, value)
  PROVE  /\ TypeOK' /\ Shape' /\ OthersKept(s) /\ FilesKept /\ Owned' = Owned
         /\ todo'[s] = todo[s] \ {b} /\ doomed'[s] = doomed[s]
         /\ \A k \in Key : keys'[k] = IF k = KeyOf(b) THEN value ELSE keys[k]
         /\ KeyOf(b) \in Key
<1>1. /\ keys' = [keys EXCEPT ![KeyOf(b)] = value] /\ todo' = [todo EXCEPT ![s] = todo[s] \ {b}]
      /\ UNCHANGED <<disk, doomed, interrupted>>
  BY DEF SetKey
<1>2. FilesKept /\ Owned' = Owned BY <1>1, SameDisk DEF Owned, FilesKept
<1>3. KeyOf(b) \in Key BY DEF Key
<1> USE <1>1, <1>2, <1>3 DEF OwnersStep
<1>4. TypeOK' BY DEF TypeOK, FilesKept
<1>5. Shape' BY DEF Shape, WholeDisk, FilesKept
<1>6. todo'[s] = todo[s] \ {b} /\ OthersKept(s) BY DEF TypeOK, OthersKept
<1>7. \A k \in Key : keys'[k] = IF k = KeyOf(b) THEN value ELSE keys[k] BY DEF TypeOK
<1>8. QED BY <1>4, <1>5, <1>6, <1>7

LEMMA RegisterKeeps ==
  ASSUME SetupInv, NEW s \in Setup, NEW b \in Browser, Register(s, b)
  PROVE  StepKeeps(s)
<1> USE DEF Critical, Checked, Journals, Installs, Uninstalls
<1>1. Step(s, "register", "register") /\ SetKey(s, b, "ours") BY DEF Register
<1>2. OwnersStep(s, "register", "register") /\ InstallerKnows(s)
  BY <1>1, OwnerSteps, InstallerKnowledge DEF Phase, Step
<1>3. /\ TypeOK' /\ Shape' /\ OthersKept(s) /\ FilesKept /\ Owned' = Owned
      /\ todo'[s] = todo[s] \ {b}
      /\ \A k \in Key : keys'[k] = IF k = KeyOf(b) THEN "ours" ELSE keys[k]
      /\ KeyOf(b) \in Key
  BY <1>1, <1>2, KeyTypes DEF Phase
<1>4. interrupted' = interrupted BY <1>1 DEF SetKey
<1> USE <1>2, <1>3, <1>4 DEF OwnersStep, InstallerKnows
<1>5. RegistrationsLaunch' /\ FilesAreOwned'
  BY DEF SetupInv, RegistrationsLaunch, FilesAreOwned, FilesKept
<1>6. Finished' BY UnfinishedIs DEF Finished, FilesKept
<1>7. \A c \in profiles \ (todo'[s] \cup toggled) : KeyOf(c) \in changed \/ keys'[KeyOf(c)] = "ours"
  <2> SUFFICES ASSUME NEW c \in profiles \ (todo'[s] \cup toggled), KeyOf(c) \notin changed
               PROVE  keys'[KeyOf(c)] = "ours"
    OBVIOUS
  <2>1. c \in Browser /\ KeyOf(c) \in Key BY DEF TypeOK, Key
  <2>2. CASE KeyOf(c) = KeyOf(b) BY <2>1, <2>2
  <2>3. CASE KeyOf(c) # KeyOf(b) BY <2>1, <2>3
  <2>4. QED BY <2>2, <2>3
<1>8. OwnerHolds(s)' /\ JournalHolds(s)' /\ UninstallHolds(s)'
  BY DEF OwnerHolds, JournalHolds, UninstallHolds
<1>9. InstallHolds(s)' BY <1>7 DEF InstallHolds, FilesKept
<1>10. QED BY <1>5, <1>6, <1>8, <1>9 DEF StepKeeps, HoldsOf

LEMMA FinalKeeps ==
  ASSUME SetupInv, NEW s \in Setup, FinalTemp(s) \/ FinalRename(s)
  PROVE  StepKeeps(s)
<1> USE DEF Critical, Checked, Journals, Installs, Uninstalls
<1>1. CASE FinalTemp(s)
  <2>1. /\ Step(s, "register", "finalTemp") /\ todo[s] = {} /\ disk' = disk
        /\ UNCHANGED <<keys, todo, doomed, interrupted>>
    BY <1>1 DEF FinalTemp, Writes
  <2>2. OwnersStep(s, "register", "finalTemp") /\ InstallerKnows(s)
    BY <2>1, OwnerSteps, InstallerKnowledge DEF Phase, Writing, Step
  <2>3. FilesKept /\ Owned' = Owned BY <2>1, SameDisk DEF Owned, FilesKept
  <2> USE <2>1, <2>2, <2>3 DEF OwnersStep, InstallerKnows
  <2>4. TypeOK' /\ Shape' /\ OthersKept(s)
    BY WriteTypes DEF TypeOK, Shape, WholeDisk, FilesKept
  <2>5. RegistrationsLaunch' /\ FilesAreOwned'
    BY DEF SetupInv, RegistrationsLaunch, FilesAreOwned, FilesKept
  <2>6. Finished' BY UnfinishedIs DEF Finished, FilesKept
  <2>7. HoldsOf(s)'
    BY DEF HoldsOf, OwnerHolds, JournalHolds, InstallHolds, UninstallHolds, FilesKept
  <2>8. QED BY <2>4, <2>5, <2>6, <2>7 DEF StepKeeps
<1>2. CASE FinalRename(s)
  <2>1. /\ pc[s] = "finalTemp" /\ disk' = [disk EXCEPT !.receipt = mine[s]] /\ End(s, "ok")
        /\ UNCHANGED <<keys, profiles, interrupted, bounds>>
    BY <1>2 DEF FinalRename
  <2>2. InstallerKnows(s) /\ TypeOK /\ Shape BY <2>1, InstallerKnowledge DEF SetupInv
  <2>3. disk' = disk BY <2>1, <2>2 DEF InstallerKnows, Shape, WholeDisk, DiskOf
  <2>4. Unfinished(s) = {} BY <2>1, UnfinishedIs
  <2>5. QED BY <2>1, <2>3, <2>4, EndKeeps DEF Ended
<1>3. QED BY <1>1, <1>2

\* What the uninstalling owner knows before a step.
UninstallerKnows(s) ==
  /\ TypeOK /\ Shape /\ lock = s
  /\ job[s] = None /\ torn \cap Version = {} /\ dirs \subseteq doomed[s]
  /\ pc[s] = "unregister" => \A k \in Key : keys[k] = "ours" => \E b \in todo[s] : KeyOf(b) = k
  /\ pc[s] # "unregister" => manifest = None /\ \A k \in Key : keys[k] # "ours"
  /\ target[s] # None => target[s] \in doomed[s] \ binaries
  /\ pc[s] = "cleanUp" => doomed[s] = {}
  /\ pc[s] # "binaries" => target[s] = None
  /\ \A k \in Key : keys[k] = "foreign" => k \in changed

LEMMA UninstallerKnowledge ==
  ASSUME SetupInv, NEW s \in Setup, pc[s] \in Uninstalls
  PROVE  UninstallerKnows(s)
BY DEF UninstallerKnows, SetupInv, HoldsOf, UninstallHolds, OwnerHolds, Critical, Checked, Uninstalls

LEMMA UnregisterKeeps ==
  ASSUME SetupInv, NEW s \in Setup, NEW b \in Browser, Unregister(s, b)
  PROVE  StepKeeps(s)
<1> USE DEF Critical, Checked, Journals, Installs, Uninstalls
<1>1. Step(s, "unregister", "unregister") /\ SetKey(s, b, "none") BY DEF Unregister
<1>2. OwnersStep(s, "unregister", "unregister") /\ UninstallerKnows(s)
  BY <1>1, OwnerSteps, UninstallerKnowledge DEF Phase, Step
<1>3. /\ TypeOK' /\ Shape' /\ OthersKept(s) /\ FilesKept /\ Owned' = Owned
      /\ todo'[s] = todo[s] \ {b} /\ doomed'[s] = doomed[s]
      /\ \A k \in Key : keys'[k] = IF k = KeyOf(b) THEN "none" ELSE keys[k]
      /\ KeyOf(b) \in Key
  BY <1>1, <1>2, KeyTypes DEF Phase
<1>4. interrupted' = interrupted BY <1>1 DEF SetKey
<1> USE <1>2, <1>3, <1>4 DEF OwnersStep, UninstallerKnows
<1>5. RegistrationsLaunch' /\ FilesAreOwned'
  BY DEF SetupInv, RegistrationsLaunch, FilesAreOwned, FilesKept
<1>6. Finished' BY UnfinishedIs DEF Finished, FilesKept
<1>7. \A k \in Key : keys'[k] = "ours" => \E c \in todo'[s] : KeyOf(c) = k
  OBVIOUS
<1>8. OwnerHolds(s)' /\ JournalHolds(s)' /\ InstallHolds(s)'
  BY DEF OwnerHolds, JournalHolds, InstallHolds
<1>9. UninstallHolds(s)' BY <1>7 DEF UninstallHolds, FilesKept
<1>10. QED BY <1>5, <1>6, <1>8, <1>9 DEF StepKeeps, HoldsOf

LEMMA RemoveHostsKeeps ==
  ASSUME SetupInv, NEW s \in Setup, RemoveManifest(s) \/ RemoveHosts(s)
  PROVE  StepKeeps(s)
<1> USE DEF Critical, Checked, Journals, Installs, Uninstalls
<1>1. CASE RemoveManifest(s)
  <2>1. /\ Step(s, "unregister", "removeHosts") /\ todo[s] = {} /\ disk' = [disk EXCEPT !.manifest = None]
        /\ UNCHANGED <<keys, todo, doomed, interrupted>>
    BY <1>1 DEF RemoveManifest, Writes
  <2>2. disk' = DiskOf(receipt, versionsDir, hostsDir, dirs, binaries, None, torn)
    BY <2>1 DEF SetupInv, Shape, WholeDisk, DiskOf
  <2>3. /\ manifest' = None /\ UNCHANGED <<receipt, versionsDir, hostsDir, dirs, binaries, torn>> /\ WholeDisk'
    BY <2>2, Files
  <2>4. OwnersStep(s, "unregister", "removeHosts") /\ UninstallerKnows(s)
    BY <2>1, OwnerSteps, UninstallerKnowledge DEF Phase, Step
  <2> USE <2>1, <2>3, <2>4 DEF OwnersStep, UninstallerKnows
  <2>5. Owned' = Owned BY DEF Owned
  <2>6. TypeOK' /\ Shape' /\ OthersKept(s) BY WriteTypes DEF TypeOK
  <2>7. \A k \in Key : keys[k] # "ours" OBVIOUS
  <2>8. RegistrationsLaunch' /\ FilesAreOwned'
    BY <2>5, <2>7 DEF SetupInv, RegistrationsLaunch, FilesAreOwned
  <2>9. Finished' BY <2>5, UnfinishedIs DEF Finished
  <2>10. HoldsOf(s)' BY <2>7 DEF HoldsOf, OwnerHolds, JournalHolds, InstallHolds, UninstallHolds
  <2>11. QED BY <2>6, <2>8, <2>9, <2>10 DEF StepKeeps
<1>2. CASE RemoveHosts(s)
  <2> DEFINE left == hostsDir /\ Hosts \in torn
  <2>1. /\ Step(s, "removeHosts", "binaries") /\ disk' = [disk EXCEPT !.hostsDir = left]
        /\ UNCHANGED <<keys, todo, doomed, interrupted>>
    BY <1>2 DEF RemoveHosts, Writes, hostsDir
  <2>2. left \in BOOLEAN BY Zenon
  <2> HIDE DEF left
  <2>3. disk' = DiskOf(receipt, versionsDir, left, dirs, binaries, manifest, torn)
    BY <2>1 DEF SetupInv, Shape, WholeDisk, DiskOf
  <2>4. /\ hostsDir' = left /\ UNCHANGED <<receipt, versionsDir, dirs, binaries, manifest, torn>> /\ WholeDisk'
    BY <2>3, Files
  <2>5. OwnersStep(s, "removeHosts", "binaries") /\ UninstallerKnows(s)
    BY <2>1, OwnerSteps, UninstallerKnowledge DEF Phase, Step
  <2> USE <2>1, <2>2, <2>4, <2>5 DEF OwnersStep, UninstallerKnows
  <2>6. Owned' = Owned BY DEF Owned
  <2>7. TypeOK' /\ Shape' /\ OthersKept(s) BY WriteTypes DEF TypeOK
  <2>8. RegistrationsLaunch' /\ FilesAreOwned'
    BY <2>6 DEF SetupInv, RegistrationsLaunch, FilesAreOwned
  <2>9. Finished' BY <2>6, UnfinishedIs DEF Finished
  <2>10. HoldsOf(s)' BY DEF HoldsOf, OwnerHolds, JournalHolds, InstallHolds, UninstallHolds
  <2>11. QED BY <2>7, <2>8, <2>9, <2>10 DEF StepKeeps
<1>3. QED BY <1>1, <1>2

\* All that is listed is being removed, so that nothing else need be true of it.
LEMMA RemovingFinishes ==
  ASSUME NEW s \in Setup, pc'[s] = "binaries"
  PROVE  Finished'
<1>1. Unfinished(s)' = Owned' BY DEF Unfinished, Owned
<1>2. QED BY <1>1 DEF Finished

LEMMA RemoveVersionKeeps ==
  ASSUME SetupInv, NEW s \in Setup, RemoveDir(s) \/ \E v \in Version : RemoveBinary(s, v)
  PROVE  StepKeeps(s)
<1> USE DEF Critical, Checked, Journals, Installs, Uninstalls
<1>1. /\ pc[s] = "binaries" /\ pc' = pc
      /\ UNCHANGED <<keys, profiles, lock, job, mine, todo, changed, toggled, interrupted, crashes, outside>>
  BY DEF RemoveDir, RemoveBinary, seen, bounds
<1>2. UninstallerKnows(s) BY <1>1, UninstallerKnowledge
<1>3. Finished' BY <1>1, RemovingFinishes
<1>4. ASSUME NEW v \in Version, RemoveBinary(s, v) PROVE StepKeeps(s)
  <2>1. /\ v \in doomed[s] /\ disk' = [disk EXCEPT !.binaries = binaries \ {v}]
        /\ target' = [target EXCEPT ![s] = v] /\ UNCHANGED doomed
    BY <1>4 DEF RemoveBinary, binaries
  <2>2. disk' = DiskOf(receipt, versionsDir, hostsDir, dirs, binaries \ {v}, manifest, torn)
    BY <2>1 DEF SetupInv, Shape, WholeDisk, DiskOf
  <2>3. /\ binaries' = binaries \ {v} /\ UNCHANGED <<receipt, versionsDir, hostsDir, dirs, manifest, torn>>
        /\ WholeDisk'
    BY <2>2, Files
  <2> USE <1>1, <1>2, <2>1, <2>3 DEF UninstallerKnows
  <2>4. Owned' = Owned BY DEF Owned
  <2>5. TypeOK' BY DEF TypeOK
  <2>6. Shape' BY DEF Shape
  <2>7. target'[s] = v /\ OthersKept(s) BY DEF OthersKept, TypeOK
  <2>8. RegistrationsLaunch' /\ FilesAreOwned'
    BY <2>4 DEF SetupInv, RegistrationsLaunch, FilesAreOwned
  <2>9. HoldsOf(s)'
    BY <2>7 DEF HoldsOf, OwnerHolds, JournalHolds, InstallHolds, UninstallHolds
  <2>10. QED BY <1>3, <2>5, <2>6, <2>7, <2>8, <2>9 DEF StepKeeps
<1>5. CASE RemoveDir(s)
  <2> DEFINE v == target[s]
  <2>1. /\ v # None /\ disk' = [disk EXCEPT !.dirs = dirs \ {v}]
        /\ target' = [target EXCEPT ![s] = None] /\ doomed' = [doomed EXCEPT ![s] = doomed[s] \ {v}]
    BY <1>5 DEF RemoveDir, dirs
  <2>2. disk' = DiskOf(receipt, versionsDir, hostsDir, dirs \ {v}, binaries, manifest, torn)
    BY <2>1 DEF SetupInv, Shape, WholeDisk, DiskOf
  <2>3. /\ dirs' = dirs \ {v} /\ UNCHANGED <<receipt, versionsDir, hostsDir, binaries, manifest, torn>>
        /\ WholeDisk'
    BY <2>2, Files
  <2> USE <1>1, <1>2, <2>1, <2>3 DEF UninstallerKnows
  <2>4. Owned' = Owned /\ v \notin binaries BY DEF Owned
  <2>5. TypeOK' BY <2>4 DEF TypeOK
  <2>6. Shape' BY DEF Shape
  <2>7. target'[s] = None /\ doomed'[s] = doomed[s] \ {v} /\ OthersKept(s) BY DEF OthersKept, TypeOK
  <2>8. RegistrationsLaunch' /\ FilesAreOwned'
    BY <2>4 DEF SetupInv, RegistrationsLaunch, FilesAreOwned
  <2>9. HoldsOf(s)'
    BY <2>7 DEF HoldsOf, OwnerHolds, JournalHolds, InstallHolds, UninstallHolds
  <2>10. QED BY <1>3, <2>5, <2>6, <2>7, <2>8, <2>9 DEF StepKeeps
<1>6. QED BY <1>4, <1>5

LEMMA LeavingKeeps ==
  ASSUME SetupInv, NEW s \in Setup, RemoveReceipt(s) \/ CleanUp(s)
  PROVE  StepKeeps(s)
<1> USE DEF Critical, Checked, Journals, Installs, Uninstalls
<1>1. CASE RemoveReceipt(s)
  <2>1. /\ Step(s, "binaries", "cleanUp") /\ doomed[s] = {} /\ disk' = [disk EXCEPT !.receipt = NoReceipt]
        /\ UNCHANGED <<keys, todo, doomed>> /\ interrupted' = {}
    BY <1>1 DEF RemoveReceipt
  <2>2. disk' = DiskOf(NoReceipt, versionsDir, hostsDir, dirs, binaries, manifest, torn)
    BY <2>1 DEF SetupInv, Shape, WholeDisk, DiskOf
  <2>3. /\ receipt' = NoReceipt /\ UNCHANGED <<versionsDir, hostsDir, dirs, binaries, manifest, torn>> /\ WholeDisk'
    BY <2>2, Files
  <2>4. OwnersStep(s, "binaries", "cleanUp") /\ UninstallerKnows(s)
    BY <2>1, OwnerSteps, UninstallerKnowledge DEF Phase, Step
  <2> USE <2>1, <2>3, <2>4 DEF OwnersStep, UninstallerKnows
  <2>5. Owned' = {} BY Receipts DEF Owned
  <2>6. dirs = {} /\ manifest = None /\ target[s] = None /\ \A k \in Key : keys[k] # "ours" OBVIOUS
  <2>7. TypeOK' /\ Shape' /\ OthersKept(s) BY WriteTypes DEF TypeOK
  <2>8. RegistrationsLaunch' /\ FilesAreOwned'
    BY <2>5, <2>6 DEF RegistrationsLaunch, FilesAreOwned
  <2>9. Finished' BY <2>5 DEF Finished
  <2>10. HoldsOf(s)' BY <2>6 DEF HoldsOf, OwnerHolds, JournalHolds, InstallHolds, UninstallHolds
  <2>11. QED BY <2>7, <2>8, <2>9, <2>10 DEF StepKeeps
<1>2. CASE CleanUp(s)
  <2> DEFINE left == (dirs # {})
  <2>1. /\ pc[s] = "cleanUp" /\ disk' = [disk EXCEPT !.versionsDir = left] /\ End(s, "ok")
        /\ UNCHANGED <<keys, profiles, interrupted, bounds>>
    BY <1>2 DEF CleanUp
  <2>2. left \in BOOLEAN BY Zenon
  <2> HIDE DEF left
  <2>3. disk' = DiskOf(receipt, left, hostsDir, dirs, binaries, manifest, torn)
    BY <2>1 DEF SetupInv, Shape, WholeDisk, DiskOf
  <2>4. /\ versionsDir' = left /\ UNCHANGED <<receipt, hostsDir, dirs, binaries, manifest, torn>> /\ WholeDisk'
    BY <2>3, Files
  <2>5. TypeOK /\ Shape /\ Owned' = Owned BY <2>4 DEF SetupInv, Owned
  <2>6. TypeOK' BY <2>1, <2>2, <2>4, <2>5, EndLocals DEF TypeOK, Ended, bounds
  <2>7. Shape' /\ OthersKept(s) /\ HoldsOf(s)' BY <2>1, <2>4, <2>5, EndLocals DEF Shape, Ended
  <2>8. RegistrationsLaunch' /\ FilesAreOwned'
    BY <2>1, <2>4, <2>5 DEF SetupInv, RegistrationsLaunch, FilesAreOwned
  <2>9. \A v \in Owned : v \in binaries \/ v \in interrupted BY <2>1, OwnerFinishes, UnfinishedIs
  <2>10. Finished' BY <2>1, <2>4, <2>5, <2>9 DEF Finished
  <2>11. QED BY <2>6, <2>7, <2>8, <2>10 DEF StepKeeps
<1>3. QED BY <1>1, <1>2

\* An interrupted write leaves its file where the receipt has it already.
LEMMA CrashKeeps ==
  ASSUME SetupInv, NEW s \in Setup, Crash(s)
  PROVE  StepKeeps(s)
<1> USE DEF Critical, Checked, Journals, Installs, Uninstalls
<1>1. /\ pc[s] \in Writing /\ crashes < MaxCrashes /\ crashes' = crashes + 1
      /\ disk' = [disk EXCEPT !.torn = torn \cup TempOf(s)]
      /\ End(s, "idle") /\ interrupted' = interrupted \cup Unfinished(s)
      /\ UNCHANGED <<keys, profiles, outside>>
  BY DEF Crash, Refuse, torn
<1>2. disk' = DiskOf(receipt, versionsDir, hostsDir, dirs, binaries, manifest, torn \cup TempOf(s))
  BY <1>1 DEF SetupInv, Shape, WholeDisk, DiskOf
<1>3. /\ torn' = torn \cup TempOf(s) /\ UNCHANGED <<receipt, versionsDir, hostsDir, dirs, binaries, manifest>>
      /\ WholeDisk'
  BY <1>2, Files
<1>4. TypeOK /\ Shape /\ Owned' = Owned BY <1>3 DEF SetupInv, Owned
<1>5. TempOf(s) \subseteq dirs \cup {Root, Hosts}
  <2>1. pc[s] = "copyTemp" => job[s] \in dirs BY DEF SetupInv, HoldsOf, InstallHolds
  <2>2. QED BY <1>1, <2>1 DEF TempOf, Writing
<1>6. torn' \subseteq Version \cup {Root, Hosts} BY <1>3, <1>4, <1>5 DEF TypeOK
<1>7. torn' \cap Version \subseteq dirs BY <1>3, <1>5, NamesAssumption DEF SetupInv, FilesAreOwned
<1>8. crashes' \in 0..MaxCrashes BY <1>1, <1>4, BoundAssumption DEF TypeOK
<1>9. interrupted' \subseteq Listed(receipt') BY <1>1, <1>3, <1>4, UnfinishedIsOwned DEF TypeOK, Owned
<1>10. TypeOK' BY <1>1, <1>3, <1>4, <1>6, <1>8, <1>9, EndLocals DEF TypeOK, Ended
<1>11. Shape' /\ OthersKept(s) /\ HoldsOf(s)' BY <1>1, <1>3, <1>4, EndLocals DEF Shape, Ended
<1>12. RegistrationsLaunch' /\ FilesAreOwned'
  BY <1>1, <1>3, <1>4, <1>7 DEF SetupInv, RegistrationsLaunch, FilesAreOwned
<1>13. \A v \in Owned : v \in binaries \/ v \in interrupted \/ v \in Unfinished(s)
  BY <1>1, OwnerFinishes DEF Writing
<1>14. Finished' BY <1>1, <1>3, <1>4, <1>13 DEF Finished
<1>15. QED BY <1>10, <1>11, <1>12, <1>14 DEF StepKeeps

LEMMA SetupStepKeeps ==
  ASSUME SetupInv, NEW s \in Setup, SetupStep(s)
  PROVE  StepKeeps(s)
BY BeforeChecks, RecheckKeeps, JournalKeeps, CopyKeeps, HostsKeeps, PresentKeeps, RegisterKeeps, FinalKeeps,
   UnregisterKeeps, RemoveHostsKeeps, RemoveVersionKeeps, LeavingKeeps, CrashKeeps
   DEF SetupStep, Install, Uninstall

-----------------------------------------------------------------------------
(* The other processes, and everybody else *)

\* Only the owner of the mutex changes anything, and it alone lets go of it.
LEMMA WithoutTheLock ==
  ASSUME SetupInv, NEW s \in Setup, SetupStep(s), lock # s
  PROVE  UNCHANGED <<disk, keys, profiles>> /\ (lock # None => UNCHANGED <<lock, seen>>)
<1>1. pc[s] \notin Critical BY DEF SetupInv, HoldsOf, OwnerHolds
<1>2. ~Install(s)
  BY <1>1 DEF Install, Critical, Checked, Journals, Installs, RecheckInstall, JournalTemp, JournalRename,
              CopyTemp, CopyRename, HostsTemp, HostsRename, Present, FinalTemp, FinalRename, Register, Step
<1>3. ~Uninstall(s)
  BY <1>1 DEF Uninstall, Critical, Checked, Uninstalls, RecheckUninstall, RemoveManifest, RemoveHosts,
              RemoveDir, RemoveReceipt, CleanUp, Unregister, RemoveBinary, Step
<1>4. ~Crash(s) BY <1>1 DEF Crash, Critical, Checked, Journals, Installs, Writing
<1>5. Start(s) \/ ReadReceipt(s) \/ Precheck(s) \/ Lock(s) \/ Fail(s)
  BY <1>2, <1>3, <1>4 DEF SetupStep
<1>6. Refuse(s) => UNCHANGED <<lock, seen>> BY DEF Refuse, End, seen
<1>7. End(s, "ok") => UNCHANGED <<lock, seen>> BY DEF End, seen
<1>8. QED BY <1>5, <1>6, <1>7 DEF Start, ReadReceipt, Precheck, Lock, Fail

LEMMA OthersHold ==
  ASSUME SetupInv, NEW s \in Setup, SetupStep(s), OthersKept(s), NEW q \in Setup, q # s
  PROVE  HoldsOf(q)'
<1>1. HoldsOf(q) BY DEF SetupInv
<1>2. CASE pc[q] \notin Critical BY <1>1, <1>2, IdleHolds DEF OthersKept
<1>3. CASE pc[q] \in Critical
  <2>1. lock = q /\ lock # s /\ lock # None
    BY <1>1, <1>3, NamesAssumption DEF HoldsOf, OwnerHolds
  <2>2. UNCHANGED <<disk, keys, profiles, lock, seen>> BY <2>1, WithoutTheLock
  <2>3. QED BY <1>1, <2>2, SameHolds DEF OthersKept
<1>4. QED BY <1>2, <1>3

\* Others remove what the installer has set, but never set what it sets, and are seen.
LEMMA OutsideKeeps ==
  ASSUME SetupInv, (\E k \in Key : KeyChanges(k)) \/ (\E b \in Browser : ProfileToggles(b))
  PROVE  SetupInv'
<1> USE DEF Critical, Checked, Journals, Installs, Uninstalls
<1>1. TypeOK /\ Shape BY DEF SetupInv
<1>2. /\ outside < MaxOutside /\ outside' = outside + 1
      /\ UNCHANGED <<disk, lock, pc, job, mine, todo, doomed, target, interrupted, crashes>>
  BY DEF KeyChanges, ProfileToggles, locals
<1>3. FilesKept /\ Owned' = Owned BY <1>2, SameDisk DEF Owned, FilesKept
<1>4. outside' \in 0..MaxOutside BY <1>1, <1>2, BoundAssumption DEF TypeOK
<1>5. /\ keys' \in [Key -> {"ours", "foreign", "none"}]
      /\ \A k \in Key : keys'[k] # keys[k] => keys'[k] # "ours" /\ (lock # None => k \in changed')
  BY <1>1 DEF KeyChanges, ProfileToggles, TypeOK
<1>6. /\ profiles' \subseteq Browser /\ changed' \subseteq Key /\ toggled' \subseteq Browser
  BY <1>1 DEF KeyChanges, ProfileToggles, TypeOK
<1>7. lock # None => /\ changed \subseteq changed' /\ toggled \subseteq toggled'
                     /\ profiles' \ toggled' \subseteq profiles
  BY DEF KeyChanges, ProfileToggles
<1>8. TypeOK' BY <1>1, <1>2, <1>3, <1>4, <1>5, <1>6 DEF TypeOK, FilesKept
<1>9. Shape' BY <1>1, <1>2, <1>3 DEF Shape, WholeDisk, FilesKept
<1>10. RegistrationsLaunch' /\ FilesAreOwned'
  BY <1>3, <1>5 DEF SetupInv, RegistrationsLaunch, FilesAreOwned, FilesKept
<1>11. \A s \in Setup : Unfinished(s)' = Unfinished(s) BY <1>2, <1>3 DEF Unfinished, FilesKept
<1>12. Finished' BY <1>2, <1>3, <1>11 DEF SetupInv, Finished, FilesKept
<1>13. ASSUME NEW s \in Setup PROVE HoldsOf(s)'
  <2>1. HoldsOf(s) BY DEF SetupInv
  <2>2. CASE pc[s] \notin Critical BY <1>2, <2>1, <2>2, IdleHolds
  <2>3. CASE pc[s] \in Critical
    <3>1. lock = s /\ lock # None BY <2>1, <2>3, NamesAssumption DEF HoldsOf, OwnerHolds
    <3>2. OwnerHolds(s)' BY <1>2, <1>5, <1>7, <2>1, <3>1 DEF HoldsOf, OwnerHolds
    <3>3. JournalHolds(s)' BY <1>2, <1>3, <2>1 DEF HoldsOf, JournalHolds
    <3>4. InstallHolds(s)'
      <4> SUFFICES ASSUME pc[s] \in Installs PROVE InstallHolds(s)' BY <1>2 DEF InstallHolds
      <4>1. ASSUME pc[s] \in {"register", "finalTemp"},
                   NEW b \in profiles' \ (todo[s] \cup toggled'), KeyOf(b) \notin changed'
            PROVE  keys'[KeyOf(b)] = "ours"
        <5>1. b \in Browser /\ KeyOf(b) \in Key BY <1>6, <4>1 DEF Key
        <5>2. b \in profiles \ (todo[s] \cup toggled) /\ KeyOf(b) \notin changed BY <1>7, <3>1, <4>1
        <5>3. keys[KeyOf(b)] = "ours" BY <2>1, <4>1, <5>2 DEF HoldsOf, InstallHolds
        <5>4. QED BY <1>5, <3>1, <4>1, <5>1, <5>3
      <4>2. QED BY <1>2, <1>3, <2>1, <4>1 DEF HoldsOf, InstallHolds, FilesKept
    <3>5. UninstallHolds(s)' BY <1>2, <1>3, <1>5, <2>1 DEF HoldsOf, UninstallHolds, FilesKept
    <3>6. QED BY <3>2, <3>3, <3>4, <3>5 DEF HoldsOf
  <2>4. QED BY <2>2, <2>3
<1>14. QED BY <1>8, <1>9, <1>10, <1>12, <1>13 DEF SetupInv

LEMMA NextKeepsInv == SetupInv /\ [Next]_vars => SetupInv'
<1> SUFFICES ASSUME SetupInv, [Next]_vars PROVE SetupInv' OBVIOUS
<1>1. CASE UNCHANGED vars
  <2>1. UNCHANGED <<disk, keys, profiles, lock, pc, job, mine, todo, doomed, target, seen, interrupted, bounds>>
    BY <1>1 DEF vars, locals
  <2>2. FilesKept /\ Owned' = Owned BY <2>1, SameDisk DEF Owned, FilesKept
  <2>3. \A s \in Setup : HoldsOf(s)' BY <2>1, SameHolds DEF SetupInv
  <2>4. TypeOK' /\ Shape' /\ RegistrationsLaunch' /\ FilesAreOwned'
    BY <2>1, <2>2 DEF SetupInv, TypeOK, Shape, WholeDisk, RegistrationsLaunch, FilesAreOwned, FilesKept,
                      seen, bounds
  <2>5. \A s \in Setup : Unfinished(s)' = Unfinished(s) BY <2>1, <2>2 DEF Unfinished, FilesKept
  <2>6. Finished' BY <2>1, <2>2, <2>5 DEF SetupInv, Finished, FilesKept
  <2>7. QED BY <2>3, <2>4, <2>6 DEF SetupInv
<1>2. CASE \E s \in Setup : SetupStep(s)
  <2>1. PICK s \in Setup : SetupStep(s) BY <1>2
  <2>2. StepKeeps(s) BY <2>1, SetupStepKeeps
  <2>3. \A q \in Setup \ {s} : HoldsOf(q)' BY <2>1, <2>2, OthersHold DEF StepKeeps
  <2>4. QED BY <2>2, <2>3 DEF StepKeeps, SetupInv
<1>3. QED BY <1>1, <1>2, OutsideKeeps DEF Next

-----------------------------------------------------------------------------
(* The theorems *)

LEMMA Invariance == Spec => []SetupInv
BY InitInv, NextKeepsInv, PTL DEF Spec

\* Every field keeps its type, and the receipt never outgrows MAX_VERSIONS, for any number
\* of setup processes and interruptions.
THEOREM TypeCorrect == Spec => []TypeOK
<1>1. SetupInv => TypeOK BY DEF SetupInv
<1>2. QED BY <1>1, Invariance, PTL

\* The manifest that every registry value of ours names leads to an intact helper at every
\* moment, since it goes after the values and comes before them.
THEOREM HostsCanStart == Spec => []RegistrationsLaunch
<1>1. SetupInv => RegistrationsLaunch BY DEF SetupInv
<1>2. QED BY <1>1, Invariance, PTL

\* The receipt has every version that is on the disk, whenever setup was interrupted.
THEOREM ReceiptOwnsEverything == Spec => []EverythingIsOwned
<1>1. SetupInv => EverythingIsOwned BY DEF SetupInv, FilesAreOwned, EverythingIsOwned, Owned
<1>2. QED BY <1>1, Invariance, PTL

\* While no setup owns the mutex, a helper that the bridge would name is there, unless its
\* own install, or removal, was cut short.
THEOREM BridgeHasItsHelper == Spec => []BridgeFindsTheHelper
<1>1. SetupInv => BridgeFindsTheHelper
  <2> SUFFICES ASSUME SetupInv, lock = None, NEW choice \in Version \cup {None},
                      Named(choice) \notin interrupted
               PROVE  Resolved(choice) = Named(choice)
    BY DEF BridgeFindsTheHelper
  <2>1. \A s \in Setup : Unfinished(s) = {}
    <3>1. \A s \in Setup : pc[s] \notin Critical BY NamesAssumption DEF SetupInv, HoldsOf, OwnerHolds
    <3>2. QED BY <3>1, UnfinishedIs DEF Critical, Checked, Installs, Uninstalls
  <2>2. Named(choice) \in Owned \cup {None}
    <3>1. CASE choice # None BY <3>1 DEF Named, Owned
    <3>2. CASE choice = None /\ Installed # <<>>
      <4>1. Installed \in Seq(Version) BY Receipts DEF SetupInv, TypeOK, Installed, OrEmpty, IsReceipt
      <4>2. Len(Installed) \in DOMAIN Installed BY <3>2, <4>1
      <4>3. Last(Installed) \in Range(Installed) BY <4>2 DEF Last, Range
      <4>4. QED BY <3>2, <4>3 DEF Named, Owned, Listed, Installed
    <3>3. CASE choice = None /\ Installed = <<>> BY <3>3 DEF Named
    <3>4. QED BY <3>1, <3>2, <3>3
  <2>3. CASE Named(choice) \in Owned BY <2>1, <2>3 DEF SetupInv, Finished, Resolved
  <2>4. CASE Named(choice) = None BY <2>4 DEF Resolved
  <2>5. QED BY <2>2, <2>3, <2>4
<1>2. QED BY <1>1, Invariance, PTL

\* Setup changes registry values only after its checks under the mutex, when it has seen them.
LEMMA ForeignKept ==
  ASSUME SetupInv, [Next]_vars, NEW k \in Key, keys[k] = "foreign", keys'[k] # "foreign"
  PROVE  k \in changed' \/ lock = None
<1> USE DEF Critical, Checked, Journals, Installs, Uninstalls
<1>1. ~UNCHANGED keys OBVIOUS
<1>2. CASE \E j \in Key : KeyChanges(j) BY <1>2 DEF KeyChanges, SetupInv, TypeOK
<1>3. ASSUME NEW s \in Setup, NEW b \in Browser, Register(s, b) \/ Unregister(s, b) PROVE k \in changed'
  <2>1. pc[s] \in {"register", "unregister"} /\ UNCHANGED changed
    BY <1>3 DEF Register, Unregister, Step, seen
  <2>2. k \in changed BY <2>1 DEF SetupInv, HoldsOf, OwnerHolds
  <2>3. QED BY <2>1, <2>2
<1>4. ASSUME NEW s \in Setup, SetupStep(s),
             ~ \E b \in Browser : Register(s, b) \/ Unregister(s, b)
      PROVE  UNCHANGED keys
  <2>1. Install(s) => UNCHANGED keys
    BY <1>4 DEF Install, RecheckInstall, JournalTemp, JournalRename, CopyTemp, CopyRename, HostsTemp,
                HostsRename, Present, FinalTemp, FinalRename, Writes
  <2>2. Uninstall(s) => UNCHANGED keys
    BY <1>4 DEF Uninstall, RecheckUninstall, RemoveManifest, RemoveHosts, RemoveDir, RemoveBinary,
                RemoveReceipt, CleanUp, Writes
  <2>3. QED BY <1>4, <2>1, <2>2 DEF SetupStep, Start, ReadReceipt, Precheck, Lock, Fail, Crash
<1>5. UNCHANGED vars => UNCHANGED keys BY DEF vars
<1>6. (\E b \in Browser : ProfileToggles(b)) => UNCHANGED keys BY DEF ProfileToggles
<1>7. QED BY <1>1, <1>2, <1>3, <1>4, <1>5, <1>6 DEF Next

\* Another installation's value is neither replaced nor removed, unless it came after setup
\* had looked at the registry under the mutex.
THEOREM ForeignRegistrationsStay == Spec => ForeignIsKept
<1>1. SetupInv /\ [Next]_vars =>
        [\A k \in Key : keys[k] = "foreign" /\ keys'[k] # "foreign" => k \in changed' \/ lock = None]_vars
  BY ForeignKept
<1>2. QED BY <1>1, Invariance, PTL DEF Spec, ForeignIsKept

\* The last step of a successful setup.
LEMMA SuccessComes ==
  ASSUME SetupInv, [Next]_vars, NEW s \in Setup, Succeeds(s)
  PROVE  (pc[s] = "finalTemp" /\ FinalRename(s)) \/ (pc[s] = "cleanUp" /\ CleanUp(s))
<1>1. pc[s] \in {"finalTemp", "cleanUp"} /\ pc'[s] = "ok" BY DEF Succeeds
<1>2. PICK q \in Setup : SetupStep(q)
  <2>1. UNCHANGED vars => UNCHANGED pc BY DEF vars
  <2>2. (\E k \in Key : KeyChanges(k)) \/ (\E b \in Browser : ProfileToggles(b)) => UNCHANGED pc
    BY DEF KeyChanges, ProfileToggles
  <2>3. QED BY <1>1, <2>1, <2>2 DEF Next
<1>3. q = s BY <1>1, <1>2, SetupStepKeeps DEF StepKeeps, OthersKept
<1>4. ~Refuse(s)
  <2>1. Refuse(s) => pc'[s] = "idle" BY DEF Refuse, End, Goto, SetupInv, TypeOK
  <2>2. QED BY <1>1, <2>1
<1>5. ~Fail(s) /\ ~Crash(s) BY <1>4 DEF Fail, Crash
<1>6. Install(s) => FinalRename(s)
  BY <1>1 DEF Install, RecheckInstall, JournalTemp, JournalRename, CopyTemp, CopyRename, HostsTemp,
              HostsRename, Present, FinalTemp, Register, Step, Goto, SetupInv, TypeOK
<1>7. Uninstall(s) => CleanUp(s)
  BY <1>1 DEF Uninstall, RecheckUninstall, RemoveManifest, RemoveHosts, RemoveDir, RemoveBinary,
              RemoveReceipt, Unregister, Step, Goto
<1>8. FinalRename(s) \/ CleanUp(s)
  BY <1>1, <1>2, <1>3, <1>5, <1>6, <1>7 DEF SetupStep, Start, ReadReceipt, Precheck, Lock, Ended
<1>9. QED BY <1>8 DEF FinalRename, CleanUp

\* A setup that reports success has done all of it, whatever was interrupted before it.
THEOREM SuccessMeansDone == Spec => SuccessIsComplete
<1>1. ASSUME SetupInv, [Next]_vars, NEW s \in Setup, Succeeds(s)
      PROVE  IF Installing(s)
             THEN /\ job[s] \in binaries' \cap Listed(receipt') /\ manifest' = job[s]
                  /\ \A b \in profiles \ toggled : KeyOf(b) \in changed \/ keys'[KeyOf(b)] = "ours"
             ELSE /\ dirs' = {} /\ manifest' = None
                  /\ \A k \in Key : keys'[k] # "ours"
  <2>1. CASE pc[s] = "finalTemp" /\ FinalRename(s)
    <3>1. InstallerKnows(s) BY <1>1, <2>1, InstallerKnowledge DEF Installs
    <3>2. disk' = disk /\ UNCHANGED keys
      BY <1>1, <2>1, <3>1 DEF FinalRename, InstallerKnows, SetupInv, Shape, WholeDisk, DiskOf
    <3>3. FilesKept BY <3>2, SameDisk
    <3>4. Installing(s) BY <3>1, NamesAssumption DEF Installing, InstallerKnows
    <3>5. job[s] \in binaries /\ job[s] \in Listed(receipt) /\ manifest = job[s] /\ todo[s] = {}
      BY <2>1, <3>1 DEF InstallerKnows, Owned
    <3>6. \A b \in profiles \ toggled : KeyOf(b) \in changed \/ keys'[KeyOf(b)] = "ours"
      BY <2>1, <3>1, <3>2, <3>5 DEF InstallerKnows
    <3>7. QED BY <3>3, <3>4, <3>5, <3>6 DEF FilesKept
  <2>2. CASE pc[s] = "cleanUp" /\ CleanUp(s)
    <3> DEFINE left == (dirs # {})
    <3>1. UninstallerKnows(s) BY <1>1, <2>2, UninstallerKnowledge DEF Uninstalls
    <3>2. UNCHANGED keys /\ disk' = [disk EXCEPT !.versionsDir = left] BY <2>2 DEF CleanUp
    <3> HIDE DEF left
    <3>3. disk' = DiskOf(receipt, left, hostsDir, dirs, binaries, manifest, torn)
      BY <1>1, <3>2 DEF SetupInv, Shape, WholeDisk, DiskOf
    <3>4. UNCHANGED <<dirs, manifest>> BY <3>3, Files
    <3>5. ~Installing(s) BY <3>1 DEF Installing, UninstallerKnows
    <3>6. QED BY <2>2, <3>1, <3>2, <3>4, <3>5 DEF UninstallerKnows
  <2>3. QED BY <1>1, <2>1, <2>2, SuccessComes
<1>2. SetupInv /\ [Next]_vars =>
        [\A s \in Setup : Succeeds(s) =>
           IF Installing(s)
           THEN /\ job[s] \in binaries' \cap Listed(receipt') /\ manifest' = job[s]
                /\ \A b \in profiles \ toggled : KeyOf(b) \in changed \/ keys'[KeyOf(b)] = "ours"
           ELSE /\ dirs' = {} /\ manifest' = None
                /\ \A k \in Key : keys'[k] # "ours"]_vars
  BY <1>1
<1>3. QED BY <1>2, Invariance, PTL DEF Spec, SuccessIsComplete
=============================================================================
