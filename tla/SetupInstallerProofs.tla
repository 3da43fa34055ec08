-------------------------- MODULE SetupInstallerProofs --------------------------
(***************************************************************************)
(* Proofs about SetupInstaller, for any setup processes, payloads and      *)
(* browsers and any number of interruptions: its types, and what           *)
(* registrations and the receipt promise.                                  *)
(***************************************************************************)
EXTENDS SetupInstaller, FiniteSetTheorems, TLAPS

-----------------------------------------------------------------------------
(* The inductive invariant *)

Writing == {"copy", "copyTemp", "present", "register", "finalTemp"}
\* Phases that only the holder of the setup lock is in.
Critical == {"recheck", "journal", "journalTemp", "uninstall", "cleanUp"} \cup Writing

Owned == OrEmpty(receipt).versions

FilesAreOwned ==
  /\ dirs \subseteq Owned
  /\ torn \cap Version \subseteq dirs
  /\ \A b \in Browser : registration[b] \in Version => registration[b] \in Owned
  /\ \A b \in Browser : registration[b] # None => b \in profiles
  /\ IsFiniteSet(Owned)

\* The receipt about to be journalled is the old one and the new version.
JournalHolds(s) == pc[s] \in {"journal", "journalTemp"} =>
  /\ job[s] \in Version
  /\ mine[s] \in Receipt /\ IsFiniteSet(mine[s].versions)
  /\ Owned \cup {job[s]} \subseteq mine[s].versions

\* From then on the receipt has the new version; what is done is done, except where
\* others have interfered since.
InstallHolds(s) == pc[s] \in Writing =>
  /\ job[s] \in Version
  /\ receipt \in Receipt /\ mine[s] \in Receipt
  /\ receipt.versions = mine[s].versions
  /\ job[s] \in receipt.versions
  /\ pc[s] = "copyTemp" => job[s] \in dirs
  /\ pc[s] \in {"present", "register", "finalTemp"} => job[s] \in binaries
  /\ pc[s] = "register" /\ target[s] # None =>
       /\ target[s] \in todo[s]
       /\ registration[target[s]] = Foreign => target[s] \in changed
  /\ pc[s] = "finalTemp" => todo[s] = {}
  /\ pc[s] \in {"register", "finalTemp"} =>
       \A b \in mine[s].browsers \ (todo[s] \cup changed) : registration[b] = job[s]

\* Registrations of ours are on the list, and so are version directories, whose helper goes
\* first; none holds a file of an interrupted copy.
UninstallHolds(s) == pc[s] = "uninstall" =>
  /\ job[s] = None /\ receipt \in Receipt
  /\ torn \cap Version = {}
  /\ dirs \subseteq doomed[s]
  /\ \A b \in Browser : registration[b] \in Version => b \in todo[s]
  /\ \A b \in todo[s] : registration[b] = Foreign => b \in changed
  /\ target[s] # None => target[s] \in doomed[s] \ binaries

CleanUpHolds(s) == pc[s] = "cleanUp" =>
  /\ job[s] = None /\ dirs = {}
  /\ \A b \in Browser : registration[b] \notin Version

HoldsOf(s) ==
  /\ pc[s] \in Critical => lock = s
  /\ pc[s] \notin {"register", "uninstall"} => target[s] = None
  /\ JournalHolds(s)
  /\ InstallHolds(s)
  /\ UninstallHolds(s)
  /\ CleanUpHolds(s)

SetupInv ==
  /\ TypeOK
  /\ RegistrationsLaunch
  /\ FilesAreOwned
  /\ \A s \in Setup : HoldsOf(s)

-----------------------------------------------------------------------------
(* Receipts *)

LEMMA Receipts ==
  /\ EmptyReceipt \in Receipt /\ NoReceipt \notin Receipt /\ IsFiniteSet(EmptyReceipt.versions)
  /\ \A r \in Receipt : r.versions \in SUBSET Version /\ r.browsers \in SUBSET Browser
  /\ \A r \in Receipt, bs \in SUBSET Browser : [versions |-> r.versions, browsers |-> bs] \in Receipt
  /\ \A r \in Receipt : r = [versions |-> r.versions, browsers |-> r.browsers]
  /\ \A r \in Receipt : OrEmpty(r) = r
  /\ OrEmpty(NoReceipt) = EmptyReceipt
<1>1. Cardinality({}) = 0 /\ IsFiniteSet({}) BY FS_EmptySet
<1>2. 0 <= MaxVersions BY BoundAssumption
<1>3. EmptyReceipt \in Receipt BY <1>1, <1>2 DEF EmptyReceipt, Receipt
<1>4. NoReceipt \notin Receipt BY NamesAssumption DEF NoReceipt
<1>5. QED BY <1>1, <1>3, <1>4 DEF OrEmpty, Receipt, EmptyReceipt

\* What install journals is a receipt, since the limit was checked.
LEMMA LongerReceipt ==
  ASSUME NEW r \in Receipt, IsFiniteSet(r.versions), NEW v \in Version,
         ~ Cardinality(r.versions \cup {v}) > MaxVersions
  PROVE  /\ [r EXCEPT !.versions = r.versions \cup {v}] \in Receipt
         /\ [r EXCEPT !.versions = r.versions \cup {v}].versions = r.versions \cup {v}
         /\ IsFiniteSet(r.versions \cup {v})
<1>1. IsFiniteSet(r.versions \cup {v}) BY FS_AddElement
<1>2. Cardinality(r.versions \cup {v}) \in Nat BY <1>1, FS_CardinalityType
<1>3. Cardinality(r.versions \cup {v}) <= MaxVersions BY <1>2, BoundAssumption
<1>4. r.versions \cup {v} \in SUBSET Version /\ r.browsers \in SUBSET Browser BY Receipts
<1>5. [r EXCEPT !.versions = r.versions \cup {v}] =
        [versions |-> r.versions \cup {v}, browsers |-> r.browsers]
  BY DEF Receipt
<1>6. QED BY <1>1, <1>3, <1>4, <1>5 DEF Receipt

LEMMA InitInv == Init => SetupInv
<1> SUFFICES ASSUME Init PROVE SetupInv OBVIOUS
<1> USE DEF Init
<1>1. TypeOK
  <2>1. 0 \in 0..MaxCrashes /\ 0 \in 0..MaxOutside BY BoundAssumption
  <2>2. QED BY <2>1 DEF TypeOK, Phase, Ended
<1>2. RegistrationsLaunch BY NamesAssumption DEF RegistrationsLaunch
<1>3. FilesAreOwned
  <2>1. Owned = {} /\ IsFiniteSet(Owned) BY Receipts DEF Owned, EmptyReceipt
  <2>2. QED BY <2>1, NamesAssumption DEF FilesAreOwned
<1>4. \A s \in Setup : HoldsOf(s)
  BY DEF HoldsOf, Critical, Writing, JournalHolds, InstallHolds, UninstallHolds, CleanUpHolds
<1>5. QED BY <1>1, <1>2, <1>3, <1>4 DEF SetupInv

-----------------------------------------------------------------------------
(* Processes in nobody's way *)

\* A step of one setup process leaves what the others keep alone.
OthersKept(s) == \A q \in Setup \ {s} :
  /\ pc'[q] = pc[q] /\ job'[q] = job[q] /\ mine'[q] = mine[q]
  /\ todo'[q] = todo[q] /\ doomed'[q] = doomed[q] /\ target'[q] = target[q]

SetupStep(s) ==
  \/ Start(s) \/ ReadReceipt(s) \/ Precheck(s) \/ Lock(s)
  \/ Install(s) \/ Uninstall(s) \/ Fail(s) \/ Crash(s)

LEMMA EndLocals ==
  ASSUME TypeOK, NEW s \in Setup, NEW result \in Ended, End(s, result)
  PROVE  /\ OthersKept(s)
         /\ pc' \in [Setup -> Phase] /\ job' \in [Setup -> Version \cup {None}]
         /\ mine' \in [Setup -> Receipt \cup {NoReceipt}]
         /\ todo' \in [Setup -> SUBSET Browser] /\ doomed' \in [Setup -> SUBSET Version]
         /\ target' \in [Setup -> Browser \cup Version \cup {None}]
         /\ lock' \in Setup \cup {None}
         /\ pc'[s] = result /\ target'[s] = None /\ (lock # s => lock' = lock)
         /\ HoldsOf(s)'
<1>1. pc'[s] = result /\ target'[s] = None BY DEF End, Goto, TypeOK
<1>2. HoldsOf(s)'
  BY <1>1 DEF HoldsOf, Critical, Writing, JournalHolds, InstallHolds, UninstallHolds, CleanUpHolds, Ended
<1>3. QED BY <1>1, <1>2 DEF End, Goto, TypeOK, OthersKept, Phase

LEMMA IdleHolds ==
  ASSUME NEW q \in Setup, HoldsOf(q), pc[q] \notin Critical, pc'[q] = pc[q], target'[q] = target[q]
  PROVE  HoldsOf(q)'
BY DEF HoldsOf, Critical, Writing, JournalHolds, InstallHolds, UninstallHolds, CleanUpHolds

LEMMA SameHolds ==
  ASSUME NEW q \in Setup, HoldsOf(q), UNCHANGED <<disk, changed>>, lock = q => lock' = lock,
         pc'[q] = pc[q], job'[q] = job[q], mine'[q] = mine[q],
         todo'[q] = todo[q], doomed'[q] = doomed[q], target'[q] = target[q]
  PROVE  HoldsOf(q)'
BY DEF HoldsOf, JournalHolds, InstallHolds, UninstallHolds, CleanUpHolds, disk, Owned

-----------------------------------------------------------------------------
(* Each step of a setup process *)

StepKeeps(s) == TypeOK' /\ RegistrationsLaunch' /\ FilesAreOwned' /\ HoldsOf(s)' /\ OthersKept(s)

LEMMA EndKeeps ==
  ASSUME SetupInv, NEW s \in Setup, NEW result \in Ended, End(s, result),
         UNCHANGED <<disk, profiles, bounds>>, changed' \in SUBSET Browser
  PROVE  StepKeeps(s)
<1>1. TypeOK BY DEF SetupInv
<1>2. TypeOK' BY <1>1, EndLocals DEF TypeOK, disk, bounds
<1>3. RegistrationsLaunch' /\ FilesAreOwned'
  BY DEF SetupInv, RegistrationsLaunch, FilesAreOwned, Owned, disk
<1>4. QED BY <1>1, <1>2, <1>3, EndLocals DEF StepKeeps

LEMMA GotoKeeps ==
  ASSUME SetupInv, NEW s \in Setup, NEW phase \in Phase, Goto(s, phase),
         phase \notin Critical \cup {"register", "uninstall"}, pc[s] \notin {"register", "uninstall"},
         UNCHANGED <<disk, profiles, lock, todo, doomed, target, changed, bounds>>,
         \E v \in Version \cup {None} : job' = [job EXCEPT ![s] = v],
         \E r \in Receipt \cup {NoReceipt} : mine' = [mine EXCEPT ![s] = r]
  PROVE  StepKeeps(s)
<1>1. TypeOK BY DEF SetupInv
<1>2. TypeOK' BY <1>1 DEF TypeOK, disk, bounds, Goto
<1>3. RegistrationsLaunch' /\ FilesAreOwned'
  BY DEF SetupInv, RegistrationsLaunch, FilesAreOwned, Owned, disk
<1>4. pc'[s] = phase /\ target'[s] = None BY <1>1 DEF TypeOK, Goto, SetupInv, HoldsOf
<1>5. HoldsOf(s)'
  BY <1>4 DEF HoldsOf, Critical, Writing, JournalHolds, InstallHolds, UninstallHolds, CleanUpHolds
<1>6. OthersKept(s) BY <1>1 DEF TypeOK, Goto, OthersKept
<1>7. QED BY <1>2, <1>3, <1>5, <1>6 DEF StepKeeps

LEMMA BeforeLock ==
  ASSUME SetupInv, NEW s \in Setup, Start(s) \/ ReadReceipt(s) \/ Precheck(s) \/ Lock(s) \/ Fail(s)
  PROVE  StepKeeps(s)
<1> USE DEF Ended, Phase, Critical, Writing
<1>1. TypeOK BY DEF SetupInv
<1>2. job = [job EXCEPT ![s] = job[s]] /\ job[s] \in Version \cup {None}
  BY <1>1 DEF TypeOK
<1>3. mine = [mine EXCEPT ![s] = mine[s]] /\ mine[s] \in Receipt \cup {NoReceipt}
  BY <1>1 DEF TypeOK
<1>4. CASE Start(s)
  <2>1. Goto(s, "receipt") /\ UNCHANGED <<disk, profiles, lock, mine, todo, doomed, target, changed, bounds>>
    BY <1>4 DEF Start
  <2>2. QED BY <1>3, <1>4, <2>1, GotoKeeps DEF Start
<1>5. CASE ReadReceipt(s)
  <2>1. receipt \in Receipt \cup {NoReceipt} BY <1>1 DEF TypeOK
  <2>2. changed \in SUBSET Browser BY <1>1 DEF TypeOK
  <2>3. CASE Disowned BY <1>5, <2>2, <2>3, EndKeeps DEF ReadReceipt
  <2>4. CASE ~Disowned BY <1>2, <1>5, <2>1, <2>4, GotoKeeps DEF ReadReceipt
  <2>5. QED BY <2>3, <2>4
<1>6. CASE Precheck(s)
  <2>1. changed \in SUBSET Browser /\ UNCHANGED <<disk, profiles, changed, bounds>>
    BY <1>1, <1>6 DEF TypeOK, Precheck
  <2>2. CASE End(s, "otherError") \/ End(s, "ok") BY <2>1, <2>2, EndKeeps
  <2>3. CASE Goto(s, "lock") /\ UNCHANGED <<lock, Locals>>
    BY <1>2, <1>3, <1>6, <2>1, <2>3, GotoKeeps DEF Precheck, Locals
  <2>4. QED BY <1>6, <2>2, <2>3 DEF Precheck
<1>7. CASE Lock(s)
  <2>1. changed \in SUBSET Browser /\ UNCHANGED <<disk, profiles, changed, bounds>>
    BY <1>1, <1>7 DEF TypeOK, Lock
  <2>2. CASE lock # None BY <1>7, <2>1, <2>2, EndKeeps DEF Lock
  <2>3. CASE lock = None
    <3>1. lock' = s /\ Goto(s, "recheck") /\ UNCHANGED Locals /\ pc[s] = "lock" BY <1>7, <2>3 DEF Lock
    <3>2. TypeOK' BY <1>1, <2>1, <3>1 DEF TypeOK, Locals, disk, bounds, Goto
    <3>3. RegistrationsLaunch' /\ FilesAreOwned'
      BY <2>1 DEF SetupInv, RegistrationsLaunch, FilesAreOwned, Owned, disk
    <3>4. pc'[s] = "recheck" /\ target'[s] = None /\ OthersKept(s)
      BY <1>1, <3>1 DEF TypeOK, Goto, SetupInv, HoldsOf, Locals, OthersKept
    <3>5. HoldsOf(s)' BY <3>1, <3>4 DEF HoldsOf, JournalHolds, InstallHolds, UninstallHolds, CleanUpHolds
    <3>6. QED BY <3>2, <3>3, <3>4, <3>5 DEF StepKeeps
  <2>4. QED BY <2>2, <2>3
<1>8. CASE Fail(s)
  BY <1>1, <1>8, EndKeeps DEF Fail, TypeOK
<1>9. QED BY <1>4, <1>5, <1>6, <1>7, <1>8

LEMMA RecheckKeeps ==
  ASSUME SetupInv, NEW s \in Setup, RecheckInstall(s) \/ RecheckUninstall(s)
  PROVE  StepKeeps(s)
<1> DEFINE r == OrEmpty(receipt)
<1> USE DEF Ended, Phase
<1>1. TypeOK /\ lock = s /\ pc[s] = "recheck" /\ target[s] = None
  BY DEF SetupInv, HoldsOf, Critical, RecheckInstall, RecheckUninstall
<1>2. changed' = {} /\ UNCHANGED <<disk, profiles, bounds>> BY DEF RecheckInstall, RecheckUninstall
<1>3. changed' \in SUBSET Browser BY <1>2
<1>4. CASE \E result \in Ended : End(s, result) BY <1>2, <1>3, <1>4, EndKeeps
<1>5. r \in Receipt /\ r = OrEmpty(receipt) /\ r.versions = Owned /\ IsFiniteSet(r.versions)
  BY <1>1, Receipts DEF TypeOK, SetupInv, FilesAreOwned, Owned
<1>6. RegistrationsLaunch' /\ FilesAreOwned'
  BY <1>2 DEF SetupInv, RegistrationsLaunch, FilesAreOwned, Owned, disk
<1>7. CASE RecheckInstall(s) /\ ~ \E result \in Ended : End(s, result)
  <2> DEFINE new == [r EXCEPT !.versions = r.versions \cup {job[s]}]
  <2>1. /\ Goto(s, "journal") /\ mine' = [mine EXCEPT ![s] = new]
        /\ UNCHANGED <<lock, job, todo, doomed, target>>
        /\ ~ Cardinality(r.versions \cup {job[s]}) > MaxVersions
    BY <1>7 DEF RecheckInstall
  <2>2. job[s] \in Version BY <1>1, <1>7 DEF RecheckInstall, Installing, TypeOK
  <2>3. new \in Receipt /\ new.versions = r.versions \cup {job[s]} /\ IsFiniteSet(r.versions \cup {job[s]})
    BY <1>5, <2>1, <2>2, LongerReceipt
  <2> HIDE DEF new
  <2>4. TypeOK' BY <1>1, <1>2, <1>3, <2>1, <2>3 DEF TypeOK, disk, bounds, Goto
  <2>5. pc'[s] = "journal" /\ mine'[s] = new /\ job'[s] = job[s] /\ target'[s] = None /\ lock' = s
    BY <1>1, <2>1 DEF TypeOK, Goto
  <2>6. Owned' = Owned BY <1>2 DEF Owned, disk
  <2>7. HoldsOf(s)'
    BY <1>5, <2>2, <2>3, <2>5, <2>6
    DEF HoldsOf, Critical, Writing, JournalHolds, InstallHolds, UninstallHolds, CleanUpHolds
  <2>8. OthersKept(s) BY <1>1, <2>1 DEF TypeOK, Goto, OthersKept
  <2>9. QED BY <1>6, <2>4, <2>7, <2>8 DEF StepKeeps
<1>8. CASE RecheckUninstall(s) /\ ~ \E result \in Ended : End(s, result)
  <2>1. /\ Goto(s, "uninstall") /\ todo' = [todo EXCEPT ![s] = Registered(r)]
        /\ doomed' = [doomed EXCEPT ![s] = r.versions]
        /\ UNCHANGED <<lock, job, mine, target>>
        /\ receipt # NoReceipt /\ Conflicts(r) = {} /\ ~Installing(s)
        /\ \A v \in r.versions : ~ForeignDir(v, r)
    BY <1>8 DEF RecheckUninstall
  <2>2. Registered(r) \in SUBSET Browser /\ r.versions \in SUBSET Version
    BY <1>5, Receipts DEF Registered
  <2>3. TypeOK' BY <1>1, <1>2, <1>3, <2>1, <2>2 DEF TypeOK, disk, bounds, Goto
  <2>4. /\ pc'[s] = "uninstall" /\ job'[s] = None /\ target'[s] = None /\ lock' = s
        /\ todo'[s] = Registered(r) /\ doomed'[s] = r.versions
    BY <1>1, <2>1 DEF TypeOK, Goto, Installing
  <2>5. torn \cap Version = {}
    BY <1>5, <2>1 DEF SetupInv, FilesAreOwned, ForeignDir, Temps
  <2>6. \A b \in Browser : registration[b] \in Version => b \in Registered(r)
    BY <1>5, Receipts DEF SetupInv, FilesAreOwned, Registered
  <2>7. \A b \in Registered(r) : registration[b] # Foreign
    BY <2>2, NamesAssumption DEF Registered
  <2>8. receipt' \in Receipt /\ dirs' \subseteq r.versions
    BY <1>1, <1>2, <1>5, <2>1 DEF TypeOK, SetupInv, FilesAreOwned, disk
  <2>9. HoldsOf(s)'
    BY <1>2, <2>4, <2>5, <2>6, <2>7, <2>8
    DEF HoldsOf, Critical, Writing, JournalHolds, InstallHolds, UninstallHolds, CleanUpHolds, disk
  <2>10. OthersKept(s) BY <1>1, <2>1 DEF TypeOK, Goto, OthersKept
  <2>11. QED BY <1>6, <2>3, <2>9, <2>10 DEF StepKeeps
<1>9. QED BY <1>4, <1>7, <1>8

LEMMA JournalKeeps ==
  ASSUME SetupInv, NEW s \in Setup, JournalTemp(s) \/ JournalRename(s)
  PROVE  StepKeeps(s)
<1> USE DEF Ended, Phase, Critical, Writing
<1>1. TypeOK /\ lock = s /\ pc[s] \in {"journal", "journalTemp"} /\ target[s] = None
  BY DEF SetupInv, HoldsOf, JournalTemp, JournalRename
<1>2. /\ job[s] \in Version /\ mine[s] \in Receipt /\ IsFiniteSet(mine[s].versions)
      /\ Owned \cup {job[s]} \subseteq mine[s].versions
  BY <1>1 DEF SetupInv, HoldsOf, JournalHolds
<1>3. CASE JournalTemp(s)
  <2>1. Goto(s, "journalTemp") /\ UNCHANGED <<disk, profiles, lock, Locals, changed, bounds>>
    BY <1>3 DEF JournalTemp
  <2>2. TypeOK' BY <1>1, <2>1 DEF TypeOK, disk, Locals, bounds, Goto
  <2>3. RegistrationsLaunch' /\ FilesAreOwned' /\ Owned' = Owned
    BY <2>1 DEF SetupInv, RegistrationsLaunch, FilesAreOwned, Owned, disk
  <2>4. pc'[s] = "journalTemp" /\ OthersKept(s) BY <1>1, <2>1 DEF TypeOK, Goto, Locals, OthersKept
  <2>5. HoldsOf(s)'
    BY <1>1, <1>2, <2>1, <2>3, <2>4
    DEF HoldsOf, JournalHolds, InstallHolds, UninstallHolds, CleanUpHolds, Locals
  <2>6. QED BY <2>2, <2>3, <2>4, <2>5 DEF StepKeeps
<1>4. CASE JournalRename(s)
  <2>1. /\ Goto(s, "copy") /\ receipt' = mine[s]
        /\ UNCHANGED <<versionsDir, dirs, binaries, torn, registration, profiles, lock, Locals, changed, bounds>>
    BY <1>4 DEF JournalRename
  <2>2. TypeOK' BY <1>1, <2>1 DEF TypeOK, Locals, bounds, Goto
  <2>3. Owned' = mine[s].versions BY <1>2, <2>1, Receipts DEF Owned, OrEmpty
  <2>4. RegistrationsLaunch' /\ FilesAreOwned'
    BY <1>2, <2>1, <2>3 DEF SetupInv, RegistrationsLaunch, FilesAreOwned
  <2>5. pc'[s] = "copy" /\ OthersKept(s) BY <1>1, <2>1 DEF TypeOK, Goto, Locals, OthersKept
  <2>6. HoldsOf(s)'
    BY <1>1, <1>2, <2>1, <2>5
    DEF HoldsOf, JournalHolds, InstallHolds, UninstallHolds, CleanUpHolds, Locals
  <2>7. QED BY <2>2, <2>4, <2>5, <2>6 DEF StepKeeps
<1>5. QED BY <1>3, <1>4

LEMMA CopyKeeps ==
  ASSUME SetupInv, NEW s \in Setup, CopyTemp(s) \/ CopyRename(s)
  PROVE  StepKeeps(s)
<1> USE DEF Ended, Phase, Critical, Writing
<1>1. TypeOK /\ lock = s /\ pc[s] \in {"copy", "copyTemp"} /\ target[s] = None
  BY DEF SetupInv, HoldsOf, CopyTemp, CopyRename
<1>2. /\ job[s] \in Version /\ receipt \in Receipt /\ mine[s] \in Receipt
      /\ receipt.versions = mine[s].versions /\ job[s] \in receipt.versions
      /\ pc[s] = "copyTemp" => job[s] \in dirs
  BY <1>1 DEF SetupInv, HoldsOf, InstallHolds
<1>3. Owned = receipt.versions BY <1>2, Receipts DEF Owned
<1>4. CASE CopyTemp(s)
  <2>1. /\ Goto(s, "copyTemp") /\ versionsDir' = TRUE /\ dirs' = dirs \cup {job[s]}
        /\ UNCHANGED <<receipt, binaries, torn, registration, profiles, lock, Locals, changed, bounds>>
    BY <1>4 DEF CopyTemp
  <2>2. TypeOK' BY <1>1, <1>2, <2>1 DEF TypeOK, Locals, bounds, Goto
  <2>3. RegistrationsLaunch' /\ FilesAreOwned'
    BY <1>2, <1>3, <2>1 DEF SetupInv, RegistrationsLaunch, FilesAreOwned, Owned
  <2>4. pc'[s] = "copyTemp" /\ OthersKept(s) BY <1>1, <2>1 DEF TypeOK, Goto, Locals, OthersKept
  <2>5. HoldsOf(s)'
    BY <1>1, <1>2, <2>1, <2>4
    DEF HoldsOf, JournalHolds, InstallHolds, UninstallHolds, CleanUpHolds, Locals
  <2>6. QED BY <2>2, <2>3, <2>4, <2>5 DEF StepKeeps
<1>5. CASE CopyRename(s)
  <2>1. /\ Goto(s, "present") /\ binaries' = binaries \cup {job[s]} /\ job[s] \in dirs
        /\ UNCHANGED <<receipt, versionsDir, dirs, torn, registration, profiles, lock, Locals, changed, bounds>>
    BY <1>2, <1>5 DEF CopyRename
  <2>2. TypeOK' BY <1>1, <2>1 DEF TypeOK, Locals, bounds, Goto
  <2>3. RegistrationsLaunch' /\ FilesAreOwned'
    BY <2>1 DEF SetupInv, RegistrationsLaunch, FilesAreOwned, Owned
  <2>4. pc'[s] = "present" /\ OthersKept(s) BY <1>1, <2>1 DEF TypeOK, Goto, Locals, OthersKept
  <2>5. HoldsOf(s)'
    BY <1>1, <1>2, <2>1, <2>4
    DEF HoldsOf, JournalHolds, InstallHolds, UninstallHolds, CleanUpHolds, Locals
  <2>6. QED BY <2>2, <2>3, <2>4, <2>5 DEF StepKeeps
<1>6. QED BY <1>4, <1>5

\* What an install knows while it registers, or is about to.
LEMMA Registering ==
  ASSUME SetupInv, NEW s \in Setup, pc[s] \in {"present", "register", "finalTemp"}
  PROVE  /\ TypeOK /\ lock = s
         /\ job[s] \in Version /\ receipt \in Receipt /\ mine[s] \in Receipt
         /\ receipt.versions = mine[s].versions /\ job[s] \in receipt.versions /\ job[s] \in binaries
         /\ Owned = receipt.versions
         /\ pc[s] # "register" => target[s] = None
         /\ pc[s] = "finalTemp" => todo[s] = {}
         /\ pc[s] = "register" /\ target[s] # None =>
              /\ target[s] \in todo[s]
              /\ registration[target[s]] = Foreign => target[s] \in changed
         /\ pc[s] \in {"register", "finalTemp"} =>
              \A b \in mine[s].browsers \ (todo[s] \cup changed) : registration[b] = job[s]
BY Receipts DEF SetupInv, HoldsOf, InstallHolds, Critical, Writing, Owned

LEMMA PresentKeeps ==
  ASSUME SetupInv, NEW s \in Setup, Present(s)
  PROVE  StepKeeps(s)
<1> USE DEF Ended, Phase, Critical, Writing
<1> DEFINE new == [versions |-> mine[s].versions, browsers |-> profiles]
<1>1. pc[s] = "present" BY DEF Present
<1>2. /\ Goto(s, "register") /\ todo' = [todo EXCEPT ![s] = profiles]
      /\ mine' = [mine EXCEPT ![s].browsers = profiles]
      /\ UNCHANGED <<disk, profiles, lock, job, doomed, target, changed, bounds>>
  BY DEF Present
<1>3. new \in Receipt BY <1>1, Registering, Receipts DEF TypeOK
<1>4. mine' = [mine EXCEPT ![s] = new]
  <2>1. mine[s] \in Receipt BY <1>1, Registering
  <2>2. [mine[s] EXCEPT !.browsers = profiles] = new BY <2>1 DEF Receipt
  <2>3. QED BY <1>2, <2>2
<1> HIDE DEF new
<1>5. TypeOK' BY <1>1, <1>2, <1>3, <1>4, Registering DEF TypeOK, disk, bounds, Goto
<1>6. RegistrationsLaunch' /\ FilesAreOwned'
  BY <1>2 DEF SetupInv, RegistrationsLaunch, FilesAreOwned, Owned, disk
<1>7. /\ pc'[s] = "register" /\ todo'[s] = profiles /\ mine'[s] = new /\ target'[s] = None /\ OthersKept(s)
  BY <1>1, <1>2, <1>4, Registering DEF TypeOK, Goto, OthersKept
<1>8. new.versions = mine[s].versions /\ new.browsers = profiles BY DEF new
<1>9. HoldsOf(s)'
  BY <1>1, <1>2, <1>3, <1>7, <1>8, Registering
  DEF HoldsOf, JournalHolds, InstallHolds, UninstallHolds, CleanUpHolds, disk
<1>10. QED BY <1>5, <1>6, <1>7, <1>9 DEF StepKeeps

LEMMA RegisterKeeps ==
  ASSUME SetupInv, NEW s \in Setup, NEW b \in Browser, LookAt(s, b) \/ Register(s, b)
  PROVE  StepKeeps(s)
<1> USE DEF Ended, Phase, Critical, Writing
<1>1. pc[s] = "register" BY DEF LookAt, Register
<1>2. TypeOK /\ lock = s BY <1>1, Registering
<1>3. CASE LookAt(s, b) /\ b \in Conflicts(mine[s])
  <2>1. End(s, "otherError") /\ UNCHANGED <<disk, profiles, bounds>> /\ changed' \in SUBSET Browser
    BY <1>2, <1>3 DEF LookAt, TypeOK
  <2>2. QED BY <2>1, EndKeeps
<1>4. CASE LookAt(s, b) /\ b \notin Conflicts(mine[s])
  <2>1. /\ target' = [target EXCEPT ![s] = b] /\ changed' = changed \ {b} /\ b \in todo[s]
        /\ UNCHANGED <<disk, profiles, bounds, lock, pc, job, mine, todo, doomed>>
    BY <1>4 DEF LookAt
  <2>2. TypeOK' BY <1>2, <2>1 DEF TypeOK, disk, bounds
  <2>3. RegistrationsLaunch' /\ FilesAreOwned'
    BY <2>1 DEF SetupInv, RegistrationsLaunch, FilesAreOwned, Owned, disk
  <2>4. target'[s] = b /\ OthersKept(s) BY <1>2, <2>1 DEF TypeOK, OthersKept
  <2>5. registration[b] # Foreign
    <3>1. mine[s].versions \in SUBSET Version BY <1>1, Registering, Receipts
    <3>2. QED BY <1>4, <3>1, NamesAssumption DEF Conflicts, Registered
  <2>6. HoldsOf(s)'
    BY <1>1, <2>1, <2>4, <2>5, Registering
    DEF HoldsOf, JournalHolds, InstallHolds, UninstallHolds, CleanUpHolds, disk
  <2>7. QED BY <2>2, <2>3, <2>4, <2>6 DEF StepKeeps
<1>5. CASE Register(s, b)
  <2>1. /\ registration' = [registration EXCEPT ![b] = job[s]] /\ profiles' = profiles \cup {b}
        /\ todo' = [todo EXCEPT ![s] = todo[s] \ {b}] /\ target' = [target EXCEPT ![s] = None]
        /\ UNCHANGED <<receipt, versionsDir, dirs, binaries, torn, lock, pc, job, mine, doomed, changed, bounds>>
    BY <1>5 DEF Register
  <2>2. job[s] \in Version /\ job[s] \in binaries /\ job[s] \in Owned BY <1>1, Registering
  <2>3. TypeOK' BY <1>2, <2>1, <2>2 DEF TypeOK, bounds
  <2>4. \A c \in Browser : registration'[c] = IF c = b THEN job[s] ELSE registration[c]
    BY <1>2, <2>1 DEF TypeOK
  <2>5. RegistrationsLaunch' /\ FilesAreOwned'
    BY <2>1, <2>2, <2>4 DEF SetupInv, RegistrationsLaunch, FilesAreOwned, Owned
  <2>6. todo'[s] = todo[s] \ {b} /\ target'[s] = None /\ OthersKept(s)
    BY <1>2, <2>1 DEF TypeOK, OthersKept
  <2>7. mine[s].browsers \in SUBSET Browser BY <1>1, Registering, Receipts
  <2>8. \A c \in mine[s].browsers \ (todo'[s] \cup changed) : registration'[c] = job[s]
    BY <1>1, <2>4, <2>6, <2>7, Registering
  <2>9. HoldsOf(s)'
    BY <1>1, <2>1, <2>6, <2>8, Registering
    DEF HoldsOf, JournalHolds, InstallHolds, UninstallHolds, CleanUpHolds
  <2>10. QED BY <2>3, <2>5, <2>6, <2>9 DEF StepKeeps
<1>6. QED BY <1>3, <1>4, <1>5

LEMMA FinalKeeps ==
  ASSUME SetupInv, NEW s \in Setup, FinalTemp(s) \/ FinalRename(s)
  PROVE  StepKeeps(s)
<1> USE DEF Ended, Phase, Critical, Writing
<1>1. pc[s] \in {"register", "finalTemp"} BY DEF FinalTemp, FinalRename
<1>2. TypeOK BY DEF SetupInv
<1>3. CASE FinalTemp(s)
  <2>1. /\ pc[s] = "register" /\ todo[s] = {} /\ Goto(s, "finalTemp")
        /\ UNCHANGED <<disk, profiles, lock, Locals, changed, bounds>>
    BY <1>3 DEF FinalTemp
  <2>2. target[s] = None BY <2>1, Registering
  <2>3. TypeOK' BY <1>2, <2>1 DEF TypeOK, disk, Locals, bounds, Goto
  <2>4. RegistrationsLaunch' /\ FilesAreOwned'
    BY <2>1 DEF SetupInv, RegistrationsLaunch, FilesAreOwned, Owned, disk
  <2>5. pc'[s] = "finalTemp" /\ OthersKept(s) BY <1>2, <2>1 DEF TypeOK, Goto, Locals, OthersKept
  <2>6. HoldsOf(s)'
    BY <2>1, <2>2, <2>5, Registering
    DEF HoldsOf, JournalHolds, InstallHolds, UninstallHolds, CleanUpHolds, Locals, disk
  <2>7. QED BY <2>3, <2>4, <2>5, <2>6 DEF StepKeeps
<1>4. CASE FinalRename(s)
  <2>1. /\ receipt' = mine[s] /\ End(s, "ok")
        /\ UNCHANGED <<versionsDir, dirs, binaries, torn, registration, profiles, changed, bounds>>
    BY <1>4 DEF FinalRename
  <2>2. mine[s] \in Receipt /\ Owned = mine[s].versions BY <1>1, Registering
  <2>3. Owned' = Owned BY <2>1, <2>2, Receipts DEF Owned
  <2>4. RegistrationsLaunch' /\ FilesAreOwned'
    BY <2>1, <2>3 DEF SetupInv, RegistrationsLaunch, FilesAreOwned
  <2>5. TypeOK' BY <1>2, <2>1, <2>2, EndLocals DEF TypeOK, bounds
  <2>6. QED BY <1>2, <2>1, <2>4, <2>5, EndLocals DEF StepKeeps
<1>5. QED BY <1>3, <1>4

LEMMA Uninstalling ==
  ASSUME SetupInv, NEW s \in Setup, pc[s] = "uninstall"
  PROVE  /\ TypeOK /\ lock = s
         /\ job[s] = None /\ receipt \in Receipt /\ Owned = receipt.versions
         /\ torn \cap Version = {} /\ dirs \subseteq doomed[s]
         /\ \A b \in Browser : registration[b] \in Version => b \in todo[s]
         /\ \A b \in todo[s] : registration[b] = Foreign => b \in changed
         /\ target[s] # None => target[s] \in doomed[s] \ binaries
BY Receipts DEF SetupInv, HoldsOf, UninstallHolds, Critical, Owned

LEMMA UnregisterKeeps ==
  ASSUME SetupInv, NEW s \in Setup, NEW b \in Browser, Unregister(s, b)
  PROVE  StepKeeps(s)
<1> USE DEF Ended, Phase, Critical, Writing
<1>1. pc[s] = "uninstall" /\ b \in todo[s] BY DEF Unregister
<1>2. TypeOK /\ UNCHANGED <<receipt, versionsDir, dirs, binaries, torn, profiles, changed, bounds>>
  BY <1>1, Uninstalling DEF Unregister
<1>3. CASE registration[b] = None
  <2>1. End(s, "otherError") /\ UNCHANGED registration BY <1>3 DEF Unregister
  <2>2. changed' \in SUBSET Browser BY <1>2 DEF TypeOK
  <2>3. QED BY <1>2, <2>1, <2>2, EndKeeps DEF disk
<1>4. CASE registration[b] # None
  <2>1. /\ registration' = [registration EXCEPT ![b] = None]
        /\ todo' = [todo EXCEPT ![s] = todo[s] \ {b}]
        /\ UNCHANGED <<lock, pc, job, mine, doomed, target>>
    BY <1>4 DEF Unregister
  <2>2. TypeOK' BY <1>2, <2>1 DEF TypeOK, bounds
  <2>3. \A c \in Browser : registration'[c] = IF c = b THEN None ELSE registration[c]
    BY <1>2, <2>1 DEF TypeOK
  <2>4. RegistrationsLaunch' /\ FilesAreOwned'
    BY <1>2, <2>3, NamesAssumption DEF SetupInv, RegistrationsLaunch, FilesAreOwned, Owned
  <2>5. todo'[s] = todo[s] \ {b} /\ todo[s] \in SUBSET Browser /\ OthersKept(s)
    BY <1>2, <2>1 DEF TypeOK, OthersKept
  <2>6. HoldsOf(s)'
    BY <1>1, <1>2, <2>1, <2>3, <2>5, Uninstalling, NamesAssumption
    DEF HoldsOf, JournalHolds, InstallHolds, UninstallHolds, CleanUpHolds
  <2>7. QED BY <2>2, <2>4, <2>5, <2>6 DEF StepKeeps
<1>5. QED BY <1>3, <1>4

LEMMA RemoveKeeps ==
  ASSUME SetupInv, NEW s \in Setup, RemoveDir(s) \/ \E v \in Version : RemoveBinary(s, v)
  PROVE  StepKeeps(s)
<1> USE DEF Ended, Phase, Critical, Writing
<1>1. pc[s] = "uninstall" BY DEF RemoveDir, RemoveBinary
<1>2. TypeOK BY DEF SetupInv
<1>3. ASSUME NEW v \in Version, RemoveBinary(s, v) PROVE StepKeeps(s)
  <2>1. /\ todo[s] = {} /\ target[s] = None /\ v \in doomed[s]
        /\ binaries' = binaries \ {v} /\ target' = [target EXCEPT ![s] = v]
        /\ UNCHANGED <<receipt, versionsDir, dirs, torn, registration, profiles, lock, pc, job, mine, todo, doomed, changed, bounds>>
    BY <1>3 DEF RemoveBinary
  <2>2. TypeOK' BY <1>2, <2>1 DEF TypeOK, bounds
  <2>3. \A b \in Browser : registration[b] \notin Version BY <1>1, <2>1, Uninstalling
  <2>4. RegistrationsLaunch' /\ FilesAreOwned'
    BY <2>1, <2>3 DEF SetupInv, RegistrationsLaunch, FilesAreOwned, Owned
  <2>5. target'[s] = v /\ OthersKept(s) BY <1>2, <2>1 DEF TypeOK, OthersKept
  <2>6. HoldsOf(s)'
    BY <1>1, <2>1, <2>5, Uninstalling
    DEF HoldsOf, JournalHolds, InstallHolds, UninstallHolds, CleanUpHolds
  <2>7. QED BY <2>2, <2>4, <2>5, <2>6 DEF StepKeeps
<1>4. CASE RemoveDir(s)
  <2>1. /\ dirs' = dirs \ {target[s]} /\ doomed' = [doomed EXCEPT ![s] = doomed[s] \ {target[s]}]
        /\ target' = [target EXCEPT ![s] = None] /\ target[s] # None
        /\ UNCHANGED <<receipt, versionsDir, binaries, torn, registration, profiles, lock, pc, job, mine, todo, changed, bounds>>
    BY <1>4 DEF RemoveDir
  <2>2. target[s] \notin binaries /\ torn \cap Version = {} BY <1>1, <2>1, Uninstalling
  <2>3. TypeOK' BY <1>2, <2>1, <2>2 DEF TypeOK, bounds
  <2>4. RegistrationsLaunch' /\ FilesAreOwned'
    BY <2>1, <2>2 DEF SetupInv, RegistrationsLaunch, FilesAreOwned, Owned
  <2>5. target'[s] = None /\ doomed'[s] = doomed[s] \ {target[s]} /\ OthersKept(s)
    BY <1>2, <2>1 DEF TypeOK, OthersKept
  <2>6. HoldsOf(s)'
    BY <1>1, <2>1, <2>5, Uninstalling
    DEF HoldsOf, JournalHolds, InstallHolds, UninstallHolds, CleanUpHolds
  <2>7. QED BY <2>3, <2>4, <2>5, <2>6 DEF StepKeeps
<1>5. QED BY <1>3, <1>4

LEMMA LeavingKeeps ==
  ASSUME SetupInv, NEW s \in Setup, RemoveReceipt(s) \/ CleanUp(s)
  PROVE  StepKeeps(s)
<1> USE DEF Ended, Phase, Critical, Writing
<1>1. TypeOK BY DEF SetupInv
<1>2. CASE RemoveReceipt(s)
  <2>1. /\ pc[s] = "uninstall" /\ todo[s] = {} /\ doomed[s] = {} /\ receipt' = NoReceipt
        /\ Goto(s, "cleanUp")
        /\ UNCHANGED <<versionsDir, dirs, binaries, torn, registration, profiles, lock, Locals, changed, bounds>>
    BY <1>2 DEF RemoveReceipt
  <2>2. /\ dirs = {} /\ target[s] = None /\ job[s] = None /\ lock = s /\ torn \cap Version = {}
        /\ \A b \in Browser : registration[b] \notin Version
    BY <2>1, Uninstalling
  <2>3. TypeOK' BY <1>1, <2>1 DEF TypeOK, Locals, bounds, Goto
  <2>4. Owned' = {} /\ IsFiniteSet(Owned') BY <2>1, Receipts DEF Owned, OrEmpty, EmptyReceipt
  <2>5. RegistrationsLaunch' /\ FilesAreOwned'
    BY <2>1, <2>2, <2>4 DEF SetupInv, RegistrationsLaunch, FilesAreOwned
  <2>6. pc'[s] = "cleanUp" /\ OthersKept(s) BY <1>1, <2>1 DEF TypeOK, Goto, Locals, OthersKept
  <2>7. HoldsOf(s)'
    BY <2>1, <2>2, <2>6 DEF HoldsOf, JournalHolds, InstallHolds, UninstallHolds, CleanUpHolds, Locals
  <2>8. QED BY <2>3, <2>5, <2>6, <2>7 DEF StepKeeps
<1>3. CASE CleanUp(s)
  <2>1. /\ versionsDir' = (dirs # {}) /\ End(s, "ok")
        /\ UNCHANGED <<receipt, dirs, binaries, torn, registration, profiles, changed, bounds>>
    BY <1>3 DEF CleanUp
  <2>2. versionsDir' \in BOOLEAN BY <2>1, Zenon
  <2>3. TypeOK' BY <1>1, <2>1, <2>2, EndLocals DEF TypeOK, bounds
  <2>4. RegistrationsLaunch' /\ FilesAreOwned'
    BY <2>1 DEF SetupInv, RegistrationsLaunch, FilesAreOwned, Owned
  <2>5. QED BY <1>1, <2>1, <2>3, <2>4, EndLocals DEF StepKeeps
<1>4. QED BY <1>2, <1>3

\* An interrupted write leaves its file where the receipt has it already.
LEMMA CrashKeeps ==
  ASSUME SetupInv, NEW s \in Setup, Crash(s)
  PROVE  StepKeeps(s)
<1> DEFINE place == IF pc[s] = "copyTemp" THEN job[s] ELSE Root
<1> USE DEF Ended, Phase, Critical, Writing
<1>1. TypeOK BY DEF SetupInv
<1>2. /\ pc[s] \in {"journalTemp", "copyTemp", "finalTemp"}
      /\ crashes < MaxCrashes /\ crashes' = crashes + 1 /\ torn' = torn \cup {place}
      /\ End(s, "otherError")
      /\ UNCHANGED <<receipt, versionsDir, dirs, binaries, registration, profiles, changed, outside>>
  BY DEF Crash
<1>3. place \in Version \cup {Root} /\ (place \in Version => place \in dirs)
  BY NamesAssumption DEF SetupInv, HoldsOf, InstallHolds, Root
<1> HIDE DEF place
<1>4. crashes' \in 0..MaxCrashes BY <1>1, <1>2, BoundAssumption DEF TypeOK
<1>5. torn' \in SUBSET (Version \cup {Root}) BY <1>1, <1>2, <1>3 DEF TypeOK
<1>6. TypeOK' BY <1>1, <1>2, <1>4, <1>5, EndLocals DEF TypeOK
<1>7. RegistrationsLaunch' /\ FilesAreOwned'
  BY <1>2, <1>3 DEF SetupInv, RegistrationsLaunch, FilesAreOwned, Owned
<1>8. QED BY <1>1, <1>2, <1>6, <1>7, EndLocals DEF StepKeeps

LEMMA SetupStepKeeps ==
  ASSUME SetupInv, NEW s \in Setup, SetupStep(s)
  PROVE  StepKeeps(s)
BY BeforeLock, RecheckKeeps, JournalKeeps, CopyKeeps, PresentKeeps, RegisterKeeps, FinalKeeps,
   UnregisterKeeps, RemoveKeeps, LeavingKeeps, CrashKeeps DEF SetupStep, Install, Uninstall

-----------------------------------------------------------------------------
(* The other processes, and everybody else *)

\* Whoever changes the disk holds the lock.
LEMMA WithoutTheLock ==
  ASSUME SetupInv, NEW s \in Setup, SetupStep(s), lock # s
  PROVE  UNCHANGED <<disk, changed>>
<1>1. pc[s] \notin Critical BY DEF SetupInv, HoldsOf
<1>2. ~Install(s) /\ ~Uninstall(s) /\ ~Crash(s)
  BY <1>1 DEF Install, Uninstall, Crash, Critical, Writing, RecheckInstall, JournalTemp, JournalRename,
              CopyTemp, CopyRename, Present, FinalTemp, FinalRename, LookAt, Register, RecheckUninstall,
              RemoveDir, RemoveReceipt, CleanUp, Unregister, RemoveBinary
<1>3. QED BY <1>2 DEF SetupStep, Start, ReadReceipt, Precheck, Lock, Fail

\* A lock that somebody holds is released by its holder.
LEMMA LockIsHeld ==
  ASSUME SetupInv, NEW s \in Setup, SetupStep(s), NEW q \in Setup, q # s, lock = q
  PROVE  lock' = lock
<1>1. lock # None BY NamesAssumption
<1>2. lock # s BY NamesAssumption
<1>3. pc[s] \notin Critical BY <1>2 DEF SetupInv, HoldsOf
<1>4. ~Install(s) /\ ~Uninstall(s) /\ ~Crash(s)
  BY <1>3 DEF Install, Uninstall, Crash, Critical, Writing, RecheckInstall, JournalTemp, JournalRename,
              CopyTemp, CopyRename, Present, FinalTemp, FinalRename, LookAt, Register, RecheckUninstall,
              RemoveDir, RemoveReceipt, CleanUp, Unregister, RemoveBinary
<1>5. QED BY <1>1, <1>2, <1>4 DEF SetupStep, Start, ReadReceipt, Precheck, Lock, Fail, End

LEMMA OthersHold ==
  ASSUME SetupInv, NEW s \in Setup, SetupStep(s), OthersKept(s), NEW q \in Setup, q # s
  PROVE  HoldsOf(q)'
<1>1. HoldsOf(q) BY DEF SetupInv
<1>2. CASE pc[q] \notin Critical BY <1>1, <1>2, IdleHolds DEF OthersKept
<1>3. CASE pc[q] \in Critical
  <2>1. lock = q BY <1>1, <1>3 DEF HoldsOf
  <2>2. UNCHANGED <<disk, changed>> BY <2>1, WithoutTheLock
  <2>3. lock' = lock BY <2>1, LockIsHeld
  <2>4. QED BY <1>1, <2>2, <2>3, SameHolds DEF OthersKept
<1>4. QED BY <1>2, <1>3

LEMMA OutsideKeeps ==
  ASSUME SetupInv, NEW b \in Browser, ForeignRegisters(b) \/ ProfileToggles(b)
  PROVE  SetupInv'
<1>1. TypeOK BY DEF SetupInv
<1>2. /\ outside < MaxOutside /\ outside' = outside + 1 /\ changed' = changed \cup {b}
      /\ UNCHANGED <<receipt, versionsDir, dirs, binaries, torn, lock, pc, Locals, crashes>>
  BY DEF ForeignRegisters, ProfileToggles, Outside
<1>3. PICK what \in {Foreign, None} : registration' = [registration EXCEPT ![b] = what]
  BY DEF ForeignRegisters, ProfileToggles
<1>4. what \notin Version /\ (what = Foreign => ForeignRegisters(b))
  BY <1>1, <1>3, NamesAssumption DEF ProfileToggles, TypeOK
<1>5. \A c \in Browser : registration'[c] = IF c = b THEN what ELSE registration[c]
  BY <1>1, <1>3 DEF TypeOK
<1>6. \A c \in Browser : registration'[c] # None => c \in profiles'
  BY <1>4, <1>5, <1>3 DEF SetupInv, FilesAreOwned, ForeignRegisters, ProfileToggles
<1>7. outside' \in 0..MaxOutside BY <1>1, <1>2, BoundAssumption DEF TypeOK
<1>8. profiles' \in SUBSET Browser BY <1>1 DEF TypeOK, ForeignRegisters, ProfileToggles
<1>9. TypeOK' BY <1>1, <1>2, <1>3, <1>7, <1>8 DEF TypeOK, Locals
<1>10. RegistrationsLaunch' /\ FilesAreOwned'
  BY <1>2, <1>4, <1>5, <1>6 DEF SetupInv, RegistrationsLaunch, FilesAreOwned, Owned
<1>11. ASSUME NEW s \in Setup PROVE HoldsOf(s)'
  <2>1. HoldsOf(s) BY DEF SetupInv
  <2>2. JournalHolds(s)' BY <1>2, <2>1 DEF HoldsOf, JournalHolds, Locals, Owned
  <2>3. InstallHolds(s)'
    <3>1. SUFFICES ASSUME pc[s] \in Writing PROVE InstallHolds(s)' BY <1>2 DEF InstallHolds
    <3>2. InstallHolds(s) /\ mine[s].browsers \in SUBSET Browser /\ todo[s] \in SUBSET Browser
      BY <1>1, <2>1, <3>1, Receipts DEF HoldsOf, InstallHolds, TypeOK
    <3>3. \A c \in Browser \ changed' : registration'[c] = registration[c] BY <1>2, <1>5
    <3>4. QED BY <1>2, <3>2, <3>3 DEF InstallHolds, Locals
  <2>4. UninstallHolds(s)'
    <3>1. SUFFICES ASSUME pc[s] = "uninstall" PROVE UninstallHolds(s)' BY <1>2 DEF UninstallHolds
    <3>2. UninstallHolds(s) /\ todo[s] \in SUBSET Browser
      BY <1>1, <2>1 DEF HoldsOf, TypeOK
    <3>3. \A c \in Browser \ changed' : registration'[c] = registration[c] BY <1>2, <1>5
    <3>4. QED BY <1>2, <1>4, <1>5, <3>2, <3>3 DEF UninstallHolds, Locals
  <2>5. CleanUpHolds(s)' BY <1>2, <1>4, <1>5, <2>1 DEF HoldsOf, CleanUpHolds, Locals
  <2>6. QED BY <1>2, <2>1, <2>2, <2>3, <2>4, <2>5 DEF HoldsOf, Locals
<1>12. QED BY <1>9, <1>10, <1>11 DEF SetupInv

LEMMA NextKeepsInv == SetupInv /\ [Next]_vars => SetupInv'
<1> SUFFICES ASSUME SetupInv, [Next]_vars PROVE SetupInv' OBVIOUS
<1>1. CASE UNCHANGED vars
  <2>1. \A s \in Setup : HoldsOf(s)' BY <1>1, SameHolds DEF SetupInv, vars
  <2>2. QED
    BY <1>1, <2>1 DEF SetupInv, vars, disk, bounds, TypeOK, RegistrationsLaunch, FilesAreOwned, Owned
<1>2. CASE \E s \in Setup : SetupStep(s)
  <2>1. PICK s \in Setup : SetupStep(s) BY <1>2
  <2>2. StepKeeps(s) BY <2>1, SetupStepKeeps
  <2>3. \A q \in Setup \ {s} : HoldsOf(q)' BY <2>1, <2>2, OthersHold DEF StepKeeps
  <2>4. QED BY <2>2, <2>3 DEF StepKeeps, SetupInv
<1>3. CASE \E b \in Browser : ForeignRegisters(b) \/ ProfileToggles(b) BY <1>3, OutsideKeeps
<1>4. QED BY <1>1, <1>2, <1>3 DEF Next, SetupStep

-----------------------------------------------------------------------------
(* The theorems *)

LEMMA Invariance == Spec => []SetupInv
BY InitInv, NextKeepsInv, PTL DEF Spec

\* Every field keeps its type, and the receipt never outgrows MAX_VERSIONS, for any number
\* of setup processes and interruptions.
THEOREM TypeCorrect == Spec => []TypeOK
<1>1. SetupInv => TypeOK BY DEF SetupInv
<1>2. QED BY <1>1, Invariance, PTL

\* A registration of ours leads to an intact helper at every moment, since binaries come
\* before the registrations that name them and go after them.
THEOREM HostsCanStart == Spec => []RegistrationsLaunch
<1>1. SetupInv => RegistrationsLaunch BY DEF SetupInv
<1>2. QED BY <1>1, Invariance, PTL

\* The receipt has every version that is on the disk, whenever setup was interrupted.
THEOREM ReceiptOwnsEverything == Spec => []EverythingIsOwned
<1>1. SetupInv => EverythingIsOwned
  <2> SUFFICES ASSUME SetupInv PROVE EverythingIsOwned OBVIOUS
  <2>1. dirs \cup (torn \cap Version) \subseteq Owned BY DEF SetupInv, FilesAreOwned
  <2>2. \A b \in Browser : registration[b] \in Owned \cup {None, Foreign}
    BY DEF SetupInv, FilesAreOwned, TypeOK
  <2>3. QED BY <2>1, <2>2 DEF EverythingIsOwned, Owned
<1>2. QED BY <1>1, Invariance, PTL

\* The only steps that overwrite or remove a registration are of the browser they were looking at.
LEMMA ForeignKept ==
  ASSUME SetupInv, [Next]_vars, NEW b \in Browser,
         registration[b] = Foreign, registration'[b] # Foreign, b \in profiles'
  PROVE  b \in changed
<1> USE DEF Critical, Writing
<1>1. TypeOK /\ b \in profiles BY NamesAssumption DEF SetupInv, FilesAreOwned
<1>2. ~UNCHANGED registration OBVIOUS
<1>3. CASE \E c \in Browser : ForeignRegisters(c) \/ ProfileToggles(c)
  BY <1>1, <1>3 DEF ForeignRegisters, ProfileToggles, TypeOK
<1>4. ASSUME NEW s \in Setup, NEW c \in Browser, Register(s, c) PROVE b \in changed
  <2>1. pc[s] = "register" /\ target[s] = c /\ registration' = [registration EXCEPT ![c] = job[s]]
    BY <1>4 DEF Register
  <2>2. c = b BY <1>1, <2>1 DEF TypeOK
  <2>3. target[s] # None BY <2>1, NamesAssumption
  <2>4. QED BY <2>1, <2>2, <2>3, Registering
<1>5. ASSUME NEW s \in Setup, NEW c \in Browser, Unregister(s, c) PROVE b \in changed
  <2>1. pc[s] = "uninstall" /\ c \in todo[s] BY <1>5 DEF Unregister
  <2>2. c = b BY <1>1, <1>2, <1>5 DEF Unregister, TypeOK
  <2>3. QED BY <2>1, <2>2, Uninstalling
<1>6. ASSUME NEW s \in Setup, SetupStep(s),
             ~ \E c \in Browser : Register(s, c) \/ Unregister(s, c)
      PROVE  UNCHANGED registration
  BY <1>6 DEF SetupStep, Install, Uninstall, Crash, RecheckInstall, JournalTemp, JournalRename,
              CopyTemp, CopyRename, Present, FinalTemp, FinalRename, LookAt, RecheckUninstall,
              RemoveDir, RemoveReceipt, CleanUp, RemoveBinary, Start, ReadReceipt, Precheck, Lock,
              Fail, disk
<1>7. UNCHANGED vars => UNCHANGED registration BY DEF vars, disk
<1>8. QED BY <1>2, <1>3, <1>4, <1>5, <1>6, <1>7 DEF Next, SetupStep

\* Nobody else's registration is replaced or removed, unless it came after setup looked.
THEOREM ForeignRegistrationsStay == Spec => ForeignIsKept
<1>1. SetupInv /\ [Next]_vars =>
        [\A b \in Browser : registration[b] = Foreign /\ registration'[b] # Foreign /\ b \in profiles' =>
           b \in changed]_vars
  BY ForeignKept
<1>2. QED BY <1>1, Invariance, PTL DEF Spec, ForeignIsKept

\* The last step of a successful setup.
LEMMA SuccessComes ==
  ASSUME SetupInv, [Next]_vars, NEW s \in Setup, Succeeds(s)
  PROVE  (pc[s] = "finalTemp" /\ FinalRename(s)) \/ (pc[s] = "cleanUp" /\ CleanUp(s))
<1> USE DEF Critical, Writing
<1>1. TypeOK BY DEF SetupInv
<1>2. pc[s] \in {"finalTemp", "cleanUp"} /\ pc'[s] = "ok" BY DEF Succeeds
<1>3. PICK q \in Setup : SetupStep(q)
  <2>1. UNCHANGED vars => UNCHANGED pc BY DEF vars
  <2>2. \A b \in Browser : ForeignRegisters(b) \/ ProfileToggles(b) => UNCHANGED pc
    BY DEF ForeignRegisters, ProfileToggles, Outside
  <2>3. QED BY <1>2, <2>1, <2>2 DEF Next, SetupStep
<1>4. q = s BY <1>2, <1>3, SetupStepKeeps DEF StepKeeps, OthersKept
<1>5. CASE \E result \in {"otherError"} : End(s, result)
  BY <1>1, <1>2, <1>5, EndLocals DEF Ended
<1>6. CASE ~End(s, "otherError")
  <2>1. ~Fail(s) /\ ~Crash(s) BY <1>6 DEF Fail, Crash
  <2>2. FinalRename(s) \/ CleanUp(s)
    BY <1>2, <1>3, <1>4, <2>1 DEF SetupStep, Install, Uninstall, RecheckInstall, JournalTemp, JournalRename,
              CopyTemp, CopyRename, Present, FinalTemp, LookAt, Register, RecheckUninstall,
              RemoveDir, RemoveReceipt, Unregister, RemoveBinary, Start, ReadReceipt, Precheck, Lock, Ended
  <2>3. QED BY <2>2 DEF FinalRename, CleanUp
<1>7. QED BY <1>5, <1>6

\* A setup that reports success has done all of it, whatever was interrupted before it.
THEOREM SuccessMeansDone == Spec => SuccessIsComplete
<1>1. ASSUME SetupInv, [Next]_vars, NEW s \in Setup, Succeeds(s)
      PROVE  IF Installing(s)
             THEN /\ job[s] \in binaries' /\ job[s] \in receipt'.versions
                  /\ \A b \in receipt'.browsers \ changed' : registration'[b] = job[s]
             ELSE /\ dirs' = {} /\ ~versionsDir'
                  /\ \A b \in Browser : registration'[b] \in {None, Foreign}
  <2>1. CASE pc[s] = "finalTemp" /\ FinalRename(s)
    <3>1. receipt' = mine[s] /\ UNCHANGED <<binaries, registration, changed>> BY <2>1 DEF FinalRename
    <3>2. job[s] \in Version /\ todo[s] = {} BY <2>1, <1>1, Registering
    <3>3. Installing(s) BY <3>2, NamesAssumption DEF Installing
    <3>4. QED BY <1>1, <2>1, <3>1, <3>2, <3>3, Registering
  <2>2. CASE pc[s] = "cleanUp" /\ CleanUp(s)
    <3>1. versionsDir' = (dirs # {}) /\ UNCHANGED <<dirs, registration>> BY <2>2 DEF CleanUp
    <3>2. ~Installing(s) /\ dirs = {} /\ \A b \in Browser : registration[b] \notin Version
      BY <1>1, <2>2 DEF SetupInv, HoldsOf, CleanUpHolds, Installing
    <3>3. registration \in [Browser -> Version \cup {Foreign, None}] BY <1>1 DEF SetupInv, TypeOK
    <3>4. \A b \in Browser : registration'[b] \in {None, Foreign} BY <3>1, <3>2, <3>3
    <3>5. ~versionsDir' BY <3>1, <3>2, Zenon
    <3>6. QED BY <3>1, <3>2, <3>4, <3>5
  <2>3. QED BY <1>1, <2>1, <2>2, SuccessComes
<1>2. SetupInv /\ [Next]_vars =>
        [\A s \in Setup : Succeeds(s) =>
           IF Installing(s)
           THEN /\ job[s] \in binaries' /\ job[s] \in receipt'.versions
                /\ \A b \in receipt'.browsers \ changed' : registration'[b] = job[s]
           ELSE /\ dirs' = {} /\ ~versionsDir'
                /\ \A b \in Browser : registration'[b] \in {None, Foreign}]_vars
  BY <1>1
<1>3. QED BY <1>2, Invariance, PTL DEF Spec, SuccessIsComplete
=============================================================================
