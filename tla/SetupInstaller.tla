---------------------------- MODULE SetupInstaller ----------------------------
(***************************************************************************)
(* The per-user installer of the helper on Linux (rust/src/setup/linux.rs  *)
(* and mod.rs): install and uninstall, by any number of setup processes,   *)
(* each of which may be interrupted between any two changes of the disk.   *)
(*                                                                         *)
(* Files are abstracted to what a later run can tell apart: the receipt,   *)
(* which version directories exist and hold the helper, which browsers'    *)
(* registrations point where, and temporary files left by an interrupted   *)
(* write_atomic.  Helper bytes are written beside their target and renamed *)
(* over it, so a binary is absent or intact.                               *)
(***************************************************************************)
EXTENDS Naturals, FiniteSets

CONSTANTS
  Setup,        \* setup processes
  Version,      \* payloads: version and digest
  Browser,      \* BROWSERS
  None,         \* no receipt, no registration, no holder
  Foreign,      \* a registration of somebody else
  MaxVersions,  \* MAX_VERSIONS
  MaxCrashes,   \* bound: interruptions
  MaxOutside    \* bound: changes others make to profiles and registrations

ASSUME BoundAssumption == {MaxVersions, MaxCrashes, MaxOutside} \subseteq Nat

VARIABLES
  receipt,       \* installation.json
  versionsDir,   \* whether versions/ exists
  dirs,          \* version directories
  binaries,      \* version directories that hold the helper
  torn,          \* places with a temporary file nobody will rename
  registration,  \* NativeMessagingHosts/<host>.json of each browser
  profiles,      \* browsers with a profile directory
  lock,          \* holder of the setup lock
  pc,            \* where each setup process is
  job,           \* its operation: the version to install, or None to uninstall
  mine,          \* the receipt it read, as it will write it
  todo,          \* browsers it has still to register or to remove
  doomed,        \* versions it has still to remove
  target,        \* the browser or version it is in the middle of
  changed,       \* ghost: browsers others changed since the holder looked at them
  crashes, outside  \* what the bounds count

disk == <<receipt, versionsDir, dirs, binaries, torn, registration>>
bounds == <<crashes, outside>>
vars == <<disk, profiles, lock, pc, job, mine, todo, doomed, target, changed, bounds>>

\* The place of the receipt's temporary file; a helper's is its version.
Root == None
NoReceipt == None
Receipt == [versions : {vs \in SUBSET Version : Cardinality(vs) <= MaxVersions},
            browsers : SUBSET Browser]
EmptyReceipt == [versions |-> {}, browsers |-> {}]

ASSUME NamesAssumption == /\ None \notin Setup \cup Version \cup Browser \cup Receipt
                          /\ Foreign \notin Version \cup {None}

Ended == {"idle", "ok", "ownershipConflict", "otherError"}
Phase == Ended \cup
  {"receipt", "precheck", "lock", "recheck", "journal", "journalTemp", "copy", "copyTemp",
   "present", "register", "final", "finalTemp", "uninstall", "cleanUp"}

TypeOK ==
  /\ receipt \in Receipt \cup {NoReceipt}
  /\ versionsDir \in BOOLEAN
  /\ dirs \in SUBSET Version
  /\ binaries \in SUBSET dirs
  /\ torn \in SUBSET (Version \cup {Root})
  /\ registration \in [Browser -> Version \cup {Foreign, None}]
  /\ profiles \in SUBSET Browser
  /\ lock \in Setup \cup {None}
  /\ pc \in [Setup -> Phase]
  /\ job \in [Setup -> Version \cup {None}]
  /\ mine \in [Setup -> Receipt \cup {NoReceipt}]
  /\ todo \in [Setup -> SUBSET Browser]
  /\ doomed \in [Setup -> SUBSET Version]
  /\ target \in [Setup -> Browser \cup Version \cup {None}]
  /\ changed \in SUBSET Browser
  /\ crashes \in 0..MaxCrashes
  /\ outside \in 0..MaxOutside

Init ==
  /\ receipt = NoReceipt
  /\ versionsDir = FALSE
  /\ dirs = {}
  /\ binaries = {}
  /\ torn = {}
  /\ registration = [b \in Browser |-> None]
  /\ profiles = Browser
  /\ lock = None
  /\ pc = [s \in Setup |-> "idle"]
  /\ job = [s \in Setup |-> None]
  /\ mine = [s \in Setup |-> NoReceipt]
  /\ todo = [s \in Setup |-> {}]
  /\ doomed = [s \in Setup |-> {}]
  /\ target = [s \in Setup |-> None]
  /\ changed = {}
  /\ crashes = 0
  /\ outside = 0

-----------------------------------------------------------------------------
(* What a setup process finds *)

Installing(s) == job[s] # None

\* The temporary file of the write in progress, if any.
LiveTemp ==
  UNION {IF pc[s] \in {"journalTemp", "finalTemp"} THEN {Root}
         ELSE IF pc[s] = "copyTemp" THEN {job[s]} ELSE {} : s \in Setup}
Temps == torn \cup LiveTemp

\* Installer::receipt refuses a root that holds anything but has no receipt.
Disowned == receipt = NoReceipt /\ (versionsDir \/ Root \in Temps)

\* Installer::registered: absent, or ours by the given receipt.
Registered(r) ==
  {b \in Browser : r # NoReceipt /\ registration[b] \in r.versions}
Conflicts(r) ==
  {b \in Browser : registration[b] # None} \ Registered(r)

OrEmpty(r) == IF r = NoReceipt THEN EmptyReceipt ELSE r

-----------------------------------------------------------------------------
(* Steps of a setup process *)

Goto(s, phase) == pc' = [pc EXCEPT ![s] = phase]
Locals == <<job, mine, todo, doomed, target>>

\* The process ends with a result; the lock file closes with it.
End(s, result) ==
  /\ Goto(s, result)
  /\ lock' = IF lock = s THEN None ELSE lock
  /\ mine' = [mine EXCEPT ![s] = NoReceipt]
  /\ todo' = [todo EXCEPT ![s] = {}]
  /\ doomed' = [doomed EXCEPT ![s] = {}]
  /\ target' = [target EXCEPT ![s] = None]
  /\ UNCHANGED job

\* A setup process of the user; job None is uninstall.
Start(s) ==
  /\ pc[s] \in Ended
  /\ Goto(s, "receipt")
  /\ \E v \in Version \cup {None} : job' = [job EXCEPT ![s] = v]
  /\ UNCHANGED <<disk, profiles, lock, mine, todo, doomed, target, changed, bounds>>

\* Before the lock: the receipt ...
ReadReceipt(s) ==
  /\ pc[s] = "receipt"
  /\ IF Disowned THEN End(s, "ownershipConflict")
     ELSE /\ Goto(s, "precheck")
          /\ mine' = [mine EXCEPT ![s] = receipt]
          /\ UNCHANGED <<lock, job, todo, doomed, target>>
  /\ UNCHANGED <<disk, profiles, changed, bounds>>

\* ... and the registrations against it.  Nothing to uninstall is a success.
Precheck(s) ==
  /\ pc[s] = "precheck"
  /\ IF Conflicts(mine[s]) # {} \/ (Installing(s) /\ profiles = {}) THEN End(s, "otherError")
     ELSE IF ~Installing(s) /\ mine[s] = NoReceipt THEN End(s, "ok")
     ELSE Goto(s, "lock") /\ UNCHANGED <<lock, Locals>>
  /\ UNCHANGED <<disk, profiles, changed, bounds>>

Lock(s) ==
  /\ pc[s] = "lock"
  /\ IF lock # None THEN End(s, "otherError")
     ELSE lock' = s /\ Goto(s, "recheck") /\ UNCHANGED Locals
  /\ UNCHANGED <<disk, profiles, changed, bounds>>

\* A version directory of ours holds the helper and nothing else.
ForeignDir(v, r) == v \in dirs /\ (v \notin r.versions \/ v \in Temps)

\* Fault in RecheckInstall: the limit is checked before the version is added.
RecheckInstallOneMore(s) ==
  LET r == OrEmpty(receipt) IN
  /\ pc[s] = "recheck"
  /\ Installing(s)
  /\ IF Disowned THEN End(s, "ownershipConflict")
     ELSE IF Conflicts(r) # {} THEN End(s, "otherError")
     ELSE IF ForeignDir(job[s], r) \/ Cardinality(r.versions) > MaxVersions
     THEN End(s, "ownershipConflict")
     ELSE /\ Goto(s, "journal")
          /\ mine' = [mine EXCEPT ![s] = [r EXCEPT !.versions = @ \cup {job[s]}]]
          /\ UNCHANGED <<lock, job, todo, doomed, target>>
  /\ changed' = {}
  /\ UNCHANGED <<disk, profiles, bounds>>

\* All conflict checks again, under the lock; install adds its version to the
\* receipt it will write.
RecheckInstall(s) ==
  LET r == OrEmpty(receipt)
      all == r.versions \cup {job[s]}
  IN
  /\ pc[s] = "recheck"
  /\ Installing(s)
  /\ IF Disowned THEN End(s, "ownershipConflict")
     ELSE IF Conflicts(r) # {} THEN End(s, "otherError")
     ELSE IF ForeignDir(job[s], r) \/ Cardinality(all) > MaxVersions
     THEN End(s, "ownershipConflict")
     ELSE /\ Goto(s, "journal")
          /\ mine' = [mine EXCEPT ![s] = [r EXCEPT !.versions = all]]
          /\ UNCHANGED <<lock, job, todo, doomed, target>>
  /\ changed' = {}
  /\ UNCHANGED <<disk, profiles, bounds>>

\* write_atomic of the receipt: beside, then over it.
JournalTemp(s) ==
  /\ pc[s] = "journal"
  /\ Goto(s, "journalTemp")
  /\ UNCHANGED <<disk, profiles, lock, Locals, changed, bounds>>

\* Fault in JournalRename: the receipt is written as it was read, and the version
\* added only at the end.
JournalRenameLater(s) ==
  /\ pc[s] = "journalTemp"
  /\ receipt' = OrEmpty(receipt)
  /\ Goto(s, "copy")
  /\ UNCHANGED <<versionsDir, dirs, binaries, torn, registration, profiles, lock, Locals, changed, bounds>>

\* Ownership is journalled before the version is materialized.
JournalRename(s) ==
  /\ pc[s] = "journalTemp"
  /\ receipt' = mine[s]
  /\ Goto(s, "copy")
  /\ UNCHANGED <<versionsDir, dirs, binaries, torn, registration, profiles, lock, Locals, changed, bounds>>

CopyTemp(s) ==
  /\ pc[s] = "copy"
  /\ versionsDir' = TRUE
  /\ dirs' = dirs \cup {job[s]}
  /\ Goto(s, "copyTemp")
  /\ UNCHANGED <<receipt, binaries, torn, registration, profiles, lock, Locals, changed, bounds>>

CopyRename(s) ==
  /\ pc[s] = "copyTemp"
  /\ binaries' = binaries \cup {job[s]}
  /\ Goto(s, "present")
  /\ UNCHANGED <<receipt, versionsDir, dirs, torn, registration, profiles, lock, Locals, changed, bounds>>

\* The browsers to register: those with a profile now.
Present(s) ==
  /\ pc[s] = "present"
  /\ todo' = [todo EXCEPT ![s] = profiles]
  /\ mine' = [mine EXCEPT ![s].browsers = profiles]
  /\ Goto(s, "register")
  /\ UNCHANGED <<disk, profiles, lock, job, doomed, target, changed, bounds>>

\* Fault in LookAt: the checks made under the lock are thought to be enough.
LookAtNothing(s, b) ==
  /\ pc[s] = "register"
  /\ b \in todo[s]
  /\ target[s] = None
  /\ target' = [target EXCEPT ![s] = b]
  /\ changed' = changed \ {b}
  /\ UNCHANGED <<disk, profiles, bounds, lock, pc, job, mine, todo, doomed>>

\* Each is looked at once more ...
LookAt(s, b) ==
  /\ pc[s] = "register"
  /\ b \in todo[s]
  /\ target[s] = None
  /\ IF b \in Conflicts(mine[s]) THEN End(s, "otherError")
     ELSE target' = [target EXCEPT ![s] = b] /\ UNCHANGED <<lock, pc, job, mine, todo, doomed>>
  /\ changed' = changed \ {b}
  /\ UNCHANGED <<disk, profiles, bounds>>

\* ... and written, which makes its directory anew if the profile has gone.  A
\* temporary file left here troubles nobody.
Register(s, b) ==
  /\ pc[s] = "register"
  /\ target[s] = b
  /\ registration' = [registration EXCEPT ![b] = job[s]]
  /\ profiles' = profiles \cup {b}
  /\ todo' = [todo EXCEPT ![s] = @ \ {b}]
  /\ target' = [target EXCEPT ![s] = None]
  /\ UNCHANGED <<receipt, versionsDir, dirs, binaries, torn, lock, pc, job, mine, doomed, changed, bounds>>

FinalTemp(s) ==
  /\ pc[s] = "register"
  /\ todo[s] = {}
  /\ Goto(s, "finalTemp")
  /\ UNCHANGED <<disk, profiles, lock, Locals, changed, bounds>>

FinalRename(s) ==
  /\ pc[s] = "finalTemp"
  /\ receipt' = mine[s]
  /\ End(s, "ok")
  /\ UNCHANGED <<versionsDir, dirs, binaries, torn, registration, profiles, changed, bounds>>

\* Fault in RecheckUninstall: only the browsers that the receipt lists are visited.
RecheckUninstallListed(s) ==
  LET r == OrEmpty(receipt) IN
  /\ pc[s] = "recheck"
  /\ ~Installing(s)
  /\ IF Disowned THEN End(s, "ownershipConflict")
     ELSE IF receipt = NoReceipt THEN End(s, "ok")
     ELSE IF Conflicts(r) # {} THEN End(s, "otherError")
     ELSE IF \E v \in r.versions : ForeignDir(v, r) THEN End(s, "ownershipConflict")
     ELSE /\ Goto(s, "uninstall")
          /\ todo' = [todo EXCEPT ![s] = Registered(r) \cap r.browsers]
          /\ doomed' = [doomed EXCEPT ![s] = r.versions]
          /\ UNCHANGED <<lock, job, mine, target>>
  /\ changed' = {}
  /\ UNCHANGED <<disk, profiles, bounds>>

\* uninstall under the lock: every target is validated before the first deletion.
RecheckUninstall(s) ==
  LET r == OrEmpty(receipt) IN
  /\ pc[s] = "recheck"
  /\ ~Installing(s)
  /\ IF Disowned THEN End(s, "ownershipConflict")
     ELSE IF receipt = NoReceipt THEN End(s, "ok")
     ELSE IF Conflicts(r) # {} THEN End(s, "otherError")
     ELSE IF \E v \in r.versions : ForeignDir(v, r) THEN End(s, "ownershipConflict")
     ELSE /\ Goto(s, "uninstall")
          /\ todo' = [todo EXCEPT ![s] = Registered(r)]
          /\ doomed' = [doomed EXCEPT ![s] = r.versions]
          /\ UNCHANGED <<lock, job, mine, target>>
  /\ changed' = {}
  /\ UNCHANGED <<disk, profiles, bounds>>

\* A registration that has gone with its profile is an error.
Unregister(s, b) ==
  /\ pc[s] = "uninstall"
  /\ b \in todo[s]
  /\ IF registration[b] = None THEN End(s, "otherError") /\ UNCHANGED registration
     ELSE /\ registration' = [registration EXCEPT ![b] = None]
          /\ todo' = [todo EXCEPT ![s] = @ \ {b}]
          /\ UNCHANGED <<lock, pc, job, mine, doomed, target>>
  /\ UNCHANGED <<receipt, versionsDir, dirs, binaries, torn, profiles, changed, bounds>>

\* Fault in RemoveBinary: binaries go before the registrations have gone.
RemoveBinaryEarly(s, v) ==
  /\ pc[s] = "uninstall"
  /\ target[s] = None
  /\ v \in doomed[s]
  /\ binaries' = binaries \ {v}
  /\ target' = [target EXCEPT ![s] = v]
  /\ UNCHANGED <<receipt, versionsDir, dirs, torn, registration, profiles, lock, pc, job, mine, todo, doomed, changed, bounds>>

RemoveBinary(s, v) ==
  /\ pc[s] = "uninstall"
  /\ todo[s] = {}
  /\ target[s] = None
  /\ v \in doomed[s]
  /\ binaries' = binaries \ {v}
  /\ target' = [target EXCEPT ![s] = v]
  /\ UNCHANGED <<receipt, versionsDir, dirs, torn, registration, profiles, lock, pc, job, mine, todo, doomed, changed, bounds>>

\* remove_empty of the version's directory.
RemoveDir(s) ==
  /\ pc[s] = "uninstall"
  /\ target[s] # None
  /\ dirs' = dirs \ {target[s]}
  /\ doomed' = [doomed EXCEPT ![s] = @ \ {target[s]}]
  /\ target' = [target EXCEPT ![s] = None]
  /\ UNCHANGED <<receipt, versionsDir, binaries, torn, registration, profiles, lock, pc, job, mine, todo, changed, bounds>>

RemoveReceipt(s) ==
  /\ pc[s] = "uninstall"
  /\ todo[s] = {} /\ doomed[s] = {}
  /\ receipt' = NoReceipt
  /\ Goto(s, "cleanUp")
  /\ UNCHANGED <<versionsDir, dirs, binaries, torn, registration, profiles, lock, Locals, changed, bounds>>

\* remove_empty of versions/, then of the root and its parents.
CleanUp(s) ==
  /\ pc[s] = "cleanUp"
  /\ versionsDir' = (dirs # {})
  /\ End(s, "ok")
  /\ UNCHANGED <<receipt, dirs, binaries, torn, registration, profiles, changed, bounds>>

\* An I/O error, an unsafe path, or an interruption with no write in progress;
\* write_atomic removes its temporary file when it fails ...
Fail(s) ==
  /\ pc[s] \notin Ended
  /\ End(s, "otherError")
  /\ UNCHANGED <<disk, profiles, changed, bounds>>

\* ... but not when the process ends in the middle of it.
Crash(s) ==
  /\ pc[s] \in {"journalTemp", "copyTemp", "finalTemp"}
  /\ crashes < MaxCrashes
  /\ crashes' = crashes + 1
  /\ torn' = torn \cup {IF pc[s] = "copyTemp" THEN job[s] ELSE Root}
  /\ End(s, "otherError")
  /\ UNCHANGED <<receipt, versionsDir, dirs, binaries, registration, profiles, changed, outside>>

-----------------------------------------------------------------------------
(* Everybody else *)

Outside(b) ==
  /\ outside < MaxOutside
  /\ outside' = outside + 1
  /\ changed' = changed \cup {b}
  /\ UNCHANGED <<receipt, versionsDir, dirs, binaries, torn, lock, pc, Locals, crashes>>

ForeignRegisters(b) ==
  /\ b \in profiles
  /\ registration' = [registration EXCEPT ![b] = Foreign]
  /\ Outside(b)
  /\ UNCHANGED profiles

\* The browser is run for the first time, or its profile is deleted.
ProfileToggles(b) ==
  /\ profiles' = IF b \in profiles THEN profiles \ {b} ELSE profiles \cup {b}
  /\ registration' = [registration EXCEPT ![b] = None]
  /\ Outside(b)

-----------------------------------------------------------------------------

Install(s) ==
  \/ RecheckInstall(s) \/ JournalTemp(s) \/ JournalRename(s) \/ CopyTemp(s) \/ CopyRename(s)
  \/ Present(s) \/ FinalTemp(s) \/ FinalRename(s)
  \/ \E b \in Browser : LookAt(s, b) \/ Register(s, b)
Uninstall(s) ==
  \/ RecheckUninstall(s) \/ RemoveDir(s) \/ RemoveReceipt(s) \/ CleanUp(s)
  \/ \E b \in Browser : Unregister(s, b)
  \/ \E v \in Version : RemoveBinary(s, v)

Next ==
  \/ \E s \in Setup :
       \/ Start(s) \/ ReadReceipt(s) \/ Precheck(s) \/ Lock(s)
       \/ Install(s) \/ Uninstall(s) \/ Fail(s) \/ Crash(s)
  \/ \E b \in Browser : ForeignRegisters(b) \/ ProfileToggles(b)

Spec == Init /\ [][Next]_vars

-----------------------------------------------------------------------------
(* Properties *)

\* Chrome may start the host at any moment: a registration of ours always leads to
\* an intact helper, through installs, upgrades, removals and interruptions
\* ("existing registrations still point at the old version").
RegistrationsLaunch ==
  \A b \in Browser : registration[b] \in Version => registration[b] \in binaries

\* Whatever is on the disk is in the receipt, so a later uninstall finds it
\* ("Journal ownership before materializing a version").
EverythingIsOwned ==
  dirs \cup {registration[b] : b \in Browser} \cup (torn \cap Version)
    \subseteq OrEmpty(receipt).versions \cup {None, Foreign}

\* "A registration this installer doesn't own is a conflict": one that was there
\* when the setup process last looked at the browser is neither replaced nor
\* removed.
ForeignIsKept ==
  [][\A b \in Browser :
       registration[b] = Foreign /\ registration'[b] # Foreign /\ b \in profiles' =>
         b \in changed]_vars

Succeeds(s) == pc[s] \in {"finalTemp", "cleanUp"} /\ pc'[s] = "ok"

\* A success is one: after install every browser that had a profile when the
\* helper was in place is registered to it, except where others have interfered
\* since; after uninstall nothing of ours is left but files of interrupted writes.
SuccessIsComplete ==
  [][\A s \in Setup : Succeeds(s) =>
       IF Installing(s)
       THEN /\ job[s] \in binaries' /\ job[s] \in receipt'.versions
            /\ \A b \in receipt'.browsers \ changed' : registration'[b] = job[s]
       ELSE /\ dirs' = {} /\ ~versionsDir'
            /\ \A b \in Browser : registration'[b] \in {None, Foreign}]_vars

\* linux.rs:256: "An interrupted copy is repairable": setup never takes what an
\* interrupted write left for somebody else's files.
InterruptedCopyIsRepairable ==
  \A s \in Setup : pc[s] = "ownershipConflict" /\ Installing(s) => torn \cap Version = {}
=============================================================================
