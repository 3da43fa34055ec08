---------------------------- MODULE WindowsInstaller ----------------------------
(***************************************************************************)
(* The per-user installer of the helper on Windows                         *)
(* (rust/src/setup/windows.rs and mod.rs, platform/windows/lock.rs):       *)
(* install and uninstall, by any number of setup processes of one session, *)
(* each of which may be interrupted between any two changes.               *)
(*                                                                         *)
(* What differs from Linux: a browser is registered by a registry value,   *)
(* which Chrome and Brave share, and every value names one host manifest,  *)
(* so that replacing the manifest switches all browsers at once.  The      *)
(* setup lock is a named mutex, which a process that ends abandons.        *)
(***************************************************************************)
EXTENDS Naturals, FiniteSets, Sequences

LOCAL INSTANCE Functions
LOCAL INSTANCE SequencesExt

CONSTANTS
  Setup,        \* setup processes
  Version,      \* payloads
  Browser,      \* BROWSERS, or some of them
  None,         \* no receipt, no manifest, no holder
  Root, Hosts,  \* places of temporary files that are not a version's
  MaxVersions,  \* MAX_VERSIONS
  MaxCrashes,   \* bound: interruptions that leave a temporary file
  MaxOutside    \* bound: changes others make to registry values and profiles

ASSUME BrowserAssumption == Browser \subseteq {"chrome", "chromium", "brave", "edge"}
ASSUME BoundAssumption == {MaxVersions, MaxCrashes, MaxOutside} \subseteq Nat

VARIABLES
  disk,         \* what the installer writes
  keys,         \* each registry value: our manifest, something foreign, or none
  profiles,     \* browsers with a profile directory
  lock,         \* owner of the setup mutex
  pc,           \* where each setup process is
  job,          \* its operation: the version to install, or None to uninstall
  mine,         \* the receipt it read, as it will write it
  todo,         \* browsers it has still to register or to remove
  doomed,       \* versions it has still to remove
  target,       \* the version whose directory it has still to remove
  changed,      \* ghost: keys others changed since the owner of the mutex looked at them
  toggled,      \* ghost: browsers whose profile came or went since then
  interrupted,  \* ghost: listed versions whose install, or whose removal, was cut short
  crashes, outside  \* what the bounds count

locals == <<job, mine, todo, doomed, target>>
seen == <<changed, toggled>>
bounds == <<crashes, outside>>
vars == <<disk, keys, profiles, lock, pc, locals, seen, interrupted, bounds>>

receipt == disk.receipt          \* the versions of installation.json, oldest first
versionsDir == disk.versionsDir  \* whether versions\ exists
hostsDir == disk.hostsDir        \* whether hosts\ exists
dirs == disk.dirs                \* version directories
binaries == disk.binaries        \* version directories that hold the helper
manifest == disk.manifest        \* the version that the host manifest names
torn == disk.torn                \* places with a temporary file nobody will rename

\* "Brave has no key of its own on Windows".
KeyOf(b) == IF b = "brave" THEN "chrome" ELSE b
Key == {KeyOf(b) : b \in Browser}

NoReceipt == None
ASSUME NamesAssumption == /\ None \notin Setup \cup Version \cup Seq(Version)
                          /\ Root # Hosts /\ {Root, Hosts} \cap Version = {}
OrEmpty(r) == IF r = NoReceipt THEN <<>> ELSE r
Listed(r) == Range(OrEmpty(r))

Ended == {"idle", "ok"}
Writing == {"journalTemp", "copyTemp", "hostsTemp", "finalTemp"}
Phase == Ended \cup Writing \cup
  {"receipt", "precheck", "lock", "recheck", "journal", "copy", "hosts", "present", "register",
   "unregister", "removeHosts", "binaries", "cleanUp"}

\* The versions of Receipt, none twice; its browsers are read by check only.
IsReceipt(r) == r \in Seq(Version) /\ IsInjective(r) /\ Len(r) <= MaxVersions

TypeOK ==
  /\ receipt = NoReceipt \/ IsReceipt(receipt)
  /\ {versionsDir, hostsDir} \subseteq BOOLEAN
  /\ dirs \subseteq Version
  /\ binaries \subseteq dirs
  /\ manifest \in Version \cup {None}
  /\ torn \subseteq Version \cup {Root, Hosts}
  /\ keys \in [Key -> {"ours", "foreign", "none"}]
  /\ profiles \subseteq Browser
  /\ lock \in Setup \cup {None}
  /\ pc \in [Setup -> Phase]
  /\ job \in [Setup -> Version \cup {None}]
  /\ \A s \in Setup : mine[s] = NoReceipt \/ IsReceipt(mine[s])
  /\ todo \in [Setup -> SUBSET Browser]
  /\ doomed \in [Setup -> SUBSET Version]
  /\ target \in [Setup -> Version \cup {None}]
  /\ changed \subseteq Key /\ toggled \subseteq Browser
  /\ interrupted \subseteq Listed(receipt)
  /\ crashes \in 0..MaxCrashes
  /\ outside \in 0..MaxOutside

Init ==
  /\ disk = [receipt |-> NoReceipt, versionsDir |-> FALSE, hostsDir |-> FALSE,
             dirs |-> {}, binaries |-> {}, manifest |-> None, torn |-> {}]
  /\ keys = [k \in Key |-> "none"]
  /\ profiles = Browser
  /\ lock = None
  /\ pc = [s \in Setup |-> "idle"]
  /\ job = [s \in Setup |-> None]
  /\ mine = [s \in Setup |-> NoReceipt]
  /\ todo = [s \in Setup |-> {}]
  /\ doomed = [s \in Setup |-> {}]
  /\ target = [s \in Setup |-> None]
  /\ changed = {} /\ toggled = {} /\ interrupted = {}
  /\ crashes = 0 /\ outside = 0

-----------------------------------------------------------------------------
(* What a setup process finds *)

Installing(s) == job[s] # None

TempOf(s) ==
  CASE pc[s] \in {"journalTemp", "finalTemp"} -> {Root}
    [] pc[s] = "copyTemp" -> {job[s]}
    [] pc[s] = "hostsTemp" -> {Hosts}
    [] OTHER -> {}
Temps == torn \cup UNION {TempOf(s) : s \in Setup}

\* Installer::receipt refuses a root that holds anything but has no receipt.
Disowned == receipt = NoReceipt /\ (versionsDir \/ hostsDir \/ Root \in Temps)

\* Installer::registered: no value, or our manifest naming a version of receipt r.
Registered(r) == {b \in Browser : keys[KeyOf(b)] = "ours" /\ manifest \in Listed(r)}
Conflicts(r) == {b \in Browser : keys[KeyOf(b)] # "none"} \ Registered(r)

\* A version directory of ours holds the helper and nothing else.
ForeignDir(v, r) == v \in dirs /\ (v \notin Listed(r) \/ v \in Temps)

-----------------------------------------------------------------------------
(* Steps of a setup process *)

Goto(s, phase) == pc' = [pc EXCEPT ![s] = phase]

\* What the process has listed, and had not finished to write or to remove.
Unfinished(s) ==
  CASE pc[s] \in {"copy", "copyTemp"} -> {job[s]}
    [] pc[s] = "binaries" -> Listed(receipt)
    [] OTHER -> {}

\* The process ends, answered or not, and the mutex is released or abandoned.
End(s, result) ==
  /\ Goto(s, result)
  /\ lock' = IF lock = s THEN None ELSE lock
  /\ changed' = IF lock = s THEN {} ELSE changed
  /\ toggled' = IF lock = s THEN {} ELSE toggled
  /\ mine' = [mine EXCEPT ![s] = NoReceipt]
  /\ todo' = [todo EXCEPT ![s] = {}]
  /\ doomed' = [doomed EXCEPT ![s] = {}]
  /\ target' = [target EXCEPT ![s] = None]
  /\ job' = [job EXCEPT ![s] = None]

Refuse(s) ==
  /\ End(s, "idle")
  /\ interrupted' = interrupted \cup Unfinished(s)

\* A setup process of the user; job None is uninstall.
Start(s) ==
  /\ pc[s] \in Ended
  /\ Goto(s, "receipt")
  /\ \E v \in Version \cup {None} : job' = [job EXCEPT ![s] = v]
  /\ UNCHANGED <<disk, keys, profiles, lock, mine, todo, doomed, target, seen, interrupted, bounds>>

\* Before the lock: the receipt ...
ReadReceipt(s) ==
  /\ pc[s] = "receipt"
  /\ IF Disowned THEN Refuse(s)
     ELSE /\ Goto(s, "precheck")
          /\ mine' = [mine EXCEPT ![s] = receipt]
          /\ UNCHANGED <<lock, job, todo, doomed, target, seen, interrupted>>
  /\ UNCHANGED <<disk, keys, profiles, bounds>>

\* ... and the registrations against it.  Nothing to uninstall is a success.
Precheck(s) ==
  /\ pc[s] = "precheck"
  /\ IF Conflicts(mine[s]) # {} \/ (Installing(s) /\ profiles = {}) THEN Refuse(s)
     ELSE /\ IF ~Installing(s) /\ mine[s] = NoReceipt THEN End(s, "ok")
             ELSE Goto(s, "lock") /\ UNCHANGED <<lock, locals, seen>>
          /\ UNCHANGED interrupted
  /\ UNCHANGED <<disk, keys, profiles, bounds>>

\* lock::exclusive does not wait, and takes an abandoned mutex like a free one.
Lock(s) ==
  /\ pc[s] = "lock"
  /\ IF lock # None THEN Refuse(s)
     ELSE lock' = s /\ Goto(s, "recheck") /\ UNCHANGED <<locals, seen, interrupted>>
  /\ UNCHANGED <<disk, keys, profiles, bounds>>

\* Everything under the lock is checked again, and others' changes count from now.
\* The process goes on with what it will write, register or remove.
GoesOn(s, phase, r, browsers, versions) ==
  /\ Goto(s, phase)
  /\ mine' = [mine EXCEPT ![s] = r]
  /\ todo' = [todo EXCEPT ![s] = browsers]
  /\ doomed' = [doomed EXCEPT ![s] = versions]
  /\ changed' = {} /\ toggled' = {}
  /\ UNCHANGED <<lock, job, target, interrupted>>

\* Fault in WithVersion: the version is added whether or not it is there.
WithVersionAgain(v) == Append(OrEmpty(receipt), v)

\* The receipt with version v, at the end if it is a new one.
WithVersion(v) == IF v \in Listed(receipt) THEN receipt ELSE Append(OrEmpty(receipt), v)

\* Fault in RecheckInstall: the registry was looked at before the lock.
RecheckInstallTrusting(s) ==
  /\ pc[s] = "recheck" /\ Installing(s)
  /\ IF Disowned \/ ForeignDir(job[s], receipt) \/ Len(WithVersion(job[s])) > MaxVersions
     THEN Refuse(s)
     ELSE GoesOn(s, "journal", WithVersion(job[s]), {}, {})
  /\ UNCHANGED <<disk, keys, profiles, bounds>>

RecheckInstall(s) ==
  /\ pc[s] = "recheck" /\ Installing(s)
  /\ IF \/ Disowned \/ Conflicts(receipt) # {}
        \/ ForeignDir(job[s], receipt) \/ Len(WithVersion(job[s])) > MaxVersions
     THEN Refuse(s)
     ELSE GoesOn(s, "journal", WithVersion(job[s]), {}, {})
  /\ UNCHANGED <<disk, keys, profiles, bounds>>

\* A step of the owner of the lock, to its next phase.
Step(s, from, to) ==
  /\ pc[s] = from
  /\ Goto(s, to)
  /\ UNCHANGED <<profiles, lock, job, mine, target, seen, bounds>>
Writes(newDisk) == disk' = newDisk /\ UNCHANGED <<keys, todo, doomed, interrupted>>

\* write_atomic, here of the receipt: beside its target, then over it.
JournalTemp(s) == Step(s, "journal", "journalTemp") /\ Writes(disk)

\* Fault in JournalRename: a version is listed only when it is complete.
JournalRenameLater(s) ==
  Step(s, "journalTemp", "copy") /\ Writes([disk EXCEPT !.receipt = OrEmpty(@)])

\* Ownership is journalled before the version is materialized.
JournalRename(s) ==
  Step(s, "journalTemp", "copy") /\ Writes([disk EXCEPT !.receipt = mine[s]])

CopyTemp(s) ==
  /\ Step(s, "copy", "copyTemp")
  /\ Writes([disk EXCEPT !.versionsDir = TRUE, !.dirs = @ \cup {job[s]}])

\* The helper is in place, and read back.
CopyRename(s) ==
  /\ Step(s, "copyTemp", "hosts")
  /\ disk' = [disk EXCEPT !.binaries = @ \cup {job[s]}]
  /\ interrupted' = interrupted \ {job[s]}
  /\ UNCHANGED <<keys, todo, doomed>>

HostsTemp(s) == Step(s, "hosts", "hostsTemp") /\ Writes([disk EXCEPT !.hostsDir = TRUE])

\* Fault in HostsRename: a manifest that is there is kept.
HostsRenameIfMissing(s) ==
  /\ Step(s, "hostsTemp", "present")
  /\ Writes([disk EXCEPT !.manifest = IF @ = None THEN job[s] ELSE @])

\* Every browser that is registered already now starts this version.
HostsRename(s) ==
  Step(s, "hostsTemp", "present") /\ Writes([disk EXCEPT !.manifest = job[s]])

\* The browsers to register: those with a profile now.
Present(s) ==
  /\ Step(s, "present", "register")
  /\ todo' = [todo EXCEPT ![s] = profiles]
  /\ UNCHANGED <<disk, keys, doomed, interrupted>>

SetKey(s, b, value) ==
  /\ b \in todo[s]
  /\ keys' = [keys EXCEPT ![KeyOf(b)] = value]
  /\ todo' = [todo EXCEPT ![s] = @ \ {b}]
  /\ UNCHANGED <<disk, doomed, interrupted>>

\* write_key looks at nothing: a value set since the checks is replaced.
Register(s, b) == Step(s, "register", "register") /\ SetKey(s, b, "ours")

FinalTemp(s) == Step(s, "register", "finalTemp") /\ todo[s] = {} /\ Writes(disk)

FinalRename(s) ==
  /\ pc[s] = "finalTemp"
  /\ disk' = [disk EXCEPT !.receipt = mine[s]]
  /\ End(s, "ok")
  /\ UNCHANGED <<keys, profiles, interrupted, bounds>>

\* uninstall under the lock: every target is validated before the first deletion.
RecheckUninstall(s) ==
  /\ pc[s] = "recheck" /\ ~Installing(s)
  /\ IF receipt = NoReceipt /\ ~Disowned THEN End(s, "ok") /\ UNCHANGED interrupted
     ELSE IF \/ Disowned \/ Conflicts(receipt) # {}
             \/ \E v \in Listed(receipt) : ForeignDir(v, receipt)
     THEN Refuse(s)
     ELSE GoesOn(s, "unregister", receipt, Registered(receipt), Listed(receipt))
  /\ UNCHANGED <<disk, keys, profiles, bounds>>

\* delete_key looks at nothing either, and a missing key is as good.  A key that two
\* browsers share is deleted twice.
Unregister(s, b) == Step(s, "unregister", "unregister") /\ SetKey(s, b, "none")

\* Fault in RemoveManifest: the manifest goes before the values that name it.
RemoveManifestEarly(s) ==
  Step(s, "unregister", "removeHosts") /\ Writes([disk EXCEPT !.manifest = None])

RemoveManifest(s) ==
  /\ Step(s, "unregister", "removeHosts")
  /\ todo[s] = {}
  /\ Writes([disk EXCEPT !.manifest = None])

\* remove_empty of hosts\: a temporary file in it is no error, and stays.
RemoveHosts(s) ==
  /\ Step(s, "removeHosts", "binaries")
  /\ Writes([disk EXCEPT !.hostsDir = @ /\ Hosts \in torn])

\* Windows refuses to delete a helper that runs (Fail).
RemoveBinary(s, v) ==
  /\ pc[s] = "binaries"
  /\ target[s] = None
  /\ v \in doomed[s]
  /\ disk' = [disk EXCEPT !.binaries = @ \ {v}]
  /\ target' = [target EXCEPT ![s] = v]
  /\ UNCHANGED <<keys, profiles, lock, pc, job, mine, todo, doomed, seen, interrupted, bounds>>

\* remove_empty of the version's directory.
RemoveDir(s) ==
  /\ pc[s] = "binaries"
  /\ target[s] # None
  /\ disk' = [disk EXCEPT !.dirs = @ \ {target[s]}]
  /\ doomed' = [doomed EXCEPT ![s] = @ \ {target[s]}]
  /\ target' = [target EXCEPT ![s] = None]
  /\ UNCHANGED <<keys, profiles, lock, pc, job, mine, todo, seen, interrupted, bounds>>

\* Fault in RemoveReceipt: the receipt stays while the root holds anything else.
RemoveReceiptLast(s) ==
  /\ Step(s, "binaries", "cleanUp")
  /\ doomed[s] = {}
  /\ disk' = [disk EXCEPT !.receipt = IF hostsDir THEN @ ELSE NoReceipt]
  /\ interrupted' = {}
  /\ UNCHANGED <<keys, todo, doomed>>

RemoveReceipt(s) ==
  /\ Step(s, "binaries", "cleanUp")
  /\ doomed[s] = {}
  /\ disk' = [disk EXCEPT !.receipt = NoReceipt]
  /\ interrupted' = {}
  /\ UNCHANGED <<keys, todo, doomed>>

\* remove_empty of versions\, then of the root and its parents.
CleanUp(s) ==
  /\ pc[s] = "cleanUp"
  /\ disk' = [disk EXCEPT !.versionsDir = (dirs # {})]
  /\ End(s, "ok")
  /\ UNCHANGED <<keys, profiles, interrupted, bounds>>

\* An I/O error, an unsafe path, a file in use, or an interruption with no write in
\* progress; write_atomic removes its temporary file when it fails ...
Fail(s) ==
  /\ pc[s] \notin Ended
  /\ Refuse(s)
  /\ UNCHANGED <<disk, keys, profiles, bounds>>

\* ... but not when the process ends in the middle of it.
Crash(s) ==
  /\ pc[s] \in Writing
  /\ crashes < MaxCrashes
  /\ crashes' = crashes + 1
  /\ disk' = [disk EXCEPT !.torn = @ \cup TempOf(s)]
  /\ Refuse(s)
  /\ UNCHANGED <<keys, profiles, outside>>

-----------------------------------------------------------------------------
(* Everybody else *)

\* Another program sets or removes the value under key k.
KeyChanges(k) ==
  /\ outside < MaxOutside
  /\ outside' = outside + 1
  /\ \E value \in {"foreign", "none"} \ {keys[k]} : keys' = [keys EXCEPT ![k] = value]
  /\ changed' = IF lock = None THEN {} ELSE changed \cup {k}
  /\ UNCHANGED <<disk, profiles, lock, pc, locals, toggled, interrupted, crashes>>

\* A browser is run for the first time, or its profile is deleted.
ProfileToggles(b) ==
  /\ outside < MaxOutside
  /\ outside' = outside + 1
  /\ profiles' = IF b \in profiles THEN profiles \ {b} ELSE profiles \cup {b}
  /\ toggled' = IF lock = None THEN {} ELSE toggled \cup {b}
  /\ UNCHANGED <<disk, keys, lock, pc, locals, changed, interrupted, crashes>>

-----------------------------------------------------------------------------

Install(s) ==
  \/ RecheckInstall(s) \/ JournalTemp(s) \/ JournalRename(s) \/ CopyTemp(s) \/ CopyRename(s)
  \/ HostsTemp(s) \/ HostsRename(s) \/ Present(s) \/ FinalTemp(s) \/ FinalRename(s)
  \/ \E b \in Browser : Register(s, b)
Uninstall(s) ==
  \/ RecheckUninstall(s) \/ RemoveManifest(s) \/ RemoveHosts(s) \/ RemoveDir(s)
  \/ RemoveReceipt(s) \/ CleanUp(s)
  \/ \E b \in Browser : Unregister(s, b)
  \/ \E v \in Version : RemoveBinary(s, v)
SetupStep(s) ==
  \/ Start(s) \/ ReadReceipt(s) \/ Precheck(s) \/ Lock(s)
  \/ Install(s) \/ Uninstall(s) \/ Fail(s) \/ Crash(s)

Next ==
  \/ \E s \in Setup : SetupStep(s)
  \/ \E k \in Key : KeyChanges(k)
  \/ \E b \in Browser : ProfileToggles(b)

Spec == Init /\ [][Next]_vars

-----------------------------------------------------------------------------
(* Properties *)

\* Chrome may start the host at any moment: a registry value of ours always leads,
\* through the one manifest, to an intact helper.
RegistrationsLaunch == (\E k \in Key : keys[k] = "ours") => manifest \in binaries

\* Whatever version is on the disk, or named by the manifest, is in the receipt, so a
\* later uninstall finds it ("Journal ownership before materializing a version").
EverythingIsOwned ==
  dirs \cup {manifest} \cup (torn \cap Version) \subseteq Listed(receipt) \cup {None}

\* docs/windows.md: "A registry value that points anywhere else is another
\* installation's, and is never replaced or removed": none is that was there when
\* the registry was looked at under the lock.
ForeignIsKept ==
  [][\A k \in Key : keys[k] = "foreign" /\ keys'[k] # "foreign" => k \in changed' \/ lock = None]_vars

Succeeds(s) == pc[s] \in {"finalTemp", "cleanUp"} /\ pc'[s] = "ok"

\* A success is one: after install every browser that had a profile starts this
\* version, except where others have interfered since; after uninstall nothing of
\* ours is left but files of interrupted writes.
SuccessIsComplete ==
  [][\A s \in Setup : Succeeds(s) =>
       IF Installing(s)
       THEN /\ job[s] \in binaries' \cap Listed(receipt') /\ manifest' = job[s]
            /\ \A b \in profiles \ toggled : KeyOf(b) \in changed \/ keys'[KeyOf(b)] = "ours"
       ELSE /\ dirs' = {} /\ manifest' = None
            /\ \A k \in Key : keys'[k] # "ours"]_vars
=============================================================================
