--------------------------- MODULE ConnectionControl ---------------------------
(***************************************************************************)
(* connectSelected of the native helper, across helper processes: one      *)
(* process per Chrome port or bridge request, all of one user, sharing     *)
(* nothing but a non-blocking file lock (rust/src/router.rs and            *)
(* rust/src/platform/linux/).  Two flows use it: v3 (registry, any         *)
(* provider) and v2 (legacy control, Mullvad only).                        *)
(*                                                                         *)
(* A step is one look at or one command to a provider, since the vendor's  *)
(* daemon, its app, the package manager and the user act between any two   *)
(* of them.  A helper may be killed at any step (Chrome ends it with its   *)
(* port; the bridge after HELPER_TIMEOUT); the kernel then frees its lock, *)
(* but a provider command it had started runs in a process group of its    *)
(* own and goes on.                                                        *)
(***************************************************************************)
EXTENDS Naturals, FiniteSets

CONSTANTS
  Helper,      \* helper processes
  Nobody,      \* the lock's value when free
  Packaged,    \* bound: the states that each provider's installation can be in
  MaxOrphans   \* bound: abandoned provider commands at any moment

ASSUME HelperAssumption == Nobody \notin Helper
ASSUME OrphanAssumption == MaxOrphans \in Nat

\* The providers a helper can connect; NordVPN and ProtonVPN are launch-only.
Provider == {"mullvad", "ivpn"}
Flow == {"v2", "v3"}
\* A provider's command line, /usr/bin/mullvad or /usr/bin/ivpn: there is no such file;
\* its package is installed at a pinned version; a file of the package is there, but the
\* package is not fully installed or of another version; or the file is not to be trusted.
Installation == {"absent", "ok", "unsettled", "broken"}
ASSUME PackagedAssumption == Packaged \in [Provider -> SUBSET Installation]

TunnelState == {"connected", "connecting", "disconnected", "disconnecting", "error"}

VARIABLES
  tunnel,    \* state of each provider's daemon
  install,   \* state of each provider's installation
  lock,      \* holder of the connection lock
  pc,        \* where each helper is
  job,       \* the flow and provider of its request
  reply,     \* its last reply
  orphans,   \* provider connect commands whose helper was killed
  ran,       \* ghost: the request has started its provider command
  overtaken, \* ghost: providers not started by this helper since it last read them
  misjudged, \* ghost: helpers told that the other provider is not installed, with its tunnel up
  repackaged \* ghost: helpers since whose look the other provider's package has changed

ghosts == <<overtaken, misjudged, repackaged>>
vars == <<tunnel, install, lock, pc, job, reply, orphans, ran, ghosts>>

NoJob == [flow |-> "v3", provider |-> "mullvad"]  \* of an idle helper
Job == {j \in [flow : Flow, provider : Provider] : j.flow = "v2" => j.provider = "mullvad"}
Phase == {"idle", "before", "other", "otherStatus", "ensure", "ivpn", "spawn", "command", "delivered", "after"}
\* The phases in which a helper has seen a provider down, and not acted on it.
Looking == {"other", "otherStatus", "ensure", "ivpn", "spawn", "command"}
Reply == {"none", "controlBusy", "providerConflict", "otherError", "snapshot"}
Refusal == {"controlBusy", "providerConflict"}

TypeOK ==
  /\ tunnel \in [Provider -> TunnelState]
  /\ install \in [Provider -> Installation]
  /\ lock \in Helper \cup {Nobody}
  /\ pc \in [Helper -> Phase]
  /\ job \in [Helper -> Job]
  /\ reply \in [Helper -> Reply]
  /\ orphans \in SUBSET Provider
  /\ ran \in [Helper -> BOOLEAN]
  /\ overtaken \in [Helper -> SUBSET Provider]
  /\ misjudged \subseteq Helper
  /\ repackaged \subseteq Helper

Init ==
  /\ tunnel = [p \in Provider |-> "disconnected"]
  /\ install \in [Provider -> Installation]
  /\ \A p \in Provider : install[p] \in Packaged[p]
  /\ lock = Nobody
  /\ pc = [h \in Helper |-> "idle"]
  /\ job = [h \in Helper |-> NoJob]
  /\ reply = [h \in Helper |-> "none"]
  /\ orphans = {}
  /\ ran = [h \in Helper |-> FALSE]
  /\ overtaken = [h \in Helper |-> {}]
  /\ misjudged = {}
  /\ repackaged = {}

-----------------------------------------------------------------------------
(* Helpers of the model *)

Selected(h) == job[h].provider
Other(p) == CHOOSE q \in Provider : q # p

Goto(h, phase) ==
  /\ pc' = [pc EXCEPT ![h] = phase]
  /\ UNCHANGED <<lock, job, reply, ran>>

\* What helper h has seen is of no use any more.
Unseen(h) ==
  /\ overtaken' = [overtaken EXCEPT ![h] = {}]
  /\ misjudged' = misjudged \ {h}
  /\ repackaged' = repackaged \ {h}

\* The end of a request, answered or killed: the guard's file is closed.
Release(h) ==
  /\ pc' = [pc EXCEPT ![h] = "idle"]
  /\ job' = [job EXCEPT ![h] = NoJob]
  /\ lock' = Nobody
  /\ Unseen(h)

\* Fault in Answer: the early return of a conflict forgets to drop the guard.
AnswerLeakingTheGuard(h, r) ==
  /\ IF r = "providerConflict"
     THEN pc' = [pc EXCEPT ![h] = "idle"] /\ UNCHANGED <<lock, job, ghosts>>
     ELSE Release(h)
  /\ reply' = [reply EXCEPT ![h] = r]
  /\ UNCHANGED ran

Answer(h, r) ==
  /\ Release(h)
  /\ reply' = [reply EXCEPT ![h] = r]
  /\ ran' = [ran EXCEPT ![h] = @ /\ r \in Refusal]

World == <<tunnel, install, orphans>>

\* A provider begins to connect, for a reason other than a helper's command.
StartedBehind(p) ==
  /\ overtaken' = [h \in Helper |-> IF pc[h] \in Looking THEN overtaken[h] \cup {p} ELSE {}]
  /\ UNCHANGED <<misjudged, repackaged>>

\* The daemon's answer to `connect`: nothing changes unless it is disconnected.
\* Without the command line there is taken to be no daemon.
ConnectDaemon(p) ==
  tunnel' = IF tunnel[p] = "disconnected" /\ install[p] # "absent"
            THEN [tunnel EXCEPT ![p] = "connecting"] ELSE tunnel

\* Helper h takes provider p to be disconnected and will go on from there.
SeenDown(h, p) == overtaken' = [overtaken EXCEPT ![h] = @ \ {p}]

\* What trust::verify can say of a provider: nothing is right that is not installed at a
\* pinned version, but NotInstalled is also what is said of an owned file whose package
\* is not "installed", or whose version query fails; any query may fail or time out.
Verdicts(p) ==
  CASE install[p] = "ok"                     -> {"ok", "notInstalled", "error"}
    [] install[p] \in {"absent", "unsettled"} -> {"notInstalled", "error"}
    [] install[p] = "broken"                 -> {"error"}

-----------------------------------------------------------------------------
(* The request *)

\* Fault in Begin: the result of flock is not looked at.
BeginUnlocked(h, j) ==
  /\ pc[h] = "idle"
  /\ ran' = [ran EXCEPT ![h] = FALSE]
  /\ lock' = h
  /\ pc' = [pc EXCEPT ![h] = IF j.flow = "v2" THEN "ensure" ELSE "before"]
  /\ job' = [job EXCEPT ![h] = j]
  /\ reply' = [reply EXCEPT ![h] = "none"]
  /\ UNCHANGED <<World, ghosts>>

\* lock::connection without waiting: taken; or busy, which a lock file of another
\* kind, mode or owner is too; or no directory to put it in.
Begin(h, j) ==
  /\ pc[h] = "idle"
  /\ ran' = [ran EXCEPT ![h] = FALSE]
  /\ \/ /\ lock = Nobody
        /\ lock' = h
        /\ pc' = [pc EXCEPT ![h] = IF j.flow = "v2" THEN "ensure" ELSE "before"]
        /\ job' = [job EXCEPT ![h] = j]
        /\ reply' = [reply EXCEPT ![h] = "none"]
     \/ /\ \E r \in {"controlBusy", "otherError"} : reply' = [reply EXCEPT ![h] = r]
        /\ UNCHANGED <<lock, pc, job>>
  /\ UNCHANGED <<World, ghosts>>

\* Where a request goes that found its provider disconnected.
AfterStatus(h) ==
  IF pc[h] = "before" THEN "other" ELSE IF job[h].flow = "v2" THEN "ivpn" ELSE "spawn"

\* Fault in ReadSelected: a tunnel that cannot be connected is answered by its state.
ReadSelectedRaw(h) ==
  LET p == Selected(h) IN
  /\ pc[h] \in {"before", "ensure"}
  /\ \/ "ok" \in Verdicts(p) /\ tunnel[p] # "disconnected" /\ Answer(h, tunnel[p])
     \/ /\ "ok" \in Verdicts(p)
        /\ tunnel[p] = "disconnected"
        /\ Goto(h, AfterStatus(h))
        /\ SeenDown(h, p)
        /\ UNCHANGED <<misjudged, repackaged>>
     \/ Answer(h, "otherError")
  /\ UNCHANGED World

\* Adapter::status of the selected provider, in the router ("before") and again
\* in ensure_connected ("ensure").  It may fail or time out whatever the state.
ReadSelected(h) ==
  LET p == Selected(h) IN
  /\ pc[h] \in {"before", "ensure"}
  /\ \/ /\ "ok" \in Verdicts(p)
        /\ tunnel[p] \in {"connected", "connecting"}
        /\ Answer(h, "snapshot")
     \/ /\ "ok" \in Verdicts(p)
        /\ tunnel[p] = "disconnected"
        /\ Goto(h, AfterStatus(h))
        /\ SeenDown(h, p)
        /\ UNCHANGED <<misjudged, repackaged>>
     \/ Answer(h, "otherError")
  /\ UNCHANGED World

\* Helper h is past the other provider q, its file being absent or in order.
PastOther(h, q) ==
  /\ SeenDown(h, q)
  /\ misjudged' = IF tunnel[q] = "disconnected" THEN misjudged ELSE misjudged \cup {h}
  /\ repackaged' = repackaged \ {h}

\* Fault in ValidateOther: every error of validate counts as not installed.
ValidateOtherLoosely(h) ==
  LET q == Other(Selected(h)) IN
  /\ pc[h] = "other"
  /\ \/ "ok" \in Verdicts(q) /\ Goto(h, "otherStatus") /\ UNCHANGED ghosts
     \/ Goto(h, "ensure") /\ PastOther(h, q)
  /\ UNCHANGED World

\* The other known provider: passed over as not installed; validated; or in doubt.
ValidateOther(h) ==
  LET q == Other(Selected(h)) IN
  /\ pc[h] = "other"
  /\ \/ "notInstalled" \in Verdicts(q) /\ Goto(h, "ensure") /\ PastOther(h, q)
     \/ "ok" \in Verdicts(q) /\ Goto(h, "otherStatus") /\ UNCHANGED ghosts
     \/ "error" \in Verdicts(q) /\ Answer(h, "providerConflict")
  /\ UNCHANGED World

\* Fault in ReadOther: only a tunnel that is up counts as a conflict.
ReadOtherLoosely(h) ==
  LET q == Other(Selected(h)) IN
  /\ pc[h] = "otherStatus"
  /\ \/ /\ "ok" \in Verdicts(q)
        /\ tunnel[q] \notin {"connected", "connecting"}
        /\ Goto(h, "ensure")
        /\ SeenDown(h, q)
        /\ repackaged' = repackaged \ {h}
        /\ UNCHANGED misjudged
     \/ Answer(h, "providerConflict")
  /\ UNCHANGED World

\* Adapter::status of the other provider.
ReadOther(h) ==
  LET q == Other(Selected(h)) IN
  /\ pc[h] = "otherStatus"
  /\ \/ /\ "ok" \in Verdicts(q)
        /\ tunnel[q] = "disconnected"
        /\ Goto(h, "ensure")
        /\ PastOther(h, q)
     \/ Answer(h, "providerConflict")
  /\ UNCHANGED World

\* The closure of v2's ensure_connected begins with Path::exists of IVPN's command line.
LookForIvpn(h) ==
  /\ pc[h] = "ivpn"
  /\ \/ install["ivpn"] # "absent" /\ Answer(h, "providerConflict")
     \/ install["ivpn"] = "absent" /\ Goto(h, "spawn") /\ PastOther(h, "ivpn")
  /\ UNCHANGED World

\* The selected provider is validated again and its command started at once.
Spawn(h) ==
  /\ pc[h] = "spawn"
  /\ \/ /\ "ok" \in Verdicts(Selected(h))
        /\ pc' = [pc EXCEPT ![h] = "command"]
        /\ ran' = [ran EXCEPT ![h] = TRUE]
        /\ repackaged' = repackaged \ {h}
        /\ UNCHANGED <<lock, job, reply, overtaken, misjudged>>
     \/ Answer(h, "otherError")
  /\ UNCHANGED World

\* The command reaches the vendor's daemon.
Deliver(h) ==
  /\ pc[h] = "command"
  /\ ConnectDaemon(Selected(h))
  /\ Unseen(h)
  /\ Goto(h, "delivered")
  /\ UNCHANGED <<install, orphans>>

\* process::run: exit 0 in time ...
CommandSucceeds(h) ==
  /\ pc[h] = "delivered"
  /\ Goto(h, "after")
  /\ UNCHANGED <<World, ghosts>>

\* Fault in CommandFails: an unfinished command is reported as a busy provider.
CommandFailsAsBusy(h) ==
  /\ pc[h] \in {"command", "delivered"}
  /\ \E r \in {"otherError", "controlBusy"} : Answer(h, r)
  /\ UNCHANGED World

\* ... or an error, whether or not the daemon was reached; a deadline kills the
\* command's process group first.  No status is read after it.
CommandFails(h) ==
  /\ pc[h] \in {"command", "delivered"}
  /\ Answer(h, "otherError")
  /\ UNCHANGED World

ReadAfter(h) ==
  /\ pc[h] = "after"
  /\ \E r \in {"snapshot", "otherError"} : Answer(h, r)
  /\ UNCHANGED World

\* The helper is killed.  Its lock is freed; a command it had not finished runs on.
Kill(h) ==
  LET left == IF pc[h] = "command" THEN {Selected(h)} ELSE {} IN
  /\ pc[h] # "idle"
  /\ Cardinality(orphans \cup left) <= MaxOrphans  \* bound
  /\ orphans' = orphans \cup left
  /\ Release(h)
  /\ reply' = [reply EXCEPT ![h] = "none"]
  /\ ran' = [ran EXCEPT ![h] = FALSE]
  /\ UNCHANGED <<tunnel, install>>

-----------------------------------------------------------------------------
(* The world *)

\* An abandoned command reaches its daemon, or ends without.
OrphanEnds(p) ==
  /\ p \in orphans
  /\ orphans' = orphans \ {p}
  /\ \/ ConnectDaemon(p) /\ StartedBehind(p)
     \/ UNCHANGED <<tunnel, ghosts>>
  /\ UNCHANGED <<install, lock, pc, job, reply, ran>>

\* The user or the vendor's app starts the provider.
UserConnects(p) ==
  /\ install[p] # "absent"
  /\ tunnel[p] = "disconnected"
  /\ ConnectDaemon(p)
  /\ StartedBehind(p)
  /\ UNCHANGED <<install, lock, pc, job, reply, orphans, ran>>

\* The package manager, or the user as root, installs, upgrades, breaks or removes the
\* provider; a removal ends its tunnel first.
PackageChanges(p) ==
  /\ \E new \in Packaged[p] \ {install[p]} :
       /\ new = "absent" => tunnel[p] = "disconnected"
       /\ install' = [install EXCEPT ![p] = new]
  /\ repackaged' = repackaged \cup {h \in Helper : pc[h] \in {"ensure", "spawn"} /\ Selected(h) # p}
  /\ UNCHANGED <<tunnel, lock, pc, job, reply, orphans, ran, overtaken, misjudged>>

\* Anything else the daemon does of itself or on the user's disconnect.
DaemonMoves(p) ==
  /\ \E next \in CASE tunnel[p] = "connecting"    -> {"connected", "error", "disconnecting"}
                   [] tunnel[p] = "connected"     -> {"disconnecting", "error"}
                   [] tunnel[p] = "error"         -> {"connecting", "disconnecting"}
                   [] tunnel[p] = "disconnecting" -> {"disconnected"}
                   [] tunnel[p] = "disconnected"  -> {} :
       tunnel' = [tunnel EXCEPT ![p] = next]
  /\ UNCHANGED <<install, lock, pc, job, reply, orphans, ran, ghosts>>

Step(h) ==
  \/ ReadSelected(h) \/ ValidateOther(h) \/ ReadOther(h) \/ LookForIvpn(h) \/ Spawn(h)
  \/ Deliver(h) \/ CommandSucceeds(h) \/ CommandFails(h) \/ ReadAfter(h)

Next ==
  \/ \E h \in Helper : Step(h) \/ Kill(h) \/ \E j \in Job : Begin(h, j)
  \/ \E p \in Provider : OrphanEnds(p) \/ UserConnects(p) \/ DaemonMoves(p) \/ PackageChanges(p)

Spec == Init /\ [][Next]_vars

\* Every look and every command has a deadline, so a helper keeps going; the
\* vendor's daemons, the users and the killers are under no obligation.
FairSpec == Spec /\ \A h \in Helper : WF_vars(Step(h))

-----------------------------------------------------------------------------
(* Properties *)

\* Between taking the lock and answering, a helper holds it: at most one
\* connection attempt is past its checks ("serializes Chrome surfaces and worker
\* restarts", platform/linux/lock.rs).
HolderOnly == \A h \in Helper : pc[h] # "idle" <=> lock = h

\* What helper h's command may find of provider p: it is down, or something else has
\* started it since the helper looked.
FoundDown(h, p) == tunnel[p] # "disconnected" => p \in overtaken[h]

\* h's connect command reaches the daemon.
Delivers(h) == pc[h] = "command" /\ pc'[h] = "delivered"

\* "Never interrupt an existing connection or fight a user who is disconnecting"
\* (provider.rs): a helper's command finds every known provider disconnected, except
\* what the user, the vendor's app or an abandoned command started after it had looked,
\* and another provider that was up but reported as not installed (trust.rs:95, 99).
NoSecondTunnel ==
  [][\A h \in Helper : Delivers(h) =>
       \A p \in Provider : FoundDown(h, p) \/ (h \in misjudged /\ p = Other(Selected(h)))]_vars

\* SECURITY.md:25: "The v3 flow refuses to create a second known tunnel or act on
\* uncertain alternate-provider state."
RefusesSecondTunnel ==
  [][\A h \in Helper : Delivers(h) /\ job[h].flow = "v3" =>
       \A p \in Provider : FoundDown(h, p)]_vars

\* A refusal is certain: controlBusy and providerConflict never follow a command
\* that may have connected (only a failed command is "an uncertain result").
RefusedMeansNotStarted ==
  \A h \in Helper : reply[h] \in {"controlBusy", "providerConflict"} => ~ran[h]

\* v2 "never starts Mullvad while IVPN is installed" (platform/linux/adapters.rs), its
\* command line being there, and v3 starts nothing beside one that is not to be trusted,
\* unless the package changed after the helper had looked.
NeverBesideADoubtfulProvider ==
  [][\A h \in Helper : ~ran[h] /\ ran'[h] /\ h \notin repackaged =>
       IF job[h].flow = "v2" THEN install["ivpn"] = "absent"
       ELSE install[Other(Selected(h))] # "broken"]_vars

\* Every request is answered or killed, so the lock is never held for ever.
LockIsFreed == \A h \in Helper : (lock = h) ~> (lock # h)

\* SECURITY.md:25: "Connection operations serialize with a same-user no-follow
\* lock."  Holds while no helper is killed during its command.
ConnectCommandsSerialized ==
  Cardinality(orphans) + Cardinality({h \in Helper : pc[h] = "command"}) <= 1
=============================================================================
