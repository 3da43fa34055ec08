# Network Guard: TLA+ models and proofs

Network Guard lets a browser extension ask the user's own VPN app for its status
and, with consent, to connect. These modules model the parts of it whose
correctness depends on order, concurrency, crashes or clocks. Every definition
is translated from the source; `PROJECT.json` maps each to its lines.

## The system

```
extension --stdio--> shim (anon-guard-host) --socket--> app (anon-guard) --stdio--> helper --> VPN vendor's CLI
                      one per Chrome port                one per user, bridge cache   one per request
extension --stdio--> helper   (without Device Guard: Chrome starts it directly)
setup app --> versions, receipt, browser registrations      release tool --> R2 / GitHub --> website
```

| Component (code) | State | Operations | Hard behaviour | What makes it correct |
|---|---|---|---|---|
| bridge (`device/src/bridge.rs`) | reply cache, generation | `respond_at` on one thread per connection | two critical sections around a helper run; two clocks, sleep; hung helper | no reply from before a mutation; bounded age; everyone is answered |
| connection control (`rust/src/router.rs`, `provider.rs`, `platform/linux/`, `process/unix.rs`) | flock, vendors' tunnels | `connectSelected` v3, v2 | many processes; user and vendor act between look and command; killed helpers; uncertain commands | one attempt at a time; never a second tunnel knowingly; a refusal is certain |
| shim, launch, single instance (`device/src/shim.rs`, `launch.rs`, `ipc.rs`, both binaries) | `LAUNCHES`, starting lock, kept connection; guard lock, socket | forward, appStatus, openApp; bind, serve, exit | app restarts under a kept connection; launch races; stale sockets; hangs | the listening app is reachable; served while it is up; a request in a launch is not refused as "not running" |
| process runner (`rust/src/process/`) | child, group or job, pipe, deadline | `run` | forks, late output, closed stdout, hangs, a helper that dies | an answer is whole; a failure leaves nothing contained; every call ends |
| installer, Linux (`rust/src/setup/`) | receipt, versions, registrations, lock | install, uninstall, check | interruption between any two writes; other programs' registrations; a second setup | a registration always launches; everything is owned; others' files are kept |
| installer, Windows (`rust/src/setup/windows.rs`, `platform/windows/lock.rs`) | receipt, versions, host manifest, registry values, mutex | install, uninstall, check | as above; one manifest for all browsers, two browsers on one key | as above |
| helper choice (`device/src/bridge.rs`) | none: reads the receipt and `bridge.json` | `resolve_helper` | reads what a setup process is writing, or left | finds the helper that is named |
| release publishing (`release/publish.mjs`, `catalog.mjs`, `lib.mjs`) | active catalog, artifacts, archived catalogs | `publish --execute` | no locks or transactions; lost and late requests; concurrent publishers | history is kept; what is offered can be downloaded |
| routing and envelopes (`rust/src/router.rs`, `wire.rs`, `device/src/route.rs`, `Sources/NetworkHelperCore/`) | none | `respond`, `route`, `ambiguous` | two routers and two JSON parsers read the same bytes | who answers without the helper says what it would; no change passes for a read |
| helper session (`rust/src/bin/helper.rs`, `frames.rs`) | none between requests | read frame, respond | end of input, broken frames | one reply per frame |
| development installer (`scripts/dev.mjs`) | development receipts, backups | install, uninstall | no lock; interruption; replaced registrations | what it replaced comes back |
| Windows adapters, macOS helper and installer (`platform/windows/`, `Sources/`) | as on Linux | as on Linux | other kinds of lock and registration | as on Linux |
| parsers, trust checks, login item, identity, packaging | none | pure or one-shot | - | - |

`PROJECT.json` lists the components with their status and the hazards found in
the code, each at its line with the properties that would notice it.

## Modules

| Module | What it is |
|---|---|
| `BridgeCache` | the bridge, by any number of connection threads |
| `BridgeCacheProofs` | its type correctness and two safety properties, proved |
| `RequestFrames` | frames, replies and the envelope's guards, as operators |
| `RustRouter`, `SwiftRouter` | the two helpers' routers, as operators |
| `RequestRouting` | a request's way through shim, bridge and helper |
| `RequestRoutingProofs` | that the routers agree, its type correctness and four invariants, proved |
| `ConnectionControl` | `connectSelected` across helper processes, vendors' daemons and users |
| `ConnectionControlProofs` | its type correctness and four safety properties, proved |
| `ProviderCommand` | what running a vendor's command promises the helper (abstract specification) |
| `ProcessRunner` | one call of `process::run`, its processes and their output; implements `ProviderCommand` |
| `ProcessRunnerProofs` | its type correctness, two invariants and the refinement, proved |
| `AppLaunch` | shims, their launch threads, and copies of the app |
| `AppLaunchProofs` | its type correctness and three safety properties, proved |
| `SetupInstaller` | setup processes, the disk, browsers and other programs |
| `SetupInstallerProofs` | its type correctness, two invariants and two action properties, proved |
| `WindowsInstaller` | the same for Windows: registry, one manifest, a mutex |
| `HelperChoice` | which helper the bridge runs, over `WindowsInstaller` |
| `WindowsInstallerProofs` | type correctness, three invariants and two action properties of both, proved |
| `ReleaseHistory` | catalogs and what one may change in another, as operators |
| `ReleaseCatalog` | what publishing promises its readers (abstract specification) |
| `ReleasePublish` | publishers over R2 and GitHub; implements `ReleaseCatalog` |
| `ReleasePublishProofs` | its type correctness, `DownloadsAreServed` and the refinement, proved |
| `MC*` | the small instances that TLC checks |

An operator whose comment begins with "Fault in X" is a wrong version of X that
a property must notice; it is used by no specification. Each property of a
passing run has such a fault in `PROJECT.json` ("mutants").

### BridgeCache

`respond_at` has two critical sections on `cache`: the lookup (`Hit`, `Miss`)
and the settling (`FinishReusable`, `FinishOther`, `TimedOut`), with the helper run
between them. `HelperReads` is when the helper asks the provider; `OutputEnds` is
when the reader thread has the whole output, after which `child.wait()` has no
deadline and the helper may go on for ever (`Waiting`). `Arrive` reads the
clocks before the lock, as `respond` does. A request is a read with a key, a
mutation (`connectSelected`, `openApp`, or bytes two parsers may read
differently) or anything else. `clock` has the monotonic time, the wall time
and, as a ghost, real time: `Sleep` advances all but the first, `SetWallClock`
moves the second. Entries carry ghosts: when the helper read, and which mutations
had started and completed when its run began.

The poisoning of the mutex (a panic in a critical section) is not modelled: no
code in them panics.

### RequestRouting

A frame has, for each key, the list of its values: serde_json reads the last
one and Foundation the first. `RustRouter` and `SwiftRouter` have one operator
per service, with the checks in the order of the code; an answer is a reply and
what was asked of a VPN app (`nothing`, a `look`, a `change`). The shim and the
bridge always use `RustRouter`, over a VPN app that fails (`Probe`), as
`route` does; `Installed` is the helper of the platform. The reply's contents
are abstracted to the field and the provider, an error of the app to one code.
Actions follow the request: `ShimAnswersV9`, `ShimAnswersMalformed`,
`ShimRelays` or `ShimAlone`, then `BridgeHits` or `BridgeRuns`, then
`HelperAnswers` or `HelperFails`.

### ConnectionControl

One step is one look at, or one command to, a vendor. `Begin` takes the lock or
is refused; v3 goes through `ReadSelected` ("before"), `ValidateOther`,
`ReadOther`, then both flows through `ensure_connected`: `ReadSelected`
("ensure"), `LookForIvpn` (v2's `Path::exists`), `Spawn` (the second validation and
the start of the command), the command (`Deliver`, `CommandSucceeds` or
`CommandFails`) and `ReadAfter`. `Kill` is Chrome or the bridge ending the
helper: the kernel frees the lock and a started command stays in `orphans`.
`install` is what there is of a provider: no command line, a good package, a file
whose package is half installed or of another version, or a file not to be trusted. The package manager may
change it at any step (`PackageChanges`). `Verdicts` is what `trust::verify` may say
of it, which is not the same: a failed version query reports a provider that is up
as not installed (trust.rs:95), and v3 then passes it over. Two ghosts say what a helper cannot know:
`misjudged`, that the other provider was up when it was passed over, and `repackaged`,
that its package has changed since the look. Without the command line
there is taken to be no daemon: a package is removed with its tunnel down. The second
validation and the spawn that follows it are one step.

### ProcessRunner

`kind` is the build: a process group on Unix, a job on Windows. `contained` is
who is in it: on Unix the child from its birth, on Windows the child when
`Assign` has run, and in both whoever a contained process starts. A Unix process
may leave (`LeavesGroup`); a job is not left. `holds` is who has the pipe as its
stdout, which is what the reader's end of file depends on. Output is counted in
reads of the buffer, and the cap in the same unit. The Unix loop looks at the
deadline before every read (`Reads`); the Windows reader is a thread that only its
message and the pipe concern, so `Receive` may take a message after the deadline.
The end of killed processes is immediate: `wait` returns when it is so.
`ContainmentHolds` is about what is contained, because the rest is not: a
process started before `Assign`, or in a session of its own, goes on.

`ImplementsProviderCommand` maps a call to one command of `ProviderCommand`: live
while the child or something contained is. The rest of the helper may rely on
it: a command that failed does nothing more, one that succeeded or whose helper
died may (`ConnectionControl`'s `orphans` are the latter).

### AppLaunch

A copy of the app goes through `ipc::bind` (`TakeGuard`, `ClearSocket`,
`Listen`), then serves, hangs, resumes and dies. A shim's main thread (a `Port`)
answers or forwards one frame at a time; `Dispatch` hands `openApp` to a launch
thread. `History` keeps two ghosts of every request: whether the app answered,
and whether a launch was in progress, all the time since it arrived. A hello and an exchange are each one step:
their bytes are not looked at in between. A copy that dies and a copy that is
started are different copies. `deadlines` is the build: Unix sockets have
read and write deadlines and Windows' named pipes have none. A copy that hangs is
waited for (`Waits`) over a pipe, and on a socket for the connection itself, which is made before
the deadlines are set and blocks while the copy's queue is `full`. On Windows the guard and
the socket stand for the first instance of the pipe. `AppState` answers `appStatus`: its
`running:false` is the same for an app that is starting and one that is stopped, so
what a launch promises is about forwarded requests only.

### SetupInstaller

Each action is one change of the disk or one look at it; `write_atomic` is two
(the temporary file, the rename). A crash is `Fail` (no temporary file left) or
`Crash` (one left) and may happen at every step. `Temps` is what `read_dir`
would find beside the files that belong there. A registration is a version of
ours, `Foreign` or `None`.

### WindowsInstaller and HelperChoice

The order of the writes is the Linux one; what they write differs. Registry
values (`keys`) name the one manifest in `hosts\`, so `HostsRename` switches every
registered browser, and Chrome and Brave have one key (`KeyOf`). The mutex is
released or abandoned when its owner ends: to the next process that is the same.
The receipt is the sequence of its versions, because its order matters to the
bridge; its list of browsers is read by `check` alone and left out. `interrupted`
is a ghost: listed versions whose own install or removal was cut short. A
helper that cannot be deleted while it runs is a `Fail`.

`HelperChoice` has no step: `resolve_helper` is a pure reading of the receipt,
`bridge.json` and the version's directory. `bridge.json` is written by nothing in
the repository, so the invariant is about every choice in it. While setup is at work
the bridge may fail; `BridgeFindsTheHelper` says when it does not.

### ReleasePublish

Each action is one request of `publishVerified`, with the local computation that
follows it. `prior` with its ETag is one value: two different catalogs have
different ETags. `GivesUp` is the request deadline: the PUT stays in `late` and
may be carried out at any later moment, or never; a PUT that was carried out and whose
answer was lost is the same with nothing in between. A run
ends `executed` or `failed`: which error it reports is left out, and with it the sizes of
catalogs, on which the error after the read-back depends. `stored` has the bytes at
each release's location, one artifact per release. Notes are left out; they may
change from catalog to catalog without any check in the code.

## Runs

| Run | Instance and bounds | Shows |
|---|---|---|
| `bridge_cache` | 2 threads, 1 key, TTL 2, time to 3, 2 mutations, a sleep of 2, a wall step of -2 | `CachedReadsFollowEveryMutation`, `HitAgeBound`, `EveryRequestAnswered` |
| `request_routing` | every version, method and provider of a request, one repeated key, non-strict bytes, 3 platforms, 2 requests | `AnsweredAsInstalled`, `TakesNothingFromTheHelper`, `CachedAnswersThisRequest`, `ChangesClearTheCache` |
| `connection_control` | 2 helpers, 2 abandoned commands; every state of IVPN's installation | `HolderOnly`, `NoSecondTunnel`, `RefusedMeansNotStarted`, `NeverBesideADoubtfulProvider`, `LockIsFreed` |
| `process_runner` | both builds, 3 processes, output of 2 reads and one too many | `OkIsWhole`, `ContainmentHolds`, `EveryRunEnds`, `ImplementsProviderCommand` |
| `app_launch` | sockets and pipes, 2 shims (one sends every kind of request, one only `openApp`), 1 launch thread each, 2 copies of the app | `ListenerIsReachable`, `ServedWhileUp`, `NeverNotRunningInALaunch`, `EveryRequestAnswered` |
| `setup_installer` | 2 setup processes, 3 versions with a limit of 2, 2 browsers, 1 crash that leaves a file, 1 outside change | `RegistrationsLaunch`, `EverythingIsOwned`, `ForeignIsKept`, `SuccessIsComplete` |
| `windows_installer` | 2 setup processes, 2 versions, 3 browsers with 2 keys, 1 crash that leaves a file, 1 outside change | `RegistrationsLaunch`, `EverythingIsOwned`, `BridgeFindsTheHelper`, `ForeignIsKept`, `SuccessIsComplete` |
| `release_publish` | 2 publishers, 2 publish runs, 2 releases (one on GitHub) with 2 builds | `DownloadsAreServed`, `ImplementsReleaseCatalog` |

Why the bounds are enough: the bridge's races need one other thread and one key
(keys never interact but in `clear`, which treats all alike), and a TTL of 2 has
a tick inside it and a sleep as long as it. Two requests are one that fills the
cache and one that meets it, and one repeated key is enough for two parsers to
differ in any one value. Two helpers are a holder and a
competitor, and the orphans a killed one leaves for each of the two vendors. Two copies of the
app are an old and a new one; the launch races are between one request and one
other launch, in its own shim or another. The installer needs two versions for
an upgrade and a third for the limit (on Windows, where two fill the receipt, the limit
is never exceeded by a third: `setup_installer` is what checks it). A command's child, its
child, and that one's sibling or child are enough for each to be in or out of
the containment while another holds the pipe. Two publish runs are enough for every pair
of read-modify-write cycles to overlap, with any catalog of two releases in each,
and for a late PUT to meet a newer catalog. `MaxReal`, `MaxMutations`, `MaxOrphans`,
`Packaged`, `MaxLaunches`, `MaxSent`, `MaxWrites`, `MaxCrashes`, `MaxOutside` and `MaxRuns` bound the state space and
nothing in the code; `MaxVersions` is `MAX_VERSIONS`. Symmetry is used only in
runs without liveness. Deadlock is checked in all passing runs but
`release_publish` and `process_runner`, where the system stops when the runs are over.

Fairness. A bridge thread runs on, and `HELPER_TIMEOUT` comes while the output of
its helper is not complete; no fairness is asked of the helper's own steps, its end
included, so `EveryRequestAnswered` exempts a request whose helper has closed its
output and goes on. A helper's
step is a look or a command with a deadline in `process::run`; daemons, users and
killers owe nothing. A shim's or launch thread's step has a socket deadline or
`LAUNCH_WAIT`, except where a hung app can hold it (`HeldUp`): over a named pipe, and in a
connection to a full queue. There `EveryRequestAnswered` claims nothing. The app and whoever starts
it owe nothing; but an app that serves is taken to answer within `IO_TIMEOUT` (`Served`),
which rests on its helper runs ending. The runner's calling thread
runs on and the deadline comes; the command owes nothing. The installers and the
publisher have no liveness property: they are run by a person and may end at any
step.

### Where the code and its own words differ

Each of these runs checks one sentence and finds a behaviour that breaks it.
`second_tunnel` and `control_serialized` let either provider's installation be in every state.

| Run | Sentence | What happens |
|---|---|---|
| `bridge_newest` | device/README.md:57, the bridge runs the newest version | a version that is installed again keeps its place in the receipt, and the bridge takes the last |
| `control_serialized` | SECURITY.md:25, connection operations serialize | a killed helper's command goes on without its lock |
| `setup_interrupted` | setup/linux.rs:256, an interrupted copy is repairable | a temporary file left in the version's directory is an ownership conflict from then on |
| `second_tunnel` | SECURITY.md:26, v3 refuses to create a second known tunnel | a provider that is up but reported as not installed (trust.rs:95, 99) is passed over (router.rs:163) |

Six more sentences are not quite so; where something weaker holds, it is checked instead. A read
wholly inside a mutation's helper run is stored until the mutation settles
(bridge.rs:18 says it is not): `CachedReadsFollowEveryMutation`. Sleep and a
backward wall step together defeat both clocks (bridge.rs:13, "never more than 5 s
older"): `HitAgeBound`. A request that arrives in a launch, fails to connect, and asks
whether one is in progress after it has ended gets `appNotRunning`
(CONTRACTS.md:125): `NeverNotRunningInALaunch` holds when the launch covers the
whole request. The bridge's 30 s helper deadline (device/README.md:50) covers the
reader of the output only: a helper that closes its stdout, or writes `MAX_REPLY` bytes,
and goes on is waited for without one (bridge.rs:234), and the bridge's
`EveryRequestAnswered` exempts it. A hung app "counts as not running" and is not waited
on (shim.rs:11-13), but over a named pipe it is (ipc.rs:252), and so it is on a socket while its
queue is full (222): the launch's `EveryRequestAnswered` exempts that. A catalog that was
activated and succeeded by another before it was read back is reported with "catalog
not activated" (publish.mjs:148) if the other is not larger ("unreleased" to "published");
otherwise the error is that it is larger (147). No property is about that message.

## Proofs

`BridgeCacheProofs` proves, for every value of the constants:

- `TypeCorrect`: `Spec => []TypeOK`.
- `CachedReadsAreAfterMutations`: `CachedReadsFollowEveryMutation` is an
  invariant. It is not inductive: a thread in its helper run will store what it
  read, so the invariant (`FreshInv`) also says that the generation counts the
  clears (`GenerationCountsClears`) and that no run began in the future
  (`RunsBeganInThePast`). A run that sees its own generation again then began
  after the last clear.
- `CacheHitsAreYoung`: `HitAgeBound`. The inductive invariant says that a helper
  reads after its request's clocks were read and that clocks only go forward
  (the monotonic no faster than real time); an entry's age by either clock then
  bounds its age in real time up to what that clock missed.

`RequestRoutingProofs` proves, for any set of frames and of ids:

- `RoutersAgree`: without a repeated key and with strict JSON the two routers
  give the same answer (`OneReading` says that they read the same object, one
  lemma per service that they check it alike).
- `ShimAnswersAsInstalled`, `V9TakesNothing`, `ChangesAlwaysClear`: three of the
  run's invariants. The invariant that is inductive adds that a reply and what
  was asked belong to the frame that is still there. Between the probe, whose
  VPN app fails, and a helper whose app works, `Regular` says what carries over:
  what is asked, and the whole reply when nothing is.
- `TypeCorrect`, and `CacheAnswersAreThisRequests` (`CachedAnswersThisRequest`). The
  property does not say what is in the cache, so the invariant (`KeptInv`) does:
  every entry is a success to its key, with some id, that depends on nothing else
  but what the app did (`IsKept`). One lemma per service (`ReadAnswer`) shows that
  a read the bridge forwards is answered so; `RoutersAgree` carries it to the macOS
  helper. `KeptBody` is the proof's own name for that answer.

`ConnectionControlProofs` proves, for any number of helpers and abandoned
commands, `TypeCorrect`, `AttemptsExclude` (`HolderOnly`), `RefusalsAreCertain`
(`RefusedMeansNotStarted`), `NoTunnelBesideAnother` (`NoSecondTunnel`) and
`NoCommandInDoubt` (`NeverBesideADoubtfulProvider`). One inductive invariant
(`ControlInv`) serves all five. The action properties follow from what each phase
has seen: a helper that gets to `spawn` has found the selected provider
down, and the other one down, absent or misjudged, and what it saw of a tunnel still
holds or somebody else has overtaken it (`SelectedSeen`, `OtherSeen`); and the other's
package is as it was found or has changed since (`OtherPackage`). A provider
that is absent is down and nobody starts it (`AbsentIsDown`), which is what a v2
request relies on instead of a look. What is proved is what the code does: the
sentence of SECURITY.md is the stronger one, which `second_tunnel` refutes. No phase before the command has started
anything (`NotStartedYet`), which is why a refusal is certain.

`ProcessRunnerProofs` proves, for any processes, cap and number of writes,
`TypeCorrect`, `AnswersAreWhole` (`OkIsWhole`), `NothingContainedSurvives`
(`ContainmentHolds`), and `RunIsOneCommand`: the refinement
`ImplementsProviderCommand`. `RunnerInv` adds that what was read and what is still
in the pipe is what was written (`Accounting`), that an end of file is final
because nobody holds the pipe any more (`EndIsFinal`), who is contained when
(`Containment`), and that a failed call is over (`FailedIsOver`). The last two are what
maps every step to one of `ProviderCommand` or to a stutter: a descendant can only
extend the life of a command that is alive.

`AppLaunchProofs` proves, for any number of shims, launch threads and copies of
the app, `TypeCorrect`, `ListenersAreReachable` (`ListenerIsReachable`),
`UpMeansServed` (`ServedWhileUp`) and `LaunchesAreKnown`
(`NeverNotRunningInALaunch`). `LaunchInv` says that a copy past the guard holds it
and that nothing is bound between clearing and binding (`GuardHeld`,
`ClearedIsNone`); that `LAUNCHES` is the number of threads at work
(`LaunchesCounted`), so a covered request finds the launch by the count or by the
lock; and, for a request during which one copy was up, which phases it can be in
and that a fresh connection leads to that copy (`UpIsServed`). That a timeout cannot
refuse such a request needs `ListenerIsReachable`: a copy that hangs is the one at
the socket, so it is not another one that answers.

`SetupInstallerProofs` proves, for any number of setup processes, versions,
interruptions and outside changes, `TypeCorrect`, `HostsCanStart`
(`RegistrationsLaunch`), `ReceiptOwnsEverything` (`EverythingIsOwned`),
`ForeignRegistrationsStay` (`ForeignIsKept`) and `SuccessMeansDone`
(`SuccessIsComplete`). Nothing on the disk says how far an interrupted setup came;
what is true then must be true at every step. `SetupInv` therefore has that the
files are owned at all times (`FilesAreOwned`), and, for the process that has the
lock, what each phase has already seen or written (`HoldsOf`): its journal is the
receipt with its version (`JournalHolds`), it installs what the receipt has and
what it has registered stays but for others' changes (`InstallHolds`), what is left
to remove is in its own list (`UninstallHolds`, `CleanUpHolds`). The others know
nothing, which is why they may not act.

`WindowsInstallerProofs` proves the same five for Windows and `BridgeHasItsHelper`
(`BridgeFindsTheHelper` of `HelperChoice`). The argument is that of Linux with one
manifest for all values: while an uninstall is past the values, none of ours is left
(`UninstallHolds`), so the manifest may go; an install replaces it only by a version
that is complete. `Finished` is the clause for the bridge: a listed version without
its helper is one that the owner of the mutex is working on, or one whose own
install or removal was cut short. `OwnerHolds` also says that, since the checks, a
foreign value is one that others have set meanwhile, which is all that the code, which
does not compare before it writes, can promise.

`ReleasePublishProofs` proves, for any publishers, releases and builds, `TypeCorrect`,
`OffersAreServed` (`DownloadsAreServed`) and `PublishersShareOneCatalog`, the refinement
`ImplementsReleaseCatalog`. A publisher acts on what it saw some requests ago.
`PublishInv` says what is still true of it, whoever published in between: the
catalog it has read is active or was (`PlanHolds`), and as long as it is still active,
the bytes found or created for the next one are in place (`Checked`), since only
releases that the active catalog has withdrawn are removed. Its ETag is what the
activation names, so that the PUT fails if it no longer is (`PlanOf`); the same
is true of PUTs in flight whose publisher gave up (`LatePlansHold`). An activation that goes through is then one `Activate` of
`ReleaseCatalog`, a late one included, and every other request is a `Store`, a
`Remove`, an `Archive` or a stutter.

The proofs assume the named assumptions of the modules and nothing else: `Junk`,
`True` and `None` are none of the real values and `Frame` has frames only; the
TTL, the sleeps, the cap and the bounds are natural numbers, wall steps are
integers; `Nobody` is no helper, `Child` is a process, and ports, launch threads, copies and `None` are
different things; in the installers, `None`, `Foreign`, `Root` and `Hosts` differ from
the processes, versions, browsers and receipts (and from each other where both name
a place), and Windows has the four browsers at most; in the release modules, `None`
is no build, `Absent` no entry, `NoCatalog` no catalog, and what GitHub holds are
releases. `WindowsInstaller` names its two directories by constants: as strings
they could not be told from a version that is a string.

Every invariant and action property that a passing run checks is proved, and so are both
refinements' safety. What remains with TLC is liveness (`EveryRequestAnswered` of the
bridge and of the launch, `LockIsFreed`, `EveryRunEnds`), since fairness and
ENABLED are beyond the prover, and the four properties that the code violates.

## Plan

Done: the core (`BridgeCache`, `RequestRouting`, `ConnectionControl`), the app's
launch, publishing, the Linux and the Windows installer, the helper that the bridge
picks, the process runner; proofs about all of them. Next: the macOS installer,
whose order of writes is its own, and the macOS adapters, whose launch-only
providers and cancelled launches have a state.

## Not modelled

- The vendors' status output and the trust checks query by query: `ConnectionControl`
  has what they may say of an installation (`Verdicts`) and a tunnel. Frames and JSON
  byte by byte. Signatures are assumed to verify what they claim.
- The installers' `check`, which only reads; two sessions of one user on Windows,
  whose `Local\` mutexes are different ones; the macOS installer, and the
  development installer (a developer's tool, run alone).
- The Windows and macOS adapters: `ConnectionControl` is translated from the Linux
  ones, which they follow over other paths and another lock.
- The helper's own loop (one reply per frame, at most 128), and
  `launch_detached`, which starts a desktop app and forgets it.
- Process ids that are used again, in `ProcessRunner`: a kill reaches the group or
  the job it was meant for.
- The extension and the website, the tray UI and the CLI, start at login,
  packaging and signing.
