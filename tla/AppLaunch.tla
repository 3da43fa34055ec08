------------------------------- MODULE AppLaunch -------------------------------
(***************************************************************************)
(* The host shim and the life of the app it talks to (device/src/shim.rs,  *)
(* launch.rs, ipc.rs and bin/anon-guard-host.rs).  Chrome runs one shim    *)
(* process per port.  Its main thread answers requests one at a time and   *)
(* keeps one connection to the app; each v9 openApp gets a thread of its   *)
(* own.  Any number of copies of the app may be started; the guard lock    *)
(* lets one of them bind the per-user socket.                              *)
(*                                                                         *)
(* Versions and reply bytes are left out: what counts is which copy of the *)
(* app a connection leads to, whether it answers, and which of the answers *)
(* a request gets.  The starting lock is a flock or a named mutex.         *)
(***************************************************************************)
EXTENDS Naturals, FiniteSets

CONSTANTS
  Port,         \* shim processes, one per Chrome port; also their main threads
  Asking,       \* bound: the ports that send requests other than openApp
  MaxLaunches,  \* bound: openApp threads of a port at a time
  Copy,         \* bound: processes of the app, ever
  None

ASSUME BoundAssumption == MaxLaunches \in Nat /\ Asking \subseteq Port
Launcher == Port \X (1..MaxLaunches)
Thread == Port \cup Launcher
ASSUME NamesAssumption == None \notin Copy \cup Launcher /\ Port \cap Launcher = {}

PortOf(t) == IF t \in Port THEN t ELSE t[1]

VARIABLES
  runDirOurs,  \* the run directory can be made this user's private one
  deadlines,   \* streams have them: Unix sockets, and not Windows' named pipes
  copies,      \* what each copy of the app is doing
  guard,       \* the copy that holds guard.lock
  socket,      \* the copy that created the socket file, alive or not
  starting,    \* the launch thread that holds the starting lock
  launches,    \* LAUNCHES of each shim process
  conn,        \* LiveHost.conn: the copy a port's kept connection leads to
  pc,          \* where each thread is in shim::respond
  via,         \* the copy the current exchange goes to
  kept,        \* ... over the kept connection
  started,     \* open_app's `started`
  answer,      \* the outcome about to be written
  up,          \* ghost: one copy has answered since the request arrived
  covered      \* ghost: a launch was in progress all the time since then

app    == <<copies, guard, socket>>
ghosts == <<up, covered>>
world  == <<runDirOurs, deadlines>>
core   == <<world, app, starting, launches, conn, pc, via, kept, started, answer>>
vars   == <<core, ghosts>>

CopyState == {"none", "spawned", "locked", "cleared", "serving", "hung", "full", "dead"}
\* Alive and not answering: stopped, deadlocked or in a debugger; and the queue of
\* connections that it does not accept may be full.
Hung == {"hung", "full"}
Phase == {"idle", "state", "forward", "exchange", "connect", "failed",
          "acquire", "launch", "done"}
Answer == {"none", "served", "running", "runningFalse", "starting", "notRunning", "startFailed"}

TypeOK ==
  /\ runDirOurs \in BOOLEAN
  /\ deadlines \in BOOLEAN
  /\ copies \in [Copy -> CopyState]
  /\ guard \in Copy \cup {None}
  /\ socket \in Copy \cup {None}
  /\ starting \in Launcher \cup {None}
  /\ launches \in [Port -> 0..MaxLaunches]
  /\ conn \in [Port -> Copy \cup {None}]
  /\ pc \in [Thread -> Phase]
  /\ via \in [Thread -> Copy \cup {None}]
  /\ kept \in [Thread -> BOOLEAN]
  /\ started \in [Thread -> BOOLEAN]
  /\ answer \in [Thread -> Answer]
  /\ up \in [Thread -> BOOLEAN]
  /\ covered \in [Thread -> BOOLEAN]

Init ==
  /\ runDirOurs \in BOOLEAN
  /\ deadlines \in BOOLEAN
  /\ ~deadlines => runDirOurs  \* a pipe has no directory
  /\ copies = [c \in Copy |-> "none"]
  /\ guard = None
  /\ socket = None
  /\ starting = None
  /\ launches = [p \in Port |-> 0]
  /\ conn = [p \in Port |-> None]
  /\ pc = [t \in Thread |-> "idle"]
  /\ via = [t \in Thread |-> None]
  /\ kept = [t \in Thread |-> FALSE]
  /\ started = [t \in Thread |-> FALSE]
  /\ answer = [t \in Thread |-> "none"]
  /\ up = [t \in Thread |-> FALSE]
  /\ covered = [t \in Thread |-> FALSE]

-----------------------------------------------------------------------------
(* What ipc::connect_within finds.  A copy that serves answers the hello at  *)
(* once; one that is hung lets it time out, if it comes to that.             *)

Listening == socket # None /\ copies[socket] \in {"serving"} \cup Hung
Answers == socket # None /\ copies[socket] = "serving"
Unreachable == ~Listening

\* A hung copy may be waited for, however long it hangs: over a named pipe for its
\* hello, since set_timeouts has no effect; and on a socket for the connection itself,
\* since that comes before set_timeouts and blocks while the queue is full.
Waits == Listening /\ ~Answers /\ (deadlines => copies[socket] = "full")

\* LiveHost::launch_in_progress.  LAUNCHES only falls while the main thread is
\* busy, so reading it just before the lock is as good as reading both at once.
LaunchInProgress(t) == (t \in Port /\ launches[t] > 0) \/ starting # None

\* Some launch that a request on port p has to know of: an openApp that its own
\* port has read and not answered, or a held starting lock.
Launching(p) == starting # None \/ \E l \in Launcher : PortOf(l) = p /\ pc[l] # "idle"

shim == <<starting, launches, conn, pc, via, kept, started, answer>>

-----------------------------------------------------------------------------
(* The app: ipc::bind, then serving until it ends.                         *)

Spawned(c) == copies[c] = "none" /\ copies' = [copies EXCEPT ![c] = "spawned"]

\* Started at login, or by the user.
StartedByUser(c) == Spawned(c) /\ UNCHANGED <<world, guard, socket, shim>>

\* The copy is or becomes gone; the kernel frees its lock and its socket file stays.
Dies(c) ==
  /\ copies' = [copies EXCEPT ![c] = "dead"]
  /\ guard' = IF guard = c THEN None ELSE guard

\* Fault in TakeGuard: the result of flock is not looked at.
TakeGuardAlways(c) ==
  /\ copies[c] = "spawned"
  /\ IF runDirOurs
     THEN guard' = c /\ copies' = [copies EXCEPT ![c] = "locked"]
     ELSE Dies(c)
  /\ UNCHANGED <<world, socket, shim>>

\* flock on guard.lock: taken, or AlreadyRunning (or no usable directory).
TakeGuard(c) ==
  /\ copies[c] = "spawned"
  /\ IF runDirOurs /\ guard = None
     THEN guard' = c /\ copies' = [copies EXCEPT ![c] = "locked"]
     ELSE Dies(c)
  /\ UNCHANGED <<world, socket, shim>>

\* A socket file that is already there belongs to a dead copy.
ClearSocket(c) ==
  /\ copies[c] = "locked"
  /\ socket' = None
  /\ copies' = [copies EXCEPT ![c] = "cleared"]
  /\ UNCHANGED <<world, guard, shim>>

Listen(c) ==
  /\ copies[c] = "cleared"
  /\ IF socket = None
     THEN socket' = c /\ copies' = [copies EXCEPT ![c] = "serving"] /\ UNCHANGED guard
     ELSE Dies(c) /\ UNCHANGED socket
  /\ UNCHANGED <<world, shim>>

\* Quit, crash, or an error before it could listen.
Exit(c) ==
  /\ copies[c] \notin {"none", "dead"}
  /\ Dies(c)
  /\ UNCHANGED <<world, socket, shim>>

Hang(c) ==
  /\ copies[c] = "serving"
  /\ copies' = [copies EXCEPT ![c] = "hung"]
  /\ UNCHANGED <<world, guard, socket, shim>>

\* Connections that shims have given up stay in the queue of a copy that accepts none.
QueueFills(c) ==
  /\ copies[c] = "hung"
  /\ deadlines
  /\ copies' = [copies EXCEPT ![c] = "full"]
  /\ UNCHANGED <<world, guard, socket, shim>>

Resume(c) ==
  /\ copies[c] \in Hung
  /\ copies' = [copies EXCEPT ![c] = "serving"]
  /\ UNCHANGED <<world, guard, socket, shim>>

-----------------------------------------------------------------------------
(* Requests *)

Goto(t, phase) == pc' = [pc EXCEPT ![t] = phase]

Decide(t, a) ==
  /\ Goto(t, "done")
  /\ answer' = [answer EXCEPT ![t] = a]

\* The main thread reads a frame that is answered or relayed, or appStatus.
Arrive(p) ==
  /\ p \in Asking
  /\ pc[p] = "idle"
  /\ \E phase \in {"forward", "state"} : Goto(p, phase)
  /\ UNCHANGED <<world, app, starting, launches, conn, via, kept, started, answer>>

\* Fault in Dispatch: the launch is counted only by its thread, which then finds it
\* uncounted when it ends.
DispatchUncounted(l) ==
  /\ pc[l] = "idle"
  /\ pc[PortOf(l)] = "idle"
  /\ Goto(l, "state")
  /\ UNCHANGED <<world, app, starting, launches, conn, via, kept, started, answer>>

\* ... or openApp: LaunchDispatched before the thread is started.
Dispatch(l) ==
  /\ pc[l] = "idle"
  /\ pc[PortOf(l)] = "idle"
  /\ launches' = [launches EXCEPT ![PortOf(l)] = @ + 1]
  /\ Goto(l, "state")
  /\ UNCHANGED <<world, app, starting, conn, via, kept, started, answer>>

\* LiveHost::app_state, a fresh connection that is not kept.  appStatus is answered by
\* it: running, or not, whatever the reason; openApp goes on if there is no answer.
AppState(t) ==
  /\ pc[t] = "state"
  /\ ~Waits
  /\ IF Answers THEN Decide(t, "running")
     ELSE IF t \in Port THEN Decide(t, "runningFalse")
     ELSE Goto(t, "failed") /\ UNCHANGED answer
  /\ UNCHANGED <<world, app, starting, launches, conn, via, kept, started>>

\* No app to talk to: starting if a launch is in progress; else openApp goes on
\* to start it and a request to forward is told that it is not running.
NoApp(t) ==
  /\ pc[t] = "failed"
  /\ IF LaunchInProgress(t) THEN Decide(t, "starting")
     ELSE IF t \in Port THEN Decide(t, "notRunning")
     ELSE Goto(t, "acquire") /\ UNCHANGED answer
  /\ UNCHANGED <<world, app, starting, launches, conn, via, kept, started>>

\* LiveHost::forward takes the kept connection, if there is one.
Forward(p) ==
  /\ pc[p] = "forward"
  /\ IF conn[p] = None
     THEN Goto(p, "connect") /\ UNCHANGED <<conn, via, kept>>
     ELSE /\ Goto(p, "exchange")
          /\ via' = [via EXCEPT ![p] = conn[p]]
          /\ kept' = [kept EXCEPT ![p] = TRUE]
          /\ conn' = [conn EXCEPT ![p] = None]
  /\ UNCHANGED <<world, app, starting, launches, started, answer>>

Connect(p) ==
  /\ pc[p] = "connect"
  /\ ~Waits
  /\ kept' = [kept EXCEPT ![p] = FALSE]
  /\ IF Answers THEN Goto(p, "exchange") /\ via' = [via EXCEPT ![p] = socket]
                ELSE Goto(p, "failed") /\ via' = [via EXCEPT ![p] = None]
  /\ UNCHANGED <<world, app, starting, launches, conn, started, answer>>

\* The app's connection thread runs the helper and the reply comes back within
\* IO_TIMEOUT (the bridge's wait for a helper that does not end is BridgeCache's); the
\* connection is kept.
Served(p) ==
  /\ pc[p] = "exchange"
  /\ copies[via[p]] = "serving"
  /\ Decide(p, "served")
  /\ conn' = [conn EXCEPT ![p] = via[p]]
  /\ UNCHANGED <<world, app, starting, launches, via, kept, started>>

\* Fault in Broken: a closed connection is given up like one that timed out.
BrokenForGood(p) ==
  /\ pc[p] = "exchange"
  /\ copies[via[p]] = "dead"
  /\ Goto(p, "failed")
  /\ UNCHANGED <<world, app, starting, launches, conn, via, kept, started, answer>>

\* The connection is closed: one fresh connection if it was the kept one.
Broken(p) ==
  /\ pc[p] = "exchange"
  /\ copies[via[p]] = "dead"
  /\ Goto(p, IF kept[p] THEN "connect" ELSE "failed")
  /\ UNCHANGED <<world, app, starting, launches, conn, via, kept, started, answer>>

\* IO_TIMEOUT passes, where there is one: the app is hung, and is not asked again.
TimedOut(p) ==
  /\ pc[p] = "exchange"
  /\ deadlines
  /\ copies[via[p]] \in Hung
  /\ Goto(p, "failed")
  /\ UNCHANGED <<world, app, starting, launches, conn, via, kept, started, answer>>

\* Fault in Write: every reply drops a LaunchDispatched.
WriteDropsAlways(t) ==
  /\ pc[t] = "done"
  /\ Goto(t, "idle")
  /\ launches' = [launches EXCEPT ![PortOf(t)] = @ - 1]
  /\ via' = [via EXCEPT ![t] = None]
  /\ kept' = [kept EXCEPT ![t] = FALSE]
  /\ started' = [started EXCEPT ![t] = FALSE]
  /\ answer' = [answer EXCEPT ![t] = "none"]
  /\ UNCHANGED <<world, app, starting, conn>>

\* The reply is written, for openApp after its LaunchDispatched is dropped.
Write(t) ==
  /\ pc[t] = "done"
  /\ Goto(t, "idle")
  /\ launches' = IF t \in Port THEN launches ELSE [launches EXCEPT ![PortOf(t)] = @ - 1]
  /\ via' = [via EXCEPT ![t] = None]
  /\ kept' = [kept EXCEPT ![t] = FALSE]
  /\ started' = [started EXCEPT ![t] = FALSE]
  /\ answer' = [answer EXCEPT ![t] = "none"]
  /\ UNCHANGED <<world, app, starting, conn>>

-----------------------------------------------------------------------------
(* launch::open_app *)

\* StartingLock::acquire: None while another launch holds it, and also where
\* there is no run directory to lock in.
Acquire(l) ==
  /\ pc[l] = "acquire"
  /\ IF runDirOurs /\ starting = None
     THEN starting' = l /\ Goto(l, "launch") /\ UNCHANGED answer
     ELSE Decide(l, "starting") /\ UNCHANGED starting
  /\ UNCHANGED <<world, app, launches, conn, via, kept, started>>

\* open_app returns and drops the lock.
Opened(l, a) == Decide(l, a) /\ starting' = None

TryAnswered(l) ==
  /\ pc[l] = "launch"
  /\ Answers
  /\ Opened(l, "running")
  /\ UNCHANGED <<world, app, launches, conn, via, kept, started>>

\* start() spawns a copy, once; the iteration may be the last one.
TryStart(l) ==
  /\ pc[l] = "launch"
  /\ Unreachable
  /\ ~started[l]
  /\ \E c \in Copy : Spawned(c)
  /\ started' = [started EXCEPT ![l] = TRUE]
  /\ \/ Opened(l, "startFailed")
     \/ UNCHANGED <<pc, answer, starting>>
  /\ UNCHANGED <<world, guard, socket, launches, conn, via, kept>>

StartFails(l) ==
  /\ pc[l] = "launch"
  /\ Unreachable
  /\ ~started[l]
  /\ Opened(l, "startFailed")
  /\ UNCHANGED <<world, app, launches, conn, via, kept, started>>

\* Fault in Expires: an app that was started is waited for without a deadline.
ExpiresUnlessStarted(l) ==
  /\ pc[l] = "launch"
  /\ Listening /\ ~Answers /\ ~Waits /\ ~started[l]
  /\ Opened(l, "startFailed")
  /\ UNCHANGED <<world, app, launches, conn, via, kept, started>>

\* LAUNCH_WAIT has passed, seen after an attempt that was neither of the above.
Expires(l) ==
  /\ pc[l] = "launch"
  /\ ~Answers /\ ~Waits
  /\ Listening \/ started[l]
  /\ Opened(l, "startFailed")
  /\ UNCHANGED <<world, app, launches, conn, via, kept, started>>

\* Chrome kills the shim: its threads and connection end and the starting lock
\* is freed; the app it may have started is in a session of its own.
PortDies(p) ==
  LET gone == {t \in Thread : PortOf(t) = p}
      Reset(f, v) == [t \in Thread |-> IF t \in gone THEN v ELSE f[t]]
  IN
  /\ \E t \in gone : pc[t] # "idle"
  /\ pc' = Reset(pc, "idle")
  /\ via' = Reset(via, None)
  /\ kept' = Reset(kept, FALSE)
  /\ started' = Reset(started, FALSE)
  /\ answer' = Reset(answer, "none")
  /\ conn' = [conn EXCEPT ![p] = None]
  /\ launches' = [launches EXCEPT ![p] = 0]
  /\ starting' = IF starting \in gone THEN None ELSE starting
  /\ UNCHANGED <<world, app>>

-----------------------------------------------------------------------------

AppStep(c) ==
  \/ StartedByUser(c) \/ TakeGuard(c) \/ ClearSocket(c) \/ Listen(c)
  \/ Exit(c) \/ Hang(c) \/ QueueFills(c) \/ Resume(c)

Request(p) == Forward(p) \/ Connect(p) \/ Served(p) \/ Broken(p) \/ TimedOut(p)
Launch(l) == Acquire(l) \/ TryAnswered(l) \/ TryStart(l) \/ StartFails(l) \/ Expires(l)
Respond(t) == AppState(t) \/ NoApp(t) \/ Write(t)

\* The ghosts follow what every step leaves: they begin with a request and stay
\* true for as long as it does.
History ==
  LET Since(t, prev, holds) == pc'[t] # "idle" /\ holds /\ (pc[t] = "idle" \/ prev)
      InLaunch(t) == t \in Port /\ Launching(PortOf(t))
  IN
  /\ up' = [t \in Thread |-> Since(t, up[t], Answers')]
  /\ covered' = [t \in Thread |-> Since(t, covered[t], InLaunch(t)')]

Next ==
  /\ \/ \E c \in Copy : AppStep(c)
     \/ \E p \in Port : Arrive(p) \/ Request(p) \/ PortDies(p)
     \/ \E l \in Launcher : Dispatch(l) \/ Launch(l)
     \/ \E t \in Thread : Respond(t)
  /\ History

Spec == Init /\ [][Next]_vars

\* A shim thread keeps going when its wait ends: by an answer, by the end of the
\* copy, or by a deadline, LAUNCH_WAIT included, where the wait has one.  The app and
\* whoever starts it owe it nothing.
Progress(t) ==
  \/ Respond(t)
  \/ t \in Port /\ Request(t)
  \/ t \in Launcher /\ (Acquire(t) \/ TryAnswered(t) \/ StartFails(t) \/ Expires(t))

FairSpec == Spec /\ \A t \in Thread : WF_core(Progress(t))

-----------------------------------------------------------------------------
(* Properties *)

\* The copy that listens is the one the socket file leads to, so clearing a stale
\* socket never cuts off a running app ("two copies starting together could each
\* unlink the other's", ipc.rs).
ListenerIsReachable ==
  \A c \in Copy : copies[c] \in {"serving"} \cup Hung => socket = c

\* A request is never refused, and openApp never fails or starts anything, when
\* one copy of the app has answered all the time since the request arrived: not
\* even over a kept connection to a copy that has since been replaced.  (A copy that
\* answers is one whose helper ends in time, too.)
ServedWhileUp ==
  \A t \in Thread : pc[t] = "done" /\ up[t] => answer[t] \in {"served", "running"}

\* A request to be forwarded all of whose time lies within launches, of its own port
\* or of any other, is never told that nothing is happening: "a request queued right
\* behind `openApp` on the same port sees `appStarting` even if it is handled before
\* the thread takes the cross-process starting lock" (shim.rs).  (appStatus is told
\* running:false by info, shim.rs:72, whether or not a launch is in progress.)
NeverNotRunningInALaunch ==
  \A p \in Port : pc[p] = "done" /\ covered[p] => answer[p] # "notRunning"

\* The request waits on a hung copy without a deadline.
HeldUp(t) ==
  \/ pc[t] \in {"state", "connect", "launch"} /\ Waits
  \/ pc[t] = "exchange" /\ ~deadlines /\ copies[via[t]] \in Hung

\* Every request is answered, and so every launch ends, whatever the app does, unless
\* the request is one that a hung app can hold: "named pipes have none [no deadlines],
\* so on Windows a hung app can still hold a request" (ipc.rs:252), and on Unix a full
\* queue holds the connection itself.
EveryRequestAnswered ==
  \A t \in Thread : (pc[t] # "idle") ~> (pc[t] = "idle" \/ HeldUp(t))
=============================================================================
