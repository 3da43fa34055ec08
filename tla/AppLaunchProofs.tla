---------------------------- MODULE AppLaunchProofs ----------------------------
(***************************************************************************)
(* Proofs about AppLaunch, for any number of shims, launch threads and     *)
(* copies of the app: types, with the count of launches; that a listening  *)
(* copy is the one the socket leads to; and what the shim tells a request  *)
(* while one copy is up and while a launch is in progress.                 *)
(***************************************************************************)
EXTENDS AppLaunch, FiniteSetTheorems, TLAPS

-----------------------------------------------------------------------------
(* The inductive invariant *)

Bound == {"locked", "cleared", "serving"} \cup Hung

\* A copy that is past the guard still holds it.
GuardHeld == \A c \in Copy : copies[c] \in Bound => guard = c

\* It clears the socket before it binds its own, and nobody binds in between.
ClearedIsNone == \A c \in Copy : copies[c] = "cleared" => socket = None

AppInv == GuardHeld /\ ClearedIsNone /\ ListenerIsReachable

\* LAUNCHES counts the openApp threads of a port that have not answered.
Busy(p) == {i \in 1..MaxLaunches : pc[<<p, i>>] # "idle"}
LaunchesCounted == \A p \in Port : launches[p] = Cardinality(Busy(p))

\* An exchange is over some connection, and only requests on a port have one.
ExchangeHasCopy == \A t \in Thread : pc[t] = "exchange" => via[t] \in Copy

\* While one copy has answered all the time, no path leads to a refusal: a fresh
\* connection leads to that copy, and a kept one to it or to a dead one.
UpIsServed ==
  \A t \in Thread : up[t] =>
    /\ Answers
    /\ pc[t] \in {"state", "forward", "exchange", "connect", "done"}
    /\ pc[t] = "exchange" /\ ~kept[t] => via[t] = socket
    /\ pc[t] = "done" => answer[t] \in {"served", "running"}

\* What is covered is covered now, and no answer has said otherwise.
CoveredIsKnown ==
  \A p \in Port : covered[p] =>
    /\ Launching(p)
    /\ pc[p] = "done" => answer[p] # "notRunning"

LaunchInv ==
  /\ TypeOK /\ AppInv /\ LaunchesCounted /\ ExchangeHasCopy
  /\ UpIsServed /\ CoveredIsKnown

-----------------------------------------------------------------------------
(* Threads and their ports *)

LEMMA Threads ==
  /\ \A p \in Port : p \in Thread /\ p \notin Launcher /\ PortOf(p) = p
  /\ \A l \in Launcher : /\ l \in Thread /\ l \notin Port /\ PortOf(l) \in Port
                         /\ l[2] \in 1..MaxLaunches /\ l = <<PortOf(l), l[2]>>
  /\ \A p \in Port, i \in 1..MaxLaunches : <<p, i>> \in Launcher /\ PortOf(<<p, i>>) = p
<1>1. \A p \in Port : p \in Thread /\ p \notin Launcher /\ PortOf(p) = p
  BY NamesAssumption DEF Thread, PortOf
<1>2. \A l \in Launcher : l \in Thread /\ l \notin Port /\ PortOf(l) = l[1]
  BY NamesAssumption DEF Thread, PortOf
<1>3. \A l \in Launcher : l[1] \in Port /\ l[2] \in 1..MaxLaunches /\ l = <<l[1], l[2]>>
  BY DEF Launcher
<1>4. \A p \in Port, i \in 1..MaxLaunches : <<p, i>> \in Launcher
  BY DEF Launcher
<1>5. QED BY <1>1, <1>2, <1>3, <1>4

\* A count of launches is within its bound.
LEMMA CountsAreBounded ==
  \A S \in SUBSET (1..MaxLaunches) : IsFiniteSet(S) /\ Cardinality(S) \in 0..MaxLaunches
<1> SUFFICES ASSUME NEW S \in SUBSET (1..MaxLaunches)
             PROVE  IsFiniteSet(S) /\ Cardinality(S) \in 0..MaxLaunches
  OBVIOUS
<1>1. IsFiniteSet(1..MaxLaunches) /\ Cardinality(1..MaxLaunches) = MaxLaunches
  BY FS_Interval, BoundAssumption
<1>2. IsFiniteSet(S) /\ Cardinality(S) <= MaxLaunches BY <1>1, FS_Subset
<1>3. Cardinality(S) \in Nat BY <1>2, FS_CardinalityType
<1>4. QED BY <1>2, <1>3, BoundAssumption

LEMMA InitInv == Init => LaunchInv
<1> SUFFICES ASSUME Init PROVE LaunchInv OBVIOUS
<1> USE DEF Init
<1>1. TypeOK
  BY BoundAssumption DEF TypeOK, CopyState, Phase, Answer
<1>2. AppInv
  BY DEF AppInv, GuardHeld, Bound, Hung, ClearedIsNone, ListenerIsReachable
<1>3. LaunchesCounted
  <2>1. \A p \in Port : Busy(p) = {} BY Threads DEF Busy
  <2>2. QED BY <2>1, FS_EmptySet DEF LaunchesCounted
<1>4. ExchangeHasCopy BY DEF ExchangeHasCopy
<1>5. UpIsServed BY DEF UpIsServed
<1>6. CoveredIsKnown BY Threads DEF CoveredIsKnown
<1>7. QED BY <1>1, <1>2, <1>3, <1>4, <1>5, <1>6 DEF LaunchInv

-----------------------------------------------------------------------------
(* The app and its socket *)

\* What a shim does to the app is at most to spawn a copy.
LEMMA ShimLeavesApp ==
  /\ \A p \in Port : Arrive(p) \/ Request(p) \/ PortDies(p) => UNCHANGED app
  /\ \A t \in Thread : Respond(t) => UNCHANGED app
  /\ \A l \in Launcher : Dispatch(l) \/ Launch(l) =>
       UNCHANGED app \/ ((\E c \in Copy : Spawned(c)) /\ UNCHANGED <<guard, socket>>)
<1>1. \A p \in Port : Arrive(p) \/ PortDies(p) => UNCHANGED app BY DEF Arrive, PortDies
<1>2. \A p \in Port : Request(p) => UNCHANGED app
  BY DEF Request, Forward, Connect, Served, Broken, TimedOut
<1>3. \A t \in Thread : Respond(t) => UNCHANGED app BY DEF Respond, AppState, NoApp, Write
<1>4. \A l \in Launcher : Dispatch(l) \/ Acquire(l) \/ TryAnswered(l) \/ StartFails(l) \/ Expires(l)
                            => UNCHANGED app
  BY DEF Dispatch, Acquire, TryAnswered, StartFails, Expires
<1>5. \A l \in Launcher : TryStart(l) => (\E c \in Copy : Spawned(c)) /\ UNCHANGED <<guard, socket>>
  BY DEF TryStart
<1>6. QED BY <1>1, <1>2, <1>3, <1>4, <1>5 DEF Launch

LEMMA AppStepKeepsApp ==
  ASSUME TypeOK, AppInv, NEW c \in Copy,
         AppStep(c) \/ (Spawned(c) /\ UNCHANGED <<guard, socket>>)
  PROVE  /\ AppInv'
         /\ copies' \in [Copy -> CopyState] /\ guard' \in Copy \cup {None}
         /\ socket' \in Copy \cup {None}
<1> USE NamesAssumption DEF TypeOK, AppInv, GuardHeld, Bound, ClearedIsNone, ListenerIsReachable,
                            CopyState, Hung
<1>1. CASE Spawned(c) /\ UNCHANGED <<guard, socket>> BY <1>1 DEF Spawned
<1>2. CASE StartedByUser(c) BY <1>2 DEF StartedByUser, Spawned
<1>3. CASE TakeGuard(c) BY <1>3 DEF TakeGuard, Dies
<1>4. CASE ClearSocket(c) BY <1>4 DEF ClearSocket
<1>5. CASE Listen(c) BY <1>5 DEF Listen, Dies
<1>6. CASE Exit(c) BY <1>6 DEF Exit, Dies
<1>7. CASE Hang(c) \/ QueueFills(c) \/ Resume(c) BY <1>7 DEF Hang, QueueFills, Resume
<1>8. QED BY <1>1, <1>2, <1>3, <1>4, <1>5, <1>6, <1>7 DEF AppStep

LEMMA AppPart ==
  ASSUME LaunchInv, Next
  PROVE  /\ AppInv' /\ runDirOurs' \in BOOLEAN /\ deadlines' \in BOOLEAN
         /\ copies' \in [Copy -> CopyState] /\ guard' \in Copy \cup {None}
         /\ socket' \in Copy \cup {None}
<1>1. TypeOK /\ AppInv BY DEF LaunchInv
<1>2. runDirOurs' \in BOOLEAN /\ deadlines' \in BOOLEAN
  <2>1. UNCHANGED world
    BY DEF Next, AppStep, StartedByUser, TakeGuard, ClearSocket, Listen, Exit, Hang, QueueFills, Resume,
           Arrive, Request, Forward, Connect, Served, Broken, TimedOut, PortDies, Dispatch, Launch, Acquire,
           TryAnswered, TryStart, StartFails, Expires, Respond, AppState, NoApp, Write
  <2>2. QED BY <1>1, <2>1 DEF world, TypeOK
<1>3. CASE UNCHANGED app
  BY <1>1, <1>2, <1>3 DEF app, TypeOK, AppInv, GuardHeld, ClearedIsNone, ListenerIsReachable
<1>4. CASE \E c \in Copy : AppStep(c) \/ (Spawned(c) /\ UNCHANGED <<guard, socket>>)
  BY <1>1, <1>2, <1>4, AppStepKeepsApp
<1>5. QED BY <1>3, <1>4, ShimLeavesApp DEF Next

-----------------------------------------------------------------------------
(* The threads of the shims *)

\* What a thread holds between its steps.
ThreadTypes ==
  /\ starting \in Launcher \cup {None}
  /\ conn \in [Port -> Copy \cup {None}]
  /\ pc \in [Thread -> Phase]
  /\ via \in [Thread -> Copy \cup {None}]
  /\ kept \in [Thread -> BOOLEAN]
  /\ started \in [Thread -> BOOLEAN]
  /\ answer \in [Thread -> Answer]
  /\ ExchangeHasCopy

LEMMA RequestTypes ==
  ASSUME ThreadTypes, socket \in Copy \cup {None}, NEW p \in Port, Arrive(p) \/ Request(p)
  PROVE  ThreadTypes'
<1> USE Threads DEF ThreadTypes, ExchangeHasCopy, Phase, Answer, Goto, Decide
<1>1. CASE Arrive(p)
  <2>1. pc' = [pc EXCEPT ![p] = "forward"] \/ pc' = [pc EXCEPT ![p] = "state"]
    BY <1>1 DEF Arrive
  <2>2. UNCHANGED <<starting, conn, via, kept, started, answer>> BY <1>1 DEF Arrive
  <2>3. QED BY <2>1, <2>2
<1>2. CASE Forward(p)
  <2>1. UNCHANGED <<starting, started, answer>> BY <1>2 DEF Forward
  <2>2. CASE conn[p] = None
    <3>1. pc' = [pc EXCEPT ![p] = "connect"] /\ UNCHANGED <<conn, via, kept>>
      BY <1>2, <2>2 DEF Forward
    <3>2. QED BY <2>1, <3>1
  <2>3. CASE conn[p] # None
    <3>1. /\ pc' = [pc EXCEPT ![p] = "exchange"] /\ via' = [via EXCEPT ![p] = conn[p]]
          /\ kept' = [kept EXCEPT ![p] = TRUE] /\ conn' = [conn EXCEPT ![p] = None]
      BY <1>2, <2>3 DEF Forward
    <3>2. QED BY <2>1, <2>3, <3>1
  <2>4. QED BY <2>2, <2>3
<1>3. CASE Connect(p) BY <1>3 DEF Connect, Answers
<1>4. CASE Served(p) BY <1>4 DEF Served
<1>5. CASE Broken(p) BY <1>5 DEF Broken
<1>6. CASE TimedOut(p) BY <1>6 DEF TimedOut
<1>7. QED BY <1>1, <1>2, <1>3, <1>4, <1>5, <1>6 DEF Request

LEMMA LaunchTypes ==
  ASSUME ThreadTypes, NEW l \in Launcher, Dispatch(l) \/ Launch(l)
  PROVE  ThreadTypes'
<1> USE Threads DEF ThreadTypes, ExchangeHasCopy, Phase, Answer, Goto, Decide, Opened
<1>1. CASE Dispatch(l) BY <1>1 DEF Dispatch
<1>2. CASE Acquire(l) BY <1>2 DEF Acquire
<1>3. CASE TryAnswered(l) BY <1>3 DEF TryAnswered
<1>4. CASE TryStart(l) BY <1>4 DEF TryStart
<1>5. CASE StartFails(l) BY <1>5 DEF StartFails
<1>6. CASE Expires(l) BY <1>6 DEF Expires
<1>7. QED BY <1>1, <1>2, <1>3, <1>4, <1>5, <1>6 DEF Launch

LEMMA RespondTypes ==
  ASSUME ThreadTypes, NEW t \in Thread, Respond(t)
  PROVE  ThreadTypes'
<1> USE DEF ThreadTypes, ExchangeHasCopy, Phase, Answer, Goto, Decide
<1>1. CASE AppState(t) BY <1>1 DEF AppState
<1>2. CASE NoApp(t) BY <1>2 DEF NoApp
<1>3. CASE Write(t) BY <1>3 DEF Write
<1>4. QED BY <1>1, <1>2, <1>3 DEF Respond

\* A shim that ends takes all of its threads with it and no other.
LEMMA PortDiesEffect ==
  ASSUME ThreadTypes, NEW p \in Port, PortDies(p)
  PROVE  /\ ThreadTypes'
         /\ \A t \in Thread :
              IF PortOf(t) = p THEN pc'[t] = "idle"
              ELSE pc'[t] = pc[t] /\ via'[t] = via[t] /\ kept'[t] = kept[t] /\ answer'[t] = answer[t]
         /\ launches' = [launches EXCEPT ![p] = 0]
         /\ starting' = IF starting \in Thread /\ PortOf(starting) = p THEN None ELSE starting
         /\ UNCHANGED <<world, app>>
<1> USE DEF ThreadTypes, ExchangeHasCopy, Phase, Answer
<1>1. /\ pc' = [t \in Thread |-> IF PortOf(t) = p THEN "idle" ELSE pc[t]]
      /\ via' = [t \in Thread |-> IF PortOf(t) = p THEN None ELSE via[t]]
      /\ kept' = [t \in Thread |-> IF PortOf(t) = p THEN FALSE ELSE kept[t]]
      /\ started' = [t \in Thread |-> IF PortOf(t) = p THEN FALSE ELSE started[t]]
      /\ answer' = [t \in Thread |-> IF PortOf(t) = p THEN "none" ELSE answer[t]]
  BY Zenon DEF PortDies
<1>2. /\ conn' = [conn EXCEPT ![p] = None]
      /\ launches' = [launches EXCEPT ![p] = 0]
      /\ starting' = IF starting \in Thread /\ PortOf(starting) = p THEN None ELSE starting
      /\ UNCHANGED <<world, app>>
  BY DEF PortDies
<1>3. QED BY <1>1, <1>2

\* What thread t does of its own.
OwnStep(t) ==
  \/ t \in Port /\ (Arrive(t) \/ Request(t))
  \/ t \in Launcher /\ (Dispatch(t) \/ Launch(t))
  \/ Respond(t)

LEMMA StepsAreWhose ==
  ASSUME Next
  PROVE  \/ \E c \in Copy : AppStep(c)
         \/ \E t \in Thread : OwnStep(t)
         \/ \E p \in Port : PortDies(p)
BY Threads DEF Next, OwnStep

LEMMA AppStepsLeaveShims ==
  ASSUME NEW c \in Copy, AppStep(c)
  PROVE  UNCHANGED shim
BY DEF AppStep, StartedByUser, TakeGuard, ClearSocket, Listen, Exit, Hang, QueueFills, Resume

LEMMA OwnStepIsOwn ==
  ASSUME ThreadTypes, NEW t \in Thread, OwnStep(t)
  PROVE  \A s \in Thread \ {t} :
           pc'[s] = pc[s] /\ via'[s] = via[s] /\ kept'[s] = kept[s] /\ answer'[s] = answer[s]
<1> USE DEF ThreadTypes, Goto, Decide, Opened
<1>1. CASE Arrive(t) BY <1>1 DEF Arrive
<1>2. CASE Forward(t) BY <1>2 DEF Forward
<1>3. CASE Connect(t) BY <1>3 DEF Connect
<1>4. CASE Served(t) \/ Broken(t) \/ TimedOut(t) BY <1>4 DEF Served, Broken, TimedOut
<1>5. CASE Dispatch(t) \/ Acquire(t) BY <1>5 DEF Dispatch, Acquire
<1>6. CASE TryAnswered(t) \/ TryStart(t) BY <1>6 DEF TryAnswered, TryStart
<1>7. CASE StartFails(t) \/ Expires(t) BY <1>7 DEF StartFails, Expires
<1>8. CASE AppState(t) BY <1>8 DEF AppState
<1>9. CASE NoApp(t) \/ Write(t) BY <1>9 DEF NoApp, Write
<1>10. QED
  BY <1>1, <1>2, <1>3, <1>4, <1>5, <1>6, <1>7, <1>8, <1>9 DEF OwnStep, Request, Launch, Respond

\* A request is not over before it is written, and begins with one of two phases.
LEMMA OwnPhases ==
  ASSUME ThreadTypes, NEW t \in Thread, OwnStep(t)
  PROVE  /\ pc[t] = "idle" => /\ pc'[t] \in {"forward", "state"}
                              /\ (t \in Port /\ Arrive(t)) \/ (t \in Launcher /\ Dispatch(t))
         /\ pc'[t] = "idle" => Write(t)
<1> USE DEF ThreadTypes, Goto, Decide, Opened
<1>1. CASE t \in Port /\ Arrive(t) BY <1>1 DEF Arrive
<1>2. CASE Forward(t) BY <1>2 DEF Forward
<1>3. CASE Connect(t) BY <1>3 DEF Connect
<1>4. CASE Served(t) \/ Broken(t) \/ TimedOut(t) BY <1>4 DEF Served, Broken, TimedOut
<1>5. CASE t \in Launcher /\ Dispatch(t) BY <1>5 DEF Dispatch
<1>6. CASE Acquire(t) BY <1>6 DEF Acquire
<1>7. CASE TryAnswered(t) \/ TryStart(t) BY <1>7 DEF TryAnswered, TryStart
<1>8. CASE StartFails(t) \/ Expires(t) BY <1>8 DEF StartFails, Expires
<1>9. CASE AppState(t) BY <1>9 DEF AppState
<1>10. CASE NoApp(t) BY <1>10 DEF NoApp
<1>11. CASE Write(t) BY <1>11 DEF Write
<1>12. QED
  BY <1>1, <1>2, <1>3, <1>4, <1>5, <1>6, <1>7, <1>8, <1>9, <1>10, <1>11
     DEF OwnStep, Request, Launch, Respond

-----------------------------------------------------------------------------
(* The count of launches *)

LEMMA SameBusySameCount ==
  ASSUME LaunchesCounted, UNCHANGED launches,
         \A l \in Launcher : pc'[l] = "idle" <=> pc[l] = "idle"
  PROVE  LaunchesCounted'
<1>1. \A p \in Port : Busy(p)' = Busy(p)
  BY Threads DEF Busy
<1>2. QED BY <1>1 DEF LaunchesCounted

LEMMA CountingPart ==
  ASSUME TypeOK, ThreadTypes, LaunchesCounted, Next
  PROVE  LaunchesCounted' /\ launches' \in [Port -> Int]
<1>0. launches \in [Port -> Int] BY BoundAssumption DEF TypeOK
<1>1. CASE \E c \in Copy : AppStep(c)
  <2>1. UNCHANGED <<launches, pc>> BY <1>1, AppStepsLeaveShims DEF shim
  <2>2. QED BY <1>0, <2>1, SameBusySameCount
<1>2. CASE \E p \in Port : PortDies(p)
  <2>1. PICK p \in Port : PortDies(p) BY <1>2
  <2>2. launches' = [launches EXCEPT ![p] = 0] BY <2>1, PortDiesEffect
  <2>3. \A l \in Launcher : IF PortOf(l) = p THEN pc'[l] = "idle" ELSE pc'[l] = pc[l]
    BY <2>1, PortDiesEffect, Threads
  <2>4. Busy(p)' = {} BY <2>3, Threads DEF Busy
  <2>5. \A q \in Port \ {p} : Busy(q)' = Busy(q) BY <2>3, Threads DEF Busy
  <2>6. QED BY <1>0, <2>2, <2>4, <2>5, FS_EmptySet DEF LaunchesCounted
<1>3. CASE \E t \in Thread : OwnStep(t)
  <2>1. PICK t \in Thread : OwnStep(t) BY <1>3
  <2>2. \A s \in Thread \ {t} : pc'[s] = pc[s] BY <2>1, OwnStepIsOwn
  <2>3. CASE t \in Launcher /\ (Dispatch(t) \/ Write(t))
    <3> DEFINE p == PortOf(t)
               i == t[2]
    <3>1. p \in Port /\ i \in 1..MaxLaunches /\ t = <<p, i>> /\ t \notin Port BY <2>3, Threads
    <3>2. \A q \in Port \ {p} : Busy(q)' = Busy(q)
      BY <2>2, <3>1, Threads DEF Busy
    <3>3. \A j \in (1..MaxLaunches) \ {i} : pc'[<<p, j>>] = pc[<<p, j>>]
      BY <2>2, <3>1, Threads
    <3>4. IsFiniteSet(Busy(p)) /\ launches[p] = Cardinality(Busy(p))
      <4>1. Busy(p) \in SUBSET (1..MaxLaunches) BY DEF Busy
      <4>2. QED BY <3>1, <4>1, CountsAreBounded DEF LaunchesCounted
    <3>5. CASE Dispatch(t)
      <4>1. /\ pc[<<p, i>>] = "idle" /\ pc'[<<p, i>>] = "state"
            /\ launches' = [launches EXCEPT ![p] = @ + 1]
        BY <3>1, <3>5 DEF Dispatch, Goto, ThreadTypes
      <4> HIDE DEF p, i
      <4>2. Busy(p)' = Busy(p) \cup {i} /\ i \notin Busy(p) BY <3>1, <3>3, <4>1 DEF Busy
      <4>3. Cardinality(Busy(p)') = Cardinality(Busy(p)) + 1 BY <3>4, <4>2, FS_AddElement
      <4>4. QED BY <1>0, <3>1, <3>2, <3>4, <4>1, <4>3 DEF LaunchesCounted
    <3>6. CASE Write(t)
      <4>1. /\ pc[<<p, i>>] # "idle" /\ pc'[<<p, i>>] = "idle"
            /\ launches' = [launches EXCEPT ![p] = @ - 1]
        BY <3>1, <3>6 DEF Write, Goto, ThreadTypes
      <4> HIDE DEF p, i
      <4>2. Busy(p)' = Busy(p) \ {i} /\ i \in Busy(p) BY <3>1, <3>3, <4>1 DEF Busy
      <4>3. Cardinality(Busy(p)') = Cardinality(Busy(p)) - 1 BY <3>4, <4>2, FS_RemoveElement
      <4>4. QED BY <1>0, <3>1, <3>2, <3>4, <4>1, <4>3 DEF LaunchesCounted
    <3>7. QED BY <2>3, <3>5, <3>6
  <2>4. CASE ~(t \in Launcher /\ (Dispatch(t) \/ Write(t)))
    <3>1. UNCHANGED launches
      <4>1. t \notin Launcher => t \in Port BY DEF Thread
      <4>2. QED
        BY <2>1, <2>4, <4>1
           DEF OwnStep, Arrive, Request, Forward, Connect, Served, Broken, TimedOut, Launch, Acquire,
               TryAnswered, TryStart, StartFails, Expires, Respond, AppState, NoApp, Write
    <3>2. t \in Launcher => pc[t] # "idle" /\ pc'[t] # "idle"
      BY <2>1, <2>4, OwnPhases, Threads
    <3>3. \A l \in Launcher : pc'[l] = "idle" <=> pc[l] = "idle"
      BY <2>2, <3>2, Threads
    <3>4. QED BY <1>0, <3>1, <3>3, SameBusySameCount
  <2>5. QED BY <2>3, <2>4
<1>4. QED BY <1>1, <1>2, <1>3, StepsAreWhose
-----------------------------------------------------------------------------
(* What a request is told *)

\* The ghosts go on only with their request and what they follow.
LEMMA GhostsFollow ==
  ASSUME TypeOK, Next
  PROVE  /\ up' \in [Thread -> BOOLEAN] /\ covered' \in [Thread -> BOOLEAN]
         /\ \A t \in Thread : up'[t] =>
              pc'[t] # "idle" /\ Answers' /\ (pc[t] = "idle" \/ up[t])
         /\ \A p \in Port : covered'[p] =>
              pc'[p] # "idle" /\ Launching(p)' /\ (pc[p] = "idle" \/ covered[p])
<1> DEFINE Since(t, prev, holds) == pc'[t] # "idle" /\ holds /\ (pc[t] = "idle" \/ prev)
           InLaunch(t) == t \in Port /\ Launching(PortOf(t))
<1>1. History BY DEF Next
<1>2. /\ up' = [t \in Thread |-> Since(t, up[t], Answers')]
      /\ covered' = [t \in Thread |-> Since(t, covered[t], InLaunch(t)')]
  BY <1>1, Zenon DEF History
<1>3. up' \in [Thread -> BOOLEAN] /\ covered' \in [Thread -> BOOLEAN]
  <2>1. \A t \in Thread : Since(t, up[t], Answers') \in BOOLEAN BY Zenon
  <2>2. \A t \in Thread : Since(t, covered[t], InLaunch(t)') \in BOOLEAN BY Zenon
  <2> HIDE DEF Since
  <2>3. QED BY <1>2, <2>1, <2>2
<1>4. \A t \in Thread : up'[t] = Since(t, up[t], Answers') BY <1>2, Zenon
<1>5. \A p \in Port : covered'[p] = Since(p, covered[p], InLaunch(p)') BY <1>2, Threads, Zenon
<1>6. \A p \in Port : PortOf(p) = p BY Threads
<1>7. QED BY <1>3, <1>4, <1>5, <1>6, Zenon

\* While a copy answers and goes on to, the socket leads to it.
LEMMA SocketStays ==
  ASSUME TypeOK, AppInv, Next, Answers, Answers'
  PROVE  UNCHANGED socket
<1>1. CASE UNCHANGED app BY <1>1 DEF app
<1>2. CASE \E c \in Copy : Spawned(c) /\ UNCHANGED <<guard, socket>> BY <1>2
<1>3. CASE \E c \in Copy : AppStep(c)
  <2>1. PICK c \in Copy : AppStep(c) BY <1>3
  <2>2. ~ClearSocket(c) BY DEF ClearSocket, Answers
  <2>3. Listen(c) => UNCHANGED socket
    BY DEF Listen, AppInv, ClearedIsNone, Answers
  <2>4. QED
    BY <2>1, <2>2, <2>3 DEF AppStep, StartedByUser, TakeGuard, Exit, Hang, QueueFills, Resume
<1>4. QED BY <1>1, <1>2, <1>3, ShimLeavesApp DEF Next

LEMMA UpPart ==
  ASSUME LaunchInv, ThreadTypes, Next
  PROVE  UpIsServed'
<1>0. TypeOK /\ AppInv /\ UpIsServed /\ ExchangeHasCopy BY DEF LaunchInv
<1> SUFFICES ASSUME NEW t \in Thread, up'[t]
             PROVE  /\ Answers'
                    /\ pc'[t] \in {"state", "forward", "exchange", "connect", "done"}
                    /\ pc'[t] = "exchange" /\ ~kept'[t] => via'[t] = socket'
                    /\ pc'[t] = "done" => answer'[t] \in {"served", "running"}
  BY DEF UpIsServed
<1>1. pc'[t] # "idle" /\ Answers' /\ (pc[t] = "idle" \/ up[t]) BY <1>0, GhostsFollow
<1>2. CASE ~OwnStep(t)
  <2>1. pc'[t] = pc[t] /\ via'[t] = via[t] /\ kept'[t] = kept[t] /\ answer'[t] = answer[t]
    <3>1. CASE \E c \in Copy : AppStep(c) BY <3>1, AppStepsLeaveShims DEF shim
    <3>2. CASE \E s \in Thread : OwnStep(s) BY <1>2, <3>2, OwnStepIsOwn
    <3>3. CASE \E p \in Port : PortDies(p) BY <1>1, <3>3, PortDiesEffect
    <3>4. QED BY <3>1, <3>2, <3>3, StepsAreWhose
  <2>2. up[t] BY <1>1, <2>1
  <2>3. UNCHANGED socket BY <1>0, <1>1, <2>2, SocketStays DEF UpIsServed
  <2>4. QED BY <1>0, <1>1, <2>1, <2>2, <2>3 DEF UpIsServed
<1>3. CASE OwnStep(t) /\ pc[t] = "idle" BY <1>1, <1>3, OwnPhases
<1>4. CASE OwnStep(t) /\ pc[t] # "idle"
  <2>1. up[t] BY <1>1, <1>4
  <2>2. /\ Answers /\ UNCHANGED socket
        /\ pc[t] \in {"state", "forward", "exchange", "connect", "done"}
        /\ pc[t] = "exchange" /\ ~kept[t] => via[t] = socket
    BY <1>0, <1>1, <2>1, SocketStays DEF UpIsServed
  <2> USE DEF ThreadTypes, Goto, Decide
  <2>3. CASE AppState(t) BY <1>1, <2>2, <2>3 DEF AppState
  <2>4. CASE Forward(t) BY <1>1, <2>2, <2>4 DEF Forward
  <2>5. CASE Connect(t) BY <1>1, <2>2, <2>5 DEF Connect
  <2>6. CASE Served(t) BY <1>1, <2>6 DEF Served
  <2>7. CASE Broken(t) BY <1>1, <2>2, <2>7 DEF Broken, Answers
  <2>8. ~TimedOut(t)
    <3>1. SUFFICES ASSUME TimedOut(t) PROVE FALSE OBVIOUS
    <3>2. via[t] \in Copy /\ copies[via[t]] \in Hung
      BY <1>0, <3>1 DEF TimedOut, ExchangeHasCopy
    <3>3. socket \in Copy /\ copies[socket] = "serving"
      BY <1>0, <2>2 DEF Answers, TypeOK
    <3>4. QED BY <1>0, <3>2, <3>3 DEF AppInv, ListenerIsReachable, Hung
  <2>9. ~NoApp(t) /\ ~Write(t) /\ ~Launch(t)
    <3>1. ~Write(t) BY <1>1 DEF Write
    <3>2. ~NoApp(t) /\ ~Launch(t)
      BY <2>2 DEF NoApp, Launch, Acquire, TryAnswered, TryStart, StartFails, Expires
    <3>3. QED BY <3>1, <3>2
  <2>10. ~Arrive(t) /\ ~Dispatch(t) BY <1>4 DEF Arrive, Dispatch
  <2>11. QED
    BY <1>4, <2>3, <2>4, <2>5, <2>6, <2>7, <2>8, <2>9, <2>10 DEF OwnStep, Request, Respond
<1>5. QED BY <1>2, <1>3, <1>4

\* A port that is in a launch finds it out: by its count or by the starting lock.
LEMMA LaunchIsSeen ==
  ASSUME TypeOK, LaunchesCounted, NEW p \in Port, Launching(p)
  PROVE  LaunchInProgress(p)
<1>1. CASE starting # None BY <1>1 DEF LaunchInProgress
<1>2. CASE \E l \in Launcher : PortOf(l) = p /\ pc[l] # "idle"
  <2>1. Busy(p) # {} BY <1>2, Threads DEF Busy
  <2>2. Cardinality(Busy(p)) \in Nat \ {0}
    <3>1. Busy(p) \in SUBSET (1..MaxLaunches) BY DEF Busy
    <3>2. QED BY <2>1, <3>1, CountsAreBounded, BoundAssumption, FS_EmptySet
  <2>3. QED BY <2>2 DEF LaunchInProgress, LaunchesCounted
<1>3. QED BY <1>1, <1>2 DEF Launching

LEMMA CoveredPart ==
  ASSUME LaunchInv, ThreadTypes, Next
  PROVE  CoveredIsKnown'
<1>0. TypeOK /\ LaunchesCounted /\ CoveredIsKnown BY DEF LaunchInv
<1> SUFFICES ASSUME NEW p \in Port, covered'[p]
             PROVE  Launching(p)' /\ (pc'[p] = "done" => answer'[p] # "notRunning")
  BY DEF CoveredIsKnown
<1>1. /\ p \in Thread /\ p \notin Launcher
      /\ pc'[p] # "idle" /\ Launching(p)' /\ (pc[p] = "idle" \/ covered[p])
  BY <1>0, GhostsFollow, Threads
<1>2. CASE ~OwnStep(p)
  <2>1. pc'[p] = pc[p] /\ answer'[p] = answer[p]
    <3>1. CASE \E c \in Copy : AppStep(c) BY <3>1, AppStepsLeaveShims DEF shim
    <3>2. CASE \E s \in Thread : OwnStep(s) BY <1>1, <1>2, <3>2, OwnStepIsOwn
    <3>3. CASE \E q \in Port : PortDies(q) BY <1>1, <3>3, PortDiesEffect
    <3>4. QED BY <3>1, <3>2, <3>3, StepsAreWhose
  <2>2. QED BY <1>0, <1>1, <2>1 DEF CoveredIsKnown
<1>3. CASE OwnStep(p) /\ pc[p] = "idle" BY <1>1, <1>3, OwnPhases
<1>4. CASE OwnStep(p) /\ pc[p] # "idle"
  <2>1. LaunchInProgress(p) BY <1>0, <1>1, <1>4, LaunchIsSeen DEF CoveredIsKnown
  <2> USE <1>1 DEF ThreadTypes, Goto, Decide
  <2>2. CASE AppState(p) BY <2>2 DEF AppState
  <2>3. CASE NoApp(p) BY <2>1, <2>3 DEF NoApp
  <2>4. CASE Request(p)
    BY <2>4 DEF Request, Forward, Connect, Served, Broken, TimedOut
  <2>5. ~Write(p) BY DEF Write
  <2>6. ~Arrive(p) BY <1>4 DEF Arrive
  <2>7. QED BY <1>4, <2>2, <2>3, <2>4, <2>5, <2>6 DEF OwnStep, Respond
<1>5. QED BY <1>2, <1>3, <1>4

-----------------------------------------------------------------------------
(* The theorems *)

LEMMA NextKeepsInv == LaunchInv /\ [Next]_vars => LaunchInv'
<1> SUFFICES ASSUME LaunchInv, [Next]_vars PROVE LaunchInv' OBVIOUS
<1>1. CASE UNCHANGED vars
  BY <1>1 DEF vars, core, ghosts, world, app, LaunchInv, TypeOK, AppInv, GuardHeld, ClearedIsNone,
              ListenerIsReachable, LaunchesCounted, Busy, ExchangeHasCopy, UpIsServed, Answers,
              CoveredIsKnown, Launching
<1>2. CASE Next
  <2>1. TypeOK /\ AppInv /\ LaunchesCounted /\ ExchangeHasCopy BY DEF LaunchInv
  <2>2. ThreadTypes BY <2>1 DEF ThreadTypes, TypeOK
  <2>3. ThreadTypes'
    <3>1. CASE \E c \in Copy : AppStep(c)
      BY <2>2, <3>1, AppStepsLeaveShims DEF shim, ThreadTypes, ExchangeHasCopy
    <3>2. CASE \E t \in Thread : OwnStep(t)
      BY <2>1, <2>2, <3>2, RequestTypes, LaunchTypes, RespondTypes DEF OwnStep, TypeOK
    <3>3. CASE \E p \in Port : PortDies(p) BY <2>2, <3>3, PortDiesEffect
    <3>4. QED BY <1>2, <3>1, <3>2, <3>3, StepsAreWhose
  <2>4. LaunchesCounted' /\ launches' \in [Port -> Int] BY <1>2, <2>1, <2>2, CountingPart
  <2>5. launches' \in [Port -> 0..MaxLaunches]
    <3>1. \A p \in Port : Cardinality(Busy(p)') \in 0..MaxLaunches
      <4>1. \A p \in Port : Busy(p)' \in SUBSET (1..MaxLaunches) BY DEF Busy
      <4>2. QED BY <4>1, CountsAreBounded
    <3>2. QED BY <2>4, <3>1 DEF LaunchesCounted
  <2>6. TypeOK' BY <1>2, <2>1, <2>3, <2>5, AppPart, GhostsFollow DEF TypeOK, ThreadTypes
  <2>7. AppInv' BY <1>2, AppPart
  <2>8. UpIsServed' /\ CoveredIsKnown' BY <1>2, <2>2, UpPart, CoveredPart
  <2>9. QED BY <2>3, <2>4, <2>6, <2>7, <2>8 DEF LaunchInv, ThreadTypes
<1>3. QED BY <1>1, <1>2

LEMMA InvHolds == Spec => []LaunchInv
BY InitInv, NextKeepsInv, PTL DEF Spec

\* Every variable keeps its type, for any shims and copies of the app; in
\* particular LAUNCHES neither falls below zero nor loses a launch.
THEOREM TypeCorrect == Spec => []TypeOK
BY InvHolds, PTL DEF LaunchInv

\* Whoever listens is found at the socket, however many copies are started, hang
\* and die (ipc::bind under guard.lock).
THEOREM ListenersAreReachable == Spec => []ListenerIsReachable
<1>1. LaunchInv => ListenerIsReachable BY DEF LaunchInv, AppInv
<1>2. QED BY <1>1, InvHolds, PTL

\* No request is refused while one copy answers all the time (shim::respond, with
\* its one retry over a fresh connection).
THEOREM UpMeansServed == Spec => []ServedWhileUp
<1>1. LaunchInv => ServedWhileUp BY DEF LaunchInv, UpIsServed, ServedWhileUp
<1>2. QED BY <1>1, InvHolds, PTL

\* No request that lies within launches is told that nothing is happening
\* (LaunchDispatched before the thread, then the starting lock).
THEOREM LaunchesAreKnown == Spec => []NeverNotRunningInALaunch
<1>1. LaunchInv => NeverNotRunningInALaunch
  BY DEF LaunchInv, CoveredIsKnown, NeverNotRunningInALaunch
<1>2. QED BY <1>1, InvHolds, PTL
=============================================================================
