------------------------ MODULE ConnectionControlProofs ------------------------
(***************************************************************************)
(* Proofs about ConnectionControl, for any number of helper processes and  *)
(* of abandoned commands: the lock, what a refusal means, and what a       *)
(* helper's connect command finds when it reaches the daemon.              *)
(***************************************************************************)
EXTENDS ConnectionControl, TLAPS

-----------------------------------------------------------------------------
(* The inductive invariant *)

\* Until Spawn no command has been started, and until its answer a request has none.
NotStartedYet ==
  \A h \in Helper :
    /\ pc[h] \in {"before", "other", "otherStatus", "ensure", "ivpn", "spawn"} => ~ran[h]
    /\ pc[h] # "idle" => reply[h] = "none"

\* A provider without its command line is down.
AbsentIsDown == \A p \in Provider : install[p] = "absent" => tunnel[p] = "disconnected"

\* What the helper has seen of a provider still holds, or somebody else has started it.
StillDown(h, p) == tunnel[p] = "disconnected" \/ p \in overtaken[h]

\* What each phase has seen of the selected provider ...
SelectedSeen ==
  \A h \in Helper : pc[h] \in {"ivpn", "spawn", "command"} => StillDown(h, Selected(h))

\* ... and of the other one's tunnel ...
OtherSeen ==
  \A h \in Helper :
    /\ job[h].flow = "v3" => pc[h] # "ivpn"
    /\ job[h].flow = "v2" => pc[h] \notin {"before", "other", "otherStatus"}
    /\ job[h].flow = "v3" /\ pc[h] \in {"ensure", "spawn", "command"} =>
         StillDown(h, Other(Selected(h))) \/ h \in misjudged
    /\ job[h].flow = "v2" /\ pc[h] \in {"spawn", "command"} => StillDown(h, Other(Selected(h)))

\* ... and installation, while its package stays as it is.
OtherPackage ==
  \A h \in Helper : h \notin repackaged =>
    /\ job[h].flow = "v3" /\ pc[h] \in {"ensure", "spawn"} => install[Other(Selected(h))] # "broken"
    /\ job[h].flow = "v2" /\ pc[h] = "spawn" => install["ivpn"] = "absent"

ControlInv ==
  /\ TypeOK /\ HolderOnly /\ RefusedMeansNotStarted
  /\ NotStartedYet /\ AbsentIsDown /\ SelectedSeen /\ OtherSeen /\ OtherPackage

LEMMA OtherIsTheOther ==
  ASSUME NEW p \in Provider
  PROVE  Other(p) \in Provider /\ Other(p) # p /\ Provider = {p, Other(p)}
<1>1. \E q \in Provider : q # p BY DEF Provider
<1>2. Other(p) \in Provider /\ Other(p) # p BY <1>1 DEF Other
<1>3. QED BY <1>2 DEF Provider

LEMMA JobsOfTheFlows ==
  ASSUME NEW j \in Job
  PROVE  /\ j.flow \in {"v2", "v3"} /\ j.provider \in Provider
         /\ j.flow = "v2" => j.provider = "mullvad" /\ Other(j.provider) = "ivpn"
<1>1. j.flow \in {"v2", "v3"} /\ j.provider \in Provider /\ (j.flow = "v2" => j.provider = "mullvad")
  BY DEF Job, Flow
<1>2. Other("mullvad") = "ivpn"
  BY OtherIsTheOther DEF Provider
<1>3. QED BY <1>1, <1>2

LEMMA InitInv == Init => ControlInv
<1> SUFFICES ASSUME Init PROVE ControlInv OBVIOUS
<1> USE DEF Init
<1>1. NoJob \in Job /\ NoJob.flow = "v3" BY DEF NoJob, Job, Flow, Provider
<1>2. TypeOK BY <1>1 DEF TypeOK, TunnelState, Phase, Reply
<1>3. HolderOnly BY HelperAssumption DEF HolderOnly
<1>4. RefusedMeansNotStarted /\ NotStartedYet BY DEF RefusedMeansNotStarted, NotStartedYet
<1>5. AbsentIsDown BY DEF AbsentIsDown
<1>6. SelectedSeen /\ OtherSeen /\ OtherPackage
  BY <1>1 DEF SelectedSeen, OtherSeen, OtherPackage
<1>7. QED BY <1>2, <1>3, <1>4, <1>5, <1>6 DEF ControlInv

-----------------------------------------------------------------------------
(* Types *)

\* What an answer or a kill leaves.
LEMMA ReleaseTypes ==
  ASSUME TypeOK, NEW h \in Helper, Release(h)
  PROVE  /\ pc' \in [Helper -> Phase] /\ job' \in [Helper -> Job]
         /\ overtaken' \in [Helper -> SUBSET Provider] /\ lock' \in Helper \cup {Nobody}
         /\ misjudged' \subseteq Helper /\ repackaged' \subseteq Helper
<1>1. NoJob \in Job BY DEF NoJob, Job, Flow, Provider
<1>2. QED BY <1>1 DEF Release, Unseen, TypeOK, Phase

LEMMA StepTypes ==
  ASSUME TypeOK, NEW h \in Helper, Step(h)
  PROVE  TypeOK'
<1>1. CASE \E r \in {"providerConflict", "otherError", "snapshot"} : Answer(h, r) /\ UNCHANGED World
  BY <1>1, ReleaseTypes DEF Answer, World, TypeOK, Reply
<1>2. CASE \E phase \in Phase : /\ Goto(h, phase) /\ UNCHANGED World
                                /\ \/ UNCHANGED ghosts
                                   \/ \E p \in Provider : SeenDown(h, p) /\ UNCHANGED <<misjudged, repackaged>>
                                   \/ \E p \in Provider : PastOther(h, p)
  BY <1>2 DEF Goto, SeenDown, PastOther, World, ghosts, TypeOK
<1>3. CASE Deliver(h)
  BY <1>3, JobsOfTheFlows DEF Deliver, Goto, ConnectDaemon, Unseen, Selected, TypeOK, TunnelState, Phase
<1>4. CASE Spawn(h)
  BY <1>1, <1>4 DEF Spawn, World, TypeOK, Phase
<1>5. CASE ReadSelected(h) \/ ValidateOther(h) \/ ReadOther(h) \/ LookForIvpn(h)
  <2>1. Selected(h) \in Provider /\ Other(Selected(h)) \in Provider /\ "ivpn" \in Provider
    BY JobsOfTheFlows, OtherIsTheOther DEF Selected, TypeOK, Provider
  <2>2. AfterStatus(h) \in Phase
    BY DEF AfterStatus, Phase
  <2>3. QED BY <1>1, <1>2, <1>5, <2>1, <2>2 DEF ReadSelected, ValidateOther, ReadOther, LookForIvpn, Phase
<1>6. CASE CommandSucceeds(h) \/ CommandFails(h) \/ ReadAfter(h)
  BY <1>1, <1>2, <1>6 DEF CommandSucceeds, CommandFails, ReadAfter, Phase, World
<1>7. QED BY <1>3, <1>4, <1>5, <1>6 DEF Step

LEMMA NextTypes == TypeOK /\ [Next]_vars => TypeOK'
<1> SUFFICES ASSUME TypeOK, [Next]_vars PROVE TypeOK' OBVIOUS
<1>1. ASSUME NEW h \in Helper, Step(h) PROVE TypeOK'
  BY <1>1, StepTypes
<1>2. ASSUME NEW h \in Helper, Kill(h) PROVE TypeOK'
  <2>1. Selected(h) \in Provider BY JobsOfTheFlows DEF Selected, TypeOK
  <2>2. QED BY <1>2, <2>1, ReleaseTypes DEF Kill, TypeOK, Reply
<1>3. ASSUME NEW h \in Helper, NEW j \in Job, Begin(h, j) PROVE TypeOK'
  BY <1>3 DEF Begin, World, ghosts, TypeOK, Phase, Reply
<1>4. ASSUME NEW p \in Provider, OrphanEnds(p) \/ UserConnects(p) PROVE TypeOK'
  BY <1>4 DEF OrphanEnds, UserConnects, ConnectDaemon, StartedBehind, ghosts, TypeOK, TunnelState
<1>5. ASSUME NEW p \in Provider, DaemonMoves(p) PROVE TypeOK'
  <2>1. tunnel[p] \in TunnelState BY DEF TypeOK
  <2>2. PICK next \in TunnelState : tunnel' = [tunnel EXCEPT ![p] = next]
    BY <1>5, <2>1 DEF DaemonMoves, TunnelState
  <2>3. QED BY <1>5, <2>2 DEF DaemonMoves, ghosts, TypeOK
<1>6. ASSUME NEW p \in Provider, PackageChanges(p) PROVE TypeOK'
  <2>1. Packaged[p] \subseteq Installation BY PackagedAssumption
  <2>2. QED BY <1>6, <2>1 DEF PackageChanges, TypeOK
<1>7. CASE UNCHANGED vars
  BY <1>7 DEF vars, ghosts, TypeOK
<1>8. QED BY <1>1, <1>2, <1>3, <1>4, <1>5, <1>6, <1>7 DEF Next

-----------------------------------------------------------------------------
(* The steps of the world *)

\* A provider that starts, for whatever reason but this helper's own command, is one
\* that every helper at work knows to be overtaken; its own command ends the request's looks.
LEMMA WorldKeepsInv ==
  ASSUME ControlInv, TypeOK', NEW p \in Provider, OrphanEnds(p) \/ UserConnects(p) \/ DaemonMoves(p)
  PROVE  ControlInv'
<1>1. UNCHANGED <<install, lock, pc, job, reply, ran, misjudged, repackaged>>
  BY DEF OrphanEnds, UserConnects, DaemonMoves, StartedBehind, ghosts
<1>2. \A h \in Helper : UNCHANGED <<Selected(h), Other(Selected(h))>>
  BY <1>1 DEF Selected
<1>3. \A h \in Helper, q \in Provider : pc[h] \in Looking /\ StillDown(h, q) => StillDown(h, q)'
  <2>1. CASE ConnectDaemon(p) /\ StartedBehind(p)
    BY <2>1 DEF ConnectDaemon, StartedBehind, StillDown, ControlInv, TypeOK
  <2>2. CASE UNCHANGED <<tunnel, overtaken>>
    BY <2>2 DEF StillDown
  <2>3. CASE DaemonMoves(p)
    BY <2>3 DEF DaemonMoves, StillDown, ghosts, ControlInv, TypeOK
  <2>4. QED BY <2>1, <2>2, <2>3 DEF OrphanEnds, UserConnects, ghosts
<1>4. AbsentIsDown'
  <2>1. ASSUME NEW q \in Provider, install[q] = "absent" PROVE tunnel'[q] = "disconnected"
    <3>1. tunnel[q] = "disconnected" BY <2>1 DEF ControlInv, AbsentIsDown
    <3>2. CASE OrphanEnds(p) BY <2>1, <3>1, <3>2 DEF OrphanEnds, ConnectDaemon, ControlInv, TypeOK
    <3>3. CASE UserConnects(p) BY <2>1, <3>1, <3>3 DEF UserConnects, ConnectDaemon, ControlInv, TypeOK
    <3>4. CASE DaemonMoves(p) BY <3>1, <3>4 DEF DaemonMoves, ControlInv, TypeOK
    <3>5. QED BY <3>2, <3>3, <3>4
  <2>2. QED BY <1>1, <2>1 DEF ControlInv, AbsentIsDown
<1>5. HolderOnly' /\ RefusedMeansNotStarted' /\ NotStartedYet'
  BY <1>1 DEF ControlInv, HolderOnly, RefusedMeansNotStarted, NotStartedYet
<1>6. \A h \in Helper : Selected(h) \in Provider /\ Other(Selected(h)) \in Provider
  BY JobsOfTheFlows, OtherIsTheOther DEF Selected, ControlInv, TypeOK
<1>7. SelectedSeen'
  BY <1>1, <1>2, <1>3, <1>6 DEF ControlInv, SelectedSeen, Looking
<1>8. OtherSeen'
  BY <1>1, <1>2, <1>3, <1>6 DEF ControlInv, OtherSeen, Looking
<1>9. OtherPackage'
  BY <1>1, <1>2 DEF ControlInv, OtherPackage
<1>10. QED BY <1>4, <1>5, <1>7, <1>8, <1>9 DEF ControlInv

\* A package that changes does so behind the helpers that have looked at it.
LEMMA PackageKeepsInv ==
  ASSUME ControlInv, TypeOK', NEW p \in Provider, PackageChanges(p)
  PROVE  ControlInv'
<1>1. UNCHANGED <<tunnel, lock, pc, job, reply, orphans, ran, overtaken, misjudged>>
  BY DEF PackageChanges
<1>2. \A h \in Helper : UNCHANGED <<Selected(h), Other(Selected(h))>>
  BY <1>1 DEF Selected
<1>3. AbsentIsDown'
  BY <1>1 DEF PackageChanges, ControlInv, TypeOK, AbsentIsDown
<1>4. HolderOnly' /\ RefusedMeansNotStarted' /\ NotStartedYet' /\ SelectedSeen' /\ OtherSeen'
  BY <1>1, <1>2 DEF ControlInv, HolderOnly, RefusedMeansNotStarted, NotStartedYet, SelectedSeen,
     OtherSeen, StillDown
<1>5. ASSUME NEW h \in Helper, h \notin repackaged', pc[h] \in {"ensure", "spawn"}
      PROVE  h \notin repackaged /\ install'[Other(Selected(h))] = install[Other(Selected(h))]
  <2>1. Selected(h) = p /\ h \notin repackaged
    BY <1>5 DEF PackageChanges
  <2>2. Other(p) # p /\ Other(p) \in Provider BY OtherIsTheOther
  <2>3. QED BY <2>1, <2>2 DEF PackageChanges, ControlInv, TypeOK
<1>6. ASSUME NEW h \in Helper, job[h].flow = "v2" PROVE Other(Selected(h)) = "ivpn"
  BY <1>6, JobsOfTheFlows DEF Selected, ControlInv, TypeOK
<1>7. OtherPackage'
  BY <1>1, <1>2, <1>5, <1>6 DEF ControlInv, OtherPackage
<1>8. QED BY <1>3, <1>4, <1>7 DEF ControlInv

-----------------------------------------------------------------------------
(* The steps of a request *)

\* The end of a request: its helper has nothing any more, and the others had nothing.
LEMMA ReleaseKeepsInv ==
  ASSUME ControlInv, TypeOK', NEW h \in Helper, pc[h] # "idle", Release(h),
         UNCHANGED <<tunnel, install>>,
         \A g \in Helper \ {h} : reply'[g] = reply[g] /\ ran'[g] = ran[g],
         reply'[h] \in {"controlBusy", "providerConflict"} => ~ran'[h]
  PROVE  ControlInv'
<1>1. \A g \in Helper : pc[g] # "idle" => g = h
  BY DEF ControlInv, HolderOnly
<1>2. \A g \in Helper : pc'[g] = "idle" /\ (g # h => job'[g] = job[g])
  BY <1>1 DEF Release, ControlInv, TypeOK
<1>3. job'[h].flow = "v3"
  BY DEF Release, ControlInv, TypeOK, NoJob
<1>4. HolderOnly'
  BY <1>2, HelperAssumption DEF HolderOnly, Release
<1>5. RefusedMeansNotStarted' /\ NotStartedYet'
  BY <1>2 DEF ControlInv, RefusedMeansNotStarted, NotStartedYet
<1>6. AbsentIsDown'
  BY DEF ControlInv, AbsentIsDown
<1>7. SelectedSeen' /\ OtherSeen' /\ OtherPackage'
  BY <1>2 DEF SelectedSeen, OtherSeen, OtherPackage
<1>8. QED BY <1>4, <1>5, <1>6, <1>7 DEF ControlInv

LEMMA BeginKeepsInv ==
  ASSUME ControlInv, TypeOK', NEW h \in Helper, NEW j \in Job, Begin(h, j)
  PROVE  ControlInv'
<1>1. \A g \in Helper \ {h} : pc'[g] = pc[g] /\ job'[g] = job[g] /\ ran'[g] = ran[g] /\ reply'[g] = reply[g]
  BY DEF Begin, ControlInv, TypeOK
<1>2. UNCHANGED <<tunnel, install, orphans, overtaken, misjudged, repackaged>> /\ ~ran'[h]
  BY DEF Begin, World, ghosts, ControlInv, TypeOK
<1>3. CASE lock' = lock /\ pc' = pc /\ job' = job
  BY <1>1, <1>2, <1>3 DEF Begin, ControlInv, HolderOnly, RefusedMeansNotStarted, NotStartedYet, AbsentIsDown,
     SelectedSeen, OtherSeen, OtherPackage, StillDown, Selected
<1>4. CASE /\ lock = Nobody /\ lock' = h /\ job'[h] = j /\ reply'[h] = "none"
           /\ pc'[h] = IF j.flow = "v2" THEN "ensure" ELSE "before"
  <2>1. HolderOnly'
    BY <1>1, <1>4, HelperAssumption DEF ControlInv, HolderOnly
  <2>2. RefusedMeansNotStarted' /\ NotStartedYet' /\ AbsentIsDown'
    BY <1>1, <1>2, <1>4 DEF ControlInv, RefusedMeansNotStarted, NotStartedYet, AbsentIsDown
  <2>3. SelectedSeen' /\ OtherSeen' /\ OtherPackage'
    BY <1>1, <1>2, <1>4 DEF ControlInv, SelectedSeen, OtherSeen, OtherPackage, StillDown, Selected
  <2>4. QED BY <2>1, <2>2, <2>3 DEF ControlInv
<1>5. QED BY <1>3, <1>4 DEF Begin, ControlInv, TypeOK

\* A helper that goes on keeps the lock, its request and its open answer; what its new
\* phase has to have seen is the step's own business.
LEMMA GoingOnKeepsInv ==
  ASSUME ControlInv, TypeOK', NEW h \in Helper, NEW phase, phase # "idle", pc[h] # "idle",
         pc' = [pc EXCEPT ![h] = phase],
         UNCHANGED <<install, lock, job, reply, orphans>>,
         \A g \in Helper \ {h} : ran'[g] = ran[g],
         phase \in {"before", "other", "otherStatus", "ensure", "ivpn", "spawn"} => ~ran'[h],
         AbsentIsDown',
         phase \in {"ivpn", "spawn", "command"} => StillDown(h, Selected(h))',
         job[h].flow = "v3" => phase # "ivpn",
         job[h].flow = "v2" => phase \notin {"before", "other", "otherStatus"},
         job[h].flow = "v3" /\ phase \in {"ensure", "spawn", "command"} =>
           StillDown(h, Other(Selected(h)))' \/ h \in misjudged',
         job[h].flow = "v2" /\ phase \in {"spawn", "command"} => StillDown(h, Other(Selected(h)))',
         job[h].flow = "v3" /\ phase \in {"ensure", "spawn"} /\ h \notin repackaged' =>
           install[Other(Selected(h))] # "broken",
         job[h].flow = "v2" /\ phase = "spawn" /\ h \notin repackaged' => install["ivpn"] = "absent"
  PROVE  ControlInv'
<1>1. \A g \in Helper \ {h} : pc[g] = "idle" /\ pc'[g] = "idle"
  BY DEF ControlInv, HolderOnly, TypeOK
<1>2. pc'[h] = phase
  BY DEF ControlInv, TypeOK
<1>3. \A g \in Helper : Selected(g)' = Selected(g) /\ Other(Selected(g))' = Other(Selected(g))
  BY DEF Selected
<1>4. HolderOnly'
  BY <1>1, <1>2 DEF ControlInv, HolderOnly
<1>5. reply'[h] = "none"
  BY DEF ControlInv, NotStartedYet
<1>6. RefusedMeansNotStarted' /\ NotStartedYet'
  BY <1>1, <1>2, <1>5 DEF ControlInv, RefusedMeansNotStarted, NotStartedYet
<1>7. SelectedSeen'
  BY <1>1, <1>2, <1>3 DEF SelectedSeen
<1>8. OtherSeen'
  BY <1>1, <1>2, <1>3 DEF OtherSeen
<1>9. OtherPackage'
  BY <1>1, <1>2, <1>3 DEF OtherPackage
<1>10. QED BY <1>4, <1>6, <1>7, <1>8, <1>9 DEF ControlInv

LEMMA AnswerKeepsInv ==
  ASSUME ControlInv, TypeOK', NEW h \in Helper, NEW r, pc[h] # "idle", Answer(h, r), UNCHANGED World,
         r \in {"controlBusy", "providerConflict"} => ~ran[h]
  PROVE  ControlInv'
<1>1. reply'[h] = r /\ (ran'[h] => ran[h])
      /\ \A g \in Helper \ {h} : reply'[g] = reply[g] /\ ran'[g] = ran[g]
  BY DEF Answer, ControlInv, TypeOK
<1>2. QED BY <1>1, ReleaseKeepsInv DEF Answer, World

LEMMA KillKeepsInv ==
  ASSUME ControlInv, TypeOK', NEW h \in Helper, Kill(h)
  PROVE  ControlInv'
<1>1. reply'[h] = "none" /\ \A g \in Helper \ {h} : reply'[g] = reply[g] /\ ran'[g] = ran[g]
  BY DEF Kill, ControlInv, TypeOK
<1>2. QED BY <1>1, ReleaseKeepsInv DEF Kill

\* The looks of a request, up to its command.
LEMMA LooksKeepInv ==
  ASSUME ControlInv, TypeOK', NEW h \in Helper,
         ReadSelected(h) \/ ValidateOther(h) \/ ReadOther(h) \/ LookForIvpn(h)
  PROVE  ControlInv'
<1> DEFINE p == Selected(h)
           q == Other(p)
<1>1. p \in Provider /\ q \in Provider /\ p # q
  BY JobsOfTheFlows, OtherIsTheOther DEF Selected, ControlInv, TypeOK
<1>2. job[h].flow \in {"v2", "v3"} /\ (job[h].flow = "v2" => q = "ivpn")
  BY JobsOfTheFlows DEF Selected, ControlInv, TypeOK
<1>3. pc[h] \in {"before", "other", "otherStatus", "ensure", "ivpn"} /\ UNCHANGED World
  BY DEF ReadSelected, ValidateOther, ReadOther, LookForIvpn
<1>4. AbsentIsDown' BY <1>3 DEF World, ControlInv, AbsentIsDown
<1>5. ~ran[h] BY <1>3 DEF ControlInv, NotStartedYet
<1>6. CASE \E r : Answer(h, r)
  BY <1>3, <1>5, <1>6, AnswerKeepsInv
<1>7. CASE ReadSelected(h) /\ tunnel[p] = "disconnected" /\ SeenDown(h, p)
           /\ Goto(h, AfterStatus(h)) /\ UNCHANGED <<misjudged, repackaged>>
  <2> DEFINE next == AfterStatus(h)
  <2>1. pc[h] \in {"before", "ensure"} BY <1>7 DEF ReadSelected
  <2>2. next \in {"other", "ivpn", "spawn"} /\ (next = "other" <=> pc[h] = "before")
        /\ (job[h].flow = "v3" => next # "ivpn") /\ (job[h].flow = "v2" => next # "spawn")
    BY <1>2, <2>1 DEF AfterStatus, ControlInv, OtherSeen
  <2>3. StillDown(h, p)' BY <1>3, <1>7 DEF StillDown, World, Selected, Goto
  <2>4. StillDown(h, q) => StillDown(h, q)'
    BY <1>1, <1>3, <1>7 DEF StillDown, World, Selected, Goto, SeenDown, ControlInv, TypeOK
  <2>5. job[h].flow = "v2" => next # "other"
    BY <2>1, <2>2 DEF ControlInv, OtherSeen
  <2>6. job[h].flow = "v3" /\ next = "spawn" =>
          /\ StillDown(h, q)' \/ h \in misjudged'
          /\ h \notin repackaged' => install[q] # "broken"
    BY <1>7, <2>1, <2>2, <2>4 DEF ControlInv, OtherSeen, OtherPackage
  <2> HIDE DEF p, q, next
  <2>7. QED
    BY <1>3, <1>4, <1>5, <1>7, <2>2, <2>3, <2>5, <2>6, GoingOnKeepsInv DEF Goto, World, p, q, next
<1>8. CASE pc[h] = "other" /\ Goto(h, "otherStatus") /\ UNCHANGED ghosts
  <2>1. job[h].flow # "v2" BY <1>8 DEF ControlInv, OtherSeen
  <2>2. QED BY <1>3, <1>4, <1>5, <1>8, <2>1, GoingOnKeepsInv DEF Goto, World
<1>9. CASE pc[h] \in {"other", "otherStatus"} /\ install[q] # "broken" /\ Goto(h, "ensure") /\ PastOther(h, q)
  <2>1. job[h].flow # "v2" BY <1>9 DEF ControlInv, OtherSeen
  <2>2. StillDown(h, q)' \/ h \in misjudged'
    BY <1>3, <1>9 DEF StillDown, World, Selected, Goto, PastOther
  <2> HIDE DEF p, q
  <2>3. QED BY <1>3, <1>4, <1>5, <1>9, <2>1, <2>2, GoingOnKeepsInv DEF Goto, World, p, q
<1>10. CASE pc[h] = "ivpn" /\ install["ivpn"] = "absent" /\ Goto(h, "spawn") /\ PastOther(h, "ivpn")
  <2>1. job[h].flow = "v2" /\ q = "ivpn" BY <1>2, <1>10 DEF ControlInv, OtherSeen
  <2>2. tunnel[q] = "disconnected" BY <1>1, <1>10, <2>1 DEF ControlInv, AbsentIsDown
  <2>3. StillDown(h, q)' BY <1>3, <1>10, <2>2 DEF StillDown, World, Selected, Goto
  <2>4. StillDown(h, p) BY <1>10 DEF ControlInv, SelectedSeen
  <2>5. StillDown(h, p)'
    BY <1>1, <1>3, <1>10, <2>1, <2>4 DEF StillDown, World, Selected, Goto, PastOther, SeenDown, ControlInv, TypeOK
  <2> HIDE DEF p, q
  <2>6. QED
    BY <1>3, <1>4, <1>5, <1>10, <2>1, <2>3, <2>5, GoingOnKeepsInv DEF Goto, World, p, q
<1>11. QED
  <2>1. "notInstalled" \in Verdicts(q) \/ "ok" \in Verdicts(q) => install[q] # "broken"
    BY DEF Verdicts
  <2>2. QED
    BY <1>6, <1>7, <1>8, <1>9, <1>10, <2>1 DEF ReadSelected, ValidateOther, ReadOther, LookForIvpn

\* The command, and what follows it.
LEMMA CommandKeepsInv ==
  ASSUME ControlInv, TypeOK', NEW h \in Helper,
         Spawn(h) \/ Deliver(h) \/ CommandSucceeds(h) \/ CommandFails(h) \/ ReadAfter(h)
  PROVE  ControlInv'
<1>1. CASE \E r : Answer(h, r) /\ UNCHANGED World /\ r \notin {"controlBusy", "providerConflict"}
  <2>1. pc[h] # "idle"
    BY DEF Spawn, Deliver, CommandSucceeds, CommandFails, ReadAfter
  <2>2. QED BY <1>1, <2>1, AnswerKeepsInv
<1>2. CASE /\ Spawn(h) /\ pc' = [pc EXCEPT ![h] = "command"]
           /\ ran' = [ran EXCEPT ![h] = TRUE]
           /\ repackaged' = repackaged \ {h}
           /\ UNCHANGED <<lock, job, reply, overtaken, misjudged>>
  <2>1. pc[h] = "spawn" /\ UNCHANGED World BY <1>2 DEF Spawn
  <2>2. AbsentIsDown' BY <2>1 DEF World, ControlInv, AbsentIsDown
  <2>3. StillDown(h, Selected(h))
    BY <2>1 DEF ControlInv, SelectedSeen
  <2>4. /\ job[h].flow = "v3" => StillDown(h, Other(Selected(h))) \/ h \in misjudged
        /\ job[h].flow = "v2" => StillDown(h, Other(Selected(h)))
    BY <2>1 DEF ControlInv, OtherSeen
  <2>5. StillDown(h, Selected(h))' = StillDown(h, Selected(h))
        /\ StillDown(h, Other(Selected(h)))' = StillDown(h, Other(Selected(h)))
    BY <1>2, <2>1 DEF StillDown, World, Selected
  <2>6. \A g \in Helper \ {h} : ran'[g] = ran[g]
    BY <1>2 DEF ControlInv, TypeOK
  <2>7. QED BY <1>2, <2>1, <2>2, <2>3, <2>4, <2>5, <2>6, GoingOnKeepsInv DEF World
<1>3. CASE Deliver(h)
  <2>1. pc[h] = "command" /\ Goto(h, "delivered") /\ UNCHANGED <<install, orphans>>
    BY <1>3 DEF Deliver
  <2>2. AbsentIsDown'
    BY <1>3, <2>1 DEF Deliver, ConnectDaemon, ControlInv, AbsentIsDown, TypeOK
  <2>3. QED BY <2>1, <2>2, GoingOnKeepsInv DEF Goto
<1>4. CASE CommandSucceeds(h)
  <2>1. pc[h] = "delivered" /\ Goto(h, "after") /\ UNCHANGED World
    BY <1>4 DEF CommandSucceeds
  <2>2. AbsentIsDown' BY <2>1 DEF World, ControlInv, AbsentIsDown
  <2>3. QED BY <2>1, <2>2, GoingOnKeepsInv DEF Goto, World
<1>5. QED BY <1>1, <1>2, <1>3, <1>4 DEF Spawn, CommandFails, ReadAfter

LEMMA NextKeepsInv == ControlInv /\ [Next]_vars => ControlInv'
<1> SUFFICES ASSUME ControlInv, [Next]_vars PROVE ControlInv' OBVIOUS
<1>1. TypeOK' BY NextTypes DEF ControlInv
<1>2. ASSUME NEW h \in Helper, Step(h) PROVE ControlInv'
  BY <1>1, <1>2, LooksKeepInv, CommandKeepsInv DEF Step
<1>3. ASSUME NEW h \in Helper, Kill(h) PROVE ControlInv'
  BY <1>1, <1>3, KillKeepsInv
<1>4. ASSUME NEW h \in Helper, NEW j \in Job, Begin(h, j) PROVE ControlInv'
  BY <1>1, <1>4, BeginKeepsInv
<1>5. ASSUME NEW p \in Provider, OrphanEnds(p) \/ UserConnects(p) \/ DaemonMoves(p) PROVE ControlInv'
  BY <1>1, <1>5, WorldKeepsInv
<1>6. ASSUME NEW p \in Provider, PackageChanges(p) PROVE ControlInv'
  BY <1>1, <1>6, PackageKeepsInv
<1>7. CASE UNCHANGED vars
  BY <1>7, <1>1 DEF vars, ghosts, ControlInv, HolderOnly, RefusedMeansNotStarted, NotStartedYet, AbsentIsDown,
     SelectedSeen, OtherSeen, OtherPackage, StillDown, Selected
<1>8. QED BY <1>2, <1>3, <1>4, <1>5, <1>6, <1>7 DEF Next

LEMMA Invariance == Spec => []ControlInv
BY InitInv, NextKeepsInv, PTL DEF Spec

-----------------------------------------------------------------------------
(* What a command finds, and where it is started *)

LEMMA CommandsFindThemDown ==
  ASSUME ControlInv, NEW h \in Helper, pc[h] = "command", NEW p \in Provider
  PROVE  FoundDown(h, p) \/ (h \in misjudged /\ p = Other(Selected(h)))
<1>1. job[h] \in Job BY DEF ControlInv, TypeOK
<1>2. CASE p = Selected(h)
  BY <1>2 DEF ControlInv, SelectedSeen, StillDown, FoundDown
<1>3. CASE p = Other(Selected(h))
  BY <1>1, <1>3, JobsOfTheFlows DEF ControlInv, OtherSeen, StillDown, FoundDown
<1>4. QED BY <1>1, <1>2, <1>3, JobsOfTheFlows, OtherIsTheOther DEF Selected

LEMMA OnlySpawnStarts ==
  ASSUME ControlInv, [Next]_vars, NEW h \in Helper, ~ran[h], ran'[h]
  PROVE  pc[h] = "spawn"
<1>1. ASSUME NEW g \in Helper, Step(g), ran'[h] PROVE pc[h] = "spawn"
  <2>1. CASE \E r : Answer(g, r)
    BY <1>1, <2>1 DEF Answer, ControlInv, TypeOK
  <2>2. CASE UNCHANGED ran
    BY <2>2
  <2>3. CASE pc[g] = "spawn" /\ ran' = [ran EXCEPT ![g] = TRUE]
    BY <2>3 DEF ControlInv, TypeOK
  <2>4. QED
    BY <1>1, <2>1, <2>2, <2>3 DEF Step, ReadSelected, ValidateOther, ReadOther, LookForIvpn, Spawn, Deliver,
       CommandSucceeds, CommandFails, ReadAfter, Goto
<1>2. ASSUME NEW g \in Helper, NEW j \in Job, Begin(g, j) PROVE ~ran'[h]
  BY <1>2 DEF Begin, ControlInv, TypeOK
<1>3. ASSUME NEW g \in Helper, Kill(g) PROVE ~ran'[h]
  BY <1>3 DEF Kill, ControlInv, TypeOK
<1>4. ASSUME NEW p \in Provider, OrphanEnds(p) \/ UserConnects(p) \/ DaemonMoves(p) \/ PackageChanges(p)
      PROVE  UNCHANGED ran
  BY <1>4 DEF OrphanEnds, UserConnects, DaemonMoves, PackageChanges
<1>5. QED BY <1>1, <1>2, <1>3, <1>4 DEF Next, vars

-----------------------------------------------------------------------------
(* The theorems *)

\* Every variable keeps its type, for any number of helpers.
THEOREM TypeCorrect == Spec => []TypeOK
<1>1. ControlInv => TypeOK BY DEF ControlInv
<1>2. QED BY <1>1, Invariance, PTL

\* A helper that is past its lock holds it: connection attempts exclude each other.
THEOREM AttemptsExclude == Spec => []HolderOnly
<1>1. ControlInv => HolderOnly BY DEF ControlInv
<1>2. QED BY <1>1, Invariance, PTL

\* controlBusy and providerConflict never follow a command.
THEOREM RefusalsAreCertain == Spec => []RefusedMeansNotStarted
<1>1. ControlInv => RefusedMeansNotStarted BY DEF ControlInv
<1>2. QED BY <1>1, Invariance, PTL

\* A connect command reaches its daemon with both providers down, but for what others
\* have started since the helper looked, and for another provider that was up when its
\* package was reported as not installed.
THEOREM NoTunnelBesideAnother == Spec => NoSecondTunnel
<1>1. ControlInv /\ [Next]_vars =>
        [\A h \in Helper : Delivers(h) =>
           \A p \in Provider : FoundDown(h, p) \/ (h \in misjudged /\ p = Other(Selected(h)))]_vars
  BY CommandsFindThemDown DEF Delivers
<1>2. QED BY <1>1, Invariance, PTL DEF Spec, NoSecondTunnel

\* No v2 command is started while IVPN's command line is there, and no v3 command
\* beside one that is not to be trusted, unless its package changed since the look.
THEOREM NoCommandInDoubt == Spec => NeverBesideADoubtfulProvider
<1>1. ASSUME ControlInv, [Next]_vars, NEW h \in Helper, ~ran[h], ran'[h], h \notin repackaged
      PROVE  IF job[h].flow = "v2" THEN install["ivpn"] = "absent"
             ELSE install[Other(Selected(h))] # "broken"
  <2>1. pc[h] = "spawn"
    BY <1>1, OnlySpawnStarts
  <2>2. job[h] \in Job BY <1>1 DEF ControlInv, TypeOK
  <2>3. QED BY <1>1, <2>1, <2>2, JobsOfTheFlows DEF ControlInv, OtherPackage
<1>2. ControlInv /\ [Next]_vars =>
        [\A h \in Helper : ~ran[h] /\ ran'[h] /\ h \notin repackaged =>
           IF job[h].flow = "v2" THEN install["ivpn"] = "absent"
           ELSE install[Other(Selected(h))] # "broken"]_vars
  BY <1>1
<1>3. QED BY <1>2, Invariance, PTL DEF Spec, NeverBesideADoubtfulProvider
=============================================================================
