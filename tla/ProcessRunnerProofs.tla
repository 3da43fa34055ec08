-------------------------- MODULE ProcessRunnerProofs --------------------------
(***************************************************************************)
(* Proofs about ProcessRunner, for any number of processes, any cap and    *)
(* any number of writes: its types, that an answer is the whole output,    *)
(* that a failure leaves nothing contained alive, and that the rest of the *)
(* helper sees a ProviderCommand.                                          *)
(***************************************************************************)
EXTENDS ProcessRunner, TLAPS

-----------------------------------------------------------------------------
(* The inductive invariant *)

\* Before the start there is nothing.
NothingBefore ==
  phase = "idle" =>
    /\ started = {} /\ alive = {} /\ holds = {} /\ contained = {}
    /\ status = "running" /\ reader = "none"

\* No byte is lost between the command and the call.
Accounting == output + pipe = written

\* Once the end of the output was seen nobody can write any more.
EndIsFinal ==
  phase \in {"waiting", "ok"} \/ reader = "whole" => pipe = 0 /\ holds = {}

\* The child is put into a job after its start, and is a group's from its birth.
Containment ==
  /\ phase = "assign" => contained = {} /\ Child \in started
  /\ phase \in {"reading", "waiting", "ok"} => Child \in contained
  /\ alive # {} => Child \in started

\* A command that failed is over.
FailedIsOver == phase = "error" => ~CommandIsLive

RunnerInv ==
  /\ TypeOK /\ NothingBefore /\ Accounting /\ EndIsFinal /\ Containment
  /\ FailedIsOver /\ OkIsWhole /\ ContainmentHolds

LEMMA InitInv == Init => RunnerInv
<1> SUFFICES ASSUME Init PROVE RunnerInv OBVIOUS
<1> USE DEF Init
<1>1. TypeOK
  <2>1. 0 \in 0..Cap /\ 0 \in 0..MaxWrites /\ 0 \in Nat BY BoundAssumption
  <2>2. expired \in BOOLEAN BY Zenon
  <2>3. alive \in SUBSET started /\ contained \in SUBSET started /\ holds \in SUBSET alive
    OBVIOUS
  <2>4. (Child \in alive) = (Child \in started /\ status = "running") OBVIOUS
  <2>5. QED BY <2>1, <2>2, <2>3, <2>4 DEF TypeOK
<1>2. NothingBefore /\ Accounting /\ EndIsFinal /\ Containment
  BY DEF NothingBefore, Accounting, EndIsFinal, Containment
<1>3. FailedIsOver /\ OkIsWhole /\ ContainmentHolds
  BY DEF FailedIsOver, OkIsWhole, ContainmentHolds
<1>4. QED BY <1>1, <1>2, <1>3 DEF RunnerInv

-----------------------------------------------------------------------------
(* Each kind of step keeps the invariant *)

LEMMA ProcessesKeepInv ==
  ASSUME RunnerInv, NEW p \in Proc,
         \/ LeavesGroup(p) \/ Writes(p) \/ ClosesStdout(p) \/ Exits(p)
         \/ \E q \in Proc : Forks(p, q)
  PROVE  RunnerInv'
<1> USE ChildAssumption, BoundAssumption
<1>1. CASE LeavesGroup(p)
  BY <1>1 DEF LeavesGroup, stdout, RunnerInv, TypeOK, NothingBefore, Accounting, EndIsFinal,
     Containment, FailedIsOver, OkIsWhole, ContainmentHolds, CommandIsLive, Running, Ended
<1>2. CASE Writes(p)
  BY <1>2 DEF Writes, processes, RunnerInv, TypeOK, NothingBefore, Accounting, EndIsFinal,
     Containment, FailedIsOver, OkIsWhole, ContainmentHolds, CommandIsLive, Running, Ended
<1>3. CASE ClosesStdout(p)
  BY <1>3 DEF ClosesStdout, stdout, RunnerInv, TypeOK, NothingBefore, Accounting, EndIsFinal,
     Containment, FailedIsOver, OkIsWhole, ContainmentHolds, CommandIsLive, Running, Ended
<1>4. CASE Exits(p)
  BY <1>4 DEF Exits, stdout, RunnerInv, TypeOK, NothingBefore, Accounting, EndIsFinal,
     Containment, FailedIsOver, OkIsWhole, ContainmentHolds, CommandIsLive, Running, Ended
<1>5. ASSUME NEW q \in Proc, Forks(p, q) PROVE RunnerInv'
  BY <1>5 DEF Forks, stdout, RunnerInv, TypeOK, NothingBefore, Accounting, EndIsFinal,
     Containment, FailedIsOver, OkIsWhole, ContainmentHolds, CommandIsLive, Running, Ended
<1>6. QED BY <1>1, <1>2, <1>3, <1>4, <1>5

\* Killing all that is contained, the child among it, ends the command.
LEMMA FailKeepsInv ==
  ASSUME RunnerInv, Fail, phase \in {"reading", "waiting"}
  PROVE  RunnerInv'
BY ChildAssumption, BoundAssumption
DEF Fail, Kill, Return, Contained, stdout, RunnerInv, TypeOK, NothingBefore, Accounting, EndIsFinal,
    Containment, FailedIsOver, OkIsWhole, ContainmentHolds, CommandIsLive, Running, Ended

LEMMA StartKeepsInv ==
  ASSUME RunnerInv, StartFails \/ Start \/ Assign \/ AssignFails
  PROVE  RunnerInv'
<1> USE ChildAssumption, BoundAssumption
<1>1. CASE StartFails
  BY <1>1 DEF StartFails, Return, processes, stdout, RunnerInv, TypeOK, NothingBefore, Accounting,
     EndIsFinal, Containment, FailedIsOver, OkIsWhole, ContainmentHolds, CommandIsLive, Running, Ended
<1>2. CASE Start
  BY <1>2 DEF Start, stdout, RunnerInv, TypeOK, NothingBefore, Accounting,
     EndIsFinal, Containment, FailedIsOver, OkIsWhole, ContainmentHolds, CommandIsLive, Running, Ended
<1>3. CASE Assign
  BY <1>3 DEF Assign, stdout, RunnerInv, TypeOK, NothingBefore, Accounting,
     EndIsFinal, Containment, FailedIsOver, OkIsWhole, ContainmentHolds, CommandIsLive, Running, Ended
<1>4. CASE AssignFails
  BY <1>4 DEF AssignFails, Kill, Return, stdout, RunnerInv, TypeOK, NothingBefore, Accounting,
     EndIsFinal, Containment, FailedIsOver, OkIsWhole, ContainmentHolds, CommandIsLive, Running, Ended
<1>5. QED BY <1>1, <1>2, <1>3, <1>4

LEMMA ReadKeepsInv ==
  ASSUME RunnerInv, ReadChunk \/ ReadTooMuch \/ ReadEnd \/ Receive
  PROVE  RunnerInv'
<1> USE ChildAssumption, BoundAssumption
<1>1. CASE ReadChunk
  BY <1>1 DEF ReadChunk, Reads, processes, RunnerInv, TypeOK, NothingBefore, Accounting,
     EndIsFinal, Containment, FailedIsOver, OkIsWhole, ContainmentHolds, CommandIsLive, Running, Ended
<1>2. CASE ReadTooMuch /\ kind = "group"
  BY <1>2, FailKeepsInv DEF ReadTooMuch, Reads
<1>3. CASE ReadTooMuch /\ kind # "group"
  BY <1>3 DEF ReadTooMuch, Reads, processes, stdout, RunnerInv, TypeOK, NothingBefore, Accounting,
     EndIsFinal, Containment, FailedIsOver, OkIsWhole, ContainmentHolds, CommandIsLive, Running, Ended
<1>4. CASE ReadEnd
  BY <1>4 DEF ReadEnd, Reads, AtEnd, processes, stdout, RunnerInv, TypeOK, NothingBefore, Accounting,
     EndIsFinal, Containment, FailedIsOver, OkIsWhole, ContainmentHolds, CommandIsLive, Running, Ended
<1>5. CASE Receive /\ reader = "over"
  BY <1>5, FailKeepsInv DEF Receive
<1>6. CASE Receive /\ reader # "over"
  BY <1>6 DEF Receive, processes, stdout, RunnerInv, TypeOK, NothingBefore, Accounting,
     EndIsFinal, Containment, FailedIsOver, OkIsWhole, ContainmentHolds, CommandIsLive, Running, Ended
<1>7. QED BY <1>1, <1>2, <1>3, <1>4, <1>5, <1>6

LEMMA EndKeepsInv ==
  ASSUME RunnerInv,
         Succeeds \/ Refuses \/ TimesOutReading \/ TimesOutWaiting \/ Expire \/ HelperDies
  PROVE  RunnerInv'
<1> USE ChildAssumption, BoundAssumption
<1>1. CASE Succeeds
  BY <1>1 DEF Succeeds, Contained, Kill, Return, stdout, RunnerInv, TypeOK, NothingBefore, Accounting,
     EndIsFinal, Containment, FailedIsOver, OkIsWhole, ContainmentHolds, CommandIsLive, Running, Ended
<1>2. CASE Refuses \/ TimesOutReading \/ TimesOutWaiting
  BY <1>2, FailKeepsInv DEF Refuses, TimesOutReading, TimesOutWaiting
<1>3. CASE Expire
  BY <1>3 DEF Expire, processes, stdout, RunnerInv, TypeOK, NothingBefore, Accounting,
     EndIsFinal, Containment, FailedIsOver, OkIsWhole, ContainmentHolds, CommandIsLive, Running, Ended
<1>4. CASE HelperDies
  BY <1>4 DEF HelperDies, Kill, Return, stdout, RunnerInv, TypeOK, NothingBefore, Accounting,
     EndIsFinal, Containment, FailedIsOver, OkIsWhole, ContainmentHolds, CommandIsLive, Running, Ended
<1>5. QED BY <1>1, <1>2, <1>3, <1>4

LEMMA NextKeepsInv == RunnerInv /\ [Next]_vars => RunnerInv'
<1> SUFFICES ASSUME RunnerInv, [Next]_vars PROVE RunnerInv' OBVIOUS
<1>1. CASE Caller
  BY <1>1, StartKeepsInv, ReadKeepsInv, EndKeepsInv DEF Caller
<1>2. CASE Processes
  BY <1>2, ProcessesKeepInv DEF Processes
<1>3. CASE Expire \/ HelperDies
  BY <1>3, EndKeepsInv
<1>4. CASE UNCHANGED vars
  BY <1>4 DEF vars, processes, stdout, RunnerInv, TypeOK, NothingBefore, Accounting,
     EndIsFinal, Containment, FailedIsOver, OkIsWhole, ContainmentHolds, CommandIsLive
<1>5. QED BY <1>1, <1>2, <1>3, <1>4 DEF Next

-----------------------------------------------------------------------------
(* Each step is a step of ProviderCommand, or none of its *)

\* What a process does alone can end the command, and cannot bring it back.
LEMMA ProcessesRefine ==
  ASSUME RunnerInv, NEW p \in Proc,
         \/ LeavesGroup(p) \/ Writes(p) \/ ClosesStdout(p) \/ Exits(p)
         \/ \E q \in Proc : Forks(p, q)
  PROVE  Command!Ends \/ UNCHANGED Command!vars
<1>1. UNCHANGED phase
  BY DEF LeavesGroup, Writes, ClosesStdout, Exits, Forks
<1>2. UNCHANGED CommandStage
  BY <1>1 DEF CommandStage, Running
<1>3. CommandIsLive' => CommandIsLive
  <2>1. CASE LeavesGroup(p) \/ Writes(p) \/ ClosesStdout(p) \/ Exits(p)
    BY <2>1 DEF LeavesGroup, Writes, ClosesStdout, Exits, processes, CommandIsLive
  <2>2. ASSUME NEW q \in Proc, Forks(p, q) PROVE CommandIsLive' => CommandIsLive
    BY <2>2 DEF Forks, CommandIsLive, RunnerInv, TypeOK, Containment
  <2>3. QED BY <2>1, <2>2
<1>4. CommandIsLive \in BOOLEAN /\ CommandIsLive' \in BOOLEAN
  BY Zenon DEF CommandIsLive
<1>5. (CommandIsLive = TRUE /\ CommandIsLive' = FALSE) \/ CommandIsLive' = CommandIsLive
  BY <1>3, <1>4, Zenon
<1>6. QED BY <1>2, <1>5 DEF Command!Ends, Command!vars

\* A call that ends leaves nothing new at work.
LEMMA EndsRefine ==
  ASSUME RunnerInv, NEW victims,
         phase \in Running, phase' \in {"ok", "dead"}, Kill(victims)
  PROVE  Command!Leaves(CommandStage')
<1>1. CommandStage = "running"
  BY DEF CommandStage, Running
<1>2. CommandIsLive' \in {CommandIsLive, FALSE}
  <2>1. CommandIsLive' => CommandIsLive
    BY DEF Kill, CommandIsLive
  <2>2. CommandIsLive \in BOOLEAN /\ CommandIsLive' \in BOOLEAN
    BY Zenon DEF CommandIsLive
  <2>3. QED BY <2>1, <2>2, Zenon
<1>3. QED BY <1>1, <1>2 DEF Command!Leaves

\* FailedIsOver says the rest.
LEMMA FailsRefine ==
  ASSUME RunnerInv', phase \in {"idle"} \cup Running, phase' = "error"
  PROVE  Command!Fails
<1>1. CommandStage \in {"ready", "running"} /\ CommandStage' = "failed"
  BY DEF CommandStage, Running
<1>2. CommandIsLive' = FALSE
  <2>1. ~CommandIsLive'
    BY DEF RunnerInv, FailedIsOver
  <2>2. CommandIsLive' \in BOOLEAN
    BY Zenon DEF CommandIsLive
  <2>3. QED BY <2>1, <2>2, Zenon
<1>3. QED BY <1>1, <1>2 DEF Command!Fails

LEMMA NextRefines ==
  ASSUME RunnerInv, RunnerInv', [Next]_vars
  PROVE  [Command!Next]_(Command!vars)
<1>1. CASE Processes
  BY <1>1, ProcessesRefine DEF Processes, Command!Next
<1>2. CASE Start
  <2>1. CommandStage = "ready" /\ CommandStage' = "running"
    BY <1>2 DEF Start, CommandStage, Running
  <2>2. CommandIsLive' = TRUE
    BY <1>2, Zenon DEF Start, CommandIsLive
  <2>3. QED BY <2>1, <2>2 DEF Command!Next, Command!Begin
<1>3. CASE StartFails \/ AssignFails \/ Refuses \/ TimesOutReading \/ TimesOutWaiting
  <2>1. phase \in {"idle"} \cup Running /\ phase' = "error"
    BY <1>3 DEF StartFails, AssignFails, Refuses, TimesOutReading, TimesOutWaiting, Fail, Return,
       Running
  <2>2. QED BY <2>1, FailsRefine DEF Command!Next
<1>4. CASE ReadTooMuch \/ Receive
  <2>1. CASE phase' = "error" /\ phase # "error"
    <3>1. phase \in Running
      BY <1>4, <2>1 DEF ReadTooMuch, Receive, Reads, Running, RunnerInv, TypeOK
    <3>2. QED BY <2>1, <3>1, FailsRefine DEF Command!Next
  <2>2. CASE phase' # "error" \/ phase = "error"
    <3>1. UNCHANGED <<alive, contained>> /\ (UNCHANGED phase \/ (phase \in Running /\ phase' \in Running))
      BY <1>4, <2>2 DEF ReadTooMuch, Receive, Reads, Fail, Return, Running, processes
    <3>2. QED BY <3>1 DEF Command!vars, CommandStage, CommandIsLive, Running
  <2>3. QED BY <2>1, <2>2
<1>5. CASE Succeeds \/ HelperDies
  <2>1. phase \in Running /\ phase' \in {"ok", "dead"} /\ \E victims : Kill(victims)
    BY <1>5 DEF Succeeds, HelperDies, Return, Running
  <2>2. Command!Leaves(CommandStage')
    BY <2>1, EndsRefine
  <2>3. CommandStage' \in {"succeeded", "abandoned"}
    BY <2>1 DEF CommandStage, Running
  <2>4. QED BY <2>2, <2>3 DEF Command!Next
<1>6. CASE Assign
  BY <1>6 DEF Assign, Command!vars, CommandStage, CommandIsLive, Running, RunnerInv, Containment
<1>7. CASE ReadChunk \/ ReadEnd \/ Expire \/ UNCHANGED vars
  <2>1. UNCHANGED <<alive, contained>> /\ (UNCHANGED phase \/ (phase \in Running /\ phase' \in Running))
    BY <1>7 DEF ReadChunk, ReadEnd, Reads, Expire, vars, processes, Running
  <2>2. QED BY <2>1 DEF Command!vars, CommandStage, CommandIsLive, Running
<1>8. QED BY <1>1, <1>2, <1>3, <1>4, <1>5, <1>6, <1>7 DEF Next, Caller

-----------------------------------------------------------------------------
(* The theorems *)

LEMMA Invariance == Spec => []RunnerInv
BY InitInv, NextKeepsInv, PTL DEF Spec

\* The variables of a call and of its command keep their types, for any command.
THEOREM TypeCorrect == Spec => []TypeOK
<1>1. RunnerInv => TypeOK BY DEF RunnerInv
<1>2. QED BY <1>1, Invariance, PTL

\* Whoever in the command writes, and whenever, run returns all of it or an error.
THEOREM AnswersAreWhole == Spec => []OkIsWhole
<1>1. RunnerInv => OkIsWhole BY DEF RunnerInv
<1>2. QED BY <1>1, Invariance, PTL

\* After a failure, and after any end of a call with a job, nothing contained is alive.
THEOREM NothingContainedSurvives == Spec => []ContainmentHolds
<1>1. RunnerInv => ContainmentHolds BY DEF RunnerInv
<1>2. QED BY <1>1, Invariance, PTL

\* The rest of the helper may take a call for one command that is over once it failed.
THEOREM RunIsOneCommand == Spec => ImplementsProviderCommand
<1>1. Init => Command!Init
  <2>1. Init => CommandStage = "ready" BY DEF Init, CommandStage, Running
  <2>2. Init => ~CommandIsLive BY DEF Init, CommandIsLive
  <2>3. CommandIsLive \in BOOLEAN BY Zenon DEF CommandIsLive
  <2>4. Init => CommandIsLive = FALSE BY <2>2, <2>3, Zenon
  <2>5. QED BY <2>1, <2>4 DEF Command!Init
<1>2. RunnerInv /\ RunnerInv' /\ [Next]_vars => [Command!Next]_(Command!vars)
  BY NextRefines
<1>3. QED BY <1>1, <1>2, Invariance, PTL DEF Spec, ImplementsProviderCommand, Command!Spec
=============================================================================
