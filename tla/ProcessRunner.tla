----------------------------- MODULE ProcessRunner -----------------------------
(***************************************************************************)
(* process::run (rust/src/process/unix.rs and windows.rs): one command of  *)
(* a vendor run by the helper, its child processes, and its standard       *)
(* output, under a deadline and a cap.                                     *)
(*                                                                         *)
(* The Unix build puts the child in a process group before it runs, reads  *)
(* in the calling thread and kills the group when it fails.  The Windows   *)
(* build assigns the child to a job after it has started, reads in a       *)
(* thread of its own, and the job ends with the call or with the helper.   *)
(* What a process inherits (its containment, and stdout) it has from its   *)
(* birth.  Output is counted in reads of the caller's buffer.              *)
(***************************************************************************)
EXTENDS Naturals, FiniteSets

CONSTANTS
  Proc,      \* the command's processes
  Child,     \* the one that run starts
  Cap,       \* Limits::output
  MaxWrites  \* bound: writes to stdout

ASSUME ChildAssumption == Child \in Proc
ASSUME BoundAssumption == Cap \in Nat /\ MaxWrites \in Nat

VARIABLES
  kind,       \* the build: process groups or jobs
  phase,      \* of the call of run
  alive,      \* processes that run
  contained,  \* processes in the group, or in the job
  holds,      \* processes with the pipe as their stdout
  started,    \* processes that have been started
  status,     \* what try_wait says of the child
  pipe,       \* written and not read
  output,     \* read
  written,    \* ghost: all that was written
  expired,    \* whether the deadline has passed
  reader      \* the Windows build's reader thread and its message

processes == <<alive, contained, holds, started, status>>
stdout == <<pipe, output, written>>
vars == <<kind, phase, processes, stdout, expired, reader>>

Running == {"assign", "reading", "waiting"}
Ended == {"ok", "error", "dead"}

TypeOK ==
  /\ kind \in {"group", "job"}
  /\ phase \in {"idle"} \cup Running \cup Ended
  /\ started \in SUBSET Proc
  /\ alive \in SUBSET started
  /\ contained \in SUBSET started
  /\ holds \in SUBSET alive
  /\ status \in {"running", "zero", "other"}
  /\ (Child \in alive) = (Child \in started /\ status = "running")
  /\ output \in 0..Cap
  /\ pipe \in Nat
  /\ written \in 0..MaxWrites
  /\ expired \in BOOLEAN
  /\ reader \in {"none", "reading", "whole", "over"}

Init ==
  /\ kind \in {"group", "job"}
  /\ phase = "idle"
  /\ alive = {} /\ contained = {} /\ holds = {} /\ started = {}
  /\ status = "running"
  /\ pipe = 0 /\ output = 0 /\ written = 0
  /\ expired = FALSE
  /\ reader = "none"

-----------------------------------------------------------------------------
(* The command's processes *)

Forks(p, q) ==
  /\ p \in alive /\ q \notin started
  /\ started' = started \cup {q}
  /\ alive' = alive \cup {q}
  /\ contained' = IF p \in contained THEN contained \cup {q} ELSE contained
  /\ holds' = IF p \in holds THEN holds \cup {q} ELSE holds
  /\ UNCHANGED <<kind, phase, status, stdout, expired, reader>>

\* A Unix process starts a session of its own; the group's leader cannot.
LeavesGroup(p) ==
  /\ kind = "group"
  /\ p \in (alive \cap contained) \ {Child}
  /\ contained' = contained \ {p}
  /\ UNCHANGED <<kind, phase, alive, holds, started, status, stdout, expired, reader>>

\* What is written when nobody reads any more changes nothing.
Writes(p) ==
  /\ p \in holds
  /\ phase \in Running
  /\ written < MaxWrites
  /\ written' = written + 1
  /\ pipe' = pipe + 1
  /\ UNCHANGED <<kind, phase, processes, output, expired, reader>>

ClosesStdout(p) ==
  /\ p \in holds
  /\ holds' = holds \ {p}
  /\ UNCHANGED <<kind, phase, alive, contained, started, status, stdout, expired, reader>>

Exits(p) ==
  /\ p \in alive
  /\ alive' = alive \ {p}
  /\ holds' = holds \ {p}
  /\ IF p = Child THEN status' \in {"zero", "other"} ELSE UNCHANGED status
  /\ UNCHANGED <<kind, phase, contained, started, stdout, expired, reader>>

-----------------------------------------------------------------------------
(* The call *)

\* Child::kill, kill_group, TerminateJobObject, or the job's last handle closing.
Kill(victims) ==
  /\ alive' = alive \ victims
  /\ holds' = holds \ victims
  /\ status' = IF Child \in victims /\ status = "running" THEN "other" ELSE status
  /\ UNCHANGED <<contained, started>>

Return(result) == phase' = result /\ UNCHANGED <<kind, stdout, expired>>

\* No job object, no system directory, or no such program.
StartFails ==
  /\ phase = "idle"
  /\ Return("error")
  /\ UNCHANGED <<processes, reader>>

\* spawn: process_group(0) is in force when the child runs, the job is not.
Start ==
  /\ phase = "idle"
  /\ phase' = IF kind = "group" THEN "reading" ELSE "assign"
  /\ started' = {Child} /\ alive' = {Child} /\ holds' = {Child}
  /\ contained' = IF kind = "group" THEN {Child} ELSE {}
  /\ UNCHANGED <<kind, status, stdout, expired, reader>>

\* AssignProcessToJobObject takes the child, not the children it has by now; and
\* the reader thread starts.
Assign ==
  /\ phase = "assign"
  /\ contained' = {Child}
  /\ phase' = "reading"
  /\ reader' = "reading"
  /\ UNCHANGED <<kind, alive, holds, started, status, stdout, expired>>

AssignFails ==
  /\ phase = "assign"
  /\ Kill({Child})
  /\ Return("error")
  /\ UNCHANGED reader

\* Fault in Contained: only the child is killed.
ContainedChild == {Child}

\* What the group's signal and the end of the job reach.
Contained == contained

\* An error after the start.  Either build ends what is contained.
Fail ==
  /\ Kill(Contained)
  /\ Return("error")
  /\ UNCHANGED reader

\* The Unix loop looks at the deadline first; the Windows reader has none.
Reads == IF kind = "group" THEN phase = "reading" /\ ~expired ELSE reader = "reading"

\* Fault in ReadChunk: the cap is looked at after the bytes are kept.
ReadChunkFirst ==
  /\ Reads
  /\ pipe > 0
  /\ pipe' = pipe - 1
  /\ output <= Cap
  /\ output' = output + 1
  /\ UNCHANGED <<kind, phase, processes, written, expired, reader>>

ReadChunk ==
  /\ Reads
  /\ pipe > 0
  /\ pipe' = pipe - 1
  /\ output < Cap
  /\ output' = output + 1
  /\ UNCHANGED <<kind, phase, processes, written, expired, reader>>

\* One more does not fit: the Unix call fails here, the Windows reader says so.
ReadTooMuch ==
  /\ Reads
  /\ pipe > 0 /\ output = Cap
  /\ IF kind = "group" THEN Fail
     ELSE reader' = "over" /\ UNCHANGED <<kind, phase, processes, stdout, expired>>

\* Fault in AtEnd: the output is complete when the child has ended.
AtEndOfChild == pipe = 0 /\ (holds = {} \/ Child \notin alive)

\* read returns 0 when the pipe is empty and nobody holds its other end.
AtEnd == pipe = 0 /\ holds = {}

ReadEnd ==
  /\ Reads
  /\ AtEnd
  /\ IF kind = "group" THEN phase' = "waiting" /\ UNCHANGED reader
     ELSE reader' = "whole" /\ UNCHANGED phase
  /\ UNCHANGED <<kind, processes, stdout, expired>>

\* recv_timeout: the reader's message, even a late one, ...
Receive ==
  /\ kind = "job" /\ phase = "reading"
  /\ \/ reader = "whole" /\ phase' = "waiting" /\ UNCHANGED <<kind, processes, stdout, expired, reader>>
     \/ reader = "over" /\ Fail

\* ... or none by the deadline.
TimesOutReading ==
  /\ phase = "reading" /\ expired
  /\ kind = "job" => reader = "reading"
  /\ Fail

\* try_wait, every 10 ms until the deadline.  A job ends with the call; a group,
\* if the call succeeds, does not.
Succeeds ==
  /\ phase = "waiting" /\ status = "zero"
  /\ Kill(IF kind = "job" THEN Contained ELSE {})
  /\ Return("ok")
  /\ UNCHANGED reader

Refuses ==
  /\ phase = "waiting" /\ status = "other"
  /\ Fail

\* Fault in TimesOutWaiting: the child is waited for without a deadline.
WaitsForEver == FALSE /\ UNCHANGED vars

TimesOutWaiting ==
  /\ phase = "waiting" /\ status = "running" /\ expired
  /\ Fail

Expire ==
  /\ phase \in Running
  /\ ~expired
  /\ expired' = TRUE
  /\ UNCHANGED <<kind, phase, processes, stdout, reader>>

\* Fault in HelperDies: the job is one that does not end with its last handle.
HelperDiesAlone ==
  /\ phase \in Running
  /\ Return("dead")
  /\ UNCHANGED <<processes, reader>>

\* Chrome or the bridge ends the helper; its handles close.
HelperDies ==
  /\ phase \in Running
  /\ Kill(IF kind = "job" THEN contained ELSE {})
  /\ Return("dead")
  /\ reader' = "none"

-----------------------------------------------------------------------------

Caller ==
  \/ StartFails \/ Start \/ Assign \/ AssignFails
  \/ ReadChunk \/ ReadTooMuch \/ ReadEnd \/ Receive
  \/ Succeeds \/ Refuses \/ TimesOutReading \/ TimesOutWaiting
Processes ==
  \E p \in Proc :
    \/ LeavesGroup(p) \/ Writes(p) \/ ClosesStdout(p) \/ Exits(p)
    \/ \E q \in Proc : Forks(p, q)
Next == Caller \/ Processes \/ Expire \/ HelperDies

\* The calling thread runs on and time passes.  The command owes nothing.
Fairness == WF_vars(Caller) /\ WF_vars(Expire)
Spec == Init /\ [][Next]_vars /\ Fairness

-----------------------------------------------------------------------------
(* Properties *)

\* "Returns stdout only when it exits 0 within the deadline and the output fits":
\* what is returned is all that any process of the command ever wrote.
OkIsWhole ==
  phase = "ok" => status = "zero" /\ output = written /\ written <= Cap

\* Nothing that is contained outlives a failure, nor, with a job, any other end of
\* the call ("a kill-on-close Job Object").
ContainmentHolds ==
  phase = "error" \/ (kind = "job" /\ phase \in {"ok", "dead"}) => alive \cap contained = {}

\* A call ends, whatever the command does.
EveryRunEnds == phase \in Running ~> phase \in Ended

\* To the rest of the helper a call is one command, over for good once it failed.
CommandStage ==
  CASE phase = "idle" -> "ready"
    [] phase \in Running -> "running"
    [] phase = "ok" -> "succeeded"
    [] phase = "error" -> "failed"
    [] phase = "dead" -> "abandoned"
CommandIsLive == alive \cap (contained \cup {Child}) # {}
Command == INSTANCE ProviderCommand WITH stage <- CommandStage, live <- CommandIsLive
ImplementsProviderCommand == Command!Spec
=============================================================================
