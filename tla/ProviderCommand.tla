---------------------------- MODULE ProviderCommand ----------------------------
(***************************************************************************)
(* What process::run promises the rest of the helper about one command of  *)
(* a vendor: once it has failed, the command does nothing any more.  A     *)
(* command that succeeded, or whose helper has ended, may leave some of    *)
(* its processes at work.                                                  *)
(***************************************************************************)

VARIABLES
  stage,  \* of the call of run
  live    \* whether the command, or a process it keeps with it, is at work

vars == <<stage, live>>

Stage == {"ready", "running", "succeeded", "failed", "abandoned"}

Init == stage = "ready" /\ live = FALSE

Begin ==
  /\ stage = "ready"
  /\ stage' = "running"
  /\ live' = TRUE

Ends == live = TRUE /\ live' = FALSE /\ UNCHANGED stage

\* run returns, or its helper ends, and what was at work may have stopped by then.
Leaves(result) ==
  /\ stage = "running"
  /\ stage' = result
  /\ live' \in {live, FALSE}

Fails ==
  /\ stage \in {"ready", "running"}
  /\ stage' = "failed"
  /\ live' = FALSE

Next == Begin \/ Ends \/ Fails \/ Leaves("succeeded") \/ Leaves("abandoned")

Spec == Init /\ [][Next]_vars
=============================================================================
