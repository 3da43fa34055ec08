------------------------------ MODULE BridgeCache ------------------------------
(***************************************************************************)
(* The bridge of the device app (device/src/bridge.rs): every connection   *)
(* thread answers v1-v8 requests by running the installed helper once per  *)
(* request, and reads may be answered from a cache shared by all threads.  *)
(*                                                                         *)
(* One request of a thread is several steps, because the code holds the    *)
(* cache lock only twice and waits for the helper in two places:           *)
(*   Arrive       the clocks are read and the frame is classified          *)
(*   Hit / Miss   the first critical section                               *)
(*   HelperReads  the helper process looks at the provider                 *)
(*   OutputEnds   its output is complete                                   *)
(*   Finish...    it has ended, too, by when no deadline says; the second  *)
(*                critical section                                         *)
(*   TimedOut     HELPER_TIMEOUT came before its output ended; the second  *)
(*                critical section                                         *)
(* Other threads, sleep of the machine and corrections of the wall clock   *)
(* come between any two of them.                                           *)
(*                                                                         *)
(* Reply bytes are abstracted to the ghost record Reading: when the helper *)
(* looked, and which mutations had started and completed when its run      *)
(* began.  No action tests a ghost.                                        *)
(***************************************************************************)
EXTENDS Integers, FiniteSets

CONSTANTS
  Thread,         \* connection threads of the app
  Key,            \* cache keys <origin, v, method, provider>
  None,           \* no cache entry
  CacheTtl,       \* CACHE_TTL in ticks
  SleepSpans,     \* lengths of machine sleep
  WallSteps,      \* corrections of the wall clock, negative ones included
  MaxReal,        \* bound: the run ends at this time
  MaxMutations    \* bound: mutating requests per run

ASSUME ThreadAssumption == Thread # {}
ASSUME TtlAssumption == CacheTtl \in Nat \ {0}
ASSUME ClockAssumption == SleepSpans \subseteq Nat \ {0} /\ WallSteps \subseteq Int
ASSUME BoundAssumption == MaxReal \in Nat /\ MaxMutations \in Nat

VARIABLES
  clock,       \* what Clock::now() reads, and the true time as a ghost
  entries,     \* Cache.entries: an Entry or None for each key
  generation,  \* Cache.generation
  pc,          \* where each thread is in respond_at
  req,         \* the request a thread is answering
  now,         \* respond_at's `now`: the clock the thread read on arrival
  run,         \* the thread's `generation`, and the ghost of when its run began
  sample,      \* ghost: true time at which the thread's helper looked
  mutations    \* ghost: how many mutations started and completed so far

vars == <<clock, entries, generation, pc, req, now, run, sample, mutations>>

-----------------------------------------------------------------------------
(* Types *)

Clock == [mono : Nat, wall : Int, real : Nat]
Mark  == [started : Nat, completed : Nat]
Entry == [at : Clock, sampled : Nat, begun : Mark]
ASSUME NoneAssumption == None \notin Entry

Run   == [generation : Nat, begun : Mark]

\* What respond_at derives from a frame: the key of an unambiguous read; a
\* mutation (connectSelected, openApp, or any bytes the helper may read
\* differently); or neither, a malformed frame that the helper answers too.
Request     == [kind : {"read"}, key : Key] \cup [kind : {"mutation", "malformed"}, key : {None}]

\* Phases of a helper run: before and after it looked; and, its output being
\* complete, waiting for its end with a reply that may be kept or with anything else.
Waiting == {"replied", "closed"}
Helping == {"running", "read"} \cup Waiting

IsRead(r)   == r.kind = "read"
Mutates(r)  == r.kind = "mutation"

TypeOK ==
  /\ clock \in Clock
  /\ entries \in [Key -> Entry \cup {None}]
  /\ generation \in Nat
  /\ pc \in [Thread -> {"idle", "lookup"} \cup Helping]
  /\ req \in [Thread -> Request]
  /\ now \in [Thread -> Clock]
  /\ run \in [Thread -> Run]
  /\ sample \in [Thread -> Nat]
  /\ mutations \in Mark

-----------------------------------------------------------------------------
(* Clock::is_fresh_at: under CACHE_TTL old on both clocks.  The monotonic  *)
(* difference saturates at zero; a wall clock behind the entry's makes the *)
(* age unknown.                                                            *)
IsFresh(at, n) ==
  /\ n.mono - at.mono < CacheTtl
  /\ n.wall >= at.wall
  /\ n.wall - at.wall < CacheTtl

NoEntries == [k \in Key |-> None]

Zero     == [mono |-> 0, wall |-> 0, real |-> 0]
NoMark   == [started |-> 0, completed |-> 0]
IdleReq  == [kind |-> "malformed", key |-> None]
IdleRun  == [generation |-> 0, begun |-> NoMark]

Init ==
  /\ clock = Zero
  /\ entries = NoEntries
  /\ generation = 0
  /\ pc = [t \in Thread |-> "idle"]
  /\ req = [t \in Thread |-> IdleReq]
  /\ now = [t \in Thread |-> Zero]
  /\ run = [t \in Thread |-> IdleRun]
  /\ sample = [t \in Thread |-> 0]
  /\ mutations = NoMark

-----------------------------------------------------------------------------
(* Time.  CLOCK_MONOTONIC stands still while the machine sleeps; the wall  *)
(* clock does not, but may be set.                                         *)

ClockOnly == UNCHANGED <<entries, generation, pc, req, now, run, sample, mutations>>

Tick ==
  /\ clock.real < MaxReal
  /\ clock' = [mono |-> clock.mono + 1, wall |-> clock.wall + 1, real |-> clock.real + 1]
  /\ ClockOnly

\* Bound: one sleep.
Sleep ==
  /\ clock.mono = clock.real
  /\ \E d \in SleepSpans :
       /\ clock.real + d <= MaxReal
       /\ clock' = [mono |-> clock.mono, wall |-> clock.wall + d, real |-> clock.real + d]
  /\ ClockOnly

\* Bound: one correction away from the true time.
SetWallClock ==
  /\ clock.wall = clock.real
  /\ \E d \in WallSteps : clock' = [clock EXCEPT !.wall = @ + d]
  /\ ClockOnly

-----------------------------------------------------------------------------
(* One request *)

\* Mutating requests that have not started (only the bound counts them).
Outstanding == {t \in Thread : pc[t] = "lookup" /\ Mutates(req[t])}

\* Bridge::respond reads the clocks before it takes the lock (`now` and `sample`
\* are kept for reads only: nothing uses another request's).
Arrive(t, r) ==
  /\ pc[t] = "idle"
  /\ Mutates(r) => mutations.started + Cardinality(Outstanding) < MaxMutations
  /\ pc' = [pc EXCEPT ![t] = "lookup"]
  /\ req' = [req EXCEPT ![t] = r]
  /\ now' = [now EXCEPT ![t] = IF IsRead(r) THEN clock ELSE Zero]
  /\ UNCHANGED <<clock, entries, generation, run, sample, mutations>>

\* What belonged to a run, of which nothing is kept in the cache any more.
Forget(t) ==
  /\ now' = [now EXCEPT ![t] = Zero]
  /\ run' = [run EXCEPT ![t] = IdleRun]
  /\ sample' = [sample EXCEPT ![t] = 0]

\* The thread ends its request.
Idle(t) ==
  /\ pc' = [pc EXCEPT ![t] = "idle"]
  /\ req' = [req EXCEPT ![t] = IdleReq]
  /\ Forget(t)

FreshEntry(t) ==
  /\ IsRead(req[t])
  /\ entries[req[t].key] # None
  /\ IsFresh(entries[req[t].key].at, now[t])

\* First critical section, answered from the cache with the new id.
Hit(t) ==
  /\ pc[t] = "lookup"
  /\ FreshEntry(t)
  /\ Idle(t)
  /\ UNCHANGED <<clock, entries, generation, mutations>>

\* What the first critical section leaves in the cache: nothing for a mutation;
\* no stale entry under the key that was looked up.
AfterLookup(t) ==
  IF Mutates(req[t]) THEN NoEntries
  ELSE IF IsRead(req[t]) /\ ~FreshEntry(t) THEN [entries EXCEPT ![req[t].key] = None]
  ELSE entries

\* First critical section, when the helper must run.  A fresh entry is passed
\* over, and kept, if its reply does not hold its id exactly once (swap_id).
Miss(t) ==
  /\ pc[t] = "lookup"
  /\ entries' = AfterLookup(t)
  /\ IF Mutates(req[t])
     THEN /\ generation' = generation + 1
          /\ mutations' = [mutations EXCEPT !.started = @ + 1]
     ELSE UNCHANGED <<generation, mutations>>
  /\ run' = [run EXCEPT ![t] = [generation |-> generation', begun |-> mutations']]
  /\ pc' = [pc EXCEPT ![t] = "running"]
  /\ UNCHANGED <<clock, req, now, sample>>

\* The helper process asks the provider for what is read.
HelperReads(t) ==
  /\ pc[t] = "running"
  /\ IsRead(req[t])
  /\ sample' = [sample EXCEPT ![t] = clock.real]
  /\ pc' = [pc EXCEPT ![t] = "read"]
  /\ UNCHANGED <<clock, entries, generation, req, now, run, mutations>>

\* The reader thread has the whole output: the helper closed its stdout, or wrote
\* MAX_REPLY bytes.  A reply that may be kept is a read's, ok:true, with its id and version.
OutputEnds(t) ==
  /\ \/ pc[t] = "read" /\ pc' = [pc EXCEPT ![t] = "replied"] /\ UNCHANGED <<now, run, sample>>
     \/ pc[t] \in {"running", "read"} /\ pc' = [pc EXCEPT ![t] = "closed"] /\ Forget(t)
  /\ UNCHANGED <<clock, entries, generation, req, mutations>>

\* Faults in NewEntry: the age counts from the store instead of the arrival; the
\* entry keeps one clock only.
NewEntryAgedFromStore(t) == [at |-> clock, sampled |-> sample[t], begun |-> run[t].begun]
NewEntryMonotonic(t) ==
  [at |-> [mono |-> now[t].mono, real |-> now[t].real],
   sampled |-> sample[t], begun |-> run[t].begun]

NewEntry(t) == [at |-> now[t], sampled |-> sample[t], begun |-> run[t].begun]

\* Fault in MayStore: the generation is not compared again after the run.
MayStoreAlways(t) == TRUE

\* A read's reply is kept only if no mutation moved the generation.
MayStore(t) == generation = run[t].generation

\* The helper has ended (child.wait, however long that takes).  Second critical
\* section of a read whose reply may be kept ...
FinishReusable(t) ==
  /\ pc[t] = "replied"
  /\ entries' = IF MayStore(t) THEN [entries EXCEPT ![req[t].key] = NewEntry(t)] ELSE entries
  /\ Idle(t)
  /\ UNCHANGED <<clock, generation, mutations>>

\* ... and of any other request: a mutation clears the cache again.
KeepNothing(t) ==
  /\ IF Mutates(req[t])
     THEN /\ entries' = NoEntries
          /\ generation' = generation + 1
          /\ mutations' = [mutations EXCEPT !.completed = @ + 1]
     ELSE UNCHANGED <<entries, generation, mutations>>
  /\ Idle(t)
  /\ UNCHANGED clock

FinishOther(t) == pc[t] = "closed" /\ KeepNothing(t)

\* Fault in TimedOut: a helper that has begun to answer is waited for.
TimedOutBeforeLook(t) == pc[t] = "running" /\ KeepNothing(t)

\* HELPER_TIMEOUT passed before the output was complete: the helper is killed, and
\* nothing is kept.  Or there was none to run.
TimedOut(t) == pc[t] \in {"running", "read"} /\ KeepNothing(t)

-----------------------------------------------------------------------------

\* The second critical section, which ends the request.
Finish(t) == FinishReusable(t) \/ FinishOther(t) \/ TimedOut(t)

Step(t) == Hit(t) \/ Miss(t) \/ HelperReads(t) \/ OutputEnds(t) \/ Finish(t)

Next ==
  \/ Tick \/ Sleep \/ SetWallClock
  \/ \E t \in Thread : Step(t) \/ \E r \in Request : Arrive(t, r)

Spec == Init /\ [][Next]_vars

\* A thread runs on, and HELPER_TIMEOUT comes; the helper's own steps, its end
\* included, owe nothing.
FairSpec ==
  /\ Spec
  /\ \A t \in Thread : WF_vars(Hit(t) \/ Miss(t)) /\ WF_vars(TimedOut(t))

-----------------------------------------------------------------------------
(* Properties *)

\* Every cached reply comes from a helper run that began after every mutation so
\* far, completed or still running, had last cleared the cache: a wallet that has
\* connected is never told what was read before (bridge.rs, "A connect or app
\* launch clears the cache").
CachedReadsFollowEveryMutation ==
  \A k \in Key : entries[k] # None => entries[k].begun = mutations

\* A lookup that ends the request was answered from the cache.
ServesFromCache(t) == pc[t] = "lookup" /\ pc'[t] = "idle"

\* Between two readings: the time the machine slept, and how much the wall clock
\* was set back (net).
Slept(a, b)   == (b.real - a.real) - (b.mono - a.mono)
SetBack(a, b) == (b.real - a.real) - (b.wall - a.wall)

\* A reply served from the cache was read from the provider less than CACHE_TTL
\* before the request read its clock, however requests overlap and whichever
\* order they store in; only a machine that slept AND had its wall clock set back
\* in between can exceed it, by no more than the smaller of the two.
HitAgeBound ==
  [][\A t \in Thread : ServesFromCache(t) =>
       LET e == entries[req[t].key] IN
         /\ now[t].real - e.sampled < CacheTtl + Slept(e.at, now[t])
         /\ now[t].real - e.sampled < CacheTtl + SetBack(e.at, now[t])]_vars

\* Every request is answered, whatever the helper does and the other threads do
\* meanwhile, unless its helper has closed its output, or written too much, and does
\* not end: bridge.rs:234 waits for that without a deadline.
EveryRequestAnswered ==
  \A t \in Thread : (pc[t] # "idle") ~> (pc[t] = "idle" \/ pc[t] \in Waiting)
=============================================================================
