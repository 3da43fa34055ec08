--------------------------- MODULE BridgeCacheProofs ---------------------------
(* Proofs about BridgeCache, for any number of threads and keys and any bounds. *)
EXTENDS BridgeCache, TLAPS

-----------------------------------------------------------------------------
(* Type correctness *)

LEMMA RequestTypes ==
  ASSUME NEW r \in Request
  PROVE  /\ IsRead(r) => r.key \in Key
         /\ IsRead(r) => ~Mutates(r)
  BY DEF Request, IsRead, Mutates

LEMMA IdleTypes == IdleReq \in Request /\ IdleRun \in Run /\ Zero \in Clock /\ NoMark \in Mark
  BY DEF IdleReq, IdleRun, Zero, NoMark, Request, Run, Clock, Mark

LEMMA InitType == Init => TypeOK
  BY IdleTypes DEF Init, TypeOK, NoEntries, Zero, NoMark, Clock, Mark

LEMMA StepType == TypeOK /\ [Next]_vars => TypeOK'
<1> SUFFICES ASSUME TypeOK, [Next]_vars PROVE TypeOK'
  OBVIOUS
<1> USE ClockAssumption, BoundAssumption
<1>1. CASE Tick
  BY <1>1 DEF TypeOK, Tick, ClockOnly, Clock
<1>2. CASE Sleep
  <2>1. PICK d \in SleepSpans :
          clock' = [mono |-> clock.mono, wall |-> clock.wall + d, real |-> clock.real + d]
    BY <1>2 DEF Sleep
  <2>2. d \in Nat
    OBVIOUS
  <2>3. clock' \in Clock
    BY <2>1, <2>2 DEF TypeOK, Clock
  <2>4. ClockOnly
    BY <1>2 DEF Sleep
  <2>5. QED BY <2>3, <2>4 DEF TypeOK, ClockOnly
<1>3. CASE SetWallClock
  <2>1. PICK d \in WallSteps : clock' = [clock EXCEPT !.wall = @ + d]
    BY <1>3 DEF SetWallClock
  <2>2. clock' \in Clock
    BY <2>1 DEF TypeOK, Clock
  <2>3. ClockOnly
    BY <1>3 DEF SetWallClock
  <2>4. QED BY <2>2, <2>3 DEF TypeOK, ClockOnly
<1>4. ASSUME NEW t \in Thread, NEW r \in Request, Arrive(t, r) PROVE TypeOK'
  BY <1>4, IdleTypes DEF TypeOK, Arrive
<1>5. ASSUME NEW t \in Thread, Hit(t) PROVE TypeOK'
  BY <1>5, IdleTypes DEF TypeOK, Hit, Idle, Forget
<1>6. ASSUME NEW t \in Thread, Miss(t) PROVE TypeOK'
  <2>1. AfterLookup(t) \in [Key -> Entry \cup {None}]
    BY RequestTypes DEF TypeOK, AfterLookup, NoEntries
  <2>2. generation' \in Nat /\ mutations' \in Mark
    BY <1>6 DEF TypeOK, Miss, Mark
  <2>3. [generation |-> generation', begun |-> mutations'] \in Run
    BY <2>2 DEF Run
  <2>4. QED BY <1>6, <2>1, <2>2, <2>3 DEF TypeOK, Miss, Helping
<1>7. ASSUME NEW t \in Thread, HelperReads(t) PROVE TypeOK'
  BY <1>7 DEF TypeOK, HelperReads, Clock, Helping, Waiting
<1>8. ASSUME NEW t \in Thread, OutputEnds(t) PROVE TypeOK'
  BY <1>8, IdleTypes DEF TypeOK, OutputEnds, Forget, Helping, Waiting
<1>9. ASSUME NEW t \in Thread, Finish(t) PROVE TypeOK'
  <2>1. Idle(t) /\ UNCHANGED clock
    BY <1>9 DEF Finish, FinishReusable, FinishOther, TimedOut, KeepNothing
  <2>2. CASE FinishReusable(t)
    <3>1. NewEntry(t) \in Entry
      BY DEF TypeOK, NewEntry, Entry, Run
    <3>2. entries' \in [Key -> Entry \cup {None}]
      BY <2>2, <3>1 DEF TypeOK, FinishReusable
    <3>3. QED BY <2>1, <2>2, <3>2, IdleTypes DEF TypeOK, FinishReusable, Idle, Forget
  <2>3. CASE KeepNothing(t)
    <3>1. generation' \in Nat /\ mutations' \in Mark
      BY <2>3 DEF TypeOK, KeepNothing, Mark
    <3>2. entries' \in [Key -> Entry \cup {None}]
      BY <2>3 DEF TypeOK, KeepNothing, NoEntries
    <3>3. QED BY <2>1, <3>1, <3>2, IdleTypes DEF TypeOK, Idle, Forget
  <2>4. QED BY <1>9, <2>2, <2>3 DEF Finish, FinishOther, TimedOut
<1>10. CASE UNCHANGED vars
  BY <1>10 DEF TypeOK, vars
<1>11. QED
  BY <1>1, <1>2, <1>3, <1>4, <1>5, <1>6, <1>7, <1>8, <1>9, <1>10 DEF Next, Step

\* Every state of every run is well typed.
THEOREM TypeCorrect == Spec => []TypeOK
<1>1. QED BY InitType, StepType, PTL DEF Spec

-----------------------------------------------------------------------------
(* A cached read follows every mutation.  `generation` counts the clears, a *)
(* run remembers the count and the mutations behind it, so an unchanged     *)
(* generation means no mutation started or completed since.                 *)

GenerationCountsClears == generation = mutations.started + mutations.completed

\* The phases of a run whose reply may still be kept.
MayKeep == {"running", "read", "replied"}

RunsBeganInThePast ==
  \A t \in Thread : pc[t] \in MayKeep =>
    /\ run[t].generation = run[t].begun.started + run[t].begun.completed
    /\ run[t].begun.started <= mutations.started
    /\ run[t].begun.completed <= mutations.completed

FreshInv == TypeOK /\ GenerationCountsClears /\ RunsBeganInThePast /\ CachedReadsFollowEveryMutation

LEMMA FreshInit == Init => FreshInv
  BY InitType DEF Init, FreshInv, GenerationCountsClears, RunsBeganInThePast, MayKeep,
     CachedReadsFollowEveryMutation, NoMark, NoEntries

\* A read that may store began at the present count of mutations.
LEMMA UnchangedGeneration ==
  ASSUME FreshInv, NEW t \in Thread, pc[t] \in MayKeep, generation = run[t].generation
  PROVE  run[t].begun = mutations
<1>1. run[t].begun \in Mark /\ mutations \in Mark
  BY DEF FreshInv, TypeOK, Run
<1>2. run[t].begun.started = mutations.started /\ run[t].begun.completed = mutations.completed
  BY <1>1 DEF FreshInv, GenerationCountsClears, RunsBeganInThePast, Mark
<1>3. QED BY <1>1, <1>2 DEF Mark

LEMMA FreshStep == FreshInv /\ [Next]_vars => FreshInv'
<1> SUFFICES ASSUME FreshInv, [Next]_vars PROVE FreshInv'
  OBVIOUS
<1>0. TypeOK /\ TypeOK'
  BY StepType DEF FreshInv
<1> USE DEF FreshInv, GenerationCountsClears, RunsBeganInThePast, MayKeep, CachedReadsFollowEveryMutation
<1>1. CASE Tick \/ Sleep \/ SetWallClock
  BY <1>0, <1>1 DEF Tick, Sleep, SetWallClock, ClockOnly
<1>2. ASSUME NEW t \in Thread, NEW r \in Request, Arrive(t, r) PROVE FreshInv'
  BY <1>0, <1>2 DEF Arrive, TypeOK
<1>3. ASSUME NEW t \in Thread, Hit(t) PROVE FreshInv'
  BY <1>0, <1>3 DEF Hit, Idle, Forget, TypeOK
<1>4. ASSUME NEW t \in Thread, Miss(t) PROVE FreshInv'
  <2>1. GenerationCountsClears'
    BY <1>0, <1>4 DEF Miss, TypeOK, Mark
  <2>2. mutations.started <= mutations'.started /\ mutations.completed <= mutations'.completed
    BY <1>0, <1>4 DEF Miss, TypeOK, Mark
  <2>3. RunsBeganInThePast'
    <3> SUFFICES ASSUME NEW u \in Thread, (pc[u] \in MayKeep)'
                 PROVE  /\ run'[u].generation = run'[u].begun.started + run'[u].begun.completed
                        /\ run'[u].begun.started <= mutations'.started
                        /\ run'[u].begun.completed <= mutations'.completed
      OBVIOUS
    <3>1. CASE u = t
      BY <1>0, <1>4, <2>1, <3>1 DEF Miss, TypeOK, Mark
    <3>2. CASE u # t
      BY <1>0, <1>4, <2>2, <3>2 DEF Miss, TypeOK, Mark, Run
    <3>3. QED BY <3>1, <3>2
  <2>4. CachedReadsFollowEveryMutation'
    <3>1. CASE Mutates(req[t])
      BY <1>4, <3>1 DEF Miss, AfterLookup, NoEntries
    <3>2. CASE ~Mutates(req[t])
      BY <1>0, <1>4, <3>2 DEF Miss, AfterLookup, TypeOK
    <3>3. QED BY <3>1, <3>2
  <2>5. QED BY <1>0, <2>1, <2>3, <2>4
<1>5. ASSUME NEW t \in Thread, HelperReads(t) \/ OutputEnds(t) PROVE FreshInv'
  BY <1>0, <1>5 DEF HelperReads, OutputEnds, Forget, TypeOK
<1>6. ASSUME NEW t \in Thread, Finish(t) PROVE FreshInv'
  <2>1. CASE FinishReusable(t)
    <3>1. CachedReadsFollowEveryMutation'
      <4>1. CASE MayStore(t)
        <5>1. run[t].begun = mutations
          BY <2>1, <4>1, UnchangedGeneration DEF MayStore, FinishReusable
        <5>2. QED BY <1>0, <2>1, <4>1, <5>1 DEF FinishReusable, NewEntry, TypeOK
      <4>2. CASE ~MayStore(t)
        BY <2>1, <4>2 DEF FinishReusable
      <4>3. QED BY <4>1, <4>2
    <3>2. GenerationCountsClears' /\ RunsBeganInThePast'
      BY <1>0, <2>1 DEF FinishReusable, Idle, Forget, TypeOK
    <3>3. QED BY <1>0, <3>1, <3>2
  <2>2. CASE KeepNothing(t)
    <3>1. GenerationCountsClears'
      BY <1>0, <2>2 DEF KeepNothing, TypeOK, Mark
    <3>2. mutations.started <= mutations'.started /\ mutations.completed <= mutations'.completed
      BY <1>0, <2>2 DEF KeepNothing, TypeOK, Mark
    <3>3. RunsBeganInThePast'
      BY <1>0, <2>2, <3>2 DEF KeepNothing, Idle, Forget, TypeOK, Mark, Run
    <3>4. CachedReadsFollowEveryMutation'
      BY <2>2 DEF KeepNothing, NoEntries
    <3>5. QED BY <1>0, <3>1, <3>3, <3>4
  <2>3. QED BY <1>6, <2>1, <2>2 DEF Finish, FinishOther, TimedOut
<1>7. CASE UNCHANGED vars
  BY <1>0, <1>7 DEF vars
<1>8. QED
  BY <1>1, <1>2, <1>3, <1>4, <1>5, <1>6, <1>7 DEF Next, Step

\* Once a mutation has started or completed, no read from before it is cached.
THEOREM CachedReadsAreAfterMutations == Spec => []CachedReadsFollowEveryMutation
<1>1. FreshInv => CachedReadsFollowEveryMutation
  BY DEF FreshInv
<1>2. QED BY FreshInit, FreshStep, <1>1, PTL DEF Spec

-----------------------------------------------------------------------------
(* The age of a reply served from the cache.  An entry is stamped with a    *)
(* clock read before its helper looked, never after.                        *)

LookedAfterStamp ==
  /\ \A t \in Thread : pc[t] \in {"lookup", "running", "read"} /\ IsRead(req[t]) => now[t].real <= clock.real
  /\ \A t \in Thread : pc[t] \in {"read", "replied"} => IsRead(req[t]) /\ now[t].real <= sample[t]
  /\ \A k \in Key : entries[k] # None => entries[k].at.real <= entries[k].sampled

AgeInv == TypeOK /\ LookedAfterStamp

LEMMA AgeInit == Init => AgeInv
  BY InitType DEF Init, AgeInv, LookedAfterStamp, NoEntries

LEMMA ClockAdvances ==
  ASSUME TypeOK, [Next]_vars
  PROVE  clock.real <= clock'.real
<1> USE ClockAssumption DEF TypeOK, Clock
<1>1. CASE Tick
  BY <1>1 DEF Tick
<1>2. CASE Sleep
  BY <1>2 DEF Sleep
<1>3. CASE SetWallClock
  BY <1>3 DEF SetWallClock
<1>4. CASE UNCHANGED clock
  BY <1>4
<1>5. QED
  BY <1>1, <1>2, <1>3, <1>4
  DEF Next, Step, Arrive, Hit, Miss, HelperReads, OutputEnds,
      Finish, FinishReusable, FinishOther, TimedOut, KeepNothing, vars

LEMMA AgeStep == AgeInv /\ [Next]_vars => AgeInv'
<1> SUFFICES ASSUME AgeInv, [Next]_vars PROVE AgeInv'
  OBVIOUS
<1>0. TypeOK /\ TypeOK' /\ clock.real <= clock'.real
  BY StepType, ClockAdvances DEF AgeInv
<1> USE DEF AgeInv, LookedAfterStamp
<1>1. CASE Tick \/ Sleep \/ SetWallClock
  BY <1>0, <1>1 DEF Tick, Sleep, SetWallClock, ClockOnly, TypeOK, Clock
<1>2. ASSUME NEW t \in Thread, NEW r \in Request, Arrive(t, r) PROVE AgeInv'
  BY <1>0, <1>2 DEF Arrive, TypeOK, Clock
<1>3. ASSUME NEW t \in Thread, Hit(t) PROVE AgeInv'
  BY <1>0, <1>3 DEF Hit, Idle, Forget, TypeOK
<1>4. ASSUME NEW t \in Thread, Miss(t) PROVE AgeInv'
  BY <1>0, <1>4 DEF Miss, AfterLookup, NoEntries, TypeOK
<1>5. ASSUME NEW t \in Thread, HelperReads(t) \/ OutputEnds(t) PROVE AgeInv'
  BY <1>0, <1>5 DEF HelperReads, OutputEnds, Forget, TypeOK
<1>6. ASSUME NEW t \in Thread, Finish(t) PROVE AgeInv'
  <2>1. Idle(t) /\ UNCHANGED clock
    BY <1>6 DEF Finish, FinishReusable, FinishOther, TimedOut, KeepNothing
  <2>2. \/ entries' = NoEntries \/ entries' = entries
        \/ /\ pc[t] = "replied"
           /\ entries' = [entries EXCEPT ![req[t].key] = NewEntry(t)]
    BY <1>6 DEF Finish, FinishReusable, FinishOther, TimedOut, KeepNothing
  <2>3. \A k \in Key : entries'[k] # None => entries'[k].at.real <= entries'[k].sampled
    BY <1>0, <2>2 DEF NoEntries, NewEntry, TypeOK
  <2>4. QED BY <1>0, <2>1, <2>3 DEF Idle, Forget, TypeOK
<1>7. CASE UNCHANGED vars
  BY <1>0, <1>7 DEF vars
<1>8. QED
  BY <1>1, <1>2, <1>3, <1>4, <1>5, <1>6, <1>7 DEF Next, Step

\* Only Hit ends a request at the lookup.
LEMMA OnlyHitsServe ==
  ASSUME TypeOK, [Next]_vars, NEW t \in Thread, ServesFromCache(t)
  PROVE  FreshEntry(t)
<1> USE DEF ServesFromCache, TypeOK
<1>1. ASSUME NEW u \in Thread, Step(u) PROVE FreshEntry(t)
  BY <1>1 DEF Step, Hit, Miss, HelperReads, OutputEnds, Finish, FinishReusable,
     FinishOther, TimedOut, KeepNothing, Idle
<1>2. ASSUME NEW u \in Thread, NEW r \in Request, Arrive(u, r) PROVE FreshEntry(t)
  BY <1>2 DEF Arrive
<1>3. ~(Tick \/ Sleep \/ SetWallClock \/ UNCHANGED vars)
  BY DEF Tick, Sleep, SetWallClock, ClockOnly, vars
<1>4. QED BY <1>1, <1>2, <1>3 DEF Next

\* The arithmetic of the two clocks: either of them bounds the true age by
\* CACHE_TTL plus its own error.
LEMMA FreshBoundsAge ==
  ASSUME NEW a \in Clock, NEW n \in Clock, IsFresh(a, n)
  PROVE  /\ n.real - a.real < CacheTtl + Slept(a, n)
         /\ n.real - a.real < CacheTtl + SetBack(a, n)
  BY TtlAssumption DEF Clock, IsFresh, Slept, SetBack

\* A reply served from the cache was read less than CACHE_TTL before the request
\* arrived, plus the error of the better of the two clocks.
THEOREM CacheHitsAreYoung == Spec => HitAgeBound
<1> DEFINE Young(t) == LET e == entries[req[t].key] IN
             /\ now[t].real - e.sampled < CacheTtl + Slept(e.at, now[t])
             /\ now[t].real - e.sampled < CacheTtl + SetBack(e.at, now[t])
<1>1. AgeInv /\ [Next]_vars => [\A t \in Thread : ServesFromCache(t) => Young(t)]_vars
  <2> SUFFICES ASSUME AgeInv, [Next]_vars, NEW t \in Thread, ServesFromCache(t) PROVE Young(t)
    OBVIOUS
  <2> DEFINE e == entries[req[t].key]
  <2>1. FreshEntry(t)
    BY OnlyHitsServe DEF AgeInv
  <2>2. req[t].key \in Key /\ e \in Entry /\ now[t] \in Clock
    BY <2>1, RequestTypes DEF AgeInv, TypeOK, FreshEntry
  <2>3. e.at \in Clock /\ e.sampled \in Nat /\ e.at.real <= e.sampled
    BY <2>1, <2>2 DEF AgeInv, LookedAfterStamp, FreshEntry, Entry
  <2>4. /\ now[t].real - e.at.real < CacheTtl + Slept(e.at, now[t])
        /\ now[t].real - e.at.real < CacheTtl + SetBack(e.at, now[t])
    BY <2>1, <2>2, <2>3, FreshBoundsAge DEF FreshEntry
  <2>5. Slept(e.at, now[t]) \in Int /\ SetBack(e.at, now[t]) \in Int
    BY <2>2, <2>3 DEF Slept, SetBack, Clock
  <2>6. QED BY <2>2, <2>3, <2>4, <2>5, TtlAssumption DEF Clock
<1>2. QED BY AgeInit, AgeStep, <1>1, PTL DEF Spec, HitAgeBound
=============================================================================
