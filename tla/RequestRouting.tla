---------------------------- MODULE RequestRouting ----------------------------
(***************************************************************************)
(* What happens to one request on its way from the extension through the   *)
(* shim (device/src/shim.rs) and the app's bridge (device/src/bridge.rs)   *)
(* to the installed helper, which is the Swift one on macOS and the Rust   *)
(* one elsewhere.  Shim and bridge classify its bytes with the Rust router *)
(* (device/src/route.rs); the helper may be the other one.                 *)
(*                                                                         *)
(* Requests come one after another: what concurrent ones do to the cache   *)
(* is BridgeCache's subject, and whether the app can be reached is         *)
(* AppLaunch's.  Here the question is what the bytes mean to whom.  There  *)
(* is one extension, so the origin is left out of the cache's keys; the    *)
(* shim relays no v9, so the bridge's refusal of one is left out too.      *)
(***************************************************************************)
EXTENDS RustRouter, SwiftRouter

CONSTANTS
  Frame,     \* the frames an extension may send
  MaxSent    \* bound: requests per run

ASSUME FrameAssumption == \A f \in Frame : IsFrame(f)
ASSUME ValueAssumption == /\ Junk # True
                          /\ Junk \notin Version /\ True \notin Version
                          /\ Junk \notin Uuid \cup Method \cup Provider
                          /\ None \notin Uuid \cup Version
ASSUME SentAssumption == MaxSent \in Nat

VARIABLES
  platform,  \* the system this runs on, which decides the installed helper
  at,        \* who has the request, or that it is answered, or that there is none
  frame,     \* the request's bytes
  reply,     \* the last reply
  by,        \* who made it
  asked,     \* what the helper asked of a VPN app for the request
  entries,   \* the bridge's reply cache
  sent       \* requests so far

vars == <<platform, at, frame, reply, by, asked, entries, sent>>

-----------------------------------------------------------------------------
(* device/src/route.rs                                                     *)

\* Fault in Ambiguous: a repeated key is no reason for doubt.
AmbiguousBySyntax(f) == f.syntax \in {"lenient", "broken"}

Ambiguous(f) ==
  \/ f.syntax \in {"lenient", "broken"}
  \/ f.syntax = "object" /\ \E k \in FrameKey : Len(f.fields[k]) > 1

\* Fault in IsV9: decided before the bytes are known to be unambiguous.
IsV9ByOwnReading(f) ==
  LET o == RustObject(f)
  IN  Envelope(o, Plain) /\ o["v"] = 9 /\ o["method"] \in {"appStatus", "openApp"}

IsV9(f) ==
  LET o == RustObject(f)
  IN  /\ Envelope(o, Plain)
      /\ o["v"] = 9
      /\ o["method"] \in {"appStatus", "openApp"}
      /\ ~Ambiguous(f)

\* The router's answer over adapters that fail and record that they were asked.
Probe(f) == RustAnswer(f, platform, FALSE)

\* A well-formed v1-v8 request, which needs the helper.  The others' reply is
\* the probe's.
Forwards(f) ==
  /\ ~IsV9(f)
  /\ Probe(f).reply.id # None
  /\ Probe(f).asked # "nothing" \/ Probe(f).reply.ok

\* Route::Forward: the version and id the router answered with, and what the
\* shim's own parser reads as method and provider.
Request(f) ==
  LET o == RustObject(f)
  IN  [v        |-> Probe(f).reply.v,
       id       |-> Probe(f).reply.id,
       method   |-> o["method"],
       provider |-> IF "provider" \in DOMAIN o THEN o["provider"] ELSE None]

Reads == {<<1, "status">>, <<1, "capabilities">>, <<2, "capabilities">>, <<3, "status">>,
          <<3, "probe">>, <<4, "describe">>, <<5, "probe">>, <<6, "status">>, <<8, "describe">>}

IsRead(r) == <<r.v, r.method>> \in Reads

IsMutation(r) == r.method \in {"connectSelected", "openApp"}

\* Fault in Reusable: any reply may be kept.
ReusableAlways(answer, r) == TRUE

Reusable(answer, r) == answer.ok /\ answer.id = r.id /\ answer.v = r.v

RequestFailure(r, error) == Failure(r.v, r.id, error)

-----------------------------------------------------------------------------
(* The bridge's keys.                                                      *)

Key == {<<r[1], r[2], p>> : r \in Reads, p \in Provider \cup {None}}

NoEntries == [k \in Key |-> None]

\* Fault in CacheKey: replies of one provider are kept for another.
CacheKeyWithoutProvider(f) ==
  IF Forwards(f) /\ ~Ambiguous(f) /\ IsRead(Request(f))
  THEN <<Request(f).v, Request(f).method, None>>
  ELSE None

CacheKey(f) ==
  IF Forwards(f) /\ ~Ambiguous(f) /\ IsRead(Request(f))
  THEN <<Request(f).v, Request(f).method, Request(f).provider>>
  ELSE None

\* Fault in Mutates: what the bridge's own parser reads is what counts.
MutatesByOwnReading(f) == Forwards(f) /\ IsMutation(Request(f))

Mutates(f) == Ambiguous(f) \/ (Forwards(f) /\ IsMutation(Request(f)))

\* swap_id: the kept bytes with this request's id.
SwapId(answer, r) == [answer EXCEPT !.id = r.id]

\* The installed helper's answer; `works` is whether the VPN app does its part.
Installed(f, works) ==
  IF platform = "macos" THEN SwiftAnswer(f, works) ELSE RustAnswer(f, platform, works)

-----------------------------------------------------------------------------
NoFrame == [syntax |-> "broken", fields |-> [k \in FrameKey |-> <<>>]]
NoReply == Failure(1, None, "none")

TypeOK ==
  /\ platform \in Platform
  /\ at \in {"idle", "shim", "bridge", "helper", "answered"}
  /\ IsFrame(frame)
  /\ reply.v \in 1..9 /\ reply.id \in Uuid \cup {None} /\ reply.ok \in BOOLEAN
  /\ by \in {"nobody", "v9", "shim", "alone", "cache", "helper", "bridge"}
  /\ asked \in {"nothing", "look", "change"}
  /\ \A k \in Key : entries[k] = None \/ (entries[k].ok /\ entries[k].v = k[1])
  /\ sent \in 0..MaxSent

Init ==
  /\ platform \in Platform
  /\ at = "idle"
  /\ frame = NoFrame
  /\ reply = NoReply
  /\ by = "nobody"
  /\ asked = "nothing"
  /\ entries = NoEntries
  /\ sent = 0

\* The reply reaches the extension.
Answered(answer, who) ==
  /\ at' = "answered"
  /\ reply' = answer
  /\ by' = who

\* Chrome delivers a frame to the shim.
Send ==
  /\ at = "idle"
  /\ sent < MaxSent
  /\ \E f \in Frame : frame' = f
  /\ at' = "shim"
  /\ sent' = sent + 1
  /\ UNCHANGED <<platform, reply, by, asked, entries>>

\* v9 is the shim's own: appStatus always succeeds, openApp may not.
ShimAnswersV9 ==
  /\ at = "shim"
  /\ IsV9(frame)
  /\ LET o == RustObject(frame)
     IN  \/ Answered(Success(9, o["id"], <<"app">>), "v9")
         \/ /\ o["method"] = "openApp"
            /\ \E error \in {"appStarting", "appStartFailed"} :
                 Answered(Failure(9, o["id"], error), "v9")
  /\ UNCHANGED <<platform, frame, asked, entries, sent>>

\* Malformed: the router's envelope, without the helper.
ShimAnswersMalformed ==
  /\ at = "shim"
  /\ ~IsV9(frame) /\ ~Forwards(frame) /\ ~Ambiguous(frame)
  /\ Answered(Probe(frame).reply, "shim")
  /\ UNCHANGED <<platform, frame, asked, entries, sent>>

Relays(f) == Forwards(f) \/ (~IsV9(f) /\ Ambiguous(f))

\* The app is reached and gets the bytes.
ShimRelays ==
  /\ at = "shim"
  /\ Relays(frame)
  /\ at' = "bridge"
  /\ UNCHANGED <<platform, frame, reply, by, asked, entries, sent>>

\* The app is not reached.
ShimAlone ==
  /\ at = "shim"
  /\ Relays(frame)
  /\ IF Forwards(frame)
     THEN \E error \in {"appStarting", "appNotRunning"} :
            Answered(RequestFailure(Request(frame), error), "alone")
     ELSE Answered(Probe(frame).reply, "alone")
  /\ UNCHANGED <<platform, frame, asked, entries, sent>>

\* A fresh entry under this request's key answers it.
BridgeHits ==
  /\ at = "bridge"
  /\ CacheKey(frame) # None
  /\ entries[CacheKey(frame)] # None
  /\ Answered(SwapId(entries[CacheKey(frame)], Request(frame)), "cache")
  /\ UNCHANGED <<platform, frame, asked, entries, sent>>

\* No entry, or a stale one, which goes; a mutation clears them all.
BridgeRuns ==
  /\ at = "bridge"
  /\ at' = "helper"
  /\ entries' = IF Mutates(frame) THEN NoEntries
                ELSE IF CacheKey(frame) = None THEN entries
                ELSE [entries EXCEPT ![CacheKey(frame)] = None]
  /\ UNCHANGED <<platform, frame, reply, by, asked, sent>>

\* What the bridge does with the helper's reply before it passes it on.
Settle(answer) ==
  entries' = IF Mutates(frame) THEN NoEntries
             ELSE IF CacheKey(frame) # None /\ Reusable(answer, Request(frame))
             THEN [entries EXCEPT ![CacheKey(frame)] = answer]
             ELSE entries

HelperAnswers(works) ==
  /\ at = "helper"
  /\ LET a == Installed(frame, works)
     IN  /\ asked' = a.asked
         /\ Answered(a.reply, "helper")
         /\ Settle(a.reply)
  /\ UNCHANGED <<platform, frame, sent>>

\* No helper, no reply in time, or no frame in it; it may have asked the VPN app
\* by then.
HelperFails ==
  /\ at = "helper"
  /\ asked' \in {"nothing", Installed(frame, TRUE).asked}
  /\ Answered(IF Forwards(frame) THEN RequestFailure(Request(frame), "providerUnavailable")
              ELSE Probe(frame).reply, "bridge")
  /\ entries' = IF Mutates(frame) THEN NoEntries ELSE entries
  /\ UNCHANGED <<platform, frame, sent>>

\* The extension takes the reply.
Receive ==
  /\ at = "answered"
  /\ at' = "idle"
  /\ frame' = NoFrame
  /\ reply' = NoReply
  /\ by' = "nobody"
  /\ asked' = "nothing"
  /\ UNCHANGED <<platform, entries, sent>>

\* The extension stops sending.
Done ==
  /\ at = "idle"
  /\ sent = MaxSent
  /\ UNCHANGED vars

Next ==
  \/ Send
  \/ ShimAnswersV9
  \/ ShimAnswersMalformed
  \/ ShimRelays
  \/ ShimAlone
  \/ BridgeHits
  \/ BridgeRuns
  \/ \E works \in BOOLEAN : HelperAnswers(works)
  \/ HelperFails
  \/ Receive
  \/ Done

Spec == Init /\ [][Next]_vars

-----------------------------------------------------------------------------
(* Properties                                                              *)

\* A malformed request that the shim answers itself gets the very reply the
\* installed helper would give, which asks nothing of any VPN app for it
\* (device/src/route.rs:5-9, whichever of the two helpers it is).
AnsweredAsInstalled ==
  by = "shim" =>
    \A works \in BOOLEAN : /\ Installed(frame, works).reply = reply
                           /\ Installed(frame, works).asked = "nothing"

\* v9 takes no request away from the helper: one that the shim answers as v9
\* means nothing to the installed helper but an unknown version.
TakesNothingFromTheHelper ==
  by = "v9" =>
    \A works \in BOOLEAN : Installed(frame, works) = Refuse(1, None, "unsupportedVersion")

\* A reply from the cache is one the installed helper could give to this very
\* request: this id, version, method and provider (device/src/bridge.rs:17).
CachedAnswersThisRequest ==
  by = "cache" => \E works \in BOOLEAN : Installed(frame, works).reply = reply

\* Whatever makes the installed helper ask a VPN app for a change, by its own
\* reading of the bytes, leaves no reply of before it in the cache
\* (device/src/bridge.rs:17-21, 140-145).
ChangesClearTheCache == asked = "change" => entries = NoEntries
=============================================================================
