------------------------- MODULE RequestRoutingProofs -------------------------
(***************************************************************************)
(* The two helpers' routers give the same answer to every frame that is    *)
(* not ambiguous, for any ids and any frames; so the shim's own answers    *)
(* are the installed helper's, and what the bridge keeps of one request    *)
(* answers every other with its key.                                       *)
(***************************************************************************)
EXTENDS RequestRouting, SequenceTheorems, TLAPS

\* A value list that is not empty and not longer than one has one value.
LEMMA OneValue ==
  ASSUME NEW S, NEW s \in Seq(S), s # <<>>, ~(Len(s) > 1)
  PROVE  Len(s) = 1
<1>1. PICK n \in Nat \ {0} : n = Len(s)
  BY EmptySeq
<1>2. ~(n > 1)
  BY <1>1
<1>3. n = 1
  BY <1>2
<1> QED
  BY <1>1, <1>3

\* With one value per key, the first and the last value are the same.
LEMMA OneReading ==
  ASSUME NEW f, IsFrame(f), ~Ambiguous(f)
  PROVE  SwiftObject(f) = RustObject(f)
<1>1. CASE f.syntax = "object"
  <2>1. ASSUME NEW k \in Present(f)
        PROVE  f.fields[k] \in Seq(Value(k)) /\ Len(f.fields[k]) = 1
    <3>1. k \in FrameKey /\ f.fields[k] # <<>>
      BY DEF Present
    <3>2. f.fields[k] \in Seq(Value(k))
      BY <3>1 DEF IsFrame
    <3>3. ~(Len(f.fields[k]) > 1)
      BY <1>1, <3>1 DEF Ambiguous
    <3> QED
      BY <3>1, <3>2, <3>3, OneValue
  <2>2. \A k \in Present(f) : Head(f.fields[k]) = f.fields[k][Len(f.fields[k])]
    <3> SUFFICES ASSUME NEW k \in Present(f)
                 PROVE  Head(f.fields[k]) = f.fields[k][Len(f.fields[k])]
      OBVIOUS
    <3> QED
      BY <2>1
  <2>3. First(f) = Last(f)
    BY <2>2 DEF First, Last
  <2> QED
    BY <1>1, <2>3 DEF SwiftObject, RustObject
<1>2. CASE f.syntax # "object"
  BY <1>2 DEF SwiftObject, RustObject, Ambiguous, IsFrame
<1> QED
  BY <1>1, <1>2

LEMMA LegacyAgrees ==
  ASSUME NEW o, NEW works \in BOOLEAN
  PROVE  RustLegacy(o, works) = SwiftLegacy(o, works)
BY DEF RustLegacy, SwiftLegacy

LEMMA DescribeAgrees ==
  ASSUME NEW o, NEW w
  PROVE  RustDescribe(o, w) = SwiftDescribe(o, w)
BY DEF RustDescribe, SwiftDescribe

LEMMA ControlAgrees ==
  ASSUME NEW o, NEW works \in BOOLEAN, o["v"] = 2, "v" \in DOMAIN o
  PROVE  RustControl(o, works) = SwiftControl(o, works)
<1>1. SwiftVersion(o) = 2
  BY ValueAssumption DEF SwiftVersion, Version
<1> QED
  BY <1>1 DEF RustControl, SwiftControl

LEMMA RegistryAgrees ==
  ASSUME NEW o, NEW w \in {3, 5, 6}, NEW works \in BOOLEAN
  PROVE  RustRegistry(o, w, "macos", works) = SwiftRegistry(o, w, works)
<1> DEFINE p == o["provider"]
<1>1. CASE w # 6
  <2>1. RustProviderMethod(o, w, works) = SwiftProviderMethod(o, w, works)
    BY <1>1 DEF RustProviderMethod, SwiftProviderMethod
  <2> QED
    BY <1>1, <2>1 DEF RustRegistry, SwiftRegistry
<1>2. CASE w = 6
  <2>1. ASSUME p \in Provider, ProtocolVersion(p) = w \/ p = "protonvpn"
        PROVE  p = "protonvpn"
    BY <1>2, <2>1 DEF ProtocolVersion
  <2>2. PlatformCapabilities("protonvpn", "macos") = {"open-app", "read-status"}
    BY DEF PlatformCapabilities
  <2>3. SwiftProviderMethod(o, 6, works) =
          IF o["method"] = "status" THEN Ask(6, o["id"], <<"snapshot", p>>, "look", works)
          ELSE Refuse(6, o["id"], "unsupportedMethod")
    BY DEF SwiftProviderMethod
  <2> QED
    BY <1>2, <2>1, <2>2, <2>3 DEF RustRegistry, SwiftRegistry
<1> QED
  BY <1>1, <1>2

-----------------------------------------------------------------------------
(* The whole router *)

\* A version is one of the values the frame may carry.
LEMMA VersionRead ==
  ASSUME NEW f, IsFrame(f), "v" \in DOMAIN RustObject(f)
  PROVE  RustObject(f)["v"] \in Version \cup {True, Junk}
<1>1. f.syntax = "object" /\ "v" \in Present(f)
  BY DEF RustObject, NoObject, Last
<1>2. f.fields["v"] \in Seq(Value("v")) /\ f.fields["v"] # <<>>
  BY <1>1 DEF IsFrame, Present
<1>3. Value("v") = Version \cup {True, Junk}
  BY DEF Value
<1>4. f.fields["v"][Len(f.fields["v"])] \in Value("v")
  BY <1>2, EmptySeq, LenProperties
<1> QED
  BY <1>1, <1>3, <1>4 DEF RustObject, Last

\* Both parsers dispatch on the same version, or both reach the v1 service.
LEMMA SameService ==
  ASSUME NEW o, "v" \in DOMAIN o => o["v"] \in Version \cup {True, Junk}
  PROVE  \/ RustVersion(o) = SwiftVersion(o)
         \/ RustVersion(o) \notin {2, 3, 4, 5, 6, 8} /\ SwiftVersion(o) \notin {2, 3, 4, 5, 6, 8}
<1>0. None \notin {2, 3, 4, 5, 6, 8}
  BY ValueAssumption DEF Version
<1>1. CASE "v" \notin DOMAIN o
  BY <1>1 DEF RustVersion, SwiftVersion
<1>2. CASE "v" \in DOMAIN o /\ o["v"] \in Version
  BY <1>2, ValueAssumption DEF RustVersion, SwiftVersion
<1>3. CASE "v" \in DOMAIN o /\ o["v"] \notin Version
  BY <1>0, <1>3, ValueAssumption DEF RustVersion, SwiftVersion
<1> QED
  BY <1>1, <1>2, <1>3

\* The Swift and the Rust helper, on the same platform, answer every frame that
\* is not ambiguous alike, whatever it holds (device/src/route.rs:118-127, and
\* conformance/README.md, which pins it on examples).
THEOREM RoutersAgree ==
  ASSUME NEW f, IsFrame(f), ~Ambiguous(f), NEW works \in BOOLEAN
  PROVE  SwiftAnswer(f, works) = RustAnswer(f, "macos", works)
<1> DEFINE o == RustObject(f)
           v == RustVersion(o)
           u == SwiftVersion(o)
<1>1. SwiftObject(f) = o
  BY OneReading
<1>2. \/ v = u
      \/ v \notin {2, 3, 4, 5, 6, 8} /\ u \notin {2, 3, 4, 5, 6, 8}
  BY VersionRead, SameService
<1>3. CASE v \in {4, 8}
  BY <1>1, <1>2, <1>3, DescribeAgrees DEF SwiftAnswer, RustAnswer
<1>4. CASE v \in {3, 5, 6}
  <2>1. RustRegistry(o, v, "macos", works) = SwiftRegistry(o, v, works)
    BY <1>4, RegistryAgrees
  <2> QED
    BY <1>1, <1>2, <1>4, <2>1 DEF SwiftAnswer, RustAnswer
<1>5. CASE v = 2
  <2>1. "v" \in DOMAIN o /\ o["v"] = 2
    BY <1>5, ValueAssumption DEF RustVersion, Version
  <2>2. RustControl(o, works) = SwiftControl(o, works)
    BY <2>1, ControlAgrees
  <2> QED
    BY <1>1, <1>2, <1>5, <2>2 DEF SwiftAnswer, RustAnswer
<1>6. CASE v \notin {2, 3, 4, 5, 6, 8}
  <2>1. RustLegacy(o, works) = SwiftLegacy(o, works)
    BY LegacyAgrees
  <2>2. u \notin {2, 3, 4, 5, 6, 8}
    BY <1>2, <1>6
  <2> QED
    BY <1>1, <1>6, <2>1, <2>2 DEF SwiftAnswer, RustAnswer
<1> QED
  BY <1>3, <1>4, <1>5, <1>6

LEMMA InstalledIsRust ==
  ASSUME NEW f, IsFrame(f), ~Ambiguous(f), NEW works \in BOOLEAN
  PROVE  Installed(f, works) = RustAnswer(f, platform, works)
BY RoutersAgree DEF Installed

-----------------------------------------------------------------------------
(* What the probe, whose adapters fail, tells about the answer of a helper *)
(* whose adapters may work                                                 *)

\* Only the reply to something asked of a VPN app depends on the app; such a
\* request has an id, and only two methods ask for a change.
Regular(a, probe, o) ==
  /\ a.asked = probe.asked
  /\ a.asked = "nothing" => a = probe
  /\ a.asked # "nothing" => probe.reply.id # None
  /\ a.asked = "change" => o["method"] \in {"connectSelected", "openApp"}

LEMMA LegacyRegular ==
  ASSUME NEW o, NEW works \in BOOLEAN
  PROVE  Regular(RustLegacy(o, works), RustLegacy(o, FALSE), o)
BY ValueAssumption DEF RustLegacy, Regular, Envelope, Refuse, Give, Ask, Failure, Success

LEMMA ControlRegular ==
  ASSUME NEW o, NEW works \in BOOLEAN
  PROVE  Regular(RustControl(o, works), RustControl(o, FALSE), o)
BY ValueAssumption DEF RustControl, Regular, Envelope, Refuse, Give, Ask, Failure, Success

LEMMA DescribeRegular ==
  ASSUME NEW o, NEW w
  PROVE  Regular(RustDescribe(o, w), RustDescribe(o, w), o)
BY ValueAssumption DEF RustDescribe, Regular, Refuse, Give, Failure, Success

LEMMA ProviderMethodRegular ==
  ASSUME NEW o, NEW w, NEW works \in BOOLEAN, o["id"] \in Uuid
  PROVE  Regular(RustProviderMethod(o, w, works), RustProviderMethod(o, w, FALSE), o)
<1> DEFINE legal == LegacyCapabilities(o["provider"])
<1>1. CASE o["method"] = "probe"
  BY <1>1, ValueAssumption DEF RustProviderMethod, Regular, Success
<1>2. CASE o["method"] = "status" /\ "read-status" \in legal
  BY <1>2, ValueAssumption DEF RustProviderMethod, Regular, Ask, Success, Failure
<1>3. CASE o["method"] = "connectSelected" /\ "connect-selected" \in legal
  BY <1>3, ValueAssumption DEF RustProviderMethod, Regular, Ask, Success, Failure
<1>4. CASE o["method"] = "openApp" /\ "open-app" \in legal
  BY <1>4, ValueAssumption DEF RustProviderMethod, Regular, Ask, Success, Failure
<1>5. CASE /\ o["method"] # "probe"
           /\ ~(o["method"] = "status" /\ "read-status" \in legal)
           /\ ~(o["method"] = "connectSelected" /\ "connect-selected" \in legal)
           /\ ~(o["method"] = "openApp" /\ "open-app" \in legal)
  BY <1>5 DEF RustProviderMethod, Regular, Refuse
<1> QED
  BY <1>1, <1>2, <1>3, <1>4, <1>5

LEMMA RegistryRegular ==
  ASSUME NEW o, NEW w, NEW p, NEW works \in BOOLEAN
  PROVE  Regular(RustRegistry(o, w, p, works), RustRegistry(o, w, p, FALSE), o)
<1>1. CASE ~Envelope(o, Scoped) \/ o["provider"] \notin Provider
  BY <1>1 DEF RustRegistry, Regular, Refuse
<1>2. CASE Envelope(o, Scoped) /\ o["provider"] \in Provider
  <2>1. o["id"] \in Uuid
    BY <1>2 DEF Envelope
  <2>2. Regular(RustProviderMethod(o, w, works), RustProviderMethod(o, w, FALSE), o)
    BY <2>1, ProviderMethodRegular
  <2>3. \A error : Regular(Refuse(w, o["id"], error), Refuse(w, o["id"], error), o)
    BY DEF Regular, Refuse
  <2>4. Regular(Refuse(6, o["id"], "unsupportedMethod"), Refuse(6, o["id"], "unsupportedMethod"), o)
    BY DEF Regular, Refuse
  <2>5. \A body : Regular(Ask(6, o["id"], body, "look", works), Ask(6, o["id"], body, "look", FALSE), o)
    BY <2>1, ValueAssumption DEF Regular, Ask, Success, Failure
  <2> QED
    BY <1>2, <2>2, <2>3, <2>4, <2>5 DEF RustRegistry
<1> QED
  BY <1>1, <1>2

LEMMA RouterRegular ==
  ASSUME NEW f, NEW p, NEW works \in BOOLEAN
  PROVE  Regular(RustAnswer(f, p, works), RustAnswer(f, p, FALSE), RustObject(f))
<1> DEFINE o == RustObject(f)
           v == RustVersion(o)
<1>1. CASE v \in {4, 8}
  <2>1. Regular(RustDescribe(o, v), RustDescribe(o, v), o)
    BY DescribeRegular
  <2>2. v \notin {3, 5, 6} /\ v # 2
    BY <1>1
  <2>3. RustAnswer(f, p, works) = RustDescribe(o, v) /\ RustAnswer(f, p, FALSE) = RustDescribe(o, v)
    BY <1>1, <2>2 DEF RustAnswer
  <2> QED
    BY <2>1, <2>3
<1>2. CASE v \in {3, 5, 6}
  <2>1. Regular(RustRegistry(o, v, p, works), RustRegistry(o, v, p, FALSE), o)
    BY RegistryRegular
  <2>2. v \notin {4, 8} /\ v # 2
    BY <1>2
  <2>3. RustAnswer(f, p, works) = RustRegistry(o, v, p, works) /\ RustAnswer(f, p, FALSE) = RustRegistry(o, v, p, FALSE)
    BY <1>2, <2>2 DEF RustAnswer
  <2> QED
    BY <2>1, <2>3
<1>3. CASE v = 2
  <2>1. Regular(RustControl(o, works), RustControl(o, FALSE), o)
    BY ControlRegular
  <2>2. RustAnswer(f, p, works) = RustControl(o, works) /\ RustAnswer(f, p, FALSE) = RustControl(o, FALSE)
    BY <1>3 DEF RustAnswer
  <2> QED
    BY <2>1, <2>2
<1>4. CASE v \notin {2, 3, 4, 5, 6, 8}
  BY <1>4, LegacyRegular DEF RustAnswer
<1> QED
  BY <1>1, <1>2, <1>3, <1>4

\* What the shim answers itself, the Rust router answers whatever the app does.
LEMMA MalformedIsSettled ==
  ASSUME NEW f, ~IsV9(f), ~Forwards(f), NEW works \in BOOLEAN
  PROVE  /\ RustAnswer(f, platform, works).reply = Probe(f).reply
         /\ RustAnswer(f, platform, works).asked = "nothing"
<1>1. Regular(RustAnswer(f, platform, works), Probe(f), RustObject(f))
  BY RouterRegular DEF Probe
<1>2. Probe(f).reply.id = None \/ Probe(f).asked = "nothing"
  BY DEF Forwards
<1>3. RustAnswer(f, platform, works).asked = "nothing"
  BY <1>1, <1>2 DEF Regular
<1>4. RustAnswer(f, platform, works) = Probe(f)
  BY <1>1, <1>3 DEF Regular
<1> QED
  BY <1>3, <1>4

\* A request that a helper turns into a change is one the bridge forwards as a
\* mutation, if the bytes mean the same to both.
LEMMA ChangesAreMutations ==
  ASSUME NEW f, IsFrame(f), NEW works \in BOOLEAN, Installed(f, works).asked = "change"
  PROVE  Mutates(f)
<1>1. CASE Ambiguous(f)
  BY <1>1 DEF Mutates
<1>2. CASE ~Ambiguous(f)
  <2>1. Installed(f, works) = RustAnswer(f, platform, works)
    BY <1>2, InstalledIsRust
  <2>2. Regular(RustAnswer(f, platform, works), Probe(f), RustObject(f))
    BY RouterRegular DEF Probe
  <2>3. /\ Probe(f).asked # "nothing"
        /\ Probe(f).reply.id # None
        /\ RustObject(f)["method"] \in {"connectSelected", "openApp"}
    BY <2>1, <2>2 DEF Regular
  <2>4. ~IsV9(f)
    <3> SUFFICES ASSUME IsV9(f) PROVE FALSE
      OBVIOUS
    <3>1. RustObject(f)["v"] = 9 /\ Envelope(RustObject(f), Plain)
      BY DEF IsV9
    <3>2. RustVersion(RustObject(f)) = 9
      BY <3>1 DEF RustVersion, Envelope, Plain, Version
    <3>3. RustAnswer(f, platform, works) = Refuse(1, None, "unsupportedVersion")
      BY <3>1, <3>2 DEF RustAnswer, RustLegacy
    <3> QED
      BY <2>1, <3>3 DEF Refuse
  <2>5. IsMutation(Request(f))
    BY <2>3 DEF IsMutation, Request
  <2> QED
    BY <2>3, <2>4, <2>5 DEF Mutates, Forwards
<1> QED
  BY <1>1, <1>2

\* To the installed helper a v9 request is one of an unknown version.
LEMMA V9IsUnknown ==
  ASSUME NEW f, IsFrame(f), IsV9(f), NEW works \in BOOLEAN
  PROVE  Installed(f, works) = Refuse(1, None, "unsupportedVersion")
<1>1. RustObject(f)["v"] = 9 /\ Envelope(RustObject(f), Plain) /\ ~Ambiguous(f)
  BY DEF IsV9
<1>2. RustVersion(RustObject(f)) = 9
  BY <1>1 DEF RustVersion, Envelope, Plain, Version
<1>3. RustAnswer(f, platform, works) = Refuse(1, None, "unsupportedVersion")
  BY <1>1, <1>2 DEF RustAnswer, RustLegacy
<1> QED
  BY <1>1, <1>3, InstalledIsRust

-----------------------------------------------------------------------------
(* The invariant.  A reply and what was asked belong to the frame that is  *)
(* still there only until the extension has taken the reply.               *)

RoutingInv ==
  /\ IsFrame(frame)
  /\ at # "answered" => by = "nobody" /\ asked = "nothing"
  /\ AnsweredAsInstalled
  /\ TakesNothingFromTheHelper
  /\ ChangesClearTheCache

LEMMA NoFrameIsFrame == IsFrame(NoFrame)
BY DEF NoFrame, IsFrame

LEMMA InitRouting == Init => RoutingInv
BY NoFrameIsFrame DEF Init, RoutingInv, AnsweredAsInstalled, TakesNothingFromTheHelper, ChangesClearTheCache

LEMMA StepRouting == RoutingInv /\ [Next]_vars => RoutingInv'
<1> SUFFICES ASSUME RoutingInv, [Next]_vars PROVE RoutingInv'
  OBVIOUS
<1> USE DEF RoutingInv
<1>1. CASE Send
  <2>1. IsFrame(frame')
    BY <1>1, FrameAssumption DEF Send
  <2> QED
    BY <1>1, <2>1 DEF Send, AnsweredAsInstalled, TakesNothingFromTheHelper, ChangesClearTheCache
<1>2. CASE ShimAnswersV9
  <2>1. \A works \in BOOLEAN : Installed(frame, works) = Refuse(1, None, "unsupportedVersion")
    BY <1>2, V9IsUnknown DEF ShimAnswersV9
  <2>2. by' = "v9" /\ at' = "answered"
    BY <1>2 DEF ShimAnswersV9, Answered
  <2>3. \A works \in BOOLEAN : Installed(frame, works)' = Installed(frame, works)
    BY <1>2 DEF ShimAnswersV9, Installed
  <2>4. asked' = "nothing" /\ frame' = frame
    BY <1>2 DEF ShimAnswersV9
  <2> QED
    BY <2>1, <2>2, <2>3, <2>4 DEF AnsweredAsInstalled, TakesNothingFromTheHelper, ChangesClearTheCache
<1>3. CASE ShimAnswersMalformed
  <2>1. \A works \in BOOLEAN : Installed(frame, works) = RustAnswer(frame, platform, works)
    BY <1>3, InstalledIsRust DEF ShimAnswersMalformed
  <2>2. \A works \in BOOLEAN : /\ Installed(frame, works).reply = Probe(frame).reply
                               /\ Installed(frame, works).asked = "nothing"
    BY <1>3, <2>1, MalformedIsSettled DEF ShimAnswersMalformed
  <2>3. by' = "shim" /\ at' = "answered" /\ reply' = Probe(frame).reply
    BY <1>3 DEF ShimAnswersMalformed, Answered
  <2>4. \A works \in BOOLEAN : Installed(frame, works)' = Installed(frame, works)
    BY <1>3 DEF ShimAnswersMalformed, Installed
  <2>5. asked' = "nothing" /\ frame' = frame
    BY <1>3 DEF ShimAnswersMalformed
  <2> QED
    BY <2>2, <2>3, <2>4, <2>5 DEF AnsweredAsInstalled, TakesNothingFromTheHelper, ChangesClearTheCache
<1>4. CASE ShimRelays
  BY <1>4 DEF ShimRelays, AnsweredAsInstalled, TakesNothingFromTheHelper, ChangesClearTheCache
<1>5. CASE ShimAlone
  <2>1. by' = "alone" /\ at' = "answered" /\ asked' = "nothing" /\ frame' = frame
    BY <1>5 DEF ShimAlone, Answered
  <2> QED
    BY <2>1 DEF AnsweredAsInstalled, TakesNothingFromTheHelper, ChangesClearTheCache
<1>6. CASE BridgeHits
  <2>1. by' = "cache" /\ at' = "answered" /\ asked' = "nothing" /\ frame' = frame
    BY <1>6 DEF BridgeHits, Answered
  <2> QED
    BY <2>1 DEF AnsweredAsInstalled, TakesNothingFromTheHelper, ChangesClearTheCache
<1>7. CASE BridgeRuns
  BY <1>7 DEF BridgeRuns, AnsweredAsInstalled, TakesNothingFromTheHelper, ChangesClearTheCache
<1>8. ASSUME NEW works \in BOOLEAN, HelperAnswers(works) PROVE RoutingInv'
  <2>1. by' = "helper" /\ at' = "answered" /\ frame' = frame
    BY <1>8 DEF HelperAnswers, Answered
  <2>2. asked' = "change" => entries' = NoEntries
    BY <1>8, ChangesAreMutations DEF HelperAnswers, Settle
  <2> QED
    BY <2>1, <2>2 DEF AnsweredAsInstalled, TakesNothingFromTheHelper, ChangesClearTheCache, NoEntries
<1>9. CASE HelperFails
  <2>1. by' = "bridge" /\ at' = "answered" /\ frame' = frame
    BY <1>9 DEF HelperFails, Answered
  <2>2. asked' = "change" => entries' = NoEntries
    BY <1>9, ChangesAreMutations DEF HelperFails
  <2> QED
    BY <2>1, <2>2 DEF AnsweredAsInstalled, TakesNothingFromTheHelper, ChangesClearTheCache, NoEntries
<1>10. CASE Receive
  <2>1. frame' = NoFrame /\ by' = "nobody" /\ asked' = "nothing"
    BY <1>10 DEF Receive
  <2> QED
    BY <2>1, NoFrameIsFrame DEF AnsweredAsInstalled, TakesNothingFromTheHelper, ChangesClearTheCache
<1>11. CASE UNCHANGED vars
  BY <1>11 DEF vars, AnsweredAsInstalled, TakesNothingFromTheHelper, ChangesClearTheCache,
               Installed, NoEntries
<1> QED
  BY <1>1, <1>2, <1>3, <1>4, <1>5, <1>6, <1>7, <1>8, <1>9, <1>10, <1>11 DEF Next, Done

LEMMA RoutingInvariant == Spec => []RoutingInv
BY InitRouting, StepRouting, PTL DEF Spec

\* The shim's own replies are the installed helper's.
THEOREM ShimAnswersAsInstalled == Spec => []AnsweredAsInstalled
BY RoutingInvariant, PTL DEF RoutingInv

\* v9 takes no request away from the helper.
THEOREM V9TakesNothing == Spec => []TakesNothingFromTheHelper
BY RoutingInvariant, PTL DEF RoutingInv

\* No reply survives in the cache what any helper reads as a change.
THEOREM ChangesAlwaysClear == Spec => []ChangesClearTheCache
BY RoutingInvariant, PTL DEF RoutingInv

-----------------------------------------------------------------------------
(* What the cache holds.  A reply that is kept depends on its key and on   *)
(* the app alone, so that it is one to every request with that key.        *)

\* The body of a helper's success to a read; only a status needs an app that works.
KeptBody(v, method, p, works) ==
  CASE v = 1 /\ method = "capabilities" -> <<"capabilities", "read-only-prototype">>
    [] v = 1 /\ method = "status"       -> <<"snapshot", "mullvad">>
    [] v = 2                            -> <<"capabilities", "development-control-pilot">>
    [] v \in {4, 8}                     -> <<"helper", "description">>
    [] method = "probe"                 -> <<"availability", p, works>>
    [] OTHER                            -> <<"snapshot", p>>

ProviderRead(o) == IF "provider" \in DOMAIN o THEN o["provider"] ELSE None

\* A request that the bridge forwards, by the probe's answer to it.
Forwarded(probe) == probe.reply.id # None /\ (probe.asked # "nothing" \/ probe.reply.ok)

\* The answer to a read that the bridge forwards.
ReadAnswer(a, probe, o, works) ==
  Forwarded(probe) /\ <<probe.reply.v, o["method"]>> \in Reads =>
    /\ probe.reply.id = o["id"] /\ o["id"] \in Uuid
    /\ ProviderRead(o) \in Provider \cup {None}
    /\ IF works = FALSE /\ o["method"] = "status"
       THEN a.reply.ok = FALSE
       ELSE a.reply = Success(probe.reply.v, o["id"],
                              KeptBody(probe.reply.v, o["method"], ProviderRead(o), works))

LEMMA ReadsAre ==
  ASSUME NEW v, NEW m, <<v, m>> \in Reads
  PROVE  \/ v = 1 /\ m \in {"status", "capabilities"}
         \/ v = 2 /\ m = "capabilities"
         \/ v = 3 /\ m \in {"status", "probe"}
         \/ v \in {4, 8} /\ m = "describe"
         \/ v = 5 /\ m = "probe"
         \/ v = 6 /\ m = "status"
BY DEF Reads

LEMMA AnswerIs ==
  ASSUME NEW v, NEW id, NEW body, NEW what
  PROVE  LET a == [reply |-> Success(v, id, body), asked |-> what] IN a.reply.v = v /\ a.reply.id = id
BY DEF Success

LEMMA RefusedRead ==
  ASSUME NEW o, NEW works, NEW w, NEW id, NEW error
  PROVE  ReadAnswer(Refuse(w, id, error), Refuse(w, id, error), o, works)
BY DEF ReadAnswer, Forwarded, Refuse, Failure

LEMMA GivenRead ==
  ASSUME NEW o, NEW works, NEW w, NEW body, o["id"] \in Uuid, ProviderRead(o) \in Provider \cup {None},
         o["method"] # "status", body = KeptBody(w, o["method"], ProviderRead(o), works)
  PROVE  ReadAnswer(Give(w, o["id"], body), Give(w, o["id"], body), o, works)
BY DEF ReadAnswer, Give, Success

LEMMA AskedRead ==
  ASSUME NEW o, NEW works \in BOOLEAN, NEW w, NEW body, NEW what,
         o["id"] \in Uuid, ProviderRead(o) \in Provider \cup {None},
         o["method"] = "status", body = KeptBody(w, o["method"], ProviderRead(o), works)
  PROVE  ReadAnswer(Ask(w, o["id"], body, what, works), Ask(w, o["id"], body, what, FALSE), o, works)
<1>1. CASE works = TRUE BY <1>1 DEF ReadAnswer, Ask, Success, Failure
<1>2. CASE works = FALSE BY <1>2 DEF ReadAnswer, Ask, Success, Failure
<1>3. QED BY <1>1, <1>2

LEMMA ChangesAreNoReads ==
  ASSUME NEW method \in {"connectSelected", "openApp"}
  PROVE  \A v : <<v, method>> \notin Reads
BY ReadsAre

LEMMA LegacyReads ==
  ASSUME NEW o, NEW works \in BOOLEAN
  PROVE  ReadAnswer(RustLegacy(o, works), RustLegacy(o, FALSE), o, works)
<1>1. CASE ~Envelope(o, Plain) \/ o["v"] # 1 \/ o["method"] \notin {"capabilities", "status"}
  BY <1>1, RefusedRead DEF RustLegacy
<1>2. CASE Envelope(o, Plain) /\ o["v"] = 1 /\ o["method"] \in {"capabilities", "status"}
  <2>1. o["id"] \in Uuid /\ ProviderRead(o) = None BY <1>2 DEF Envelope, Plain, ProviderRead
  <2>2. CASE o["method"] = "capabilities"
    BY <1>2, <2>1, <2>2, GivenRead DEF RustLegacy, KeptBody
  <2>3. CASE o["method"] = "status"
    <3>1. KeptBody(1, o["method"], ProviderRead(o), works) = <<"snapshot", "mullvad">>
      BY <2>3 DEF KeptBody
    <3>2. \A x : RustLegacy(o, x) = Ask(1, o["id"], <<"snapshot", "mullvad">>, "look", x)
      BY <1>2, <2>3 DEF RustLegacy
    <3>3. QED BY <2>1, <2>3, <3>1, <3>2, AskedRead
  <2>4. QED BY <1>2, <2>2, <2>3
<1>3. QED BY <1>1, <1>2

LEMMA ControlReads ==
  ASSUME NEW o, NEW works \in BOOLEAN
  PROVE  ReadAnswer(RustControl(o, works), RustControl(o, FALSE), o, works)
<1>1. CASE ~Envelope(o, Plain) \/ o["v"] # 2 \/ o["method"] \notin {"capabilities", "connectSelected"}
  BY <1>1, RefusedRead DEF RustControl
<1>2. CASE Envelope(o, Plain) /\ o["v"] = 2 /\ o["method"] = "capabilities"
  <2>1. o["id"] \in Uuid /\ ProviderRead(o) = None BY <1>2 DEF Envelope, Plain, ProviderRead
  <2>2. QED BY <1>2, <2>1, GivenRead DEF RustControl, KeptBody
<1>3. CASE Envelope(o, Plain) /\ o["v"] = 2 /\ o["method"] = "connectSelected"
  BY <1>3, ChangesAreNoReads DEF ReadAnswer
<1>4. QED BY <1>1, <1>2, <1>3

LEMMA DescribeReads ==
  ASSUME NEW o, NEW w \in {4, 8}, NEW works \in BOOLEAN
  PROVE  ReadAnswer(RustDescribe(o, w), RustDescribe(o, w), o, works)
<1>1. CASE ~Envelope(o, Plain) \/ o["v"] # w \/ o["method"] # "describe"
  BY <1>1, RefusedRead DEF RustDescribe
<1>2. CASE Envelope(o, Plain) /\ o["v"] = w /\ o["method"] = "describe"
  <2>1. o["id"] \in Uuid /\ ProviderRead(o) = None BY <1>2 DEF Envelope, Plain, ProviderRead
  <2>2. KeptBody(w, o["method"], ProviderRead(o), works) = <<"helper", "description">>
    BY <1>2 DEF KeptBody
  <2>3. QED BY <1>2, <2>1, <2>2, GivenRead DEF RustDescribe
<1>3. QED BY <1>1, <1>2

LEMMA ProviderMethodReads ==
  ASSUME NEW o, NEW w \in {3, 5}, NEW works \in BOOLEAN, o["id"] \in Uuid,
         ProviderRead(o) = o["provider"], o["provider"] \in Provider
  PROVE  ReadAnswer(RustProviderMethod(o, w, works), RustProviderMethod(o, w, FALSE), o, works)
<1> DEFINE legal == LegacyCapabilities(o["provider"])
           p == o["provider"]
<1>1. CASE o["method"] = "probe"
  <2>1. KeptBody(w, o["method"], ProviderRead(o), works) = <<"availability", p, works>>
    BY <1>1 DEF KeptBody
  <2> DEFINE answer(x) == [reply |-> Success(w, o["id"], <<"availability", p, x>>), asked |-> "look"]
  <2>2. RustProviderMethod(o, w, FALSE) = answer(FALSE) /\ RustProviderMethod(o, w, works) = answer(works)
    BY <1>1 DEF RustProviderMethod
  <2>3. answer(works).reply = Success(w, o["id"], <<"availability", p, works>>) OBVIOUS
  <2>4. answer(FALSE).reply.v = w /\ answer(FALSE).reply.id = o["id"] BY AnswerIs
  <2> HIDE DEF answer
  <2>5. QED BY <1>1, <2>1, <2>2, <2>3, <2>4 DEF ReadAnswer
<1>2. CASE o["method"] = "status" /\ "read-status" \in legal
  <2>1. KeptBody(w, o["method"], ProviderRead(o), works) = <<"snapshot", p>>
    BY <1>2 DEF KeptBody
  <2>2. \A x : RustProviderMethod(o, w, x) = Ask(w, o["id"], <<"snapshot", p>>, "look", x)
    BY <1>2 DEF RustProviderMethod
  <2>3. QED BY <1>2, <2>1, <2>2, AskedRead
<1>3. CASE o["method"] = "connectSelected" /\ "connect-selected" \in legal
  BY <1>3, ChangesAreNoReads DEF ReadAnswer
<1>4. CASE o["method"] = "openApp" /\ "open-app" \in legal
  BY <1>4, ChangesAreNoReads DEF ReadAnswer
<1>5. CASE /\ o["method"] # "probe"
           /\ ~(o["method"] = "status" /\ "read-status" \in legal)
           /\ ~(o["method"] = "connectSelected" /\ "connect-selected" \in legal)
           /\ ~(o["method"] = "openApp" /\ "open-app" \in legal)
  BY <1>5, RefusedRead DEF RustProviderMethod
<1>6. QED BY <1>1, <1>2, <1>3, <1>4, <1>5

LEMMA RegistryReads ==
  ASSUME NEW o, NEW w \in {3, 5, 6}, NEW p, NEW works \in BOOLEAN
  PROVE  ReadAnswer(RustRegistry(o, w, p, works), RustRegistry(o, w, p, FALSE), o, works)
<1>1. CASE \/ ~Envelope(o, Scoped) \/ o["provider"] \notin Provider \/ o["v"] # w
           \/ ProtocolVersion(o["provider"]) # w /\ ~(o["provider"] = "protonvpn" /\ w = 6)
  BY <1>1, RefusedRead DEF RustRegistry
<1>2. CASE /\ Envelope(o, Scoped) /\ o["provider"] \in Provider /\ o["v"] = w
           /\ ProtocolVersion(o["provider"]) = w \/ (o["provider"] = "protonvpn" /\ w = 6)
  <2>1. o["id"] \in Uuid /\ ProviderRead(o) = o["provider"] BY <1>2 DEF Envelope, Scoped, ProviderRead
  <2>2. CASE w # 6
    <3>1. w \in {3, 5} BY <2>2
    <3>2. \A x : RustRegistry(o, w, p, x) = RustProviderMethod(o, w, x) BY <1>2, <2>2 DEF RustRegistry
    <3>3. QED BY <1>2, <2>1, <3>1, <3>2, ProviderMethodReads
  <2>3. CASE w = 6 /\ o["method"] = "status" /\ "read-status" \in PlatformCapabilities(o["provider"], p)
    <3>1. KeptBody(6, o["method"], ProviderRead(o), works) = <<"snapshot", o["provider"]>>
      BY <2>1, <2>3 DEF KeptBody
    <3>2. \A x : RustRegistry(o, w, p, x) = Ask(6, o["id"], <<"snapshot", o["provider"]>>, "look", x)
      BY <1>2, <2>3 DEF RustRegistry
    <3>3. QED BY <1>2, <2>1, <2>3, <3>1, <3>2, AskedRead
  <2>4. CASE w = 6 /\ ~(o["method"] = "status" /\ "read-status" \in PlatformCapabilities(o["provider"], p))
    BY <1>2, <2>4, RefusedRead DEF RustRegistry
  <2>5. QED BY <2>2, <2>3, <2>4
<1>3. QED BY <1>1, <1>2

LEMMA RouterReads ==
  ASSUME NEW f, NEW p, NEW works \in BOOLEAN
  PROVE  ReadAnswer(RustAnswer(f, p, works), RustAnswer(f, p, FALSE), RustObject(f), works)
<1> DEFINE o == RustObject(f)
           v == RustVersion(o)
<1>1. CASE v \in {4, 8}
  <2>0. v \notin {3, 5, 6} /\ v # 2 BY <1>1
  <2>1. RustAnswer(f, p, works) = RustDescribe(o, v) /\ RustAnswer(f, p, FALSE) = RustDescribe(o, v)
    BY <1>1, <2>0 DEF RustAnswer
  <2>2. ReadAnswer(RustDescribe(o, v), RustDescribe(o, v), o, works) BY <1>1, DescribeReads
  <2>3. QED BY <2>1, <2>2
<1>2. CASE v \in {3, 5, 6}
  <2>1. \A x : RustAnswer(f, p, x) = RustRegistry(o, v, p, x) BY <1>2 DEF RustAnswer
  <2>2. QED BY <1>2, <2>1, RegistryReads
<1>3. CASE v = 2
  <2>1. \A x : RustAnswer(f, p, x) = RustControl(o, x) BY <1>3 DEF RustAnswer
  <2>2. QED BY <2>1, ControlReads
<1>4. CASE v \notin {2, 3, 4, 5, 6, 8}
  <2>1. \A x : RustAnswer(f, p, x) = RustLegacy(o, x) BY <1>4 DEF RustAnswer
  <2>2. QED BY <2>1, LegacyReads
<1>5. QED BY <1>1, <1>2, <1>3, <1>4

\* What a request with a key in the cache gets from the installed helper.
LEMMA KeyedReads ==
  ASSUME NEW f, IsFrame(f), CacheKey(f) # None, NEW works \in BOOLEAN
  PROVE  LET k == CacheKey(f)
         IN  /\ k \in Key /\ Request(f).id \in Uuid
             /\ IF works = FALSE /\ k[2] = "status"
                THEN Installed(f, works).reply.ok = FALSE
                ELSE Installed(f, works).reply =
                       Success(k[1], Request(f).id, KeptBody(k[1], k[2], k[3], works))
<1> DEFINE k == CacheKey(f)
           o == RustObject(f)
           r == Request(f)
<1>1. Forwards(f) /\ ~Ambiguous(f) /\ IsRead(r) /\ k = <<r.v, r.method, r.provider>>
  BY DEF CacheKey
<1>2. /\ r.v = Probe(f).reply.v /\ r.id = Probe(f).reply.id /\ r.method = o["method"]
      /\ r.provider = ProviderRead(o)
  BY DEF Request, ProviderRead
<1>3. Forwarded(Probe(f)) /\ <<Probe(f).reply.v, o["method"]>> \in Reads
  BY <1>1, <1>2 DEF Forwards, Forwarded, IsRead
<1>4. ReadAnswer(RustAnswer(f, platform, works), Probe(f), o, works) BY RouterReads DEF Probe
<1>5. /\ r.id = o["id"] /\ r.id \in Uuid /\ r.provider \in Provider \cup {None}
      /\ IF works = FALSE /\ r.method = "status"
         THEN RustAnswer(f, platform, works).reply.ok = FALSE
         ELSE RustAnswer(f, platform, works).reply =
                Success(r.v, r.id, KeptBody(r.v, r.method, r.provider, works))
  BY <1>2, <1>3, <1>4 DEF ReadAnswer
<1>6. Installed(f, works) = RustAnswer(f, platform, works) BY <1>1, InstalledIsRust
<1> HIDE DEF r, o
<1>7. k \in Key
  <2>1. <<r.v, r.method>> \in Reads BY <1>2, <1>3
  <2>2. k = << <<r.v, r.method>>[1], <<r.v, r.method>>[2], r.provider>> BY <1>1
  <2>3. QED BY <1>5, <2>1, <2>2 DEF Key
<1>8. k[1] = r.v /\ k[2] = r.method /\ k[3] = r.provider BY <1>1
<1>9. QED BY <1>5, <1>6, <1>7, <1>8 DEF r

-----------------------------------------------------------------------------
(* Replies have their types *)

IsReply(r) == r.v \in 1..9 /\ r.id \in Uuid \cup {None} /\ r.ok \in BOOLEAN
IsAnswer(a) == IsReply(a.reply) /\ a.asked \in {"nothing", "look", "change"}

LEMMA RefusalIsAnswer ==
  ASSUME NEW v \in 1..9, NEW id \in Uuid \cup {None}, NEW error
  PROVE  IsAnswer(Refuse(v, id, error))
BY DEF IsAnswer, IsReply, Refuse, Failure

LEMMA RustAnswers ==
  ASSUME NEW f, NEW p, NEW works \in BOOLEAN
  PROVE  IsAnswer(RustAnswer(f, p, works))
<1> DEFINE o == RustObject(f)
<1>1. IsAnswer(RustLegacy(o, works))
  BY DEF RustLegacy, Envelope, IsAnswer, IsReply, Refuse, Give, Ask, Failure, Success
<1>2. IsAnswer(RustControl(o, works))
  BY DEF RustControl, Envelope, IsAnswer, IsReply, Refuse, Give, Ask, Failure, Success
<1>3. \A w \in {4, 8} : IsAnswer(RustDescribe(o, w))
  BY DEF RustDescribe, Envelope, IsAnswer, IsReply, Refuse, Give, Failure, Success
<1>4. \A w \in {3, 5, 6} : o["id"] \in Uuid => IsAnswer(RustProviderMethod(o, w, works))
  BY DEF RustProviderMethod, IsAnswer, IsReply, Refuse, Ask, Failure, Success
<1>5. ASSUME NEW w \in {3, 5, 6} PROVE IsAnswer(RustRegistry(o, w, p, works))
  <2> DEFINE answer == RustRegistry(o, w, p, works)
  <2>1. \A id \in Uuid \cup {None} : \A error : IsAnswer(Refuse(w, id, error))
    BY RefusalIsAnswer
  <2>2. CASE ~Envelope(o, Scoped) \/ o["provider"] \notin Provider
    <3>1. answer = Refuse(w, None, "invalidRequest") BY <2>2 DEF RustRegistry
    <3>2. QED BY <2>1, <3>1
  <2>3. CASE Envelope(o, Scoped) /\ o["provider"] \in Provider
    <3>1. o["id"] \in Uuid BY <2>3 DEF Envelope
    <3>2. CASE ProtocolVersion(o["provider"]) # w /\ ~(o["provider"] = "protonvpn" /\ w = 6)
      <4>1. answer = Refuse(w, o["id"], "invalidRequest") BY <2>3, <3>2 DEF RustRegistry
      <4>2. QED BY <2>1, <3>1, <4>1
    <3>3. CASE ~(ProtocolVersion(o["provider"]) # w /\ ~(o["provider"] = "protonvpn" /\ w = 6)) /\ o["v"] # w
      <4>1. answer = Refuse(w, o["id"], "unsupportedVersion") BY <2>3, <3>3 DEF RustRegistry
      <4>2. QED BY <2>1, <3>1, <4>1
    <3>4. CASE ~(ProtocolVersion(o["provider"]) # w /\ ~(o["provider"] = "protonvpn" /\ w = 6)) /\ o["v"] = w
      <4>1. CASE w # 6
        <5>1. answer = RustProviderMethod(o, w, works) BY <2>3, <3>4, <4>1 DEF RustRegistry
        <5>2. QED BY <1>4, <3>1, <5>1
      <4>2. CASE w = 6 /\ o["method"] = "status" /\ "read-status" \in PlatformCapabilities(o["provider"], p)
        <5>1. answer = Ask(6, o["id"], <<"snapshot", o["provider"]>>, "look", works)
          BY <2>3, <3>4, <4>2 DEF RustRegistry
        <5>2. QED BY <3>1, <5>1 DEF IsAnswer, IsReply, Ask, Success, Failure
      <4>3. CASE w = 6 /\ ~(o["method"] = "status" /\ "read-status" \in PlatformCapabilities(o["provider"], p))
        <5>1. answer = Refuse(w, o["id"], "unsupportedMethod") BY <2>3, <3>4, <4>3 DEF RustRegistry
        <5>2. QED BY <2>1, <3>1, <5>1
      <4>4. QED BY <4>1, <4>2, <4>3
    <3>5. QED BY <3>2, <3>3, <3>4
  <2>4. QED BY <2>2, <2>3
<1>6. QED BY <1>1, <1>2, <1>3, <1>5 DEF RustAnswer

LEMMA SwiftAnswers ==
  ASSUME NEW f, NEW works \in BOOLEAN
  PROVE  IsAnswer(SwiftAnswer(f, works))
<1> DEFINE o == SwiftObject(f)
<1>1. IsAnswer(SwiftLegacy(o, works))
  BY DEF SwiftLegacy, Envelope, IsAnswer, IsReply, Refuse, Give, Ask, Failure, Success
<1>2. IsAnswer(SwiftControl(o, works))
  BY DEF SwiftControl, Envelope, IsAnswer, IsReply, Refuse, Give, Ask, Failure, Success
<1>3. \A w \in {4, 8} : IsAnswer(SwiftDescribe(o, w))
  BY DEF SwiftDescribe, Envelope, IsAnswer, IsReply, Refuse, Give, Failure, Success
<1>4. \A w \in {3, 5, 6} : o["id"] \in Uuid => IsAnswer(SwiftProviderMethod(o, w, works))
  BY DEF SwiftProviderMethod, IsAnswer, IsReply, Refuse, Ask, Failure, Success
<1>5. ASSUME NEW w \in {3, 5, 6} PROVE IsAnswer(SwiftRegistry(o, w, works))
  <2> DEFINE answer == SwiftRegistry(o, w, works)
  <2>1. \A id \in Uuid \cup {None} : \A error : IsAnswer(Refuse(w, id, error))
    BY RefusalIsAnswer
  <2>2. CASE ~Envelope(o, Scoped) \/ o["provider"] \notin Provider
    <3>1. answer = Refuse(w, None, "invalidRequest") BY <2>2 DEF SwiftRegistry
    <3>2. QED BY <2>1, <3>1
  <2>3. CASE Envelope(o, Scoped) /\ o["provider"] \in Provider
    <3>1. o["id"] \in Uuid BY <2>3 DEF Envelope
    <3>2. CASE ProtocolVersion(o["provider"]) # w /\ ~(o["provider"] = "protonvpn" /\ w = 6)
      <4>1. answer = Refuse(w, o["id"], "invalidRequest") BY <2>3, <3>2 DEF SwiftRegistry
      <4>2. QED BY <2>1, <3>1, <4>1
    <3>3. CASE ~(ProtocolVersion(o["provider"]) # w /\ ~(o["provider"] = "protonvpn" /\ w = 6)) /\ o["v"] # w
      <4>1. answer = Refuse(w, o["id"], "unsupportedVersion") BY <2>3, <3>3 DEF SwiftRegistry
      <4>2. QED BY <2>1, <3>1, <4>1
    <3>4. CASE ~(ProtocolVersion(o["provider"]) # w /\ ~(o["provider"] = "protonvpn" /\ w = 6)) /\ o["v"] = w
      <4>1. answer = SwiftProviderMethod(o, w, works) BY <2>3, <3>4 DEF SwiftRegistry
      <4>2. QED BY <1>4, <3>1, <4>1
    <3>5. QED BY <3>2, <3>3, <3>4
  <2>4. QED BY <2>2, <2>3
<1>6. QED BY <1>1, <1>2, <1>3, <1>5 DEF SwiftAnswer
LEMMA InstalledAnswers ==
  ASSUME NEW f, NEW works \in BOOLEAN
  PROVE  IsAnswer(Installed(f, works))
BY RustAnswers, SwiftAnswers DEF Installed

\* What the bridge passes on without a helper's answer.
LEMMA OwnReplies ==
  ASSUME NEW f, NEW error
  PROVE  IsReply(Probe(f).reply) /\ IsReply(RequestFailure(Request(f), error))
<1>1. IsReply(Probe(f).reply) BY RustAnswers DEF Probe, IsAnswer
<1>2. RequestFailure(Request(f), error) = Failure(Probe(f).reply.v, Probe(f).reply.id, error)
  BY DEF RequestFailure, Request
<1>3. QED BY <1>1, <1>2 DEF IsReply, Failure

-----------------------------------------------------------------------------
(* The invariant of the cache *)

\* A kept reply is a success to its key, for some id, by an app that worked if it had to.
IsKept(e, k) == \E works \in BOOLEAN, id \in Uuid :
  /\ works = FALSE => k[2] # "status"
  /\ e = Success(k[1], id, KeptBody(k[1], k[2], k[3], works))

EntriesAreKept ==
  /\ entries = [k \in Key |-> entries[k]]
  /\ \A k \in Key : entries[k] = None \/ IsKept(entries[k], k)

KeptInv == RoutingInv /\ TypeOK /\ EntriesAreKept /\ CachedAnswersThisRequest

LEMMA KeptTypes ==
  ASSUME NEW k, NEW e, IsKept(e, k)
  PROVE  e.ok /\ e.v = k[1]
BY DEF IsKept, Success

LEMMA NoEntriesAreKept ==
  /\ NoEntries = [k \in Key |-> NoEntries[k]]
  /\ \A k \in Key : NoEntries[k] = None
BY DEF NoEntries

\* What a helper's answer to a read leaves under the read's key.
LEMMA ReusableIsKept ==
  ASSUME NEW f, IsFrame(f), CacheKey(f) # None, NEW works \in BOOLEAN,
         Reusable(Installed(f, works).reply, Request(f))
  PROVE  IsKept(Installed(f, works).reply, CacheKey(f))
<1> DEFINE k == CacheKey(f)
           e == Installed(f, works).reply
<1>1. e.ok BY DEF Reusable
<1>2. ~(works = FALSE /\ k[2] = "status") BY <1>1, KeyedReads
<1>3. e = Success(k[1], Request(f).id, KeptBody(k[1], k[2], k[3], works)) /\ Request(f).id \in Uuid
  BY <1>2, KeyedReads
<1>4. QED BY <1>2, <1>3 DEF IsKept

LEMMA SwappedSuccess ==
  ASSUME NEW v, NEW id, NEW body, NEW r
  PROVE  SwapId(Success(v, id, body), r) = Success(v, r.id, body)
<1>1. ASSUME NEW e, NEW ok, e = [v |-> v, id |-> id, ok |-> ok, body |-> body]
      PROVE  [e EXCEPT !.id = r.id] = [v |-> v, id |-> r.id, ok |-> ok, body |-> body]
  BY <1>1
<1>2. QED BY <1>1, Zenon DEF SwapId, Success

\* The kept bytes with this request's id are an answer to this request.
LEMMA KeptIsAnswer ==
  ASSUME NEW f, IsFrame(f), CacheKey(f) # None, NEW e, IsKept(e, CacheKey(f))
  PROVE  \E works \in BOOLEAN : Installed(f, works).reply = SwapId(e, Request(f))
<1> DEFINE k == CacheKey(f)
<1>1. PICK works \in BOOLEAN, id \in Uuid :
        /\ works = FALSE => k[2] # "status"
        /\ e = Success(k[1], id, KeptBody(k[1], k[2], k[3], works))
  BY DEF IsKept
<1>2. Installed(f, works).reply = Success(k[1], Request(f).id, KeptBody(k[1], k[2], k[3], works))
  BY <1>1, KeyedReads
<1>3. SwapId(e, Request(f)) = Success(k[1], Request(f).id, KeptBody(k[1], k[2], k[3], works))
  BY <1>1, SwappedSuccess
<1>4. QED BY <1>2, <1>3

LEMMA InitKept == Init => KeptInv
<1> SUFFICES ASSUME Init PROVE KeptInv OBVIOUS
<1>1. RoutingInv BY InitRouting
<1>2. EntriesAreKept BY NoEntriesAreKept DEF Init, EntriesAreKept
<1>3. IsReply(reply) BY DEF Init, NoReply, IsReply, Failure
<1>4. 0 \in 0..MaxSent BY SentAssumption
<1>5. TypeOK BY <1>1, <1>3, <1>4, NoEntriesAreKept DEF Init, TypeOK, RoutingInv, IsReply
<1>6. CachedAnswersThisRequest BY DEF Init, CachedAnswersThisRequest
<1>7. QED BY <1>1, <1>2, <1>5, <1>6 DEF KeptInv

LEMMA EntryTypes ==
  ASSUME EntriesAreKept
  PROVE  \A k \in Key : entries[k] = None \/ (entries[k].ok /\ entries[k].v = k[1])
BY KeptTypes DEF EntriesAreKept

\* Whatever the bridge does, it drops entries or keeps a helper's answer.
LEMMA StepEntries ==
  ASSUME KeptInv, [Next]_vars
  PROVE  EntriesAreKept'
<1> USE DEF KeptInv
<1>1. CASE UNCHANGED entries BY <1>1 DEF EntriesAreKept, IsKept, KeptBody
<1>2. ASSUME NEW c \in {entries, NoEntries}, NEW k, entries' = c \/ (entries' = [c EXCEPT ![k] = None])
      PROVE  EntriesAreKept'
  <2>1. c = [j \in Key |-> c[j]] /\ \A j \in Key : c[j] = None \/ IsKept(c[j], j)
    BY NoEntriesAreKept DEF EntriesAreKept
  <2>2. /\ entries' = [j \in Key |-> entries'[j]]
        /\ \A j \in Key : entries'[j] = c[j] \/ entries'[j] = None
    BY <1>2, <2>1
  <2>3. QED BY <2>1, <2>2 DEF EntriesAreKept
<1>3. CASE BridgeRuns \/ HelperFails
  BY <1>2, <1>3 DEF BridgeRuns, HelperFails
<1>4. ASSUME NEW works \in BOOLEAN, HelperAnswers(works) PROVE EntriesAreKept'
  <2> DEFINE answer == Installed(frame, works).reply
             k == CacheKey(frame)
  <2>1. Settle(answer) BY <1>4 DEF HelperAnswers
  <2>2. CASE entries' = NoEntries \/ entries' = entries BY <1>2, <2>2
  <2>3. CASE k # None /\ Reusable(answer, Request(frame)) /\ entries' = [entries EXCEPT ![k] = answer]
    <3>1. IsKept(answer, k) BY <2>3, ReusableIsKept DEF RoutingInv
    <3> HIDE DEF answer, k
    <3>2. /\ entries' = [j \in Key |-> entries'[j]]
          /\ \A j \in Key : entries'[j] = IF j = k THEN answer ELSE entries[j]
      BY <2>3 DEF EntriesAreKept
    <3>3. QED BY <3>1, <3>2 DEF EntriesAreKept
  <2>4. QED BY <2>1, <2>2, <2>3 DEF Settle
<1>5. CASE \/ Send \/ ShimAnswersV9 \/ ShimAnswersMalformed \/ ShimRelays \/ ShimAlone
           \/ BridgeHits \/ Receive \/ Done \/ UNCHANGED vars
  <2>1. UNCHANGED entries
    BY <1>5 DEF Send, ShimAnswersV9, ShimAnswersMalformed, ShimRelays, ShimAlone, BridgeHits, Receive,
                Done, vars
  <2>2. QED BY <1>1, <2>1
<1>6. QED BY <1>3, <1>4, <1>5 DEF Next

LEMMA StepTypes ==
  ASSUME KeptInv, [Next]_vars, RoutingInv', EntriesAreKept'
  PROVE  TypeOK'
<1> USE DEF KeptInv, TypeOK
<1>1. IsFrame(frame)' /\ \A k \in Key : entries'[k] = None \/ (entries'[k].ok /\ entries'[k].v = k[1])
  <2>1. IsFrame(frame)' BY DEF RoutingInv
  <2>2. \A k \in Key : entries'[k] = None \/ IsKept(entries'[k], k) BY DEF EntriesAreKept
  <2>3. QED BY <2>1, <2>2, KeptTypes
<1>2. IsReply(reply) BY DEF IsReply
<1>3. CASE Send \/ ShimRelays \/ BridgeRuns \/ Receive \/ Done \/ UNCHANGED vars
  <2>1. NoReply.v \in 1..9 /\ NoReply.id \in Uuid \cup {None} /\ NoReply.ok \in BOOLEAN
    BY DEF NoReply, Failure
  <2>2. sent < MaxSent => sent + 1 \in 0..MaxSent BY SentAssumption
  <2>3. QED BY <1>1, <1>3, <2>1, <2>2 DEF Send, ShimRelays, BridgeRuns, Receive, Done, vars
<1>4. CASE ShimAnswersV9
  <2>1. RustObject(frame)["id"] \in Uuid BY <1>4 DEF ShimAnswersV9, IsV9, Envelope
  <2>2. IsReply(reply')
    <3>1. \/ reply' = Success(9, RustObject(frame)["id"], <<"app">>)
          \/ \E error \in {"appStarting", "appStartFailed"} : reply' = Failure(9, RustObject(frame)["id"], error)
      BY <1>4 DEF ShimAnswersV9, Answered
    <3>2. \A error : IsReply(Failure(9, RustObject(frame)["id"], error)) BY <2>1 DEF IsReply, Failure
    <3>3. IsReply(Success(9, RustObject(frame)["id"], <<"app">>)) BY <2>1 DEF IsReply, Success
    <3>4. QED BY <3>1, <3>2, <3>3
  <2>3. QED BY <1>1, <1>4, <2>2 DEF ShimAnswersV9, Answered, IsReply
<1>5. CASE ShimAnswersMalformed \/ ShimAlone
  <2>1. IsReply(reply') /\ by' \in {"shim", "alone"} /\ at' = "answered" /\ UNCHANGED <<platform, asked, sent>>
    BY <1>5, OwnReplies DEF ShimAnswersMalformed, ShimAlone, Answered
  <2>2. QED BY <1>1, <2>1 DEF IsReply
<1>6. CASE BridgeHits
  <2>1. CacheKey(frame) # None /\ entries[CacheKey(frame)] # None /\ IsFrame(frame)
    BY <1>6 DEF BridgeHits
  <2>2. TRUE \in BOOLEAN /\ CacheKey(frame) \in Key BY <2>1, KeyedReads
  <2>3. IsKept(entries[CacheKey(frame)], CacheKey(frame)) BY <2>1, <2>2 DEF EntriesAreKept
  <2>4. PICK works \in BOOLEAN : Installed(frame, works).reply = SwapId(entries[CacheKey(frame)], Request(frame))
    BY <2>1, <2>3, KeptIsAnswer
  <2>5. IsReply(reply') BY <1>6, <2>4, InstalledAnswers DEF BridgeHits, Answered, IsAnswer
  <2>6. QED BY <1>1, <1>6, <2>5 DEF BridgeHits, Answered, IsReply
<1>7. ASSUME NEW works \in BOOLEAN, HelperAnswers(works) PROVE TypeOK'
  <2>1. IsAnswer(Installed(frame, works)) BY InstalledAnswers
  <2>2. IsReply(reply') /\ asked' \in {"nothing", "look", "change"} /\ by' = "helper" /\ at' = "answered"
    BY <1>7, <2>1 DEF HelperAnswers, Answered, IsAnswer
  <2>3. UNCHANGED <<platform, sent>> BY <1>7 DEF HelperAnswers
  <2>4. QED BY <1>1, <2>2, <2>3 DEF IsReply
<1>8. CASE HelperFails
  <2>1. IsAnswer(Installed(frame, TRUE)) BY InstalledAnswers
  <2>2. IsReply(reply') /\ by' = "bridge" /\ at' = "answered"
    BY <1>8, OwnReplies DEF HelperFails, Answered
  <2>3. asked' \in {"nothing", "look", "change"} /\ UNCHANGED <<platform, sent>>
    BY <1>8, <2>1 DEF HelperFails, IsAnswer
  <2>4. QED BY <1>1, <2>2, <2>3 DEF IsReply
<1>9. QED BY <1>3, <1>4, <1>5, <1>6, <1>7, <1>8 DEF Next

LEMMA StepCached ==
  ASSUME KeptInv, [Next]_vars
  PROVE  CachedAnswersThisRequest'
<1> USE DEF KeptInv
<1>1. CASE BridgeHits
  <2>1. CacheKey(frame) # None /\ entries[CacheKey(frame)] # None /\ IsFrame(frame)
    BY <1>1 DEF BridgeHits, RoutingInv
  <2>2. CacheKey(frame) \in Key BY <2>1, KeyedReads
  <2>3. IsKept(entries[CacheKey(frame)], CacheKey(frame)) BY <2>1, <2>2 DEF EntriesAreKept
  <2>4. \E works \in BOOLEAN : Installed(frame, works).reply = SwapId(entries[CacheKey(frame)], Request(frame))
    BY <2>1, <2>3, KeptIsAnswer
  <2>5. reply' = SwapId(entries[CacheKey(frame)], Request(frame)) BY <1>1 DEF BridgeHits, Answered
  <2>6. \A works \in BOOLEAN : Installed(frame, works)' = Installed(frame, works)
    BY <1>1 DEF BridgeHits, Installed
  <2>7. QED BY <2>4, <2>5, <2>6 DEF CachedAnswersThisRequest
<1>2. CASE UNCHANGED vars BY <1>2 DEF vars, CachedAnswersThisRequest, Installed
<1>3. CASE by' # "cache" BY <1>3 DEF CachedAnswersThisRequest
<1>4. CASE Send \/ ShimRelays \/ BridgeRuns
  BY <1>3, <1>4 DEF Send, ShimRelays, BridgeRuns, RoutingInv
<1>5. CASE ShimAnswersV9 \/ ShimAnswersMalformed \/ ShimAlone \/ HelperFails \/ Receive
  BY <1>3, <1>5 DEF ShimAnswersV9, ShimAnswersMalformed, ShimAlone, HelperFails, Receive, Answered
<1>6. CASE \E works \in BOOLEAN : HelperAnswers(works)
  BY <1>3, <1>6 DEF HelperAnswers, Answered
<1>7. QED BY <1>1, <1>2, <1>4, <1>5, <1>6 DEF Next, Done

LEMMA StepKept == KeptInv /\ [Next]_vars => KeptInv'
BY StepRouting, StepEntries, StepTypes, StepCached DEF KeptInv

LEMMA KeptInvariant == Spec => []KeptInv
BY InitKept, StepKept, PTL DEF Spec

\* Every variable keeps its type; in the cache are only successes to their own key.
THEOREM TypeCorrect == Spec => []TypeOK
<1>1. KeptInv => TypeOK BY DEF KeptInv
<1>2. QED BY <1>1, KeptInvariant, PTL

\* A reply from the cache is one the installed helper could give to this very request,
\* whatever request it was that filled the cache, on every platform.
THEOREM CacheAnswersAreThisRequests == Spec => []CachedAnswersThisRequest
<1>1. KeptInv => CachedAnswersThisRequest BY DEF KeptInv
<1>2. QED BY <1>1, KeptInvariant, PTL
=============================================================================
