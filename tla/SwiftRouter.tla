----------------------------- MODULE SwiftRouter -----------------------------
(***************************************************************************)
(* The macOS helper's router (Sources/NetworkHelperCore/NativeRouter.swift *)
(* and the services it dispatches to).  Foundation reads more than strict  *)
(* JSON and keeps the first of repeated keys.  `enabled` is                *)
(* supportsConnectionControl, true in every build.                         *)
(***************************************************************************)
EXTENDS RequestFrames

SwiftObject(f) == IF f.syntax \in {"object", "lenient"} THEN First(f) ELSE NoObject

\* `as? Int` bridges a boolean to 0 or 1.
SwiftVersion(o) ==
  IF "v" \notin DOMAIN o \/ o["v"] = Junk THEN None ELSE IF o["v"] = True THEN 1 ELSE o["v"]

\* HelperService.handle: parse, and only then an id for the reply.
SwiftLegacy(o, works) ==
  IF ~Envelope(o, Plain) THEN Refuse(1, None, "invalidRequest")
  ELSE IF o["v"] # 1 THEN Refuse(1, None, "unsupportedVersion")
  ELSE CASE o["method"] = "capabilities" -> Give(1, o["id"], <<"capabilities", "read-only-prototype">>)
         [] o["method"] = "status"       -> Ask(1, o["id"], <<"snapshot", "mullvad">>, "look", works)
         [] OTHER                        -> Refuse(1, None, "unsupportedMethod")

SwiftControl(o, works) ==
  IF ~Envelope(o, Plain) THEN Refuse(2, None, "invalidRequest")
  ELSE IF SwiftVersion(o) # 2 THEN Refuse(2, o["id"], "unsupportedVersion")
  ELSE CASE o["method"] = "capabilities" ->
              Give(2, o["id"], <<"capabilities", "development-control-pilot">>)
         [] o["method"] = "connectSelected" ->
              Ask(2, o["id"], <<"snapshot", "mullvad">>, "change", works)
         [] OTHER -> Refuse(2, o["id"], "unsupportedMethod")

\* DiscoveryService (4) and PlatformDiscoveryService (8).
SwiftDescribe(o, w) ==
  IF ~Envelope(o, Plain) THEN Refuse(w, None, "invalidRequest")
  ELSE IF o["v"] # w THEN Refuse(w, o["id"], "unsupportedVersion")
  ELSE IF o["method"] # "describe" THEN Refuse(w, o["id"], "unsupportedMethod")
  ELSE Give(w, o["id"], <<"helper", "description">>)

\* The tail of ProviderRegistry.handle; v6 is Proton's status and nothing else.
SwiftProviderMethod(o, w, works) ==
  LET p     == o["provider"]
      legal == IF w = 6 THEN {"read-status"} ELSE LegacyCapabilities(p)
  IN  CASE o["method"] = "status" /\ "read-status" \in legal ->
             Ask(w, o["id"], <<"snapshot", p>>, "look", works)
        [] o["method"] = "probe" /\ w # 6 ->
             [reply |-> Success(w, o["id"], <<"availability", p, works>>), asked |-> "look"]
        [] o["method"] = "connectSelected" /\ "connect-selected" \in legal ->
             Ask(w, o["id"], <<"snapshot", p>>, "change", works)
        [] o["method"] = "openApp" /\ "open-app" \in legal ->
             Ask(w, o["id"], <<"opened", p>>, "change", works)
        [] OTHER -> Refuse(w, o["id"], "unsupportedMethod")

SwiftRegistry(o, w, works) ==
  IF ~Envelope(o, Scoped) \/ o["provider"] \notin Provider THEN Refuse(w, None, "invalidRequest")
  ELSE IF ProtocolVersion(o["provider"]) # w /\ ~(o["provider"] = "protonvpn" /\ w = 6)
       THEN Refuse(w, o["id"], "invalidRequest")
  ELSE IF o["v"] # w THEN Refuse(w, o["id"], "unsupportedVersion")
  ELSE SwiftProviderMethod(o, w, works)

SwiftAnswer(f, works) ==
  LET o == SwiftObject(f)
      v == SwiftVersion(o)
  IN  CASE v \in {4, 8}    -> SwiftDescribe(o, v)
        [] v \in {3, 5, 6} -> SwiftRegistry(o, v, works)
        [] v = 2           -> SwiftControl(o, works)
        [] OTHER           -> SwiftLegacy(o, works)
=============================================================================
