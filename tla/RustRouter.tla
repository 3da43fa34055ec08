------------------------------ MODULE RustRouter ------------------------------
(***************************************************************************)
(* The helper's version router for Linux and Windows (rust/src/router.rs), *)
(* which the shim and the bridge also run over adapters that always fail.  *)
(* serde_json reads strict JSON and keeps the last of repeated keys.       *)
(* control_enabled is SUPPORTS_CONNECTION_CONTROL, true in every build.    *)
(***************************************************************************)
EXTENDS RequestFrames

RustObject(f) == IF f.syntax = "object" THEN Last(f) ELSE NoObject

\* wire::int: integral numbers only, booleans select no version.
RustVersion(o) == IF "v" \in DOMAIN o /\ o["v"] \in Version THEN o["v"] ELSE None

RustLegacy(o, works) ==
  IF ~Envelope(o, Plain) THEN Refuse(1, None, "invalidRequest")
  ELSE IF o["v"] # 1 THEN Refuse(1, None, "unsupportedVersion")
  ELSE IF o["method"] \notin {"capabilities", "status"} THEN Refuse(1, None, "unsupportedMethod")
  ELSE IF o["method"] = "capabilities" THEN Give(1, o["id"], <<"capabilities", "read-only-prototype">>)
  ELSE Ask(1, o["id"], <<"snapshot", "mullvad">>, "look", works)

RustControl(o, works) ==
  IF ~Envelope(o, Plain) THEN Refuse(2, None, "invalidRequest")
  ELSE IF o["v"] # 2 THEN Refuse(2, o["id"], "unsupportedVersion")
  ELSE IF o["method"] = "capabilities" THEN Give(2, o["id"], <<"capabilities", "development-control-pilot">>)
  ELSE IF o["method"] = "connectSelected"
       THEN Ask(2, o["id"], <<"snapshot", "mullvad">>, "change", works)
  ELSE Refuse(2, o["id"], "unsupportedMethod")

RustDescribe(o, w) ==
  IF ~Envelope(o, Plain) THEN Refuse(w, None, "invalidRequest")
  ELSE IF o["v"] # w THEN Refuse(w, o["id"], "unsupportedVersion")
  ELSE IF o["method"] # "describe" THEN Refuse(w, o["id"], "unsupportedMethod")
  ELSE Give(w, o["id"], <<"helper", "description">>)

\* The methods of v3 and v5; probe answers ok whatever validate says.
RustProviderMethod(o, w, works) ==
  LET p     == o["provider"]
      legal == LegacyCapabilities(p)
  IN  CASE o["method"] = "probe" ->
             [reply |-> Success(w, o["id"], <<"availability", p, works>>), asked |-> "look"]
        [] o["method"] = "status" /\ "read-status" \in legal ->
             Ask(w, o["id"], <<"snapshot", p>>, "look", works)
        [] o["method"] = "connectSelected" /\ "connect-selected" \in legal ->
             Ask(w, o["id"], <<"snapshot", p>>, "change", works)
        [] o["method"] = "openApp" /\ "open-app" \in legal ->
             Ask(w, o["id"], <<"opened", p>>, "change", works)
        [] OTHER -> Refuse(w, o["id"], "unsupportedMethod")

RustRegistry(o, w, platform, works) ==
  IF ~Envelope(o, Scoped) \/ o["provider"] \notin Provider THEN Refuse(w, None, "invalidRequest")
  ELSE IF ProtocolVersion(o["provider"]) # w /\ ~(o["provider"] = "protonvpn" /\ w = 6)
       THEN Refuse(w, o["id"], "invalidRequest")
  ELSE IF o["v"] # w THEN Refuse(w, o["id"], "unsupportedVersion")
  ELSE IF w # 6 THEN RustProviderMethod(o, w, works)
  ELSE IF o["method"] = "status" /\ "read-status" \in PlatformCapabilities(o["provider"], platform)
       THEN Ask(6, o["id"], <<"snapshot", o["provider"]>>, "look", works)
  ELSE Refuse(6, o["id"], "unsupportedMethod")

RustAnswer(f, platform, works) ==
  LET o == RustObject(f)
      v == RustVersion(o)
  IN  CASE v \in {4, 8}    -> RustDescribe(o, v)
        [] v \in {3, 5, 6} -> RustRegistry(o, v, platform, works)
        [] v = 2           -> RustControl(o, works)
        [] OTHER           -> RustLegacy(o, works)
=============================================================================
