---------------------------- MODULE RequestFrames ----------------------------
(***************************************************************************)
(* Request frames and replies as the helpers' routers tell them apart.     *)
(*                                                                         *)
(* A frame is JSON text.  What matters of it is whether each parser reads  *)
(* it as an object and, for each key, the values in the order they appear: *)
(* a repeated key is where the two parsers differ.  `syntax` is            *)
(*   "object"   strict UTF-8 JSON, an object                               *)
(*   "value"    strict JSON, no object                                     *)
(*   "lenient"  an object that only Foundation reads (byte-order mark,     *)
(*              UTF-16, trailing comma, lone surrogate)                    *)
(*   "broken"   no JSON for either                                         *)
(* A version is its number (1 and 1.0 are the same to both), JSON true, or *)
(* Junk; Junk is any value of the wrong type, and any string that is no    *)
(* UUID or no provider.  Frames over MAX_BYTES end the session in `frames` *)
(* and are no frames here.                                                 *)
(***************************************************************************)
EXTENDS Naturals, Sequences

CONSTANTS
  Uuid,      \* request ids, lowercased as every reply carries them
  True,      \* JSON true
  Junk,      \* a value that is not what its key needs
  None       \* no id, no provider, no cache entry

FrameKey == {"v", "id", "method", "provider", "other"}
Plain    == {"v", "id", "method"}
Scoped   == {"v", "id", "method", "provider"}

Provider == {"mullvad", "ivpn", "nordvpn", "protonvpn"}
Method   == {"capabilities", "status", "probe", "describe", "connectSelected",
             "openApp", "appStatus", "unknown"}
Version  == 1..10
Platform == {"macos", "linux", "windows"}

Value(k) ==
  CASE k = "v"        -> Version \cup {True, Junk}
    [] k = "id"       -> Uuid \cup {Junk}
    [] k = "method"   -> Method \cup {Junk}
    [] k = "provider" -> Provider \cup {Junk}
    [] k = "other"    -> {Junk}

IsFrame(f) ==
  /\ f.syntax \in {"object", "value", "lenient", "broken"}
  /\ DOMAIN f.fields = FrameKey
  /\ \A k \in FrameKey : f.fields[k] \in Seq(Value(k))

Present(f) == {k \in FrameKey : f.fields[k] # <<>>}
First(f)   == [k \in Present(f) |-> Head(f.fields[k])]
Last(f)    == [k \in Present(f) |-> f.fields[k][Len(f.fields[k])]]

\* No object and an empty object get the same answer from every service.
NoObject == [k \in {} |-> Junk]

-----------------------------------------------------------------------------
(* Replies.  An answer is a reply and what the service asked of a VPN app  *)
(* for it: nothing, a look, or something that may change the app's state.  *)

Failure(v, id, error) == [v |-> v, id |-> id, ok |-> FALSE, body |-> <<error>>]
Success(v, id, body)  == [v |-> v, id |-> id, ok |-> TRUE, body |-> body]

Refuse(v, id, error) == [reply |-> Failure(v, id, error), asked |-> "nothing"]
Give(v, id, body)    == [reply |-> Success(v, id, body), asked |-> "nothing"]

\* `works` is the app's part: it does what it is asked, or an error (any of
\* HelperError's) comes back.
Ask(v, id, body, asked, works) ==
  [reply |-> IF works THEN Success(v, id, body) ELSE Failure(v, id, "providerUnavailable"),
   asked |-> asked]

\* wire::envelope, and the same guards at the head of every Swift service: the
\* exact keys, a UUID and a string method.
Envelope(o, keys) ==
  /\ DOMAIN o = keys
  /\ o["id"] \in Uuid
  /\ o["method"] \in Method

ProtocolVersion(p) == IF p = "protonvpn" THEN 5 ELSE 3
LegacyCapabilities(p) ==
  IF p \in {"nordvpn", "protonvpn"} THEN {"open-app"} ELSE {"read-status", "connect-selected"}
PlatformCapabilities(p, platform) ==
  CASE p \in {"mullvad", "ivpn"} -> {"read-status", "connect-selected"}
    [] p = "nordvpn" -> {"open-app"}
    [] p = "protonvpn" -> IF platform = "macos" THEN {"open-app", "read-status"} ELSE {"open-app"}
=============================================================================
