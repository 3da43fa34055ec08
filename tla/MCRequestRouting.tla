--------------------------- MODULE MCRequestRouting ---------------------------
EXTENDS RequestRouting

CONSTANTS i1, i2

MCUuid == {i1, i2}

Once(x) == IF x = None THEN <<>> ELSE <<x>>

Fields(v, id, method, provider, other) ==
  [k \in FrameKey |->
    CASE k = "v"        -> Once(v)
      [] k = "id"       -> Once(id)
      [] k = "method"   -> Once(method)
      [] k = "provider" -> Once(provider)
      [] k = "other"    -> Once(other)]

\* Every combination of single values, one UUID.
Single ==
  {Fields(v, id, m, p, other) :
     v \in Value("v") \cup {None}, id \in {i1, Junk}, m \in Value("method") \cup {None},
     p \in Value("provider") \cup {None}, other \in {None}}

\* Requests that name a version and a method some router knows.
Sound == {Fields(v, i1, m, p, None) : v \in {1, 2, 3, 4, 5, 9},
                                      m \in Method \ {"unknown", "probe"},
                                      p \in {None, "ivpn", "protonvpn"}}

Extra == {[f EXCEPT !["other"] = <<Junk>>] : f \in Sound}
OtherId == {[f EXCEPT !["id"] = <<i2>>] : f \in Sound}

\* One key of a sound request repeated, with any value before its own.
Repeated ==
  UNION {{[f EXCEPT ![k] = <<x>> \o @] : x \in Value(k)} :
           f \in Sound, k \in {"v", "id", "method", "provider"}}

MCFrame ==
  [syntax : {"object"}, fields : Single \cup Extra \cup OtherId \cup Repeated]
  \cup [syntax : {"value", "broken", "lenient"}, fields : Sound]
=============================================================================
