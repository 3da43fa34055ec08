----------------------------- MODULE MCBridgeCache -----------------------------
(* BridgeCache on a small instance: two connection threads, one key, CACHE_TTL  *)
(* of two ticks, one machine sleep as long as CACHE_TTL at any moment.          *)
EXTENDS BridgeCache

MCSleepSpans == {2}
MCWallSteps == {-2}
=============================================================================
