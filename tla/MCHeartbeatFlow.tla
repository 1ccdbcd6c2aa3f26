--------------------------- MODULE MCHeartbeatFlow ---------------------------
(* Small instances of HeartbeatFlow for TLC.                                *)
EXTENDS HeartbeatFlow
==============================================================================
