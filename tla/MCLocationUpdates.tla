-------------------------- MODULE MCLocationUpdates --------------------------
(* Small instances of LocationUpdates for TLC.                              *)
EXTENDS LocationUpdates
==============================================================================
