------------------------- MODULE MCCorrelatedClient -------------------------
(* Small instances of CorrelatedClient for TLC.                               *)
EXTENDS CorrelatedClient
=============================================================================
