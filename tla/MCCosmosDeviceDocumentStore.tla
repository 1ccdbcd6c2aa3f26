--------------------- MODULE MCCosmosDeviceDocumentStore ---------------------
(* Small instances of CosmosDeviceDocumentStore for TLC: the two consumers of *)
(* one API process; either may carry either update.                           *)
EXTENDS CosmosDeviceDocumentStore
=============================================================================
