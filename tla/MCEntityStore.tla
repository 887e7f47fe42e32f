---------------------------- MODULE MCEntityStore ----------------------------
(* Instances of EntityStore: values of its constants for TLC.              *)
EXTENDS EntityStore

MCTypes     == {"PLATFORM", "BEAM", "GATE"}
MCTwoTypes  == {"PLATFORM", "BEAM"}
=============================================================================
