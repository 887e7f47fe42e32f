----------------------------- MODULE MCFastSearch -----------------------------
(* Instances of FastSearch: values of its constants for TLC.               *)
EXTENDS FastSearch

MCSearchTimes      == 0 .. 9
MCStoredTimes == {-1, 1, 2, 3, 5, 6, 7, 8}
=============================================================================
