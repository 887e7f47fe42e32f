------------------------------- MODULE MCClock -------------------------------
(* Instances of Clock: values of its constants for TLC.                      *)
EXTENDS Clock

MCNoBound == -1
=============================================================================
