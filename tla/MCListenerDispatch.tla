-------------------------- MODULE MCListenerDispatch --------------------------
(* Instances of ListenerDispatch: values of its constants for TLC.         *)
EXTENDS ListenerDispatch

MCListeners == {"counter", "model", "view"}
MCWeight    == [counter |-> 0, model |-> 0, view |-> 1]
MCOnce      == {<<1>>}
MCAllRounds == {<<1>>, <<2, 1>>}
=============================================================================
