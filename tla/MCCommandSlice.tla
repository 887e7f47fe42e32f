---------------------------- MODULE MCCommandSlice ----------------------------
(* Instances of CommandSlice: values of its constants for TLC.             *)
EXTENDS CommandSlice

On      == [Empty EXCEPT !.datadraw = "on"]
Off     == [Empty EXCEPT !.datadraw = "off"]
Accept1 == [Empty EXCEPT !.acceptprojectorids = <<1>>]
Accept2 == [Empty EXCEPT !.acceptprojectorids = <<2, 1>>]

MCFields   == {On, Off, Accept1}
MCRepeated == {On, Accept1, Accept2}
MCClear    == {On}

MCTimes           == 0 .. 4
MCCommandTimes    == 1 .. 3
MCNoTimeLimit     == -1
=============================================================================
