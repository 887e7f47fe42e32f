--------------------------- MODULE MCMemoryTable ---------------------------
(* Instances of MemoryTable: values of its constants for TLC.                *)
EXTENDS MemoryTable, TLC

Limit(points, window) == [points |-> points, window |-> window]
MCLimits   == {Limit(0, 0), Limit(2, 0), Limit(3, 0), Limit(0, 1)}
MCSymmetry == Permutations(Value)
=============================================================================
