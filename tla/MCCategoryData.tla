--------------------------- MODULE MCCategoryData ---------------------------
(* Instances of CategoryData: values of its constants for TLC.               *)
EXTENDS CategoryData, TLC

MCDataTimes   == {Static, 1, 3}
MCFlushRanges == {[from |-> Static, to |-> 9], [from |-> 0, to |-> 9], [from |-> 1, to |-> 3]}
MCLimits      == {NoLimit, [points |-> 1, window |-> 1], [points |-> 2, window |-> 1]}
\* The theorems are about limits like these.
ASSUME InstanceAssumption == ShortWindows

MCSymmetry    == Permutations(Value) \cup Permutations(Category)
=============================================================================
