---------------------------- MODULE MCUpdateSlice ----------------------------
(* Instances of UpdateSlice: values of its constants for TLC.              *)
EXTENDS UpdateSlice

Drawn == [datadraw |-> TRUE, interpolatepos |-> TRUE, lifespanmode |-> "FIRST_LAST_POINT",
          limitpoints |-> 0, limittime |-> -1]

MCCurrentPrefs ==
  {[Drawn EXCEPT !.datadraw = d, !.lifespanmode = m, !.limitpoints = n] :
     d \in BOOLEAN, m \in {"FIRST_LAST_POINT", "EXTEND_SINGLE_POINT"}, n \in {0, 2}}

MCTimes  == 0 .. 5
MCPoints == {-1, 1, 2, 4}

MCMayChange ==
  [s \in BOOLEAN \X {"OFF", "INTERNAL", "EXTERNAL"} |->
     CASE s[2] = "OFF"              -> {"drawing", "limiting"} \cup IF s[1] THEN {} ELSE {"others"}
       [] s = <<FALSE, "EXTERNAL">> -> {"others", "datadraw", "lifespanmode", "file mode"}
       [] OTHER                     -> {"others", "datadraw", "lifespanmode", "INTERNAL", "EXTERNAL"}
                                       \cup IF s[2] = "INTERNAL" THEN {"update before release"} ELSE {}]

\* The theorems about the current point are about environments like this one.
ASSUME InstanceAssumption == Sheltered
=============================================================================
