--------------------------- MODULE MCCategoryCounts ---------------------------
(* Instances of CategoryCounts: values of its constants for TLC.             *)
EXTENDS CategoryCounts

MCTypeOf == [e \in {"p", "b"} |-> IF e = "p" THEN "PLATFORM" ELSE "BEAM"]

Only(n, v)   == [x \in {n} |-> [y \in {v} |-> TRUE]]
Except(n, v) == [x \in {n} |-> [y \in {v, Unlisted} |-> y = Unlisted]]

MCFilters == {NoNames, Except("side", "red"), Only("kind", NoValue)}
=============================================================================
