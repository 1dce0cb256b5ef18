------------------------- MODULE MCExperimentGroup -------------------------
(* Instances of ExperimentGroup: two arms, one of them with two repeats.   *)
EXTENDS ExperimentGroup

CONSTANTS r1, r2

ThreeKeys == <<"a1", "a2", "b1">>
TwoArms == [k \in {"a1", "a2", "b1"} |-> IF k = "b1" THEN "b" ELSE "a"]
Interchangeable == Permutations({r1, r2})
=============================================================================
