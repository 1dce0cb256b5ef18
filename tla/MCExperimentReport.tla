------------------------- MODULE MCExperimentReport -------------------------
(* Instances of ExperimentReport: two arms, one of them with two repeats.  *)
EXTENDS ExperimentReport

CONSTANTS r1, r2

ThreeKeys == <<"a1", "a2", "b1">>
TwoArms == [k \in {"a1", "a2", "b1"} |-> IF k = "b1" THEN "b" ELSE "a"]
ThreeOutputs == <<"summary", "task_metrics", "confidence">>
Interchangeable == Permutations({r1, r2})
=============================================================================
