---------------------------- MODULE MCRunService ----------------------------
(* Instances of RunService for TLC. *)
EXTENDS RunService, TLC

CONSTANTS r1, r2, r3

\* Two public runs are interchangeable: safety runs may identify them.
RunSymmetry == Permutations({r1, r2})
=============================================================================
