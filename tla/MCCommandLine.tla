--------------------------- MODULE MCCommandLine ---------------------------
(* Instances of CommandLine for TLC. *)
EXTENDS CommandLine, TLC

CONSTANTS d1, p1, p2

Places == Permutations(Dests)
=============================================================================
