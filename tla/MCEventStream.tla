--------------------------- MODULE MCEventStream ---------------------------
(* Instances of EventStream for TLC: every client follows the one run.     *)
EXTENDS EventStream

CONSTANTS r1

FollowsOne == [c \in Streams |-> r1]
=============================================================================
