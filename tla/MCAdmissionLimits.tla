------------------------- MODULE MCAdmissionLimits -------------------------
(* Instances of AdmissionLimits: every run comes from one address, in two  *)
(* sessions.                                                               *)
EXTENDS AdmissionLimits, TLC

CONSTANTS r1, r2, r3

OneAddress == [r \in Runs |-> IF r = r3 THEN <<"ip", "s2">> ELSE <<"ip", "s1">>]
TokensOf   == [k \in Keys |-> IF k = "ip" THEN 2 ELSE 1]
SameSession == Permutations({r1, r2})
RefillOf   == [k \in Keys |-> IF k = "ip" THEN 1 ELSE 2]
=============================================================================
