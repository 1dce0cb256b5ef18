-------------------------- MODULE MCQueryPlanning --------------------------
(* Instances of QueryPlanning: three coroutines ask for the queries of one *)
(* subquestion and a fourth for those of another; three candidates of two  *)
(* queries are searched in rounds.                                         *)
EXTENDS QueryPlanning

CONSTANTS c1, c2, c3, q1, q2, s1, s2, a1, a2, a3, a4

TwoQueries == [c \in Candidates |-> IF c = c2 THEN q2 ELSE q1]
Budget     == [d \in Dimensions |-> IF d = "search_calls" THEN 3 ELSE 2]
Guesses    == {[d \in Dimensions |-> 1], [d \in Dimensions |-> IF d = "tokens" THEN 0 ELSE 2]}
TwoAsked   == [a \in Askers |-> IF a = a4 THEN s2 ELSE s1]
Requests   == [k \in {"plan", "repair", "blank repair", "queries"} |->
                  IF k \in {"plan", "repair"} THEN 2 ELSE 1]
=============================================================================
