-------------------------- MODULE MCQueryDispatch --------------------------
(* Instances of QueryDispatch: three candidates of two queries.            *)
EXTENDS QueryDispatch

CONSTANTS c1, c2, c3, q1, q2

TwoQueries == [c \in Candidates |-> IF c = c2 THEN q2 ELSE q1]
Budget     == [d \in Dimensions |-> IF d = "search_calls" THEN 3 ELSE 2]
Guesses    == {[d \in Dimensions |-> 1], [d \in Dimensions |-> IF d = "tokens" THEN 0 ELSE 2]}
OneGuess   == {[d \in Dimensions |-> 1]}
=============================================================================
