-------------------------- MODULE MCProviderCalls --------------------------
(* Instances of ProviderCalls: a model call, a search and a fetch.         *)
EXTENDS ProviderCalls

SmallBudget == [d \in Dimensions |-> IF d = "retries" THEN 1 ELSE 4]
=============================================================================
