-------------------------- MODULE BudgetAccountant --------------------------
(***************************************************************************)
(* BudgetAccountant (runtime/budget.py): what a run has used of each       *)
(* dimension of its budget, and the reservations its calls hold while they *)
(* are in flight.  Every method takes the accountant's lock and awaits     *)
(* nothing, so a method is one step.  QueryDispatch and ProviderCalls      *)
(* compose these steps with the code that calls them.                      *)
(*                                                                         *)
(* Amounts are naturals.  The buckets of used_by_node only attribute what  *)
(* is used; limits apply to their sum, which is what is kept here.         *)
(* Definitions named Bug... are faulty variants: the properties of the     *)
(* modules that use the accountant are checked to fail under them.         *)
(***************************************************************************)
EXTENDS Integers, FiniteSetsExt

CONSTANTS
    Keys,           \* idempotency keys
    Dimensions,     \* the budget's dimensions
    Limit           \* the budget: the most a run may use of each dimension

ASSUME AccountantConstants == Limit \in [Dimensions -> Nat]

VARIABLES
    used,
    book            \* the reservation made under each key

accountant == <<used, book>>

Amounts == [Dimensions -> Nat]
Nothing == [d \in Dimensions |-> 0]
Plus(a, b) == [d \in Dimensions |-> a[d] + b[d]]
NoBooking == [state |-> "none", estimate |-> Nothing]
Bookings == [state : {"none", "active", "settled", "released"}, estimate : Amounts]

Booked(k) == book[k].state # "none"
Active    == {k \in Keys : book[k].state = "active"}
Reserved  == [d \in Dimensions |->
                  SumFunctionOnSet([k \in Keys |-> book[k].estimate[d]], Active)]
Committed == Plus(used, Reserved)

\* Bug: what others hold is not counted.
BugFits(estimate) == \A d \in Dimensions : used[d] + estimate[d] <= Limit[d]

\* _offending_dimensions finds none.
Fits(estimate) == \A d \in Dimensions : Committed[d] + estimate[d] <= Limit[d]

AccountantInit ==
    /\ used = Nothing
    /\ book = [k \in Keys |-> NoBooking]

\* reserve returns a reservation: a new one, or the one made under this key.
Reserve(k, estimate) ==
    /\ \/ ~Booked(k) /\ Fits(estimate)
       \/ Booked(k) /\ book[k].estimate = estimate
    /\ book' = IF Booked(k) THEN book
               ELSE [book EXCEPT ![k] = [state |-> "active", estimate |-> estimate]]
    /\ UNCHANGED used

\* reserve raises BudgetExceeded, or ValueError for a key with another estimate.
Refuses(k, estimate) == ~Booked(k) /\ ~Fits(estimate)
Clashes(k, estimate) == Booked(k) /\ book[k].estimate # estimate

Settles(k) == book[k].state \in {"active", "settled"}

\* Bug: every settlement charges.
BugSettle(k, actual) ==
    /\ Settles(k)
    /\ book' = [book EXCEPT ![k].state = "settled"]
    /\ used' = Plus(used, actual)

\* A reservation is settled once: settling it again charges nothing.
Settle(k, actual) ==
    /\ Settles(k)
    /\ book' = [book EXCEPT ![k].state = "settled"]
    /\ used' = IF book[k].state = "active" THEN Plus(used, actual) ELSE used

Releases(k) == book[k].state \in {"active", "released"}
Release(k) ==
    /\ Releases(k)
    /\ book' = [book EXCEPT ![k].state = "released"]
    /\ UNCHANGED used
=============================================================================
