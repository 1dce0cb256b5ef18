--------------------------- MODULE QueryDispatch ---------------------------
(***************************************************************************)
(* QueryScheduler.dispatch (planning/query_scheduler.py): a round of       *)
(* searches runs as one task per candidate behind a semaphore, each        *)
(* reserving its estimate from the run's BudgetAccountant before it        *)
(* searches and settling or releasing it afterwards; asyncio.gather waits  *)
(* for all of them, or raises with the first that raises while the others  *)
(* go on.  The idempotency key of a reservation is the normalized query,   *)
(* so that candidates of one query, in one round or in two, share it.      *)
(* Definitions named Bug... are faulty variants.                           *)
(***************************************************************************)
EXTENDS BudgetAccountant

CONSTANTS
    Candidates,
    QueryOf,            \* the normalized query of a candidate: its key
    Estimates,          \* what candidates may be estimated to use
    MaxConcurrency,
    Rounds              \* bound: rounds dispatched

ASSUME DispatchConstants ==
    /\ QueryOf \in [Candidates -> Keys]
    /\ "search_calls" \in Dimensions
    /\ Estimates \subseteq {e \in Amounts : e["search_calls"] >= 1}
    /\ MaxConcurrency \in Nat \ {0} /\ Rounds \in Nat

VARIABLES
    token,              \* the CancellationToken is set
    round, gather,      \* the round dispatched last, and what became of it
    task,               \* of each round and candidate
    searched            \* history: searches the provider completed

dvars == <<accountant, token, round, gather, task, searched>>

OneSearch == [Nothing EXCEPT !["search_calls"] = 1]
NoTask == [at |-> "none", estimate |-> Nothing]
\* Where a task stands: waiting for the semaphore, searching, or ended with
\* hits, skipped for a reason, or by an exception.
Places == {"none", "waiting", "searching", "hits", "cancelled", "budget", "raised", "interrupted"}
Tasks     == (1..Rounds) \X Candidates
KeyOf(t)  == QueryOf[t[2]]
In(place) == {t \in Tasks : task[t].at = place}
OfRound(n) == {t \in Tasks : t[1] = n /\ task[t].at # "none"}
Ended(t)   == task[t].at \notin {"waiting", "searching"}

Go(t, place) == task' = [task EXCEPT ![t].at = place]

DispatchInit ==
    /\ AccountantInit
    /\ token = FALSE /\ round = 0 /\ gather = "idle" /\ searched = 0
    /\ task = [t \in Tasks |-> NoTask]

\* A caller dispatches the next round once gather has returned.
Dispatch ==
    /\ gather \in {"idle", "returned"} /\ round < Rounds
    /\ \E batch \in SUBSET Candidates \ {{}} : \E estimate \in [batch -> Estimates] :
         task' = [t \in Tasks |->
             IF t[1] = round + 1 /\ t[2] \in batch
               THEN [at |-> "waiting", estimate |-> estimate[t[2]]] ELSE task[t]]
    /\ round' = round + 1 /\ gather' = "waiting"
    /\ UNCHANGED <<accountant, token, searched>>

Cancel ==
    /\ ~token /\ token' = TRUE
    /\ UNCHANGED <<accountant, round, gather, task, searched>>

\* A task got a slot of its round's semaphore and has not reserved yet.
HasSlot(t) ==
    /\ task[t].at = "waiting"
    /\ Cardinality({u \in In("searching") : u[1] = t[1]}) < MaxConcurrency

Skip(t, reason) == Go(t, reason) /\ UNCHANGED accountant

Start(t) ==
    /\ HasSlot(t)
    /\ LET k == KeyOf(t)  e == task[t].estimate IN
         \/ token /\ Skip(t, "cancelled")
         \/ ~token /\ Refuses(k, e) /\ Skip(t, "budget")
         \/ ~token /\ Clashes(k, e) /\ Skip(t, "raised")
         \/ ~token /\ Reserve(k, e) /\ Go(t, "searching")
    /\ UNCHANGED <<token, round, gather, searched>>

\* The exception handlers release the reservation and end the task; release
\* itself raises when another task of the query has settled it.
GiveBack(t, place) ==
    \/ Releases(KeyOf(t)) /\ Release(KeyOf(t)) /\ Go(t, place)
    \/ ~Releases(KeyOf(t)) /\ Skip(t, "raised")

\* The provider answered: the token is read again, and the search is charged.
Answer(t) ==
    /\ task[t].at = "searching" /\ searched' = searched + 1
    /\ \/ token /\ GiveBack(t, "cancelled")
       \/ ~token /\ Settles(KeyOf(t)) /\ Settle(KeyOf(t), OneSearch) /\ Go(t, "hits")
       \/ ~token /\ ~Settles(KeyOf(t)) /\ GiveBack(t, "raised")
    /\ UNCHANGED <<token, round, gather>>

\* Bug: a cancelled search keeps its reservation.
BugFail(t) ==
    /\ task[t].at = "searching"
    /\ \/ GiveBack(t, "raised")
       \/ token /\ Skip(t, "cancelled")
    /\ UNCHANGED <<token, round, gather, searched>>

\* The provider raised, or gave up because the token was set.
Fail(t) ==
    /\ task[t].at = "searching"
    /\ \/ GiveBack(t, "raised")
       \/ token /\ GiveBack(t, "cancelled")
    /\ UNCHANGED <<token, round, gather, searched>>

\* gather raises with the first task that raised, or returns with all ended.
Gather ==
    /\ gather = "waiting"
    /\ \/ /\ \E t \in OfRound(round) : task[t].at = "raised"
          /\ gather' = "raised"
       \/ /\ \A t \in OfRound(round) : Ended(t) /\ task[t].at # "raised"
          /\ gather' = "returned"
    /\ UNCHANGED <<accountant, token, round, task, searched>>

\* The caller's task is cancelled: gather cancels the tasks it waits for, and
\* no handler of execute catches CancelledError.
Interrupt ==
    /\ gather = "waiting" /\ gather' = "interrupted"
    /\ task' = [t \in Tasks |->
          IF Ended(t) THEN task[t] ELSE [task[t] EXCEPT !.at = "interrupted"]]
    /\ UNCHANGED <<accountant, token, round, searched>>

DispatchNext ==
    \/ Dispatch \/ Cancel \/ Gather \/ Interrupt
    \/ \E t \in Tasks : Start(t) \/ Answer(t) \/ Fail(t)

DispatchSpec == DispatchInit /\ [][DispatchNext]_dvars

-----------------------------------------------------------------------------
(* Properties. *)

DispatchTypeOK ==
    /\ used \in Amounts /\ book \in [Keys -> Bookings]
    /\ token \in BOOLEAN /\ round \in 0..Rounds
    /\ gather \in {"idle", "waiting", "returned", "raised", "interrupted"}
    /\ task \in [Tasks -> [at : Places, estimate : {Nothing} \union Estimates]]
    /\ searched \in Nat

\* What concurrent tasks used and reserved together stays within the budget,
\* also when candidates share a reservation (reserve, settle; the estimate of
\* search_calls is at least 1, so settling never takes more than was reserved).
CapacityKept == \A d \in Dimensions : Committed[d] <= Limit[d]

\* A reservation is active only while a task of its query is searching: failed
\* and cancelled tasks return what they hold (the except clauses of execute),
\* orphans of a raised gather included.  The exception is a task of a caller
\* that was cancelled: CancelledError passes those clauses by.
ReservationsReturn ==
    \A k \in Active : \E t \in In("searching") \union In("interrupted") : KeyOf(t) = k

\* The budget is charged one search per query that returned hits, never more,
\* however many tasks and rounds asked for the query (settle is idempotent).
ChargedOncePerQuery ==
    used["search_calls"] = Cardinality({KeyOf(t) : t \in In("hits")})

\* The design's rule that an external call which completed is charged even if
\* the run is cancelled meanwhile; the handler of OperationCancelled releases.
CompletedSearchesCharged == used["search_calls"] >= searched
=============================================================================
