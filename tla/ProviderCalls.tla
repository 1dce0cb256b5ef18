--------------------------- MODULE ProviderCalls ---------------------------
(***************************************************************************)
(* The metered provider calls of one run: _invoke_metered                  *)
(* (workflow/baseline_graph.py) around a provider whose attempts           *)
(* ProviderCallExecutor (providers/resilience.py) retries, and the run's   *)
(* BudgetAccountant.  A run makes its calls one after the other; the node  *)
(* a call fails in ends the run's work, while BudgetExceeded only stops    *)
(* the research, and the graph may still make calls.                       *)
(*                                                                         *)
(* What an attempt makes of the replies of the network is computed in      *)
(* ModelReplies and WebReplies; an attempt ends with any of their verdicts.*)
(*                                                                         *)
(* Time passes while an attempt or a pause is awaited.  The dimensions are *)
(* what a call consumes (tokens, searches, pages: "units"), of which it    *)
(* reserves an estimate, and retries and seconds, of which it reserves all *)
(* that is left.  A provider reports the usage of its last attempt; those  *)
(* it retried report none.  No provider of this code base implements       *)
(* InvocationUsageObserver, whose second report the code would compare.    *)
(* Definitions named Bug... are faulty variants.                           *)
(***************************************************************************)
EXTENDS BudgetAccountant, ModelReplies

CONSTANTS
    Searches,       \* the calls that search,
    Fetches,        \* and those that fetch; the others ask a model
    Estimate,       \* units a model call reserves; a search or fetch reserves 1
    MaxRetries,     \* of ProviderCallPolicy
    Timeout,        \* seconds an attempt may take
    Delays,         \* seconds between attempts, unless the provider asks for others
    Slack           \* bound: seconds by which anything may end late

ASSUME CallConstants ==
    /\ Dimensions = {"units", "retries", "seconds"}
    /\ Searches \union Fetches \subseteq Keys /\ Searches \intersect Fetches = {}
    /\ {Estimate, MaxRetries, Timeout, Slack} \subseteq Nat
    /\ Timeout > 0 /\ Delays \subseteq Nat

VARIABLES
    now,            \* context.monotonic
    token,          \* the CancellationToken is set
    phase,          \* what is awaited: nothing, an attempt, or a pause
    current,        \* the call being made, when it started, and its attempts
    outcome,        \* of each call
    reported,       \* history: what providers said they consumed
    lastStart       \* history: when the last attempt started

calls == <<now, token, phase, current, outcome, reported, lastStart>>
cvars == <<accountant, calls>>

Deadline == Limit["seconds"]
NoCall   == [call |-> "none", since |-> 0, until |-> 0, retries |-> 0]
Outcomes == {"none", "ok", "over", "budget", "timeout", "failed", "cancelled", "interrupted"}
\* After these the graph makes no further call.
Fatal    == {"timeout", "failed", "cancelled", "interrupted"}

Lesser(a, b) == IF a <= b THEN a ELSE b
\* Bug: what is overdrawn is lent out again.
BugLeft(d) == Limit[d] - Committed[d]
Left(d) == IF Committed[d] < Limit[d] THEN Limit[d] - Committed[d] ELSE 0
Amount(units, retries, seconds) ==
    [d \in Dimensions |-> CASE d = "units"   -> units
                            [] d = "retries" -> retries
                            [] OTHER         -> seconds]
\* What a call reserves: it might need every retry and second left.
Counted   == Searches \union Fetches
Demand(c) == Amount(IF c \in Counted THEN 1 ELSE Estimate, Left("retries"), Left("seconds"))

\* What an attempt may end with.  A deadline or a reset that cuts it off is an
\* error that is retried; a search counts once it was asked for.
Verdicts(c) == IF c \in Searches THEN SearchVerdicts
               ELSE IF c \in Fetches THEN PageVerdicts ELSE ModelVerdicts
Unanswered(c) == IF c \in Searches THEN 1 ELSE 0
Pauses(v) == IF v.wait = OwnPause THEN Delays ELSE {v.wait}

CallInit ==
    /\ AccountantInit
    /\ now = 0 /\ token = FALSE /\ phase = "idle" /\ current = NoCall
    /\ outcome = [c \in Keys |-> "none"]
    /\ reported = Nothing /\ lastStart = 0

Cancel ==
    /\ ~token /\ token' = TRUE
    /\ UNCHANGED <<accountant, now, phase, current, outcome, reported, lastStart>>

-----------------------------------------------------------------------------
(* How a call ends *)

End(c, result) ==
    /\ phase' = "idle" /\ current' = NoCall
    /\ outcome' = [outcome EXCEPT ![c] = result]
    /\ UNCHANGED <<token, lastStart>>

Usage(units) == Amount(units, current.retries, now' - current.since)

\* The provider's result, or its error, carries the usage: it is settled.
\* A success that leaves the budget overdrawn raises BudgetExceeded.
Succeed(units) ==
    /\ Settle(current.call, Usage(units)) /\ reported' = Plus(reported, Usage(units))
    /\ End(current.call, IF \E d \in Dimensions : used'[d] > Limit[d] THEN "over" ELSE "ok")

\* Bug: a failed call is released, whatever it consumed.
BugFailWith(units, result) ==
    /\ Release(current.call) /\ reported' = Plus(reported, Usage(units))
    /\ End(current.call, result)

FailWith(units, result) ==
    /\ Settle(current.call, Usage(units)) /\ reported' = Plus(reported, Usage(units))
    /\ End(current.call, result)

\* The exception carries no usage: a search or fetch is charged as one, with
\* the time it took; a model call is released.
GiveUp(result) ==
    /\ IF current.call \in Counted THEN Settle(current.call, Amount(1, 0, now' - current.since))
                                   ELSE Release(current.call)
    /\ UNCHANGED reported
    /\ End(current.call, result)

-----------------------------------------------------------------------------
(* A call starts *)

MayCall(c) ==
    /\ phase = "idle" /\ outcome[c] = "none"
    /\ \A other \in Keys : outcome[other] \notin Fatal

\* It is refused: by the token, by the deadline, or by the accountant.
Refuse(c) ==
    /\ MayCall(c) /\ now' \in now..(now + Slack)
    /\ \/ token /\ End(c, "cancelled")
       \/ ~token /\ now' >= Deadline /\ End(c, "timeout")
       \/ ~token /\ now' < Deadline /\ Refuses(c, Demand(c)) /\ End(c, "budget")
    /\ UNCHANGED <<accountant, reported>>

\* The deadline passes between the reservation and the request: the next look
\* at the clock is the caller's, the provider's own, or the executor's.
ReserveLate(c) ==
    /\ MayCall(c) /\ ~token /\ now < Deadline /\ now' \in Deadline..(now + Slack)
    /\ Fits(Demand(c))
    /\ \/ /\ book' = [book EXCEPT ![c] = [state |-> "released", estimate |-> Demand(c)]]
          /\ UNCHANGED used
       \/ \E units \in {Unanswered(c)} \union (IF c \in Counted THEN {1} ELSE {}) :
            /\ book' = [book EXCEPT ![c] = [state |-> "settled", estimate |-> Demand(c)]]
            /\ \E seconds \in 0..(now' - now) : used' = Plus(used, Amount(units, 0, seconds))
    /\ End(c, "timeout")
    /\ UNCHANGED reported

Attempt(c, since, retries) ==
    /\ phase' = "attempt" /\ lastStart' = now'
    /\ current' = [call |-> c, since |-> since, retries |-> retries,
                   until |-> Lesser(Deadline, now' + Timeout)]

Invoke(c) ==
    /\ MayCall(c) /\ ~token /\ now' \in now..(now + Slack) /\ now' < Deadline
    /\ Reserve(c, Demand(c))
    /\ Attempt(c, now', 0)
    /\ UNCHANGED <<token, outcome, reported>>

-----------------------------------------------------------------------------
(* An attempt ends *)

\* An attempt is given up at its deadline, and notices it a little late.
Passes == now' \in now..(current.until + Slack)

Ends(result, v) == phase = "attempt" /\ Passes /\ v \in Verdicts(current.call) /\ v.result = result

Answer(v) == Ends("ok", v) /\ Succeed(v.units)

\* An error that is never retried: the reply may have been billed.
Reject(v) == Ends("failed", v) /\ FailWith(v.units, "failed")

\* Not an error of the provider's: the executor lets it through.
Raise(v) == Ends("raised", v) /\ GiveUp("failed")

Fails(result) == FailWith(Unanswered(current.call), result)

\* A timeout, a rate limit, a network or a server error: out of time, out of
\* retries, too little time for the pause, or a pause.
Retryable(v) ==
    /\ Ends("retry", v)
    /\ \/ now' >= Deadline /\ Fails("timeout")
       \/ now' < Deadline /\ current.retries >= MaxRetries /\ Fails("failed")
       \/ /\ now' < Deadline /\ current.retries < MaxRetries
          /\ \E delay \in Pauses(v) :
               \/ now' + delay >= Deadline /\ Fails("failed")
               \/ /\ now' + delay < Deadline
                  /\ phase' = "pause" /\ current' = [current EXCEPT !.until = now' + delay]
                  /\ UNCHANGED <<accountant, token, outcome, reported, lastStart>>

\* Bug: the deadline is not looked at after a pause.
BugResume ==
    /\ phase = "pause" /\ now' \in current.until..(current.until + Slack)
    /\ Attempt(current.call, current.since, current.retries + 1)
    /\ UNCHANGED <<accountant, token, outcome, reported>>

\* Bug: retries are not counted.
BugResumeUncounted ==
    /\ phase = "pause" /\ now' \in current.until..(current.until + Slack)
    /\ \/ now' >= Deadline /\ Fails("timeout")
       \/ /\ now' < Deadline
          /\ Attempt(current.call, current.since, current.retries)
          /\ UNCHANGED <<accountant, token, outcome, reported>>

Resume ==
    /\ phase = "pause" /\ now' \in current.until..(current.until + Slack)
    /\ \/ now' >= Deadline /\ Fails("timeout")
       \/ /\ now' < Deadline
          /\ Attempt(current.call, current.since, current.retries + 1)
          /\ UNCHANGED <<accountant, token, outcome, reported>>

\* An attempt looks at the token; a pause does not.
SeeToken == phase = "attempt" /\ token /\ Passes /\ GiveUp("cancelled")

\* The run's task is cancelled while it awaits the call.
Interrupt ==
    /\ phase # "idle" /\ now' = now
    /\ Release(current.call) /\ UNCHANGED reported
    /\ End(current.call, "interrupted")

Hear ==
    \/ SeeToken
    \/ \E v \in SearchVerdicts \union PageVerdicts \union ModelVerdicts :
          Answer(v) \/ Reject(v) \/ Raise(v) \/ Retryable(v)

CallNext ==
    \/ Cancel \/ Hear \/ Resume \/ Interrupt
    \/ \E c \in Keys : Refuse(c) \/ ReserveLate(c) \/ Invoke(c)

CallSpec == CallInit /\ [][CallNext]_cvars

\* An attempt is given up at its deadline at the latest, and pauses end.
FairCalls == CallSpec /\ WF_cvars(Hear) /\ WF_cvars(Resume)
-----------------------------------------------------------------------------
(* Properties. *)

CallTypeOK ==
    /\ used \in Amounts /\ book \in [Keys -> Bookings]
    /\ {now, lastStart} \subseteq Nat /\ token \in BOOLEAN
    /\ phase \in {"idle", "attempt", "pause"}
    /\ current \in [call : Keys \union {"none"}, since : Nat, until : Nat, retries : 0..MaxRetries]
    /\ outcome \in [Keys -> Outcomes] /\ reported \in Amounts

\* Between calls nothing is reserved, on whatever path the last call ended, and
\* during a call exactly its own reservation is active (_invoke_metered).
OnlyTheCallReserves == Active = (IF phase = "idle" THEN {} ELSE {current.call})

\* The budget is overdrawn by one call at most: by what it consumed over its
\* estimate, by the retries of one call, by the lateness of one attempt (reserve
\* refuses everything once a dimension is overdrawn, by an error or a result).
OverdraftIsOneCalls ==
    /\ used["units"] <= Limit["units"] + (IF MostUnits > Estimate THEN MostUnits - Estimate ELSE 0)
    /\ used["retries"] <= Limit["retries"] + MaxRetries
    /\ used["seconds"] <= Limit["seconds"] + Slack

\* No attempt starts at the deadline or later, be it the first or one that
\* follows a pause (call_with_trace).
AttemptsAreInTime == phase = "attempt" => lastStart < Deadline

\* What a provider reported is charged, with a result or an error.
ReportedIsCharged == \A d \in Dimensions : used[d] >= reported[d]

\* While a model is asked, every stream that would end the call with a result
\* reads as a reply that complete would have taken, charged as it states, in
\* whatever order its events come (_stream_once, validate_model_stream).
StreamsAreReplies ==
    phase = "attempt" /\ current.call \notin Searches \union Fetches => TakenAsReplies

\* A call ends: its attempts and pauses are bounded.
CallEnds == (phase # "idle") ~> (phase = "idle")

\* A call stays in its reservation and in its time, whichever way it ends.
CallKeepsBounds == OnlyTheCallReserves /\ OverdraftIsOneCalls /\ AttemptsAreInTime
=============================================================================
