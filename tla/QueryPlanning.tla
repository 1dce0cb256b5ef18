---------------------------- MODULE QueryPlanning ----------------------------
(***************************************************************************)
(* FixedPlanner (planning/fixed.py) in front of the searches it plans:     *)
(* create_plan asks a model for a plan, and once more to repair what does  *)
(* not validate; queries_for asks it for the queries of a subquestion,     *)
(* which P1FixedPlanner makes the candidates of the rounds QueryScheduler  *)
(* dispatches.  Callers of one subquestion wait behind its gate and read   *)
(* the cache again behind it; the gate goes with its last user.  Callers   *)
(* of two subquestions do not wait for each other, and every model call is *)
(* reserved in the one ledger of the planner.                              *)
(*                                                                         *)
(* Deadlines are arguments of the calls, so that any check of a boundary   *)
(* may fail for the caller that makes it.  Between two awaits a coroutine  *)
(* runs alone.  Definitions named Bug... are faulty variants.              *)
(***************************************************************************)
EXTENDS QueryDispatch

CONSTANTS
    Subquestions,   \* keys of gates and cache: a plan and one of its subquestions
    Askers,         \* coroutines that ask for queries
    AsksFor,        \* the subquestion each of them asks for
    None,
    MaxTokens,      \* what the planner may spend
    Bound,          \* tokens each kind of request reserves
    MostTokens      \* bound: tokens a call may turn out to use

ASSUME PlannerConstants ==
    /\ IsFiniteSet(Subquestions) /\ Subquestions # {}
    /\ None \notin Askers /\ IsFiniteSet(Askers) /\ AsksFor \in [Askers -> Subquestions]
    /\ {MaxTokens, MostTokens} \subseteq Nat
    /\ Bound \in [{"plan", "repair", "blank repair", "queries"} -> Nat]
    /\ \A kind \in DOMAIN Bound : Bound["queries"] <= Bound[kind]
    /\ Bound["queries"] <= MostTokens

VARIABLES
    plan,           \* where create_plan is
    lent, spent,    \* _model_tokens_reserved, _model_tokens_used
    gate,           \* _query_locks: of a subquestion its gate, named by who made it
    cache,          \* _query_cache: of a subquestion whose call found the queries
    asker           \* of each asker: where it is, its gate, and what it returned

planning == <<plan, lent, spent, gate, cache, asker>>
pvars == <<dvars, planning>>

Idle == [at |-> "idle", gate |-> None, got |-> None]
Finished == {"returned", "stopped", "budget", "failed"}

PlanningInit ==
    /\ DispatchInit
    /\ plan = [at |-> "none", holds |-> 0] /\ lent = 0 /\ spent = 0
    /\ gate = [s \in Subquestions |-> None] /\ cache = [s \in Subquestions |-> None]
    /\ asker = [a \in Askers |-> Idle]

Covers(amount) == spent + lent + amount <= MaxTokens
\* Settling what a call used tells whether the ledger still holds.
Settled(amount, units) == lent' = lent - amount /\ spent' = spent + units
InBounds == spent' + lent' <= MaxTokens

-----------------------------------------------------------------------------
(* create_plan *)

GoPlan(at, holds) == plan' = [at |-> at, holds |-> holds]

\* _generate_candidate, until the model is asked: it fails at a boundary or
\* for want of tokens; a repair that does not fit may fit without the plan.
Generate(stage, kind, fallback) ==
    \/ GoPlan("failed", 0) /\ UNCHANGED lent
    \/ \E k \in IF fallback /\ ~Covers(Bound[kind]) THEN {"blank repair"} ELSE {kind} :
         Covers(Bound[k]) /\ lent' = lent + Bound[k] /\ GoPlan(stage, Bound[k])

StartPlan ==
    /\ plan.at = "none" /\ Generate("initial", "plan", FALSE)
    /\ UNCHANGED <<dvars, spent, gate, cache, asker>>

\* The candidate came: it is refused when it overdrew the ledger or came too
\* late; one that does not validate is repaired once.
Candidate(units) ==
    /\ plan.at \in {"initial", "repair"} /\ Settled(plan.holds, units)
    /\ \/ GoPlan("failed", 0)
       \/ InBounds /\ GoPlan("made", 0)
       \/ InBounds /\ plan.at = "initial" /\ GoPlan("rejected", 0)
    /\ UNCHANGED <<dvars, gate, cache, asker>>

\* _repair_requests: with the rejected plan, unless it is too long or no JSON.
Repair ==
    /\ plan.at = "rejected"
    /\ \/ Generate("repair", "repair", TRUE)
       \/ Generate("repair", "blank repair", FALSE)
    /\ UNCHANGED <<dvars, spent, gate, cache, asker>>

\* The call fails, with usage or without, or the caller is cancelled.
CandidateFails(units) ==
    /\ plan.at \in {"initial", "repair"} /\ Settled(plan.holds, units) /\ GoPlan("failed", 0)
    /\ UNCHANGED <<dvars, gate, cache, asker>>

-----------------------------------------------------------------------------
(* queries_for *)

At(place) == {a \in Askers : asker[a].at = place}
Return(a, queries) == asker' = [asker EXCEPT ![a] = [at |-> "returned", gate |-> None, got |-> queries]]
EndAs(a, place) == asker' = [asker EXCEPT ![a] = [at |-> place, gate |-> None, got |-> None]]

GateOf(a)  == gate[AsksFor[a]]
Cached(a)  == cache[AsksFor[a]]
SetGate(a, g)       == gate' = [gate EXCEPT ![AsksFor[a]] = g]
SetCached(a, found) == cache' = [cache EXCEPT ![AsksFor[a]] = found]

UsersOf(g) == {a \in Askers : asker[a].gate = g}
Holder(g)  == {a \in At("calling") : asker[a].gate = g}

\* Bug: the gate goes with the first user that leaves.
BugLeave(a) == SetGate(a, IF GateOf(a) = asker[a].gate THEN None ELSE GateOf(a))
\* The last user of a gate removes it, if it is still the one in place.
Leave(a) ==
    SetGate(a, IF UsersOf(asker[a].gate) = {a} /\ GateOf(a) = asker[a].gate THEN None ELSE GateOf(a))

Ask(a) ==
    /\ plan.at = "made" /\ asker[a].at = "idle"
    /\ \/ EndAs(a, "stopped") /\ UNCHANGED gate
       \/ Cached(a) # None /\ Return(a, Cached(a)) /\ UNCHANGED gate
       \/ /\ Cached(a) = None /\ SetGate(a, IF GateOf(a) = None THEN a ELSE GateOf(a))
          /\ asker' = [asker EXCEPT ![a] = [at |-> "waiting", gate |-> GateOf(a)', got |-> None]]
    /\ UNCHANGED <<dvars, plan, lent, spent, cache>>

\* Behind the gate: the cache again, then a reservation, then the call.
Enter(a) ==
    /\ asker[a].at = "waiting" /\ Holder(asker[a].gate) = {}
    /\ \/ EndAs(a, "stopped") /\ Leave(a) /\ UNCHANGED lent
       \/ Cached(a) # None /\ Return(a, Cached(a)) /\ Leave(a) /\ UNCHANGED lent
       \/ Cached(a) = None /\ ~Covers(Bound["queries"]) /\ EndAs(a, "budget") /\ Leave(a) /\ UNCHANGED lent
       \/ /\ Cached(a) = None /\ Covers(Bound["queries"]) /\ lent' = lent + Bound["queries"]
          /\ asker' = [asker EXCEPT ![a].at = "calling"] /\ UNCHANGED gate
    /\ UNCHANGED <<dvars, plan, spent, cache>>

\* It gives up while it waits: its deadline, the token, or its own task.
Desist(a) ==
    /\ asker[a].at = "waiting" /\ EndAs(a, "stopped") /\ Leave(a)
    /\ UNCHANGED <<dvars, plan, lent, spent, cache>>

\* The queries came.  They are cached only if they are still wanted and paid
\* for, and taken out again when the caller turns out to be late.
Queries(a, units) ==
    /\ asker[a].at = "calling" /\ Settled(Bound["queries"], units) /\ Leave(a)
    /\ \/ EndAs(a, "stopped") /\ UNCHANGED cache
       \/ ~InBounds /\ EndAs(a, "budget") /\ UNCHANGED cache
       \/ InBounds /\ EndAs(a, "failed") /\ UNCHANGED cache
       \/ InBounds /\ SetCached(a, None) /\ EndAs(a, "stopped")
       \/ InBounds /\ SetCached(a, a) /\ Return(a, a)
    /\ UNCHANGED <<dvars, plan>>

QueriesFail(a, units) ==
    /\ asker[a].at = "calling" /\ Settled(Bound["queries"], units) /\ Leave(a) /\ EndAs(a, "failed")
    /\ UNCHANGED <<dvars, plan, cache>>

\* The rounds begin when nobody asks any more and somebody has queries; what
\* the planner spent matters no more, and is forgotten.
Began == plan.at = "searching"
Begin ==
    /\ plan.at = "made" /\ \A a \in Askers : asker[a].at \in Finished
    /\ At("returned") # {} /\ GoPlan("searching", 0)
    /\ lent' = 0 /\ spent' = 0 /\ gate' = [s \in Subquestions |-> None]
    /\ cache' = [s \in Subquestions |-> None] /\ asker' = [a \in Askers |-> Idle]
    /\ UNCHANGED dvars

\* evaluate_stop: no further round once a dimension is used up, though what a
\* candidate would reserve might fit.
Exhausted == \E d \in Dimensions : Committed[d] >= Limit[d]
Round == Began /\ ~Exhausted /\ Dispatch /\ UNCHANGED planning

PlanningNext ==
    \/ StartPlan \/ Repair \/ Begin \/ Round
    \/ \E units \in 0..MostTokens : Candidate(units) \/ CandidateFails(units)
    \/ \E a \in Askers :
         \/ Ask(a) \/ Enter(a) \/ Desist(a)
         \/ \E units \in 0..MostTokens : Queries(a, units) \/ QueriesFail(a, units)
    \/ /\ Began /\ UNCHANGED planning
       /\ \/ Cancel \/ Gather \/ Interrupt
          \/ \E t \in Tasks : Start(t) \/ Answer(t) \/ Fail(t)

PlanningSpec == PlanningInit /\ [][PlanningNext]_pvars
-----------------------------------------------------------------------------
(* Properties. *)

\* All who ask for the queries of one subquestion and get them get the same,
\* however they meet at the gate, fail behind it, or leave it (queries_for):
\* nobody's queries are found twice.
QueriesAgree ==
    \A a, b \in At("returned") : AsksFor[a] = AsksFor[b] => asker[a].got = asker[b].got

\* The planner's ledger is overdrawn by what calls in flight together use over
\* their bounds: one call of each subquestion at most, and none that began once
\* the ledger was short.  A call still out has not used its part of that yet.
PlannerOverdraft ==
    LET calls == Cardinality(At("calling")) IN
    /\ lent = plan.holds + Bound["queries"] * calls
    /\ spent + lent <= MaxTokens + (MostTokens - Bound["queries"]) * (Cardinality(Subquestions) - calls)

\* What the gates are for: one call for the queries of a subquestion at a time,
\* whose outcome is everybody's, and whose overuse the ledger answers for once.
PlannerSound == QueriesAgree /\ PlannerOverdraft
=============================================================================
