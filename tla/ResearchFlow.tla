---------------------------- MODULE ResearchFlow ----------------------------
(***************************************************************************)
(* The two research graphs (baseline-v1 and research-v1) as pure operators *)
(* on the graph's state: what each node's handler makes of the state it    *)
(* reads, and which node the conditional edges choose next.  NodeAudit     *)
(* runs these nodes; this module has no variables.                         *)
(*                                                                         *)
(* Documents, claims and scores are abstract: a document is a member of    *)
(* Docs, a work artifact is the set of documents it names, and coverage is *)
(* the set of subquestions that meet their thresholds.  What no definition *)
(* here decides (what a search finds, how a document scores, whether the   *)
(* judge finds support) is a choice over every possible outcome.           *)
(* Definitions named Bug... are faulty variants.                           *)
(***************************************************************************)
EXTENDS Naturals, Sequences, FiniteSets

CONSTANTS
    NSub,       \* subquestions of the validated plan
    Docs        \* documents a search may name

ASSUME FlowAssumption == NSub \in Nat \ {0} /\ IsFiniteSet(Docs)

Subs == 1 .. NSub

BaselineNodes ==
    {"ValidateRequest", "Plan", "DecideNext", "Search", "Fetch",
     "ParseAndNormalize", "StoreEvidence", "RankEvidence", "DraftReport",
     "FinalizeCitations", "PersistResults"}

ResearchNodes ==
    BaselineNodes \cup {"ExtractClaims", "VerifyClaims", "TargetedResearch",
                        "ResolveUnsupportedClaims"}

\* The edges build_baseline_graph declares, conditional ones included.
BaselineEdges ==
    {<<"ValidateRequest", "Plan">>, <<"Plan", "DecideNext">>,
     <<"Search", "Fetch">>, <<"Fetch", "ParseAndNormalize">>,
     <<"ParseAndNormalize", "StoreEvidence">>,
     <<"StoreEvidence", "RankEvidence">>, <<"RankEvidence", "DecideNext">>,
     <<"DecideNext", "Search">>, <<"DraftReport", "FinalizeCitations">>,
     <<"FinalizeCitations", "PersistResults">>}
    \cup {<<n, "DraftReport">> : n \in
            {"Plan", "DecideNext", "Search", "Fetch", "ParseAndNormalize",
             "StoreEvidence", "RankEvidence"}}

\* The edges build_research_graph declares.
ResearchEdges ==
    {<<"ValidateRequest", "Plan">>, <<"Plan", "DecideNext">>,
     <<"DecideNext", "Search">>, <<"DecideNext", "DraftReport">>,
     <<"Search", "Fetch">>, <<"Fetch", "ParseAndNormalize">>,
     <<"ParseAndNormalize", "StoreEvidence">>,
     <<"StoreEvidence", "RankEvidence">>, <<"RankEvidence", "DecideNext">>,
     <<"DraftReport", "ExtractClaims">>, <<"ExtractClaims", "VerifyClaims">>,
     <<"VerifyClaims", "TargetedResearch">>, <<"TargetedResearch", "Search">>,
     <<"VerifyClaims", "ResolveUnsupportedClaims">>,
     <<"VerifyClaims", "FinalizeCitations">>,
     <<"ResolveUnsupportedClaims", "FinalizeCitations">>,
     <<"FinalizeCitations", "PersistResults">>}

-----------------------------------------------------------------------------
(* The graph's state.  works keeps, per kind, the distinct work artifacts  *)
(* in the order in which they entered baseline_work_artifact_ids; evidence *)
(* pairs a document with the subquestion whose needs its spans carry.      *)

InitialFlow(workflow) ==
    [workflow |-> workflow, err |-> "none", stop |-> "none", partial |-> FALSE,
     planned |-> FALSE, pending |-> {}, active |-> 0,
     works |-> [search |-> <<>>, raw |-> <<>>, parsed |-> <<>>],
     evidence |-> {}, selected |-> FALSE, covered |-> {}, gains |-> <<>>,
     blocked |-> FALSE, draft |-> FALSE, report |-> FALSE,
     claims |-> FALSE, unsupported |-> FALSE, rounds |-> 0,
     decision |-> "none", verification |-> "none"]

Raise(f, code) == [f EXCEPT !.err = code]

\* BudgetExceeded is no error: it marks the run as stopped and partial.
OutOfBudget(f) == [f EXCEPT !.stop = "BUDGET_EXHAUSTED", !.partial = TRUE]

Has(f, kind) == f.works[kind] # <<>>

\* _latest_work walks the ids backwards to the first artifact of the kind.
Latest(f, kind) == f.works[kind][Len(f.works[kind])]

\* A work artifact is named by its content and the ids are kept distinct, so
\* content that is already there stays at the place where it first entered.
AddWork(f, kind, docs) ==
    IF \E i \in DOMAIN f.works[kind] : f.works[kind][i] = docs
      THEN f
      ELSE [f EXCEPT !.works[kind] = Append(@, docs)]

SourcesOf(f) == {pair[1] : pair \in f.evidence}

-----------------------------------------------------------------------------
(* The handlers of the shared nodes.  Each is the set of states the node   *)
(* may leave behind when none of its calls fails.                          *)

PlanOutcomes(f) == {[f EXCEPT !.planned = TRUE, !.pending = Subs]}

\* Every subquestion meets its own coverage and its own source count; the
\* weighted mean then meets the lower overall threshold as well.
IsSufficient(f) == f.covered = Subs

Plateau(f) ==
    LET n == Len(f.gains) IN n >= 2 /\ f.gains[n] = "low" /\ f.gains[n - 1] = "low"

\* "none" continues with a pending subquestion; the order is the code's.
StopDecision(f, exhausted) ==
    CASE IsSufficient(f) -> "SUFFICIENT"
      [] ~IsSufficient(f) /\ exhausted -> "BUDGET_EXHAUSTED"
      [] ~IsSufficient(f) /\ ~exhausted /\ Plateau(f) -> "PLATEAU"
      [] ~IsSufficient(f) /\ ~exhausted /\ ~Plateau(f) /\ f.blocked -> "BLOCKED"
      [] OTHER -> "none"

\* research-v1 writes the decision down as decision_route; baseline-v1 has
\* no such channel and routes on stop_reason.
DecideOutcomes(f, exhausted) ==
    LET stop == StopDecision(f, exhausted)
        route(s) == IF f.workflow = "research-v1" THEN s ELSE f.decision
    IN  IF ~f.planned THEN {Raise(f, "PLAN_MISSING")}
        ELSE IF stop # "none"
          THEN {[f EXCEPT !.stop = stop, !.partial = (stop # "SUFFICIENT"),
                          !.decision = route("STOP")]}
        ELSE IF f.pending = {} THEN {Raise(f, "NO_LEGAL_CONTINUATION")}
        ELSE {[f EXCEPT !.active = IF f.active # 0 THEN f.active
                          ELSE CHOOSE s \in f.pending : \A t \in f.pending : s <= t,
                        !.decision = route("SEARCH")]}

SearchOutcomes(f, hits) == {AddWork(f, "search", hits)}

\* Both read the latest work of the stage before them, whoever wrote it.
FetchOutcomes(f) ==
    IF Has(f, "search") THEN {AddWork(f, "raw", Latest(f, "search"))}
                        ELSE {Raise(f, "DATA_CORRUPTION")}

ParseOutcomes(f) ==
    IF Has(f, "raw") THEN {AddWork(f, "parsed", Latest(f, "raw"))}
                     ELSE {Raise(f, "DATA_CORRUPTION")}

\* Every document of the latest parsed work becomes evidence for the active
\* subquestion.
StoreOutcomes(f) ==
    IF Has(f, "parsed")
      THEN {[f EXCEPT !.evidence = @ \cup (Latest(f, "parsed") \X {f.active})]}
      ELSE {Raise(f, "DATA_CORRUPTION")}

\* The ledgers the ranked scores may make: only evidence that carries a
\* subquestion's needs can cover it, and only the active one's gain is kept.
Ledgers(f) ==
    LET supplied == {pair[2] : pair \in f.evidence}
    IN  [covered : SUBSET supplied,
         gain : IF f.active \in supplied THEN {"low", "high"} ELSE {"low"}]

\* The active subquestion leaves the pending ones; when none is left, the
\* needs still unmet are blocked.
RankOutcomes(f) ==
    LET left == f.pending \ {f.active}
    IN  {[f EXCEPT !.covered = ledger.covered, !.selected = (f.evidence # {}),
                   !.gains = Append(@, ledger.gain), !.active = 0, !.pending = left,
                   !.blocked = IF left = {} THEN ledger.covered # Subs ELSE @] :
           ledger \in Ledgers(f)}

\* The local draft of an exhausted budget lists the selected evidence.
DraftOutcomes(f) ==
    IF f.stop = "BUDGET_EXHAUSTED" /\ ~f.selected
      THEN {Raise(f, "REPORT_MISSING")}
      ELSE {[f EXCEPT !.draft = TRUE]}

FinalizeOutcomes(f) ==
    IF f.draft THEN {[f EXCEPT !.report = TRUE]} ELSE {Raise(f, "REPORT_MISSING")}

-----------------------------------------------------------------------------
(* The nodes research-v1 adds.                                             *)

ExtractOutcomes(f) ==
    IF f.draft THEN {[f EXCEPT !.claims = TRUE, !.unsupported = FALSE]}
               ELSE {Raise(f, "REPORT_MISSING")}

VerifyOutcomes(f) ==
    IF f.claims
      THEN {[f EXCEPT !.unsupported = some,
                      !.verification = IF some THEN "RESOLVE_UNSUPPORTED"
                                               ELSE "FINALIZE"] : some \in BOOLEAN}
      ELSE {Raise(f, "CLAIMS_MISSING")}

\* VerifyClaims never routes here in the shipped composition.
TargetedOutcomes(f) ==
    IF f.rounds >= 1 THEN {[f EXCEPT !.verification = "RESOLVE_UNSUPPORTED"]}
                     ELSE {[f EXCEPT !.rounds = 1]}

\* The sentences that state an unsupported claim are cut from the draft; a
\* claim no sentence states fails the node.
CutOutcomes(f) ==
    {[f EXCEPT !.unsupported = FALSE, !.verification = "FINALIZE"],
     Raise(f, "DATA_CORRUPTION")}

ResolveOutcomes(f) ==
    IF f.claims /\ f.draft
      THEN CutOutcomes(f)
      ELSE {Raise(f, "CLAIMS_MISSING")}

-----------------------------------------------------------------------------
\* The handler of every node but PersistResults, which reads the audit trail.
\* answer is what the node's provider call returned, where it made one.
Outcomes(node, f, exhausted, answer) ==
    CASE node = "ValidateRequest" -> {f}
      [] node = "Plan" -> PlanOutcomes(f)
      [] node = "DecideNext" -> DecideOutcomes(f, exhausted)
      [] node = "Search" -> SearchOutcomes(f, answer)
      [] node = "Fetch" -> FetchOutcomes(f)
      [] node = "ParseAndNormalize" -> ParseOutcomes(f)
      [] node = "StoreEvidence" -> StoreOutcomes(f)
      [] node = "RankEvidence" -> RankOutcomes(f)
      [] node = "DraftReport" -> DraftOutcomes(f)
      [] node = "FinalizeCitations" -> FinalizeOutcomes(f)
      [] node = "ExtractClaims" -> ExtractOutcomes(f)
      [] node = "VerifyClaims" -> VerifyOutcomes(f)
      [] node = "TargetedResearch" -> TargetedOutcomes(f)
      [] node = "ResolveUnsupportedClaims" -> ResolveOutcomes(f)

SuccessNode ==
    [n \in ResearchNodes |->
        CASE n = "ValidateRequest" -> "Plan"
          [] n \in {"Plan", "RankEvidence"} -> "DecideNext"
          [] n \in {"DecideNext", "TargetedResearch"} -> "Search"
          [] n = "Search" -> "Fetch"
          [] n = "Fetch" -> "ParseAndNormalize"
          [] n = "ParseAndNormalize" -> "StoreEvidence"
          [] n = "StoreEvidence" -> "RankEvidence"
          [] n = "DraftReport" -> "ExtractClaims"
          [] n = "ExtractClaims" -> "VerifyClaims"
          [] n \in {"VerifyClaims", "ResolveUnsupportedClaims"} -> "FinalizeCitations"
          [] n = "FinalizeCitations" -> "PersistResults"
          [] n = "PersistResults" -> "END"]

\* Bug: the edges ask for the stop reason alone.
BugBaselineRoute(node, f) ==
    CASE node = "PersistResults" -> "END"
      [] node = "FinalizeCitations" -> "PersistResults"
      [] node = "DraftReport" -> "FinalizeCitations"
      [] OTHER -> IF f.stop # "none" THEN "DraftReport" ELSE SuccessNode[node]

\* _route_on_success and route_after_decide of the baseline graph: an error
\* goes to PersistResults, a stop reason to DraftReport.
BaselineRoute(node, f) ==
    CASE node = "PersistResults" -> "END"
      [] node = "FinalizeCitations" -> "PersistResults"
      [] node \notin {"PersistResults", "FinalizeCitations"} /\ f.err # "none"
           -> "PersistResults"
      [] node = "DraftReport" /\ f.err = "none" -> "FinalizeCitations"
      [] OTHER -> IF f.stop # "none" THEN "DraftReport" ELSE SuccessNode[node]

\* route_after_decide, route_after_verify and route_on_success of the
\* research graph: the edges out of the other nodes ask for the error alone.
ResearchRoute(node, f) ==
    CASE node = "PersistResults" -> "END"
      [] node = "FinalizeCitations" -> "PersistResults"
      [] node \notin {"PersistResults", "FinalizeCitations"} /\ f.err # "none"
           -> "PersistResults"
      [] node = "DecideNext" /\ f.err = "none" ->
           IF f.decision = "SEARCH" THEN "Search" ELSE "DraftReport"
      [] node = "VerifyClaims" /\ f.err = "none" ->
           IF f.rounds > 0
             THEN IF f.unsupported THEN "ResolveUnsupportedClaims"
                                   ELSE "FinalizeCitations"
             ELSE IF f.verification = "RESOLVE_UNSUPPORTED"
                    THEN "ResolveUnsupportedClaims" ELSE "FinalizeCitations"
      [] OTHER -> SuccessNode[node]

Route(node, f) ==
    IF f.workflow = "baseline-v1" THEN BaselineRoute(node, f)
                                  ELSE ResearchRoute(node, f)

\* PersistResults: each parsed document may be named by one work artifact.
TypedClosure(f) ==
    \A i, j \in DOMAIN f.works.parsed :
        i # j => f.works.parsed[i] \cap f.works.parsed[j] = {}

\* _result_from_state: a run completes with a report and without an error.
ResultOf(f) ==
    IF f.err = "none" /\ f.stop # "none" /\ f.report THEN "completed" ELSE "failed"
=============================================================================
