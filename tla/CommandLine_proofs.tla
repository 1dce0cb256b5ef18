------------------------- MODULE CommandLine_proofs -------------------------
(***************************************************************************)
(* Proofs about the audited run and the research command around it, for    *)
(* every budget, every set of metered nodes, and any number of faults,     *)
(* crashes and resumptions.                                                *)
(*                                                                         *)
(* CommandInv is the inductive invariant.  Its heart says what the event   *)
(* log is, as data: the state behind the first i events is the one the     *)
(* i-th of them left (Before, StateSound); an event was made from it, or   *)
(* is the failure behind a success that was read back late (EntrySound);   *)
(* every checkpoint is one of these states (Known).  What a node is        *)
(* charged is on its receipts unless the node has failed (ChargedTo), and  *)
(* a process that has paid for an answer it could not keep pays for no     *)
(* other (Halted).  A step of the graph changes the log by one sound       *)
(* event, or not at all (JournalStep).                                     *)
(***************************************************************************)
EXTENDS CommandLine, FiniteInduction, FunctionTheorems, SequenceTheorems

(* The log as data: an event log, the run's workflow and its manifest.     *)

\* The channels of the graph's state and of a flow.
FlowFields == DOMAIN InitialFlow("baseline-v1")
StateFields == {"flow", "node", "seq", "total", "receipts", "terminals"}

IsFlow(f) == f = [x \in FlowFields |-> f[x]]
IsState(s) == s = [x \in StateFields |-> s[x]] /\ IsFlow(s.flow)

\* Every node but the one no route leads to.
Reached == ResearchNodes \ {"TargetedResearch"}
Closing == {"DraftReport", "ExtractClaims", "VerifyClaims", "ResolveUnsupportedClaims",
            "FinalizeCitations", "PersistResults", "END"}

NodesOf(workflow) == IF workflow = "baseline-v1" THEN BaselineNodes ELSE Reached
EdgesOf(workflow) == IF workflow = "baseline-v1" THEN BaselineEdges ELSE ResearchEdges

\* A run that has stopped and is not partial covers its subquestions.
Conclusive(f) == f.stop # "none" /\ ~f.partial => f.covered = Subs

\* What a node may read.
FlowRead(workflow, node, f) ==
    /\ IsFlow(f) /\ f.workflow = workflow
    /\ node \notin {"PersistResults", "END"} => f.err = "none"
    /\ node = "ValidateRequest" => f.stop = "none"
    /\ Conclusive(f)
    /\ f.stop # "none" /\ ~f.partial => node \in Closing

\* What a node's handler, or the failure that takes its place, may leave.
FlowLeft(workflow, node, f) ==
    /\ IsFlow(f) /\ f.workflow = workflow
    /\ node = "ValidateRequest" => f.stop = "none"
    /\ Conclusive(f)
    /\ f.stop # "none" /\ ~f.partial =>
          \/ node \in Closing
          \/ node = "DecideNext" /\ (f.err = "none" => f.decision # "SEARCH" \/ workflow = "baseline-v1")

\* The state behind the first i - 1 events.
Before(log, workflow, i) ==
    IF i = 1 THEN InitialState(workflow) ELSE After(log[i - 1])

ReceiptsUpTo(log, i) == {log[j].receipt : j \in 1 .. i}
Executions(log, node, i) == Cardinality({j \in 1 .. i : log[j].receipt.node = node})
SpentUpTo(log, i) == SumFunctionOnSet([j \in 1 .. i |-> log[j].units], 1 .. i)

\* Some charge of the first i events has no receipt.
Understated(log, i) == \E j \in 1 .. i : Unreceipted(log[j])

\* What a call is charged; the envelope makes some nodes without one.
Billed == Usages \cup {0}

\* A node that read the total from leaves it at total, with u on its receipts.
\* What it was charged is on them, or it failed; it called within the budget.
ChargedTo(from, total, u, failed) ==
    /\ u \in Billed /\ \E used \in Billed : total = from + used
    /\ total = from + u \/ (u = 0 /\ failed)
    /\ u # 0 => from + Estimate <= Budget

\* The calls of one execution.
CallsOf(node, attempt, c) ==
    /\ IsFiniteSet(c) /\ Cardinality(c) <= 1
    /\ \A op \in c : op.input[1] = node /\ op.attempt = attempt

TerminalsOf(node, seq, terminals) ==
    /\ node \notin {"PersistResults", "END"} => terminals = {}
    /\ node = "PersistResults" => terminals = {seq - 1}

\* What holds of the state behind i - 1 events.
StateSound(log, workflow, i) ==
    LET s == Before(log, workflow, i)
    IN  /\ IsState(s) /\ s.seq = i
        /\ s.node \in NodesOf(workflow) \cup {"END"}
        /\ s.node = "ValidateRequest" <=> i = 1
        /\ FlowRead(workflow, s.node, s.flow)
        /\ s.receipts = ReceiptsUpTo(log, i - 1)
        /\ s.total \in Nat
        /\ \/ s.total = SpentUpTo(log, i - 1)
           \/ /\ s.total > SpentUpTo(log, i - 1) /\ Understated(log, i - 1)
              /\ s.node # "END" => s.flow.err # "none"
        /\ TerminalsOf(s.node, i, s.terminals)
        /\ i \in DOMAIN log => s.node # "END"

\* The node's failure behind a success that was read back late.
IsBehind(log, workflow, e, i) ==
    /\ i # 1
    /\ LET prior == log[i - 1]
       IN  /\ prior.ok /\ ~e.ok /\ e.calls = {}
           /\ prior.receipt.node \notin {"FinalizeCitations", "PersistResults"}
           /\ e.input = [Before(log, workflow, i) EXCEPT !.node = prior.receipt.node]

\* What holds of the event behind i - 1 others.
EntrySound(log, workflow, man, e, i) ==
    LET node == e.receipt.node
        s == Before(log, workflow, i)
    IN  /\ e.input = s \/ IsBehind(log, workflow, e, i)
        /\ node \in NodesOf(workflow) /\ e.input.node = node
        /\ e.receipt = Receipt(node, Executions(log, node, i - 1) + 1, i)
        /\ e.ok = (e.post.flow.err = "none")
        /\ CallsOf(node, e.receipt.attempt, e.calls)
        /\ IsState(e.post) /\ e.post.node = node /\ e.post.seq = i
        /\ e.post.receipts = s.receipts
        /\ e.input.total = s.total
        /\ ChargedTo(s.total, e.post.total, e.units, ~e.ok)
        /\ node # "PersistResults" =>
              e.post.terminals = IF ~e.ok \/ node = "FinalizeCitations" THEN {i} ELSE {}
        /\ FlowLeft(workflow, node, e.post.flow)
        /\ node = "PersistResults" /\ e.ok => man = i - 1

LogSound(log, workflow, man) ==
    /\ DOMAIN log = 1 .. Cardinality(DOMAIN log)
    /\ IsFiniteSet(DOMAIN log)
    /\ \A i \in DOMAIN log : EntrySound(log, workflow, man, log[i], i)
    /\ \A i \in 1 .. Cardinality(DOMAIN log) + 1 : StateSound(log, workflow, i)

ManifestSound(log, workflow, man) ==
    man # 0 =>
        /\ man \in Nat /\ man <= Cardinality(DOMAIN log) /\ Cardinality(DOMAIN log) <= man + 1
        /\ Before(log, workflow, man + 1).node = "PersistResults"

\* A checkpoint is the state behind some events, or the end of a run that saw
\* its last event fail.
Closed(log, workflow, s) ==
    /\ s.node = "END" /\ s.flow.err # "none" /\ s.flow.workflow = workflow
    /\ s.seq \in 1 .. Cardinality(DOMAIN log) + 1

Known(log, workflow, s) ==
    \/ \E i \in 1 .. Cardinality(DOMAIN log) + 1 : s = Before(log, workflow, i)
    \/ Closed(log, workflow, s)

-----------------------------------------------------------------------------
Workflow == st.flow.workflow
Count == Cardinality(DOMAIN events)

Gone == {"down", "raised", "done"}
Working == {"run", "paying", "charged", "handled", "replace", "retry"}
Alive == Working \cup {"enter", "second"}
Publishing == {"handled", "replace", "retry"}

Checkpoints == saved \cup Range(unsaved) \cup {st}

CheckpointsKnown ==
    /\ unsaved \in Seq(Range(unsaved))
    /\ \A s \in Checkpoints : Known(events, Workflow, s)

\* The state of a node that runs is the one behind the events before it.
NodeSound ==
    mode \in Alive =>
        /\ st.seq \in 1 .. Count + 1 /\ st = Before(events, Workflow, st.seq)
        /\ st.node # "END"
        /\ ChargedTo(st.total, acc, units, mode \in Publishing /\ out.err # "none")
        /\ CallsOf(st.node, Attempt, calls)
        /\ mode \in {"enter", "paying"} => calls = {} /\ units = 0

AtWork ==
    /\ mode \in Working => st.seq = Count + 1
    /\ mode \in {"run", "paying", "charged"} => st.node \in Metered
    /\ mode = "paying" => acc + Estimate <= Budget
    /\ mode = "charged" => acc <= Budget
    /\ mode \in {"paying", "charged"} => CallInput \notin DOMAIN cache
    /\ mode \in {"handled", "replace", "retry", "second"} => FlowLeft(Workflow, st.node, out)
    /\ mode = "handled" /\ st.node = "PersistResults" /\ out.err = "none" => manifest = st.seq - 1
    /\ mode \in {"replace", "retry"} => st.node # "PersistResults"
    /\ mode = "second" =>
          /\ st.seq = Count /\ events[st.seq] = This /\ This.ok
          /\ st.node \notin {"FinalizeCitations", "PersistResults"}
    /\ mode \in {"flush", "done"} => st.node = "END"
    /\ mode # "raised" => why = "none"

\* A process calls no more above the budget, or behind a failure.
Stops == acc > Budget \/ Failing

\* It has spoiled no call since it was resumed, or it stops.
Halted == mode \in Alive => spoiled <= resumes \/ Stops

CacheSound ==
    /\ IsFiniteSet(DOMAIN cache) /\ \A k \in DOMAIN cache : cache[k].units \in Billed
    /\ paid \in Int /\ {crashes, resumes, spoiled} \subseteq Nat
    /\ CallPaidAgainForCause /\ Halted

AuditInv ==
    /\ Workflow \in Workflows
    /\ mode \in Alive \cup Gone \cup {"flush"}
    /\ LogSound(events, Workflow, manifest)
    /\ ManifestSound(events, Workflow, manifest)
    /\ CheckpointsKnown /\ NodeSound /\ AtWork /\ CacheSound
    /\ RefusedOnlyBehindFailure

\* The last event of a run that is published.
RunEnded ==
    /\ Count # 0 /\ events[Count].receipt.node = "PersistResults"
    /\ events[Count].ok

PlacesSound ==
    \A d \in Published :
        LET f == events[Count].post.flow
        IN  /\ RunEnded /\ manifest = Count - 1 /\ Workflow = "baseline-v1"
            /\ ResultOf(f) = "completed"
            /\ places[d] = [kind |-> "output", files |-> 3, status |-> ResultOf(f),
                            report |-> f.report, partial |-> f.partial, covered |-> f.covered,
                            evidence |-> f.evidence, manifest |-> manifest]

\* A torn file stands behind the log, and then no node runs there.
TornSound ==
    /\ torn \subseteq {Count + 1}
    /\ mode \in Working \cup {"second"} => torn = {}

StageSound ==
    /\ stage \in {"graph", "publish", "write", "sync", "over"}
    /\ stage # "graph" => mode \in Gone
    /\ stage \in {"publish", "write", "sync"} =>
          mode = "done" /\ HostedHere /\ ResultOf(st.flow) = "completed"

SourcesSound ==
    /\ header \in {RunHeader(g) : g \in Given}
    /\ using \in Admitted[header] /\ answered \subseteq Admitted[header]

CommandInv ==
    /\ AuditInv /\ TornSound /\ StageSound /\ SourcesSound
    /\ DOMAIN places = Dests /\ PlacesSound
-----------------------------------------------------------------------------
(* Flows. *)

LEMMA FlowChannels ==
    FlowFields = {"workflow", "err", "stop", "partial", "planned", "pending", "active",
                  "works", "evidence", "selected", "covered", "gains", "blocked", "draft",
                  "report", "claims", "unsupported", "rounds", "decision", "verification"}
BY DEF FlowFields, InitialFlow

\* A failure changes the error and nothing else.
LEMMA RaiseKeeps ==
    ASSUME NEW f, IsFlow(f), NEW code
    PROVE  LET r == Raise(f, code)
           IN  /\ IsFlow(r) /\ r.err = code
               /\ r.workflow = f.workflow /\ r.stop = f.stop /\ r.partial = f.partial
               /\ r.covered = f.covered /\ r.decision = f.decision /\ r.evidence = f.evidence
BY FlowChannels DEF IsFlow, Raise

Executed == Reached \ {"PersistResults"}

\* A failing handler.
LEMMA RaiseLeaves ==
    ASSUME NEW w, NEW node, NEW f, FlowLeft(w, node, f), NEW code, code # "none"
    PROVE  FlowLeft(w, node, Raise(f, code))
BY RaiseKeeps DEF FlowLeft, Conclusive

LEMMA ReadRaiseLeaves ==
    ASSUME NEW w, NEW node, NEW f, FlowRead(w, node, f), NEW code, code # "none"
    PROVE  FlowLeft(w, node, Raise(f, code))
BY RaiseKeeps DEF FlowLeft, FlowRead, Conclusive

LEMMA BudgetLeaves ==
    ASSUME NEW w, NEW node, node # "ValidateRequest", NEW f, FlowRead(w, node, f)
    PROVE  FlowLeft(w, node, OutOfBudget(f))
<1> DEFINE o == OutOfBudget(f)
<1>1. IsFlow(o) /\ o.workflow = f.workflow /\ o.stop = "BUDGET_EXHAUSTED" /\ o.partial = TRUE
  BY FlowChannels DEF IsFlow, OutOfBudget, FlowRead
<1> QED BY <1>1 DEF FlowLeft, FlowRead, Conclusive

\* A handler that neither stops the run nor touches its coverage.
LEMMA QuietLeaves ==
    ASSUME NEW w, NEW node, node # "DecideNext", NEW f, FlowRead(w, node, f), NEW o,
           IsFlow(o), o.workflow = f.workflow, o.stop = f.stop, o.partial = f.partial,
           o.covered = f.covered
    PROVE  FlowLeft(w, node, o)
BY DEF FlowLeft, FlowRead, Conclusive

LEMMA HandlerLeaves ==
    ASSUME NEW w \in {"baseline-v1", "research-v1"}, NEW node \in Executed,
           NEW f, FlowRead(w, node, f),
           NEW x, NEW a, NEW o \in Outcomes(node, f, x, a)
    PROVE  FlowLeft(w, node, o)
<1> DEFINE Quiet == /\ IsFlow(o) /\ o.workflow = f.workflow /\ o.stop = f.stop
                    /\ o.partial = f.partial /\ o.covered = f.covered
<1>1. IsFlow(f) BY DEF FlowRead
<1>2. ASSUME node # "DecideNext", Quiet PROVE FlowLeft(w, node, o)
  BY <1>2, QuietLeaves
<1>3. ASSUME NEW code, code # "none", o = Raise(f, code) PROVE FlowLeft(w, node, o)
  BY <1>3, ReadRaiseLeaves
<1>4. CASE node = "ValidateRequest"
  BY <1>1, <1>2, <1>4 DEF Outcomes
<1>5. CASE node = "Plan"
  BY <1>1, <1>2, <1>5, FlowChannels DEF Outcomes, PlanOutcomes, IsFlow
<1>6. CASE node = "DecideNext"
  <2>1. o \in DecideOutcomes(f, x) BY <1>6 DEF Outcomes
  <2> DEFINE stop == StopDecision(f, x)
             next == IF f.active # 0 THEN f.active
                     ELSE CHOOSE s \in f.pending : \A t \in f.pending : s <= t
             picked == [f EXCEPT !.active = next, !.decision = IF w = "research-v1" THEN "SEARCH" ELSE f.decision]
             ended == [f EXCEPT !.stop = stop, !.partial = (stop # "SUFFICIENT"),
                                !.decision = IF w = "research-v1" THEN "STOP" ELSE f.decision]
  <2>2. ~(f.stop # "none" /\ ~f.partial) BY <1>6 DEF FlowRead, Closing
  <2>3. CASE \E code \in {"PLAN_MISSING", "NO_LEGAL_CONTINUATION"} : o = Raise(f, code)
    BY <1>3, <2>3
  <2>4. CASE o = picked
    <3>1. IsFlow(o) /\ o.workflow = f.workflow /\ o.stop = f.stop /\ o.partial = f.partial
      <4> HIDE DEF next
      <4> QED BY <1>1, <2>4, FlowChannels DEF IsFlow
    <3> QED BY <1>6, <2>2, <3>1 DEF FlowLeft, FlowRead, Conclusive
  <2>5. CASE stop # "none" /\ o = ended
    <3>1. stop = "SUFFICIENT" => f.covered = Subs
      BY DEF StopDecision, IsSufficient
    <3>2. /\ IsFlow(o) /\ o.workflow = f.workflow /\ o.covered = f.covered
          /\ o.decision = IF w = "research-v1" THEN "STOP" ELSE f.decision
      BY <1>1, <2>5, FlowChannels DEF IsFlow
    <3>3. o.partial = (stop # "SUFFICIENT")
      BY <1>1, <2>5, FlowChannels DEF IsFlow
    <3> HIDE DEF ended, stop
    <3> QED BY <1>6, <3>1, <3>2, <3>3 DEF FlowLeft, FlowRead, Conclusive
  <2>6. f.workflow = w BY DEF FlowRead
  <2>7. \/ \E code \in {"PLAN_MISSING", "NO_LEGAL_CONTINUATION"} : o = Raise(f, code)
        \/ o = picked
        \/ stop # "none" /\ o = ended
    BY <2>1, <2>6, Zenon DEF DecideOutcomes
  <2> QED BY <2>3, <2>4, <2>5, <2>7
<1>7. CASE node = "Search"
  BY <1>1, <1>2, <1>7, FlowChannels DEF Outcomes, SearchOutcomes, AddWork, IsFlow
<1>8. CASE node = "Fetch"
  BY <1>1, <1>2, <1>3, <1>8, FlowChannels DEF Outcomes, FetchOutcomes, AddWork, IsFlow
<1>9. CASE node = "ParseAndNormalize"
  BY <1>1, <1>2, <1>3, <1>9, FlowChannels DEF Outcomes, ParseOutcomes, AddWork, IsFlow
<1>10. CASE node = "StoreEvidence"
  BY <1>1, <1>2, <1>3, <1>10, FlowChannels DEF Outcomes, StoreOutcomes, IsFlow
<1>11. CASE node = "RankEvidence"
  <2>1. o \in RankOutcomes(f) BY <1>11 DEF Outcomes
  <2>2. /\ IsFlow(o) /\ o.workflow = f.workflow /\ o.stop = f.stop /\ o.partial = f.partial
    <3> DEFINE left == f.pending \ {f.active}
    <3>1. PICK ledger \in Ledgers(f) :
            o = [f EXCEPT !.covered = ledger.covered, !.selected = (f.evidence # {}),
                   !.gains = Append(@, ledger.gain), !.active = 0, !.pending = left,
                   !.blocked = IF left = {} THEN ledger.covered # Subs ELSE @]
      BY <2>1, Zenon DEF RankOutcomes
    <3> QED BY <1>1, <3>1, FlowChannels DEF IsFlow
  <2>3. ~(f.stop # "none" /\ ~f.partial)
    BY <1>11 DEF FlowRead, Closing
  <2> QED BY <1>11, <2>2, <2>3 DEF FlowLeft, FlowRead, Conclusive
<1>12. CASE node = "DraftReport"
  BY <1>1, <1>2, <1>3, <1>12, FlowChannels DEF Outcomes, DraftOutcomes, IsFlow
<1>13. CASE node = "FinalizeCitations"
  BY <1>1, <1>2, <1>3, <1>13, FlowChannels DEF Outcomes, FinalizeOutcomes, IsFlow
<1>14. CASE node = "ExtractClaims"
  BY <1>1, <1>2, <1>3, <1>14, FlowChannels DEF Outcomes, ExtractOutcomes, IsFlow
<1>15. CASE node = "VerifyClaims"
  BY <1>1, <1>2, <1>3, <1>15, FlowChannels DEF Outcomes, VerifyOutcomes, IsFlow
<1>16. CASE node = "ResolveUnsupportedClaims"
  BY <1>1, <1>2, <1>3, <1>16, FlowChannels DEF Outcomes, ResolveOutcomes, CutOutcomes, IsFlow
<1> QED BY <1>4, <1>5, <1>6, <1>7, <1>8, <1>9, <1>10, <1>11, <1>12, <1>13, <1>14, <1>15, <1>16
        DEF Executed, Reached, ResearchNodes, BaselineNodes

-----------------------------------------------------------------------------
(* Routes. *)

LEMMA Successors ==
    /\ SuccessNode["ValidateRequest"] = "Plan" /\ SuccessNode["Plan"] = "DecideNext"
    /\ SuccessNode["DecideNext"] = "Search" /\ SuccessNode["Search"] = "Fetch"
    /\ SuccessNode["Fetch"] = "ParseAndNormalize"
    /\ SuccessNode["ParseAndNormalize"] = "StoreEvidence"
    /\ SuccessNode["StoreEvidence"] = "RankEvidence"
    /\ SuccessNode["RankEvidence"] = "DecideNext"
    /\ SuccessNode["DraftReport"] = "ExtractClaims"
    /\ SuccessNode["ExtractClaims"] = "VerifyClaims"
    /\ SuccessNode["VerifyClaims"] = "FinalizeCitations"
    /\ SuccessNode["ResolveUnsupportedClaims"] = "FinalizeCitations"
BY DEF SuccessNode, ResearchNodes, BaselineNodes

LEMMA BaselineRoutes ==
    ASSUME NEW node \in BaselineNodes, NEW f, NEW next, next = BaselineRoute(node, f)
    PROVE  /\ next \in BaselineNodes \cup {"END"} /\ next # "ValidateRequest"
           /\ node = "PersistResults" <=> next = "END"
           /\ node = "FinalizeCitations" => next = "PersistResults"
           /\ node # "PersistResults" /\ f.err # "none" => next = "PersistResults"
           /\ node \notin {"FinalizeCitations", "PersistResults"} /\ f.err = "none" =>
                 next # "PersistResults"
           /\ f.err = "none" /\ f.stop # "none" => next \in Closing
           /\ f.err = "none" /\ next # "END" /\ (node = "ValidateRequest" => f.stop = "none") =>
                 <<node, next>> \in BaselineEdges
<1>1. CASE node = "PersistResults"
  <2>1. next = "END" BY <1>1 DEF BaselineRoute
  <2> QED BY <1>1, <2>1 DEF Closing
<1>2. CASE node = "FinalizeCitations"
  <2>1. next = "PersistResults" BY <1>2 DEF BaselineRoute
  <2> QED BY <1>2, <2>1 DEF Closing, BaselineNodes, BaselineEdges
<1>3. CASE node \notin {"FinalizeCitations", "PersistResults"} /\ f.err # "none"
  <2>1. next = "PersistResults" BY <1>3 DEF BaselineRoute
  <2> QED BY <1>3, <2>1 DEF Closing, BaselineNodes
<1>4. CASE node = "DraftReport" /\ f.err = "none"
  <2>1. next = "FinalizeCitations" BY <1>4 DEF BaselineRoute
  <2> QED BY <1>4, <2>1 DEF Closing, BaselineNodes, BaselineEdges
<1>5. CASE /\ node \notin {"FinalizeCitations", "PersistResults", "DraftReport"}
           /\ f.err = "none"
  <2>1. next = IF f.stop # "none" THEN "DraftReport" ELSE SuccessNode[node]
    BY <1>5 DEF BaselineRoute
  <2>2. CASE f.stop # "none"
    <3>1. next = "DraftReport" BY <2>1, <2>2
    <3> QED BY <1>5, <2>2, <3>1 DEF Closing, BaselineNodes, BaselineEdges
  <2>3. CASE f.stop = "none"
    <3>1. next = SuccessNode[node] BY <2>1, <2>3
    <3> QED BY <1>5, <2>3, <3>1, Successors DEF BaselineNodes, BaselineEdges
  <2> QED BY <2>2, <2>3
<1> QED BY <1>1, <1>2, <1>3, <1>4, <1>5

LEMMA ResearchRoutes ==
    ASSUME NEW node \in Reached, NEW f, NEW next, next = ResearchRoute(node, f)
    PROVE  /\ next \in Reached \cup {"END"} /\ next # "ValidateRequest"
           /\ node = "PersistResults" <=> next = "END"
           /\ node = "FinalizeCitations" => next = "PersistResults"
           /\ node # "PersistResults" /\ f.err # "none" => next = "PersistResults"
           /\ node \notin {"FinalizeCitations", "PersistResults"} /\ f.err = "none" =>
                 next # "PersistResults"
           /\ f.err = "none" /\ (node = "DecideNext" => f.decision # "SEARCH")
                /\ node \in Closing \cup {"DecideNext"} => next \in Closing
           /\ f.err = "none" /\ next # "END" => <<node, next>> \in ResearchEdges
<1> USE DEF Reached, ResearchNodes, BaselineNodes
<1>1. CASE node = "PersistResults"
  <2>1. next = "END" BY <1>1 DEF ResearchRoute
  <2> QED BY <1>1, <2>1 DEF Closing
<1>2. CASE node = "FinalizeCitations"
  <2>1. next = "PersistResults" BY <1>2 DEF ResearchRoute
  <2> QED BY <1>2, <2>1 DEF Closing, ResearchEdges
<1>3. CASE node \notin {"FinalizeCitations", "PersistResults"} /\ f.err # "none"
  <2>1. next = "PersistResults" BY <1>3 DEF ResearchRoute
  <2> QED BY <1>3, <2>1 DEF Closing
<1>4. CASE node = "DecideNext" /\ f.err = "none"
  <2>1. next = IF f.decision = "SEARCH" THEN "Search" ELSE "DraftReport"
    BY <1>4 DEF ResearchRoute
  <2> QED BY <1>4, <2>1 DEF Closing, ResearchEdges
<1>5. CASE node = "VerifyClaims" /\ f.err = "none"
  <2>1. next \in {"ResolveUnsupportedClaims", "FinalizeCitations"}
    BY <1>5 DEF ResearchRoute
  <2> QED BY <1>5, <2>1 DEF Closing, ResearchEdges
<1>6. CASE /\ node \notin {"FinalizeCitations", "PersistResults", "DecideNext", "VerifyClaims"}
           /\ f.err = "none"
  <2>1. next = SuccessNode[node] BY <1>6 DEF ResearchRoute
  <2> QED BY <1>6, <2>1, Successors DEF Closing, ResearchEdges
<1> QED BY <1>1, <1>2, <1>3, <1>4, <1>5, <1>6

\* Where a node leads, and what the next one reads.
LEMMA RouteSound ==
    ASSUME NEW w \in {"baseline-v1", "research-v1"}, NEW node \in NodesOf(w),
           NEW f, FlowLeft(w, node, f), NEW next, next = Route(node, f)
    PROVE  /\ next \in NodesOf(w) \cup {"END"} /\ next # "ValidateRequest"
           /\ node = "PersistResults" <=> next = "END"
           /\ node = "FinalizeCitations" => next = "PersistResults"
           /\ node # "PersistResults" /\ f.err # "none" => next = "PersistResults"
           /\ node \notin {"FinalizeCitations", "PersistResults"} /\ f.err = "none" =>
                 next # "PersistResults"
           /\ FlowRead(w, next, f)
           /\ f.err = "none" /\ next # "END" => <<node, next>> \in EdgesOf(w)
<1>1. f.workflow = w /\ (node = "ValidateRequest" => f.stop = "none") BY DEF FlowLeft
<1>2. CASE w = "baseline-v1"
  <2>1. next = BaselineRoute(node, f) /\ node \in BaselineNodes
    BY <1>1, <1>2 DEF Route, NodesOf
  <2>2. FlowRead(w, next, f)
    BY <2>1, <1>2, BaselineRoutes DEF FlowRead, FlowLeft, Closing
  <2> QED BY <1>1, <1>2, <2>1, <2>2, BaselineRoutes DEF NodesOf, EdgesOf
<1>3. CASE w = "research-v1"
  <2>1. next = ResearchRoute(node, f) /\ node \in Reached
    BY <1>1, <1>3 DEF Route, NodesOf
  <2>2. FlowRead(w, next, f)
    <3>1. f.err # "none" => next \in {"PersistResults", "END"} BY <2>1, ResearchRoutes
    <3>2. ASSUME f.stop # "none", ~f.partial PROVE next \in Closing
      BY <2>1, <3>1, <3>2, <1>3, ResearchRoutes DEF FlowLeft, Closing
    <3> QED BY <2>1, <3>1, <3>2, ResearchRoutes DEF FlowRead, FlowLeft
  <2> QED BY <1>1, <1>3, <2>1, <2>2, ResearchRoutes DEF NodesOf, EdgesOf
<1> QED BY <1>2, <1>3

-----------------------------------------------------------------------------
(* Logs: counting, and what an event more leaves as it was. *)

\* log with e behind its events is longer.
LEMMA Longer ==
    ASSUME NEW n \in Nat, NEW log, DOMAIN log = 1 .. n, NEW e, NEW longer,
           longer = Written(log, n + 1, e)
    PROVE  /\ DOMAIN longer = 1 .. (n + 1) /\ longer[n + 1] = e
           /\ \A j \in 1 .. n : longer[j] = log[j]
<1>1. DOMAIN longer = {n + 1} \cup DOMAIN log
  BY DEF Written
<1>2. \A j \in DOMAIN longer : longer[j] = IF j \in {n + 1} THEN e ELSE log[j]
  BY DEF Written
<1>3. {n + 1} \cup 1 .. n = 1 .. (n + 1) OBVIOUS
<1>4. \A j \in 1 .. n : j \in 1 .. (n + 1) /\ j # n + 1 OBVIOUS
<1> QED BY <1>1, <1>2, <1>3, <1>4

LEMMA UpTo ==
    ASSUME NEW i \in Nat, i # 0
    PROVE  /\ i - 1 \in Nat /\ 1 .. i = (1 .. (i - 1)) \cup {i} /\ i \notin 1 .. (i - 1)
           /\ IsFiniteSet(1 .. i) /\ IsFiniteSet(1 .. (i - 1))
           /\ Cardinality(1 .. i) = i
<1>1. i - 1 \in Nat /\ i \in Int /\ i - 1 \in Int /\ 1 \in Int OBVIOUS
<1>2. 1 .. i = (1 .. (i - 1)) \cup {i} /\ i \notin 1 .. (i - 1) OBVIOUS
<1>3. IsFiniteSet(1 .. i) /\ Cardinality(1 .. i) = IF 1 > i THEN 0 ELSE i - 1 + 1
  BY <1>1, FS_Interval, ZenonT(20)
<1>4. IsFiniteSet(1 .. (i - 1)) BY <1>1, FS_Interval, ZenonT(20)
<1>5. Cardinality(1 .. i) = i BY <1>3
<1> QED BY <1>1, <1>2, <1>3, <1>4, <1>5

LEMMA ReceiptsNext ==
    ASSUME NEW i \in Nat, i # 0, NEW log
    PROVE  ReceiptsUpTo(log, i) = ReceiptsUpTo(log, i - 1) \cup {log[i].receipt}
BY UpTo DEF ReceiptsUpTo

LEMMA ExecutionsType ==
    ASSUME NEW i \in Nat, NEW log, NEW node
    PROVE  /\ IsFiniteSet({j \in 1 .. i : log[j].receipt.node = node})
           /\ Executions(log, node, i) \in Nat
<1>1. IsFiniteSet(1 .. i) BY FS_Interval
<1>2. IsFiniteSet({j \in 1 .. i : log[j].receipt.node = node}) BY <1>1, FS_Subset
<1> QED BY <1>2, FS_CardinalityType DEF Executions

LEMMA ExecutionsNext ==
    ASSUME NEW i \in Nat, i # 0, NEW log, NEW node
    PROVE  Executions(log, node, i) =
              Executions(log, node, i - 1) + (IF log[i].receipt.node = node THEN 1 ELSE 0)
<1> DEFINE S == {j \in 1 .. (i - 1) : log[j].receipt.node = node}
           T == {j \in 1 .. i : log[j].receipt.node = node}
<1>1. IsFiniteSet(S) /\ Cardinality(S) \in Nat
  <2>1. S \in SUBSET (1 .. (i - 1)) OBVIOUS
  <2> HIDE DEF S
  <2> QED BY <2>1, UpTo, FS_Subset, FS_CardinalityType
<1> DEFINE before == Executions(log, node, i - 1)
           now == Executions(log, node, i)
<1>4. before = Cardinality(S) /\ now = Cardinality(T) BY DEF Executions
<1>2. CASE log[i].receipt.node = node
  <2>1. T = S \cup {i} /\ i \notin S BY <1>2, UpTo
  <2> HIDE DEF S, T
  <2>2. Cardinality(T) = Cardinality(S) + 1 BY <1>1, <2>1, FS_AddElement
  <2> HIDE DEF before, now
  <2>3. now = before + 1 BY <1>1, <1>4, <2>2
  <2> QED BY <1>2, <2>3 DEF before, now
<1>3. CASE log[i].receipt.node # node
  <2>1. T = S BY <1>3, UpTo
  <2> HIDE DEF S, T, before, now
  <2>2. now = before + 0 BY <1>1, <1>4, <2>1
  <2> QED BY <1>3, <2>2 DEF before, now
<1> QED BY <1>2, <1>3

\* The executions a state counts by its receipts.
LEMMA ReceiptsCount ==
    ASSUME NEW i \in Nat, NEW log, NEW node, \A j \in 1 .. i : log[j].receipt.seq = j
    PROVE  Cardinality({r \in ReceiptsUpTo(log, i) : r.node = node}) = Executions(log, node, i)
<1> DEFINE S == {j \in 1 .. i : log[j].receipt.node = node}
           T == {r \in ReceiptsUpTo(log, i) : r.node = node}
           f == [j \in S |-> log[j].receipt]
<1>1. f \in [S -> T] BY DEF ReceiptsUpTo
<1>2. \A a, b \in S : f[a] = f[b] => a = b OBVIOUS
<1>3. \A r \in T : \E j \in S : f[j] = r BY DEF ReceiptsUpTo
<1>4. f \in Bijection(S, T)
  <2> HIDE DEF S, T, f
  <2> QED BY <1>1, <1>2, <1>3, Fun_IsBij
<1>5. IsFiniteSet(S)
  <2>1. S \in SUBSET (1 .. i) /\ IsFiniteSet(1 .. i) BY FS_Interval
  <2> HIDE DEF S
  <2> QED BY <2>1, FS_Subset
<1> HIDE DEF S, T, f
<1>6. ExistsBijection(S, T) BY <1>4 DEF ExistsBijection
<1> QED BY <1>5, <1>6, FS_Bijection DEF Executions, S, T

LEMMA SpentNone ==
    ASSUME NEW log
    PROVE  SpentUpTo(log, 0) = 0
<1>1. 1 .. 0 = {} OBVIOUS
<1> QED BY <1>1, SumEmpty DEF SpentUpTo

LEMMA SpentNext ==
    ASSUME NEW i \in Nat, i # 0, NEW log, \A j \in 1 .. i : log[j].units \in Nat
    PROVE  /\ SpentUpTo(log, i) = SpentUpTo(log, i - 1) + log[i].units
           /\ SpentUpTo(log, i) \in Nat /\ SpentUpTo(log, i - 1) \in Nat
<1> DEFINE g == [j \in 1 .. i |-> log[j].units]
           f == [j \in 1 .. (i - 1) |-> log[j].units]
           S == 1 .. (i - 1)
           c == log[i].units
<1>1. i \in 1 .. i /\ S \subseteq 1 .. i /\ 1 .. i = S \cup {i} /\ i \notin S /\ IsFiniteSet(S)
  BY UpTo
<1>2. \A j \in S : g[j] = f[j] /\ f[j] \in Nat BY <1>1
<1>3. g[i] = c /\ c \in Nat BY <1>1
<1>4. SpentUpTo(log, i) = SumFunctionOnSet(g, S \cup {i}) BY <1>1 DEF SpentUpTo
<1>5. SpentUpTo(log, i - 1) = SumFunctionOnSet(f, S) BY DEF SpentUpTo
<1> HIDE DEF f, g, S, c
<1>6. SumFunctionOnSet(g, S \cup {i}) = g[i] + SumFunctionOnSet(f, S)
  BY <1>1, <1>2, <1>3, SumAdd
<1>7. SumFunctionOnSet(f, S) \in Nat BY <1>1, <1>2, SumType
<1>8. /\ SpentUpTo(log, i) = SpentUpTo(log, i - 1) + c
      /\ SpentUpTo(log, i) \in Nat /\ SpentUpTo(log, i - 1) \in Nat
  BY <1>3, <1>4, <1>5, <1>6, <1>7
<1> QED BY <1>8 DEF c

\* What is said of the first events of a log is said of them in a longer one.
LEMMA PrefixSame ==
    ASSUME NEW n \in Nat, NEW i \in 0 .. n, NEW log, NEW longer,
           \A j \in 1 .. n : longer[j] = log[j]
    PROVE  /\ \A w : Before(longer, w, i + 1) = Before(log, w, i + 1)
           /\ ReceiptsUpTo(longer, i) = ReceiptsUpTo(log, i)
           /\ \A node : Executions(longer, node, i) = Executions(log, node, i)
           /\ SpentUpTo(longer, i) = SpentUpTo(log, i)
           /\ Understated(longer, i) <=> Understated(log, i)
<1>1. 1 .. i \subseteq 1 .. n /\ IsFiniteSet(1 .. i) BY FS_Interval
<1>2. ASSUME NEW w PROVE Before(longer, w, i + 1) = Before(log, w, i + 1)
  <2>1. CASE i = 0 BY <2>1 DEF Before
  <2>2. CASE i # 0
    <3>1. i + 1 # 1 /\ (i + 1) - 1 = i /\ i \in 1 .. n BY <2>2
    <3> QED BY <3>1 DEF Before
  <2> QED BY <2>1, <2>2
<1>3. ReceiptsUpTo(longer, i) = ReceiptsUpTo(log, i)
  BY <1>1 DEF ReceiptsUpTo
<1>4. ASSUME NEW node PROVE Executions(longer, node, i) = Executions(log, node, i)
  <2>1. {j \in 1 .. i : longer[j].receipt.node = node} = {j \in 1 .. i : log[j].receipt.node = node}
    BY <1>1
  <2> QED BY <2>1 DEF Executions
<1>5. SpentUpTo(longer, i) = SpentUpTo(log, i)
  <2> DEFINE f == [j \in 1 .. i |-> log[j].units]
             g == [j \in 1 .. i |-> longer[j].units]
  <2>1. \A j \in 1 .. i : f[j] = g[j] BY <1>1
  <2> HIDE DEF f, g
  <2>2. SumFunctionOnSet(f, 1 .. i) = SumFunctionOnSet(g, 1 .. i) BY <1>1, <2>1, SumSame
  <2> QED BY <2>2 DEF SpentUpTo, f, g
<1>6. Understated(longer, i) <=> Understated(log, i) BY <1>1 DEF Understated
<1> QED BY <1>2, <1>3, <1>4, <1>5, <1>6

-----------------------------------------------------------------------------
(* The log with an event more is sound if the event is. *)

LEMMA StateFieldsOf ==
    ASSUME NEW e, IsState(e.post)
    PROVE  /\ IsState(After(e)) /\ After(e).flow = e.post.flow
           /\ After(e).node = Route(e.post.node, e.post.flow)
           /\ After(e).seq = e.post.seq + 1 /\ After(e).total = e.post.total
           /\ After(e).receipts = e.post.receipts \cup {e.receipt}
           /\ After(e).terminals = e.post.terminals
BY DEF IsState, StateFields, After, Onward

LEMMA InitialSound ==
    ASSUME NEW w \in {"baseline-v1", "research-v1"}, NEW log,
           1 \notin DOMAIN log
    PROVE  StateSound(log, w, 1)
<1> DEFINE s == InitialState(w)
           f == InitialFlow(w)
<1>1. /\ IsFlow(f) /\ f.workflow = w /\ f.err = "none" /\ f.stop = "none"
  BY FlowChannels DEF IsFlow, InitialFlow
<1>2. /\ s.flow = f /\ s.node = "ValidateRequest" /\ s.seq = 1 /\ s.total = 0
      /\ s.receipts = {} /\ s.terminals = {}
  BY DEF InitialState
<1>3. IsState(s) BY <1>1, <1>2 DEF IsState, StateFields, InitialState
<1>4. ReceiptsUpTo(log, 0) = {} BY DEF ReceiptsUpTo
<1>5. FlowRead(w, s.node, s.flow) BY <1>1, <1>2 DEF FlowRead, Conclusive
<1>6. Before(log, w, 1) = s BY DEF Before
<1>7. s.node \in NodesOf(w) BY <1>2 DEF NodesOf, Reached, ResearchNodes, BaselineNodes
<1>8. TerminalsOf(s.node, 1, s.terminals) BY <1>2 DEF TerminalsOf
<1>9. SpentUpTo(log, 0) = 0 /\ 1 - 1 = 0 BY SpentNone
<1> HIDE DEF s, f
<1> QED BY <1>2, <1>3, <1>4, <1>5, <1>6, <1>7, <1>8, <1>9 DEF StateSound

LEMMA BeforeSame ==
    ASSUME NEW n \in Nat, NEW i \in 1 .. (n + 1), NEW log, NEW longer, NEW w,
           \A j \in 1 .. n : longer[j] = log[j]
    PROVE  Before(longer, w, i) = Before(log, w, i)
<1>1. CASE i = 1 BY <1>1 DEF Before
<1>2. CASE i # 1
  <2>1. i - 1 \in 1 .. n BY <1>2
  <2> QED BY <1>2, <2>1 DEF Before
<1> QED BY <1>1, <1>2

\* An event, and the state before it, are judged by the events before them.
LEMMA EntrySame ==
    ASSUME NEW n \in Nat, NEW i \in 1 .. (n + 1), NEW log, NEW longer, NEW w, NEW man, NEW e,
           \A j \in 1 .. n : longer[j] = log[j]
    PROVE  EntrySound(log, w, man, e, i) => EntrySound(longer, w, man, e, i)
<1>1. i - 1 \in 0 .. n /\ (i - 1) + 1 = i /\ (i # 1 => i - 1 \in 1 .. n) OBVIOUS
<1>2. /\ Before(longer, w, i) = Before(log, w, i)
      /\ \A node : Executions(longer, node, i - 1) = Executions(log, node, i - 1)
      /\ (i # 1 => longer[i - 1] = log[i - 1])
  <2> DEFINE k == i - 1
  <2>1. k \in 0 .. n /\ k + 1 = i BY <1>1
  <2> HIDE DEF k
  <2>2. /\ Before(longer, w, k + 1) = Before(log, w, k + 1)
        /\ \A node : Executions(longer, node, k) = Executions(log, node, k)
    BY <2>1, PrefixSame
  <2> QED BY <1>1, <2>1, <2>2 DEF k
<1>3. IsBehind(log, w, e, i) => IsBehind(longer, w, e, i)
  BY <1>2 DEF IsBehind
<1> QED BY <1>2, <1>3 DEF EntrySound

LEMMA StateSame ==
    ASSUME NEW n \in Nat, NEW i \in 1 .. (n + 1), NEW log, NEW longer, NEW w,
           \A j \in 1 .. n : longer[j] = log[j],
           i \in DOMAIN longer => Before(log, w, i).node # "END"
    PROVE  StateSound(log, w, i) => StateSound(longer, w, i)
<1>1. i - 1 \in 0 .. n /\ (i - 1) + 1 = i OBVIOUS
<1> DEFINE k == i - 1
<1>2. /\ Before(longer, w, k + 1) = Before(log, w, k + 1)
      /\ ReceiptsUpTo(longer, k) = ReceiptsUpTo(log, k)
      /\ SpentUpTo(longer, k) = SpentUpTo(log, k)
      /\ Understated(longer, k) <=> Understated(log, k)
  <2> HIDE DEF k
  <2>1. k \in 0 .. n BY <1>1 DEF k
  <2>2. /\ \A v : Before(longer, v, k + 1) = Before(log, v, k + 1)
        /\ ReceiptsUpTo(longer, k) = ReceiptsUpTo(log, k)
        /\ SpentUpTo(longer, k) = SpentUpTo(log, k)
        /\ Understated(longer, k) <=> Understated(log, k)
    BY <2>1, PrefixSame
  <2> QED BY <2>2
<1>3. Before(longer, w, i) = Before(log, w, i) BY <1>1, <1>2
<1> QED BY <1>2, <1>3 DEF StateSound

LEMMA NodeNext ==
    ASSUME NEW w \in {"baseline-v1", "research-v1"}, NEW e,
           e.receipt.node \in NodesOf(w), IsState(e.post), e.post.node = e.receipt.node,
           FlowLeft(w, e.receipt.node, e.post.flow)
    PROVE  LET node == e.receipt.node
               next == After(e).node
           IN  /\ next \in NodesOf(w) \cup {"END"} /\ next # "ValidateRequest"
               /\ node = "PersistResults" <=> next = "END"
               /\ node = "FinalizeCitations" => next = "PersistResults"
               /\ node # "PersistResults" /\ e.post.flow.err # "none" => next = "PersistResults"
               /\ node \notin {"FinalizeCitations", "PersistResults"} /\ e.post.flow.err = "none"
                     => next # "PersistResults"
               /\ FlowRead(w, next, e.post.flow)
               /\ e.post.flow.err = "none" /\ next # "END" => <<node, next>> \in EdgesOf(w)
<1> DEFINE node == e.receipt.node
           f == e.post.flow
           next == After(e).node
<1>1. node \in NodesOf(w) /\ FlowLeft(w, node, f) /\ next = Route(node, f)
  BY StateFieldsOf
<1> HIDE DEF node, f, next
<1>2. /\ next \in NodesOf(w) \cup {"END"} /\ next # "ValidateRequest"
      /\ node = "PersistResults" <=> next = "END"
      /\ node = "FinalizeCitations" => next = "PersistResults"
      /\ node # "PersistResults" /\ f.err # "none" => next = "PersistResults"
      /\ node \notin {"FinalizeCitations", "PersistResults"} /\ f.err = "none" =>
            next # "PersistResults"
      /\ FlowRead(w, next, f)
      /\ f.err = "none" /\ next # "END" => <<node, next>> \in EdgesOf(w)
  BY <1>1, RouteSound
<1> QED BY <1>2 DEF node, f, next

\* A run whose receipts understate its charges has failed: the event behind it
\* is the one of PersistResults.
LEMMA FailedIsLast ==
    ASSUME NEW w \in {"baseline-v1", "research-v1"}, NEW i \in Nat, i # 0, NEW log, NEW man,
           \A j \in 1 .. i : EntrySound(log, w, man, log[j], j), StateSound(log, w, i),
           Before(log, w, i).node # "END", Before(log, w, i).flow.err # "none"
    PROVE  After(log[i]).node = "END"
<1> DEFINE e == log[i]
           s == Before(log, w, i)
           d == log[i - 1]
<1>1. i \in 1 .. i /\ EntrySound(log, w, man, e, i) OBVIOUS
<1>2. s.node = "PersistResults" BY DEF StateSound, FlowRead
<1>3. e.input.node = e.receipt.node /\ (e.input = s \/ IsBehind(log, w, e, i))
  <2> HIDE DEF e, s
  <2> QED BY <1>1 DEF EntrySound, s
<1>4. ~IsBehind(log, w, e, i)
  <2> SUFFICES ASSUME IsBehind(log, w, e, i) PROVE FALSE OBVIOUS
  <2>1. i # 1 /\ d.ok BY DEF IsBehind
  <2>2. i - 1 \in 1 .. i /\ EntrySound(log, w, man, d, i - 1) /\ s = After(d)
    BY <2>1 DEF Before
  <2>3. IsState(d.post) /\ d.ok = (d.post.flow.err = "none")
    <3> HIDE DEF d
    <3> QED BY <2>2 DEF EntrySound
  <2>4. s.flow = d.post.flow
    <3> HIDE DEF d, s
    <3> QED BY <2>2, <2>3, StateFieldsOf
  <2> QED BY <2>1, <2>3, <2>4
<1>5. e.receipt.node = "PersistResults" BY <1>2, <1>3, <1>4
<1>6. /\ e.receipt.node \in NodesOf(w) /\ IsState(e.post) /\ e.post.node = e.receipt.node
      /\ FlowLeft(w, e.receipt.node, e.post.flow)
  <2> HIDE DEF e
  <2> QED BY <1>1 DEF EntrySound
<1> HIDE DEF e
<1>7. After(e).node = "END" BY <1>5, <1>6, NodeNext
<1> QED BY <1>7 DEF e

\* What the receipts of the first events say of the total behind them.
LEMMA SpentKept ==
    ASSUME Billed \subseteq Nat, NEW a \in Nat, NEW b, NEW u, NEW before \in Nat, NEW failed,
           ChargedTo(a, b, u, failed)
    PROVE  /\ b \in Nat
           /\ a = before => b = before + u \/ (b > before + u /\ failed /\ b # a + u)
           /\ a > before => b > before + u
BY DEF ChargedTo

\* The state behind a sound event.
LEMMA StateNext ==
    ASSUME NEW w \in {"baseline-v1", "research-v1"}, NEW i \in Nat, i # 0,
           NEW log, NEW man, i \in DOMAIN log, i + 1 \notin DOMAIN log, Billed \subseteq Nat,
           \A j \in 1 .. i : EntrySound(log, w, man, log[j], j),
           StateSound(log, w, i)
    PROVE  StateSound(log, w, i + 1)
<1> DEFINE e == log[i]
           s == Before(log, w, i)
           t == After(e)
           node == e.receipt.node
           f == e.post.flow
<1>1. i \in 1 .. i /\ (i + 1) - 1 = i /\ i + 1 # 1 OBVIOUS
<1>2. EntrySound(log, w, man, e, i) BY <1>1
<1>3. /\ node \in NodesOf(w) /\ e.receipt.seq = i
      /\ IsState(e.post) /\ e.post.node = node /\ e.post.seq = i
      /\ e.post.receipts = s.receipts /\ e.input.total = s.total
      /\ ChargedTo(s.total, e.post.total, e.units, ~e.ok)
      /\ e.ok = (f.err = "none") /\ FlowLeft(w, node, f)
      /\ node # "PersistResults" =>
            e.post.terminals = IF ~e.ok \/ node = "FinalizeCitations" THEN {i} ELSE {}
  BY <1>2 DEF EntrySound, Receipt
<1>4. s.receipts = ReceiptsUpTo(log, i - 1) BY DEF StateSound
<1>5. Before(log, w, i + 1) = t BY <1>1 DEF Before
<1>6. /\ IsState(t) /\ t.flow = f /\ t.node = Route(node, f) /\ t.seq = i + 1
      /\ t.total = e.post.total /\ t.terminals = e.post.terminals
      /\ t.receipts = e.post.receipts \cup {e.receipt}
  <2> HIDE DEF e
  <2> QED BY <1>3, StateFieldsOf
<1>7. t.receipts = ReceiptsUpTo(log, i)
  BY <1>3, <1>4, <1>6, ReceiptsNext
<1>8. /\ t.total \in Nat
      /\ \/ t.total = SpentUpTo(log, i)
         \/ /\ t.total > SpentUpTo(log, i) /\ Understated(log, i)
            /\ t.node # "END" => t.flow.err # "none"
  <2> DEFINE before == SpentUpTo(log, i - 1)
             spent == SpentUpTo(log, i)
             u == e.units
  <2>1. \A j \in 1 .. i : log[j].units \in Nat BY DEF EntrySound, ChargedTo
  <2>2. spent = before + u /\ before \in Nat BY <2>1, SpentNext
  <2>3. s.total \in Nat BY DEF StateSound
  <2>4. /\ t.total \in Nat
        /\ s.total = before =>
              t.total = before + u \/ (t.total > before + u /\ ~e.ok /\ t.total # s.total + u)
        /\ s.total > before => t.total > before + u
    <3>1. ChargedTo(s.total, t.total, u, ~e.ok) BY <1>3, <1>6
    <3> HIDE DEF e, s, t, before, u
    <3>2. /\ t.total \in Nat
          /\ s.total = before =>
                \/ t.total = before + u
                \/ t.total > before + u /\ ~e.ok /\ t.total # s.total + u
          /\ s.total > before => t.total > before + u
      BY <2>2, <2>3, <3>1, SMTT(40) DEF ChargedTo
    <3> QED BY <3>2
  <2>5. CASE s.total = before
    <3>1. ASSUME ~e.ok, t.total # s.total + u
          PROVE  Understated(log, i) /\ t.flow.err # "none"
      <4>1. Unreceipted(log[i]) BY <1>3, <1>6, <3>1 DEF Unreceipted
      <4> QED BY <1>1, <1>3, <1>6, <3>1, <4>1 DEF Understated
    <3> HIDE DEF before, spent, u, e, s, t
    <3> QED BY <2>2, <2>4, <2>5, <3>1 DEF spent
  <2>6. CASE s.total # before
    <3>1. /\ s.total > before /\ Understated(log, i - 1)
          /\ s.node # "END" => s.flow.err # "none"
      BY <2>6 DEF StateSound
    <3>2. s.node # "END" BY DEF StateSound
    <3>3. t.node = "END" BY <3>1, <3>2, FailedIsLast
    <3>4. Understated(log, i)
      <4>1. \A j \in 1 .. (i - 1) : j \in 1 .. i OBVIOUS
      <4> QED BY <3>1, <4>1 DEF Understated
    <3> HIDE DEF before, spent, u, e, s, t
    <3> QED BY <2>2, <2>4, <3>1, <3>3, <3>4 DEF spent
  <2> QED BY <2>5, <2>6
<1>9. /\ t.node \in NodesOf(w) \cup {"END"} /\ t.node # "ValidateRequest"
      /\ node = "PersistResults" <=> t.node = "END"
      /\ node = "FinalizeCitations" => t.node = "PersistResults"
      /\ node # "PersistResults" /\ f.err # "none" => t.node = "PersistResults"
      /\ node \notin {"FinalizeCitations", "PersistResults"} /\ f.err = "none" =>
            t.node # "PersistResults"
      /\ FlowRead(w, t.node, f)
  <2> HIDE DEF e
  <2> QED BY <1>3, NodeNext
<1>10. TerminalsOf(t.node, i + 1, t.terminals)
  BY <1>1, <1>3, <1>6, <1>9 DEF TerminalsOf
<1> HIDE DEF e, s, t, node, f
<1> QED BY <1>1, <1>5, <1>6, <1>7, <1>8, <1>9, <1>10 DEF StateSound

\* The log with the event e behind its n events.
Extends(longer, w, n, man, e, log) ==
    /\ LogSound(longer, w, man)
    /\ Cardinality(DOMAIN longer) = n + 1 /\ DOMAIN longer = 1 .. (n + 1)
    /\ longer[n + 1] = e /\ \A j \in 1 .. n : longer[j] = log[j]
    /\ Before(longer, w, n + 2) = After(e)

LEMMA LogGrows ==
    ASSUME NEW w \in {"baseline-v1", "research-v1"}, NEW man, NEW log, LogSound(log, w, man),
           Billed \subseteq Nat, NEW n \in Nat, DOMAIN log = 1 .. n,
           NEW e, EntrySound(log, w, man, e, n + 1), Before(log, w, n + 1).node # "END",
           NEW longer, longer = Written(log, n + 1, e)
    PROVE  Extends(longer, w, n, man, e, log)
<1>1. Cardinality(DOMAIN log) = n BY FS_Interval
<1>2. /\ DOMAIN longer = 1 .. (n + 1) /\ longer[n + 1] = e
      /\ \A j \in 1 .. n : longer[j] = log[j]
  BY <1>1, Longer
<1>3. IsFiniteSet(DOMAIN longer) /\ Cardinality(DOMAIN longer) = n + 1
  BY <1>1, <1>2, UpTo
<1>5. ASSUME NEW i \in 1 .. (n + 1) PROVE Before(longer, w, i) = Before(log, w, i)
  BY SMTT(40), <1>2, BeforeSame
<1>6. Before(longer, w, n + 2) = After(e)
  <2>1. n + 2 # 1 /\ (n + 2) - 1 = n + 1 BY <1>1
  <2> QED BY <1>2, <2>1 DEF Before
<1>7. ASSUME NEW i \in 1 .. (n + 1) PROVE EntrySound(longer, w, man, longer[i], i)
  <2>1. CASE i = n + 1
    BY <1>1, <1>2, <2>1, EntrySame
  <2>2. CASE i # n + 1
    <3>1. i \in 1 .. n BY <1>1, <2>2
    <3>2. EntrySound(log, w, man, log[i], i) BY <1>1, <3>1 DEF LogSound
    <3> QED BY <1>1, <1>2, <3>1, <3>2, EntrySame
  <2> QED BY <2>1, <2>2
<1>8. ASSUME NEW i \in 1 .. (n + 1) PROVE StateSound(longer, w, i)
  <2>1. StateSound(log, w, i) BY <1>1 DEF LogSound
  <2>2. Before(log, w, i).node # "END"
    <3>1. CASE i = n + 1 BY <3>1
    <3>2. CASE i # n + 1
      <4>1. i \in DOMAIN log BY <1>1, <3>2
      <4> QED BY <2>1, <4>1 DEF StateSound
    <3> QED BY <3>1, <3>2
  <2> QED BY <1>1, <1>2, <2>1, <2>2, StateSame
<1>9. StateSound(longer, w, n + 2)
  <2> DEFINE m == n + 1
  <2>1. m \in Nat /\ m # 0 /\ m \in 1 .. m /\ 1 .. m \subseteq DOMAIN longer /\ m + 1 \notin DOMAIN longer
        /\ m + 1 = n + 2 /\ m \in DOMAIN longer
    BY <1>1, <1>2
  <2>2. \A j \in 1 .. m : EntrySound(longer, w, man, longer[j], j) BY <1>7
  <2>3. StateSound(longer, w, m) BY <1>8, <2>1
  <2> HIDE DEF m
  <2>4. StateSound(longer, w, m + 1) BY <2>1, <2>2, <2>3, StateNext
  <2> QED BY <2>1, <2>4
<1>10. \A i \in 1 .. ((n + 1) + 1) : i \in 1 .. (n + 1) \/ i = n + 2 BY <1>1
<1>11. \A i \in 1 .. ((n + 1) + 1) : StateSound(longer, w, i) BY <1>8, <1>9, <1>10
<1>12. LogSound(longer, w, man)
  BY <1>2, <1>3, <1>7, <1>11 DEF LogSound
<1> QED BY <1>1, <1>2, <1>3, <1>6, <1>12 DEF Extends

-----------------------------------------------------------------------------
(* The events the envelope makes are sound. *)

LEMMA LogOf ==
    ASSUME NEW w, NEW man, NEW log, LogSound(log, w, man)
    PROVE  LET n == Cardinality(DOMAIN log)
           IN  /\ n \in Nat /\ DOMAIN log = 1 .. n
               /\ \A i \in 1 .. n : EntrySound(log, w, man, log[i], i)
               /\ \A i \in 1 .. n : Before(log, w, i + 1) = After(log[i])
               /\ \A i \in 1 .. (n + 1) : StateSound(log, w, i)
<1> DEFINE n == Cardinality(DOMAIN log)
<1>1. n \in Nat /\ DOMAIN log = 1 .. n
  BY FS_CardinalityType DEF LogSound
<1>2. \A i \in 1 .. n : EntrySound(log, w, man, log[i], i) BY <1>1 DEF LogSound
<1>3. \A i \in 1 .. (n + 1) : StateSound(log, w, i) BY DEF LogSound
<1>4. ASSUME NEW i \in 1 .. n PROVE Before(log, w, i + 1) = After(log[i])
  <2>1. i + 1 # 1 /\ (i + 1) - 1 = i BY <1>1
  <2> QED BY <2>1 DEF Before
<1> QED BY <1>1, <1>2, <1>3, <1>4

AttemptOf(s) == Cardinality({r \in s.receipts : r.node = s.node}) + 1

PostOf(s, f, total) ==
    [s EXCEPT !.flow = f, !.total = total,
       !.terminals = IF s.node # "PersistResults"
                        /\ (f.err # "none" \/ s.node = "FinalizeCitations")
                       THEN @ \cup {s.seq} ELSE @]

EventOf(s, f, total, c, u) ==
    Event(s.node, AttemptOf(s), s.seq, s, PostOf(s, f, total), c, u)

LEMMA NumberedOf ==
    ASSUME NEW w, NEW man, NEW log, NEW e, NEW i, EntrySound(log, w, man, e, i)
    PROVE  e.receipt.seq = i /\ IsFiniteSet(e.calls)
BY DEF EntrySound, Receipt, CallsOf

LEMMA AttemptSound ==
    ASSUME NEW w, NEW log, NEW i \in Nat, i # 0,
           \A j \in 1 .. (i - 1) : log[j].receipt.seq = j,
           StateSound(log, w, i)
    PROVE  AttemptOf(Before(log, w, i)) = Executions(log, Before(log, w, i).node, i - 1) + 1
<1> DEFINE s == Before(log, w, i)
           k == i - 1
           node == s.node
<1>1. k \in Nat /\ \A j \in 1 .. k : log[j].receipt.seq = j OBVIOUS
<1>2. s.receipts = ReceiptsUpTo(log, k) BY DEF StateSound
<1> HIDE DEF k, node, s
<1>3. Cardinality({r \in ReceiptsUpTo(log, k) : r.node = node}) = Executions(log, node, k)
  BY <1>1, ReceiptsCount
<1>4. AttemptOf(s) = Executions(log, node, k) + 1 BY <1>2, <1>3 DEF AttemptOf, node
<1> QED BY <1>4 DEF s, k, node

\* e is the event of a node that read s, left f behind and has the calls c, of
\* u units, on its receipts.
IsEventOf(e, s, f, total, c, u) ==
    /\ e.receipt = Receipt(s.node, AttemptOf(s), s.seq)
    /\ e.ok = (f.err = "none") /\ e.input = s /\ e.calls = c /\ e.units = u
    /\ IsState(e.post) /\ e.post.node = s.node /\ e.post.seq = s.seq
    /\ e.post.receipts = s.receipts /\ e.post.total = total /\ e.post.flow = f
    /\ e.post.terminals =
          IF s.node # "PersistResults" /\ (f.err # "none" \/ s.node = "FinalizeCitations")
            THEN s.terminals \cup {s.seq} ELSE s.terminals

LEMMA PostFields ==
    ASSUME NEW s, IsState(s), NEW f, IsFlow(f), NEW total, NEW c, NEW u
    PROVE  IsEventOf(EventOf(s, f, total, c, u), s, f, total, c, u)
<1> DEFINE e == EventOf(s, f, total, c, u)
           p == PostOf(s, f, total)
<1>1. /\ IsState(p) /\ p.node = s.node /\ p.seq = s.seq
      /\ p.receipts = s.receipts /\ p.total = total /\ p.flow = f
      /\ p.terminals =
            IF s.node # "PersistResults" /\ (f.err # "none" \/ s.node = "FinalizeCitations")
              THEN s.terminals \cup {s.seq} ELSE s.terminals
  BY DEF IsState, StateFields, PostOf
<1> HIDE DEF p
<1>2. e = [receipt |-> Receipt(s.node, AttemptOf(s), s.seq), ok |-> p.flow.err = "none",
             input |-> s, post |-> p, calls |-> c, units |-> u]
  BY DEF EventOf, Event, p
<1> HIDE DEF e
<1>3. IsEventOf(e, s, f, total, c, u) BY <1>1, <1>2 DEF IsEventOf
<1> QED BY <1>3 DEF e

\* What a node that has run publishes.
LEMMA ThisSound ==
    ASSUME NEW w, NEW man, NEW log, NEW n \in Nat,
           \A j \in 1 .. n : EntrySound(log, w, man, log[j], j),
           NEW i \in 1 .. (n + 1), StateSound(log, w, i), NEW s, s = Before(log, w, i),
           s.node # "END", NEW f, FlowLeft(w, s.node, f),
           NEW c, CallsOf(s.node, AttemptOf(s), c),
           NEW total, NEW u, ChargedTo(s.total, total, u, f.err # "none"),
           s.node = "PersistResults" /\ f.err = "none" => man = i - 1
    PROVE  EntrySound(log, w, man, EventOf(s, f, total, c, u), i)
<1> DEFINE e == EventOf(s, f, total, c, u)
<1>1. /\ IsState(s) /\ s.seq = i /\ s.node \in NodesOf(w)
      /\ TerminalsOf(s.node, i, s.terminals)
  BY DEF StateSound
<1>2. AttemptOf(s) = Executions(log, s.node, i - 1) + 1
  <2>1. \A j \in 1 .. (i - 1) : log[j].receipt.seq = j BY NumberedOf
  <2>2. AttemptOf(Before(log, w, i)) = Executions(log, Before(log, w, i).node, i - 1) + 1
    BY <2>1, AttemptSound
  <2> QED BY <2>2
<1>3. IsFlow(f) BY DEF FlowLeft
<1>4. /\ e.receipt = Receipt(s.node, AttemptOf(s), i)
      /\ e.ok = (f.err = "none") /\ e.input = s /\ e.calls = c /\ e.units = u
      /\ IsState(e.post) /\ e.post.node = s.node /\ e.post.seq = i
      /\ e.post.receipts = s.receipts /\ e.post.total = total /\ e.post.flow = f
      /\ e.post.terminals =
            IF s.node # "PersistResults" /\ (f.err # "none" \/ s.node = "FinalizeCitations")
              THEN s.terminals \cup {i} ELSE s.terminals
  <2>1. IsEventOf(e, s, f, total, c, u) BY <1>1, <1>3, PostFields
  <2> HIDE DEF e
  <2> QED BY <1>1, <2>1 DEF IsEventOf
<1> HIDE DEF e
<1>5. e.receipt.node = s.node /\ e.receipt.attempt = AttemptOf(s)
  BY <1>4 DEF Receipt
<1>6. s.node # "PersistResults" =>
         e.post.terminals = IF ~e.ok \/ s.node = "FinalizeCitations" THEN {i} ELSE {}
  BY <1>1, <1>4 DEF TerminalsOf
<1>7. e.input.total = s.total /\ ChargedTo(s.total, e.post.total, e.units, ~e.ok)
  <2>1. (~e.ok) = (f.err # "none") BY <1>4
  <2> QED BY <1>4, <2>1 DEF ChargedTo
<1>8. EntrySound(log, w, man, e, i)
  BY ZenonT(60), <1>1, <1>2, <1>4, <1>5, <1>6, <1>7 DEF EntrySound
<1> QED BY <1>8 DEF e

BehindOf(d, s, f) ==
    LET done == [After(d) EXCEPT !.node = s.node]
    IN  Event(s.node, AttemptOf(s) + 1, done.seq, done,
              [done EXCEPT !.flow = Raise(f, "DATA_CORRUPTION"),
                           !.terminals = @ \cup {done.seq}], {}, 0)

IsBehindOf(e, d, s, f) ==
    LET t == After(d)
    IN  /\ e.receipt = Receipt(s.node, AttemptOf(s) + 1, t.seq)
        /\ e.ok = FALSE /\ e.input = [t EXCEPT !.node = s.node] /\ e.input.node = s.node
        /\ e.calls = {} /\ e.units = 0 /\ e.input.total = t.total /\ e.post.total = t.total
        /\ IsState(e.post) /\ e.post.node = s.node /\ e.post.seq = t.seq
        /\ e.post.receipts = t.receipts /\ e.post.flow = Raise(f, "DATA_CORRUPTION")
        /\ e.post.terminals = t.terminals \cup {t.seq}

LEMMA BehindFields ==
    ASSUME NEW d, IsState(d.post), NEW s, NEW f, IsFlow(f)
    PROVE  IsBehindOf(BehindOf(d, s, f), d, s, f)
<1> DEFINE t == After(d)
           done == [t EXCEPT !.node = s.node]
           r == Raise(f, "DATA_CORRUPTION")
           p == [done EXCEPT !.flow = r, !.terminals = @ \cup {done.seq}]
           e == BehindOf(d, s, f)
<1>1. IsState(t) BY StateFieldsOf
<1>2. IsFlow(r) /\ r.err = "DATA_CORRUPTION" BY RaiseKeeps
<1>3. /\ IsState(done) /\ done.node = s.node /\ done.seq = t.seq /\ done.total = t.total
      /\ done.receipts = t.receipts /\ done.terminals = t.terminals
  <2> HIDE DEF t
  <2> QED BY <1>1 DEF IsState, StateFields
<1>4. /\ IsState(p) /\ p.node = s.node /\ p.seq = t.seq /\ p.total = t.total
      /\ p.receipts = t.receipts /\ p.flow = r /\ p.terminals = t.terminals \cup {t.seq}
  <2> HIDE DEF done, r, t
  <2> QED BY <1>2, <1>3 DEF IsState, StateFields
<1>5. e = [receipt |-> Receipt(s.node, AttemptOf(s) + 1, done.seq), ok |-> p.flow.err = "none",
           input |-> done, post |-> p, calls |-> {}, units |-> 0]
  BY DEF BehindOf, Event
<1>6. (p.flow.err = "none") = FALSE BY <1>2, <1>4
<1> HIDE DEF p, e
<1>7. /\ e.receipt = Receipt(s.node, AttemptOf(s) + 1, t.seq)
      /\ e.ok = FALSE /\ e.input = done /\ e.input.node = s.node /\ e.input.total = t.total
      /\ e.calls = {} /\ e.units = 0 /\ e.post = p
  <2> HIDE DEF done, t
  <2> QED BY <1>3, <1>5, <1>6
<1>8. IsBehindOf(e, d, s, f) BY <1>4, <1>7 DEF IsBehindOf
<1> QED BY <1>8 DEF e

\* The failure behind a success that was read back late.
LEMMA BehindSound ==
    ASSUME NEW w \in {"baseline-v1", "research-v1"}, NEW man, NEW log, NEW n \in Nat, n # 0,
           \A j \in 1 .. n : EntrySound(log, w, man, log[j], j), Billed \subseteq Nat,
           StateSound(log, w, n), StateSound(log, w, n + 1), NEW s, s = Before(log, w, n),
           NEW f, FlowLeft(w, s.node, f), f.err = "none",
           s.node \notin {"FinalizeCitations", "PersistResults"},
           NEW total, NEW c, NEW u, log[n] = EventOf(s, f, total, c, u)
    PROVE  /\ EntrySound(log, w, man, BehindOf(log[n], s, f), n + 1)
           /\ Before(log, w, n + 1).node # "END"
<1> DEFINE d == log[n]
           t == After(d)
           e == BehindOf(d, s, f)
<1>1. /\ n \in 1 .. n /\ n + 1 # 1 /\ (n + 1) - 1 = n OBVIOUS
<1>2. EntrySound(log, w, man, d, n) BY <1>1
<1>3. IsState(s) /\ s.seq = n BY DEF StateSound
<1>4. IsFlow(f) BY DEF FlowLeft
<1>5. IsEventOf(d, s, f, total, c, u) BY <1>3, <1>4, PostFields
<1>6. Before(log, w, n + 1) = t BY <1>1 DEF Before
<1>7. d.ok = TRUE /\ d.receipt.node = s.node /\ IsState(d.post) /\ d.post.flow = f
      /\ d.post.node = s.node /\ d.post.terminals = {}
  <2>1. d.ok = TRUE /\ d.receipt.node = s.node
    <3> HIDE DEF d
    <3>1. (f.err = "none") = TRUE OBVIOUS
    <3>2. d.ok = (f.err = "none") /\ d.receipt = Receipt(s.node, AttemptOf(s), s.seq)
      BY <1>5 DEF IsEventOf
    <3>3. d.ok = TRUE BY <3>1, <3>2
    <3> QED BY <3>2, <3>3 DEF Receipt
  <2> HIDE DEF d
  <2> QED BY <1>2, <1>5, <2>1 DEF EntrySound, IsEventOf
<1>8. d.receipt.node \in NodesOf(w) /\ FlowLeft(w, d.receipt.node, d.post.flow)
  <2> HIDE DEF d
  <2> QED BY <1>2, <1>7 DEF EntrySound
<1>9. t.node # "END"
  <2> HIDE DEF d
  <2> QED BY <1>7, <1>8, NodeNext
<1>10. t.seq = n + 1 /\ t.terminals = {} /\ IsState(t) /\ t.total \in Nat
  <2>1. t.terminals = {}
    <3> HIDE DEF d
    <3> QED BY <1>7, StateFieldsOf
  <2> HIDE DEF t
  <2> QED BY <1>6, <2>1 DEF StateSound
<1>11. IsBehindOf(e, d, s, f)
  <2> HIDE DEF d
  <2> QED BY <1>4, <1>7, BehindFields
<1>12. AttemptOf(s) + 1 = Executions(log, s.node, n) + 1
  <2>1. \A j \in 1 .. (n - 1) : log[j].receipt.seq = j BY NumberedOf
  <2>2. AttemptOf(s) = Executions(log, s.node, n - 1) + 1 BY <2>1, AttemptSound
  <2>3. Executions(log, s.node, n) = Executions(log, s.node, n - 1) + 1
    <3>1. Executions(log, s.node, n) =
            Executions(log, s.node, n - 1) + (IF log[n].receipt.node = s.node THEN 1 ELSE 0)
      BY ExecutionsNext
    <3> QED BY <1>7, <3>1
  <2> QED BY <2>2, <2>3
<1>13. FlowLeft(w, s.node, Raise(f, "DATA_CORRUPTION")) /\ Raise(f, "DATA_CORRUPTION").err # "none"
  BY <1>4, RaiseLeaves, RaiseKeeps
<1>14. CallsOf(s.node, AttemptOf(s) + 1, {}) BY FS_EmptySet DEF CallsOf
<1>15. s.node \in NodesOf(w) BY <1>7, <1>8
<1> HIDE DEF d, t, e
<1>16. e.receipt.node = s.node /\ e.receipt.attempt = AttemptOf(s) + 1
  BY <1>11 DEF IsBehindOf, Receipt
<1>17. IsBehind(log, w, e, n + 1)
  BY <1>1, <1>6, <1>7, <1>11 DEF IsBehind, IsBehindOf, d, t
<1>18. /\ e.receipt = Receipt(s.node, Executions(log, s.node, n) + 1, n + 1)
       /\ e.ok = FALSE /\ e.input.node = s.node /\ e.calls = {}
       /\ IsState(e.post) /\ e.post.node = s.node /\ e.post.seq = n + 1
       /\ e.post.receipts = t.receipts /\ e.post.flow = Raise(f, "DATA_CORRUPTION")
       /\ e.post.terminals = {n + 1}
  BY <1>10, <1>11, <1>12 DEF IsBehindOf, t
<1>19. e.input.total = t.total /\ ChargedTo(t.total, e.post.total, e.units, ~e.ok)
  <2>1. e.input.total = t.total /\ e.post.total = t.total /\ e.units = 0
    BY <1>11 DEF IsBehindOf, t
  <2> QED BY <1>10, <2>1 DEF ChargedTo, Billed
<1>20. EntrySound(log, w, man, e, n + 1)
  BY <1>1, <1>6, <1>13, <1>14, <1>15, <1>16, <1>17, <1>18, <1>19 DEF EntrySound
<1> QED BY <1>6, <1>9, <1>20 DEF d, e, t

-----------------------------------------------------------------------------
(* The last node of a run, and what the manifest accounts for. *)

\* What a sound event says of the node it is of and of the node behind it.
LEMMA EntryNext ==
    ASSUME NEW w \in {"baseline-v1", "research-v1"}, NEW man, NEW log, NEW i, NEW e,
           EntrySound(log, w, man, e, i)
    PROVE  LET node == e.receipt.node
               next == After(e).node
           IN  /\ next \in NodesOf(w) \cup {"END"} /\ next # "ValidateRequest"
               /\ node = "PersistResults" <=> next = "END"
               /\ node = "FinalizeCitations" => next = "PersistResults"
               /\ node # "PersistResults" /\ ~e.ok => next = "PersistResults"
               /\ node \notin {"FinalizeCitations", "PersistResults"} /\ e.ok
                     => next # "PersistResults"
               /\ e.ok /\ next # "END" => <<node, next>> \in EdgesOf(w)
<1>1. /\ e.receipt.node \in NodesOf(w) /\ IsState(e.post) /\ e.post.node = e.receipt.node
      /\ FlowLeft(w, e.receipt.node, e.post.flow) /\ e.ok = (e.post.flow.err = "none")
  BY DEF EntrySound
<1>2. e.ok <=> e.post.flow.err = "none" BY <1>1
<1> DEFINE node == e.receipt.node
           next == After(e).node
           err == e.post.flow.err
<1>3. /\ next \in NodesOf(w) \cup {"END"} /\ next # "ValidateRequest"
      /\ node = "PersistResults" <=> next = "END"
      /\ node = "FinalizeCitations" => next = "PersistResults"
      /\ node # "PersistResults" /\ err # "none" => next = "PersistResults"
      /\ node \notin {"FinalizeCitations", "PersistResults"} /\ err = "none"
            => next # "PersistResults"
      /\ err = "none" /\ next # "END" => <<node, next>> \in EdgesOf(w)
  BY <1>1, NodeNext
<1> HIDE DEF node, next, err
<1>4. e.ok <=> err = "none" BY <1>2 DEF err
<1>5. /\ next \in NodesOf(w) \cup {"END"} /\ next # "ValidateRequest"
      /\ node = "PersistResults" <=> next = "END"
      /\ node = "FinalizeCitations" => next = "PersistResults"
      /\ node # "PersistResults" /\ ~e.ok => next = "PersistResults"
      /\ node \notin {"FinalizeCitations", "PersistResults"} /\ e.ok
            => next # "PersistResults"
      /\ e.ok /\ next # "END" => <<node, next>> \in EdgesOf(w)
  BY <1>3, <1>4, Zenon
<1> QED BY <1>5 DEF node, next

LEMMA PersistEnds ==
    ASSUME NEW w \in {"baseline-v1", "research-v1"}, NEW man, NEW log, NEW i, NEW e,
           EntrySound(log, w, man, e, i), e.receipt.node = "PersistResults"
    PROVE  After(e).node = "END"
BY EntryNext

\* PersistResults is recorded for the state that is to be persisted, and last.
LEMMA PersistIsLast ==
    ASSUME NEW w \in {"baseline-v1", "research-v1"}, NEW man, NEW log, LogSound(log, w, man),
           NEW n \in Nat, DOMAIN log = 1 .. n, NEW i \in 1 .. n
    PROVE  /\ Before(log, w, i).node = "PersistResults" <=> log[i].receipt.node = "PersistResults"
           /\ log[i].receipt.node = "PersistResults" <=> Before(log, w, i + 1).node = "END"
           /\ log[i].receipt.node = "PersistResults" => i = n
<1> DEFINE e == log[i]
<1>1. Cardinality(DOMAIN log) = n BY FS_Interval
<1>2. /\ \A j \in 1 .. n : EntrySound(log, w, man, log[j], j)
      /\ \A j \in 1 .. n : Before(log, w, j + 1) = After(log[j])
      /\ \A j \in 1 .. (n + 1) : StateSound(log, w, j)
  <2> DEFINE m == Cardinality(DOMAIN log)
  <2>1. /\ \A j \in 1 .. m : EntrySound(log, w, man, log[j], j)
        /\ \A j \in 1 .. m : Before(log, w, j + 1) = After(log[j])
        /\ \A j \in 1 .. (m + 1) : StateSound(log, w, j)
    BY LogOf
  <2> HIDE DEF m
  <2>2. m = n BY <1>1 DEF m
  <2> QED BY <2>1, <2>2
<1>3. EntrySound(log, w, man, e, i) BY <1>2
<1>4. Before(log, w, i + 1) = After(e) BY <1>2
<1>5. e.receipt.node = "PersistResults" <=> After(e).node = "END"
  <2> HIDE DEF e
  <2> QED BY <1>3, EntryNext
<1>6. ASSUME e.receipt.node = "PersistResults", i # n PROVE FALSE
  <2>1. i + 1 \in DOMAIN log /\ i + 1 \in 1 .. (n + 1) BY <1>6
  <2>2. StateSound(log, w, i + 1) BY <1>2, <2>1
  <2>3. Before(log, w, i + 1).node # "END" BY <2>1, <2>2 DEF StateSound
  <2> QED BY <1>4, <1>5, <1>6, <2>3
<1>7. e.input.node = e.receipt.node /\ (e.input = Before(log, w, i) \/ IsBehind(log, w, e, i))
  <2> HIDE DEF e
  <2> QED BY <1>3 DEF EntrySound
<1>8. CASE e.input = Before(log, w, i)
  BY <1>4, <1>5, <1>6, <1>7, <1>8
<1>9. CASE IsBehind(log, w, e, i)
  <2> DEFINE d == log[i - 1]
  <2>1. i - 1 \in 1 .. n /\ (i - 1) + 1 = i BY <1>9 DEF IsBehind
  <2>2. EntrySound(log, w, man, d, i - 1) /\ Before(log, w, i) = After(d)
    BY <1>2, <2>1
  <2>3. d.ok /\ d.receipt.node \notin {"FinalizeCitations", "PersistResults"}
        /\ e.input = [Before(log, w, i) EXCEPT !.node = d.receipt.node]
    BY <1>9 DEF IsBehind
  <2>4. After(d).node # "PersistResults"
    <3> HIDE DEF d
    <3> QED BY <2>2, <2>3, EntryNext
  <2>5. IsState(Before(log, w, i))
    <3>1. i \in 1 .. (n + 1) OBVIOUS
    <3> QED BY <1>2, <3>1 DEF StateSound
  <2>6. e.input.node = d.receipt.node
    <3> HIDE DEF d, e
    <3> QED BY <2>3, <2>5 DEF IsState, StateFields
  <2>7. e.receipt.node # "PersistResults" BY <1>7, <2>3, <2>6
  <2> QED BY <1>4, <1>5, <2>2, <2>4, <2>7
<1> QED BY <1>7, <1>8, <1>9

\* The manifest is written over the log of a run that is to be persisted.
LEMMA ManifestWritten ==
    ASSUME NEW w \in {"baseline-v1", "research-v1"}, NEW man, NEW log, LogSound(log, w, man),
           NEW n \in Nat, DOMAIN log = 1 .. n, Before(log, w, n + 1).node = "PersistResults"
    PROVE  LogSound(log, w, n) /\ ManifestSound(log, w, n)
<1>1. Cardinality(DOMAIN log) = n BY FS_Interval
<1>2. ASSUME NEW i \in 1 .. n PROVE log[i].receipt.node # "PersistResults"
  <2>1. log[i].receipt.node = "PersistResults" => i = n /\ Before(log, w, i + 1).node = "END"
    BY PersistIsLast
  <2> QED BY <2>1
<1>3. ASSUME NEW i \in 1 .. n PROVE EntrySound(log, w, n, log[i], i)
  <2>1. EntrySound(log, w, man, log[i], i) BY DEF LogSound
  <2> QED BY <1>2, <2>1 DEF EntrySound
<1>4. LogSound(log, w, n) BY <1>3 DEF LogSound
<1>5. ManifestSound(log, w, n) BY <1>1 DEF ManifestSound
<1> QED BY <1>4, <1>5

\* Behind the manifest only the event of PersistResults is recorded.
LEMMA ManifestGrows ==
    ASSUME NEW w \in {"baseline-v1", "research-v1"}, NEW man, NEW log, LogSound(log, w, man),
           ManifestSound(log, w, man), NEW n \in Nat, DOMAIN log = 1 .. n,
           Before(log, w, n + 1).node # "END",
           NEW longer, DOMAIN longer = 1 .. (n + 1), \A j \in 1 .. n : longer[j] = log[j]
    PROVE  ManifestSound(longer, w, man)
<1>1. Cardinality(DOMAIN log) = n BY FS_Interval
<1>2. Cardinality(DOMAIN longer) = n + 1 BY FS_Interval
<1> SUFFICES ASSUME man # 0 PROVE ManifestSound(longer, w, man)
  BY DEF ManifestSound
<1>3. man \in Nat /\ man <= n /\ n <= man + 1 /\ Before(log, w, man + 1).node = "PersistResults"
  BY <1>1 DEF ManifestSound
<1>4. n # man + 1
  <2> SUFFICES ASSUME n = man + 1 PROVE FALSE OBVIOUS
  <2>1. n \in 1 .. n BY <1>3
  <2>2. Before(log, w, n).node = "PersistResults" BY <1>3
  <2> QED BY <2>1, <2>2, PersistIsLast
<1>5. man + 1 \in 1 .. (n + 1) BY <1>3
<1>6. Before(longer, w, man + 1) = Before(log, w, man + 1)
  <2> DEFINE k == man + 1
  <2>1. k \in 1 .. (n + 1) BY <1>5
  <2> HIDE DEF k
  <2>2. Before(longer, w, k) = Before(log, w, k) BY <2>1, BeforeSame
  <2> QED BY <2>2 DEF k
<1>7. man <= n + 1 /\ n + 1 <= man + 1 BY <1>3, <1>4
<1> QED BY <1>2, <1>3, <1>6, <1>7 DEF ManifestSound

\* A checkpoint stays one.
LEMMA KnownStays ==
    ASSUME NEW w, NEW log, NEW n \in Nat, DOMAIN log = 1 .. n,
           NEW longer, DOMAIN longer = 1 .. (n + 1), \A j \in 1 .. n : longer[j] = log[j],
           NEW s, Known(log, w, s)
    PROVE  Known(longer, w, s)
<1>1. Cardinality(DOMAIN log) = n /\ Cardinality(DOMAIN longer) = n + 1 BY FS_Interval
<1>2. CASE Closed(log, w, s)
  BY <1>1, <1>2 DEF Closed, Known
<1>3. ASSUME NEW i \in 1 .. (n + 1), s = Before(log, w, i) PROVE Known(longer, w, s)
  <2>1. Before(longer, w, i) = Before(log, w, i) BY BeforeSame
  <2>2. i \in 1 .. ((n + 1) + 1) OBVIOUS
  <2> QED BY <1>1, <1>3, <2>1, <2>2 DEF Known
<1> QED BY <1>1, <1>2, <1>3 DEF Known

LEMMA KnownWorkflow ==
    ASSUME NEW w \in {"baseline-v1", "research-v1"}, NEW man, NEW log, LogSound(log, w, man),
           NEW s, Known(log, w, s)
    PROVE  /\ s.flow.workflow = w /\ s.seq \in 1 .. (Cardinality(DOMAIN log) + 1)
           /\ s.node # "END" => s = Before(log, w, s.seq)
           /\ s.node = "END" /\ s.flow.err = "none" => s = Before(log, w, s.seq)
<1> DEFINE n == Cardinality(DOMAIN log)
<1>1. CASE Closed(log, w, s)
  BY <1>1 DEF Closed
<1>2. ASSUME NEW i \in 1 .. (n + 1), s = Before(log, w, i)
      PROVE s.flow.workflow = w /\ s.seq = i
  <2>1. StateSound(log, w, i) BY LogOf
  <2> QED BY <1>2, <2>1 DEF StateSound, FlowRead
<1> QED BY <1>1, <1>2 DEF Known

-----------------------------------------------------------------------------
(* Checkpoints on their way to the disk. *)

LEMMA QueueFacts ==
    ASSUME NEW q, q \in Seq(Range(q)), NEW x
    PROVE  /\ Append(q, x) \in Seq(Range(Append(q, x)))
           /\ Range(Append(q, x)) \subseteq Range(q) \cup {x}
           /\ q # <<>> => /\ Head(q) \in Range(q) /\ Tail(q) \in Seq(Range(Tail(q)))
                          /\ Range(Tail(q)) \subseteq Range(q)
<1>1. Append(q, x) \in Seq(Range(q) \cup {x})
  OBVIOUS
<1>2. ASSUME NEW S, NEW p \in Seq(S) PROVE p \in Seq(Range(p)) /\ Range(p) \subseteq S
  <2>1. \A i \in 1 .. Len(p) : p[i] \in Range(p) BY DEF Range
  <2> QED BY <2>1 DEF Range
<1>3. ASSUME q # <<>> PROVE Head(q) \in Range(q) /\ Tail(q) \in Seq(Range(q))
  BY <1>3
<1> QED BY <1>1, <1>2, <1>3

LEMMA NoCheckpoints == <<>> \in Seq(Range(<<>>)) /\ Range(<<>>) = {}
BY DEF Range

LEMMA FirstOnes ==
    ASSUME NEW q, q \in Seq(Range(q)), NEW k \in 0 .. Len(q)
    PROVE  Range(SubSeq(q, 1, k)) \subseteq Range(q)
<1>1. \A i \in DOMAIN SubSeq(q, 1, k) : i \in DOMAIN q /\ SubSeq(q, 1, k)[i] = q[i]
  OBVIOUS
<1> QED BY <1>1 DEF Range

LEMMA ProceedHands ==
    ASSUME AuditAssumption, unsaved \in Seq(Range(unsaved)), NEW next, Proceed(next)
    PROVE  /\ unsaved' \in Seq(Range(unsaved')) /\ Checkpoints' \subseteq Checkpoints \cup {next}
           /\ st' = next /\ calls' = {} /\ units' = 0 /\ why' = why
           /\ mode' = IF next.node = "END" THEN "flush" ELSE "enter"
<1>1. MaxLag \in Nat /\ MaxLag # 0 BY DEF AuditAssumption
<1>2. CASE Len(unsaved) < MaxLag
  <2>1. unsaved' = Append(unsaved, next) /\ saved' = saved /\ st' = next BY <1>2 DEF Proceed
  <2> QED BY <2>1, QueueFacts DEF Proceed, Checkpoints
<1>3. CASE ~(Len(unsaved) < MaxLag)
  <2>1. /\ unsaved' = Append(Tail(unsaved), next) /\ saved' = saved \cup {Head(unsaved)}
        /\ st' = next
    BY <1>3 DEF Proceed
  <2>2. unsaved # <<>> BY <1>1, <1>3
  <2>3. /\ Head(unsaved) \in Range(unsaved) /\ Tail(unsaved) \in Seq(Range(Tail(unsaved)))
        /\ Range(Tail(unsaved)) \subseteq Range(unsaved)
    BY <2>2, QueueFacts
  <2>4. /\ unsaved' \in Seq(Range(unsaved'))
        /\ Range(unsaved') \subseteq Range(Tail(unsaved)) \cup {next}
    BY <2>1, <2>3, QueueFacts
  <2> QED BY <2>1, <2>3, <2>4 DEF Proceed, Checkpoints
<1> QED BY <1>2, <1>3

LEMMA LosesHands ==
    ASSUME unsaved \in Seq(Range(unsaved)), LosesProcess
    PROVE  /\ unsaved' \in Seq(Range(unsaved'))
           /\ Checkpoints' \subseteq Checkpoints \cup {InitialState(Workflow)}
           /\ st' = InitialState(Workflow) /\ Workflow' = Workflow
<1>1. /\ unsaved' = <<>> /\ st' = InitialState(Workflow)
      /\ \E k \in 0 .. Len(unsaved) : saved' = saved \cup Range(SubSeq(unsaved, 1, k))
  BY DEF LosesProcess, Workflow
<1>2. saved' \subseteq saved \cup Range(unsaved) BY <1>1, FirstOnes
<1>3. InitialState(Workflow).flow.workflow = Workflow BY DEF InitialState, InitialFlow
<1> QED BY <1>1, <1>2, <1>3, NoCheckpoints DEF Checkpoints, Workflow

-----------------------------------------------------------------------------
(* Steps of the envelope, by what they do to the log and the checkpoints.  *)

LEMMA InvLog ==
    ASSUME AuditAssumption, AuditInv
    PROVE  /\ Workflow \in {"baseline-v1", "research-v1"} /\ Billed \subseteq Nat
           /\ Count \in Nat /\ DOMAIN events = 1 .. Count
           /\ LogSound(events, Workflow, manifest) /\ ManifestSound(events, Workflow, manifest)
           /\ \A j \in 1 .. Count : EntrySound(events, Workflow, manifest, events[j], j)
           /\ \A j \in 1 .. Count : Before(events, Workflow, j + 1) = After(events[j])
           /\ \A j \in 1 .. (Count + 1) : StateSound(events, Workflow, j)
<1>1. Workflow \in {"baseline-v1", "research-v1"} /\ Billed \subseteq Nat
  BY DEF AuditAssumption, AuditInv, Billed
<1>2. LogSound(events, Workflow, manifest) /\ ManifestSound(events, Workflow, manifest)
  BY DEF AuditInv
<1> QED BY <1>1, <1>2, LogOf DEF Count

\* A node that runs reads the state behind the events before it.
LEMMA InvNode ==
    ASSUME AuditAssumption, AuditInv, mode \in Alive
    PROVE  /\ st.seq \in 1 .. (Count + 1) /\ st = Before(events, Workflow, st.seq)
           /\ StateSound(events, Workflow, st.seq) /\ Workflow = st.flow.workflow
           /\ IsState(st) /\ st.node \in NodesOf(Workflow) /\ st.node # "END"
           /\ FlowRead(Workflow, st.node, st.flow)
           /\ st.total \in Nat /\ acc \in Nat /\ units \in Nat
           /\ ChargedTo(st.total, acc, units, mode \in Publishing /\ out.err # "none")
           /\ mode \notin Publishing => ChargedTo(st.total, acc, units, FALSE)
           /\ CallsOf(st.node, AttemptOf(st), calls)
           /\ mode \in {"enter", "paying"} => calls = {} /\ units = 0 /\ acc = st.total
           /\ mode \in Working \/ Entered => st.seq = Count + 1
<1>1. /\ st.seq \in 1 .. (Count + 1) /\ st = Before(events, Workflow, st.seq)
      /\ st.node # "END" /\ CallsOf(st.node, AttemptOf(st), calls)
      /\ ChargedTo(st.total, acc, units, mode \in Publishing /\ out.err # "none")
      /\ mode \in {"enter", "paying"} => calls = {} /\ units = 0
  BY DEF AuditInv, NodeSound, Attempt, AttemptOf
<1>2. StateSound(events, Workflow, st.seq) BY <1>1, InvLog
<1>3. /\ IsState(st) /\ st.node \in NodesOf(Workflow) \cup {"END"}
      /\ FlowRead(Workflow, st.node, st.flow) /\ st.total \in Nat
  <2> DEFINE b == Before(events, Workflow, st.seq)
  <2>1. /\ IsState(b) /\ b.node \in NodesOf(Workflow) \cup {"END"}
        /\ FlowRead(Workflow, b.node, b.flow) /\ b.total \in Nat
    BY <1>2 DEF StateSound
  <2> QED BY <1>1, <2>1
<1>4. acc \in Nat /\ units \in Nat
  <2>1. Billed \subseteq Nat BY InvLog
  <2> QED BY <1>1, <1>3, <2>1 DEF ChargedTo
<1>5. mode \notin Publishing => ChargedTo(st.total, acc, units, FALSE)
  BY <1>1 DEF ChargedTo
<1>6. mode \in {"enter", "paying"} => acc = st.total
  BY <1>1, <1>3, <1>5 DEF ChargedTo, Publishing
<1>7. mode \in Working \/ Entered => st.seq = Count + 1
  <2>1. mode \in Working => st.seq = Count + 1 BY DEF AuditInv, AtWork
  <2>2. Entered => st.seq = Count + 1 BY <1>1, InvLog DEF Entered
  <2> QED BY <2>1, <2>2
<1> QED BY <1>1, <1>2, <1>3, <1>4, <1>5, <1>6, <1>7 DEF Workflow

\* What a step does to the journal: nothing, or the event of the node that runs
\* is recorded behind the others, or the manifest is written over all of them.
JournalStep ==
    \/ UNCHANGED <<events, manifest>>
    \/ /\ mode \in Working \cup {"second"} /\ UNCHANGED manifest
       /\ Before(events, Workflow, Count + 1).node # "END"
       /\ \E e : /\ EntrySound(events, Workflow, manifest, e, Count + 1)
                /\ events' = Written(events, Count + 1, e)
    \/ /\ UNCHANGED events /\ manifest' = Count
       /\ Before(events, Workflow, Count + 1).node = "PersistResults"

\* What every step keeps.
Keeps == AuditInv' /\ Workflow' = Workflow /\ JournalStep

\* A step of a node that touches neither the events nor a checkpoint.
LEMMA WorkStep ==
    ASSUME AuditInv, mode \in Alive, UNCHANGED <<events, saved, unsaved, st, why>>,
           LogSound(events, Workflow, manifest'), ManifestSound(events, Workflow, manifest'),
           mode' \in Alive, NodeSound', AtWork', CacheSound', JournalStep
    PROVE  Keeps
<1>1. mode # "raised" /\ why = "none" BY DEF AuditInv, AtWork, Alive, Working
<1>2. /\ Workflow' \in Workflows /\ LogSound(events, Workflow, manifest)'
      /\ ManifestSound(events, Workflow, manifest)' /\ CheckpointsKnown'
  BY DEF AuditInv, Workflow, CheckpointsKnown, Checkpoints
<1>3. RefusedOnlyBehindFailure' BY <1>1 DEF RefusedOnlyBehindFailure
<1>4. Workflow' = Workflow BY DEF Workflow
<1> QED BY <1>2, <1>3, <1>4 DEF AuditInv, Keeps

LEMMA NodeKept ==
    ASSUME AuditAssumption, AuditInv, mode \in Alive, UNCHANGED <<events, st>>,
           ChargedTo(st.total, acc', units', mode' \in Publishing /\ out'.err # "none"),
           CallsOf(st.node, AttemptOf(st), calls'),
           mode' \in {"enter", "paying"} => calls' = {} /\ units' = 0
    PROVE  NodeSound'
BY InvNode DEF NodeSound, Attempt, AttemptOf, Count, Workflow

\* A charge whose receipt is there needs no failure.
LEMMA ChargeKept ==
    ASSUME NEW a, NEW b, NEW u, ChargedTo(a, b, u, FALSE), NEW failed
    PROVE  ChargedTo(a, b, u, failed)
BY DEF ChargedTo

\* A node that neither starts to publish nor is charged stops as it did.
LEMMA StopsStays ==
    ASSUME UNCHANGED <<st, acc>>, mode \notin Publishing, Stops
    PROVE  Stops'
BY DEF Stops, Failing, Publishing

LEMMA CacheStays ==
    ASSUME CacheSound, UNCHANGED <<cache, paid, crashes, resumes, spoiled>>,
           mode \in {"paying", "charged"} => mode' \in {"paying", "charged"},
           mode' \in Alive => mode \in Alive /\ (Stops => Stops')
    PROVE  CacheSound'
<1>1. Cardinality(DOMAIN cache) \in Nat BY FS_CardinalityType DEF CacheSound
<1>2. CallPaidAgainForCause' BY <1>1 DEF CacheSound, CallPaidAgainForCause
<1>3. Halted' BY DEF CacheSound, Halted
<1>4. /\ IsFiniteSet(DOMAIN cache') /\ \A k \in DOMAIN cache' : cache'[k].units \in Billed
      /\ paid' \in Int /\ {crashes', resumes', spoiled'} \subseteq Nat
  BY DEF CacheSound
<1> QED BY <1>2, <1>3, <1>4 DEF CacheSound

\* A call whose answer is lost, the process stopping behind it.
LEMMA CacheSpoils ==
    ASSUME AuditAssumption, AuditInv, mode \in {"paying", "charged"},
           UNCHANGED <<cache, paid, crashes, resumes>>, spoiled' = spoiled + 1,
           mode' \notin {"paying", "charged"}, mode' \in Alive => Stops'
    PROVE  CacheSound'
<1>1. CacheSound /\ acc \in Nat /\ Budget \in Nat /\ Estimate \in Nat /\ acc <= Budget
  <2>1. mode \in Alive BY DEF Alive, Working
  <2>2. Budget \in Nat /\ Estimate \in Nat BY DEF AuditAssumption
  <2>3. acc \in Nat BY <2>1, InvNode
  <2> QED BY <2>2, <2>3 DEF AuditInv, AtWork
<1>2. ~Stops
  <2>1. mode \in Alive /\ st.node \in Metered BY DEF Alive, Working, AuditInv, AtWork
  <2>2. st.node \notin {"PersistResults", "END"} BY <2>1 DEF AuditAssumption
  <2>3. st.flow.err = "none" BY <2>1, <2>2, InvNode DEF FlowRead
  <2> QED BY <1>1, <2>3 DEF Stops, Failing
<1>3. spoiled <= resumes
  <2>1. mode \in Alive BY DEF Alive, Working
  <2> QED BY <1>1, <1>2, <2>1 DEF CacheSound, Halted
<1>4. Cardinality(DOMAIN cache) \in Nat BY <1>1, FS_CardinalityType DEF CacheSound
<1>5. CallPaidAgainForCause' BY <1>1, <1>3, <1>4 DEF CacheSound, CallPaidAgainForCause
<1>6. Halted' BY DEF Halted
<1>7. /\ IsFiniteSet(DOMAIN cache') /\ \A k \in DOMAIN cache' : cache'[k].units \in Billed
      /\ paid' \in Int /\ {crashes', resumes', spoiled'} \subseteq Nat
  BY <1>1 DEF CacheSound
<1> QED BY <1>5, <1>6, <1>7 DEF CacheSound

\* A call whose answer is kept.
LEMMA CacheGrows ==
    ASSUME AuditAssumption, AuditInv, mode = "charged",
           cache' = Written(cache, CallInput, Completion),
           UNCHANGED <<paid, crashes, resumes, spoiled>>,
           mode' \notin {"paying", "charged"}, Stops => Stops'
    PROVE  CacheSound'
<1>1. CacheSound /\ mode \in Alive /\ CallInput \notin DOMAIN cache
  BY DEF AuditInv, AtWork, Alive, Working
<1>2. DOMAIN cache' = DOMAIN cache \cup {CallInput} BY DEF Written
<1>3. /\ IsFiniteSet(DOMAIN cache') /\ Cardinality(DOMAIN cache') = Cardinality(DOMAIN cache) + 1
  BY <1>1, <1>2, FS_AddElement DEF CacheSound
<1>4. Cardinality(DOMAIN cache) \in Nat BY <1>1, FS_CardinalityType DEF CacheSound
<1>5. CallPaidAgainForCause' BY <1>1, <1>3, <1>4 DEF CacheSound, CallPaidAgainForCause
<1>6. Halted' BY <1>1 DEF CacheSound, Halted
<1>7. ASSUME NEW k \in DOMAIN cache' PROVE cache'[k].units \in Billed
  <2>1. units \in Billed BY <1>1, InvNode DEF ChargedTo
  <2>2. cache'[k] = IF k = CallInput THEN Completion ELSE cache[k]
    <3> HIDE DEF Completion, CallInput
    <3> QED BY <1>2 DEF Written
  <2>3. Completion.units = units BY DEF Completion
  <2> HIDE DEF Completion, CallInput
  <2> QED BY <1>1, <1>2, <2>1, <2>2, <2>3 DEF CacheSound
<1>8. paid' \in Int /\ {crashes', resumes', spoiled'} \subseteq Nat BY <1>1 DEF CacheSound
<1> QED BY <1>3, <1>5, <1>6, <1>7, <1>8 DEF CacheSound

\* The graph goes on to the state behind some events.
LEMMA MovesOn ==
    ASSUME AuditAssumption, AuditInv, mode \in Alive,
           mode \notin {"paying", "charged"},
           LogSound(events', Workflow, manifest'), ManifestSound(events', Workflow, manifest'),
           \A s \in Checkpoints : Known(events', Workflow, s),
           NEW i \in 1 .. (Cardinality(DOMAIN events') + 1),
           NEW next, next = Before(events', Workflow, i), Proceed(next), acc' = next.total,
           Stops => next.node = "END" \/ next.total > Budget \/ next.flow.err # "none",
           UNCHANGED <<cache, paid, crashes, resumes, spoiled>>, JournalStep
    PROVE  Keeps
<1> DEFINE w == Workflow
<1>1. w \in Workflows /\ w \in {"baseline-v1", "research-v1"} /\ Billed \subseteq Nat
  BY InvLog DEF AuditInv
<1>2. /\ unsaved' \in Seq(Range(unsaved')) /\ Checkpoints' \subseteq Checkpoints \cup {next}
      /\ st' = next /\ calls' = {} /\ units' = 0 /\ why' = why
      /\ mode' = IF next.node = "END" THEN "flush" ELSE "enter"
  BY ProceedHands DEF AuditInv, CheckpointsKnown
<1>3. Known(events', w, next) BY DEF Known
<1>4. next.flow.workflow = w /\ StateSound(events', w, i)
  BY <1>1, <1>3, KnownWorkflow, LogOf
<1>5. next.seq = i /\ next.total \in Nat
  BY <1>4 DEF StateSound
<1>6. Workflow' = w BY <1>2, <1>4 DEF Workflow
<1>7. CheckpointsKnown'
  <2>1. \A s \in Checkpoints' : Known(events', w, s) BY <1>2, <1>3
  <2> QED BY <1>2, <1>6, <2>1 DEF CheckpointsKnown
<1>8. NodeSound'
  <2>1. CallsOf(st'.node, Attempt', {}) BY FS_EmptySet DEF CallsOf
  <2>2. st'.seq \in 1 .. (Count' + 1) /\ st' = Before(events', w, st'.seq)
    BY <1>2, <1>5 DEF Count
  <2>3. ASSUME NEW failed PROVE ChargedTo(st'.total, acc', units', failed)
    BY <1>2, <1>5 DEF ChargedTo, Billed
  <2>4. mode' \in Alive => st'.node # "END" BY <1>2 DEF Alive, Working
  <2> HIDE DEF w
  <2> QED BY <1>2, <1>6, <2>1, <2>2, <2>3, <2>4 DEF NodeSound
<1>9. why = "none" BY DEF AuditInv, AtWork, Alive, Working
<1>10. AtWork'
  BY <1>2, <1>9 DEF AtWork, Working
<1>11. CacheSound'
  <2>1. mode' \in Alive => (Stops => Stops') BY <1>2 DEF Stops, Failing, Alive, Working
  <2> QED BY <2>1, CacheStays DEF AuditInv
<1>12. RefusedOnlyBehindFailure' BY <1>2, <1>9 DEF RefusedOnlyBehindFailure
<1>13. mode' \in Alive \cup Gone \cup {"flush"} BY <1>2 DEF Alive, Working
<1> QED BY <1>1, <1>6, <1>7, <1>8, <1>10, <1>11, <1>12, <1>13 DEF AuditInv, Keeps

\* The process is gone.
LEMMA GoesDown ==
    ASSUME AuditAssumption, AuditInv,
           LogSound(events', Workflow, manifest'), ManifestSound(events', Workflow, manifest'),
           \A s \in Checkpoints : Known(events', Workflow, s),
           LosesProcess, mode' \in {"raised", "down"}, CacheSound', RefusedOnlyBehindFailure',
           mode' # "raised" => why' = "none", JournalStep
    PROVE  Keeps
<1> DEFINE w == Workflow
<1>1. w \in Workflows BY DEF AuditInv
<1>2. /\ unsaved' \in Seq(Range(unsaved'))
      /\ Checkpoints' \subseteq Checkpoints \cup {InitialState(w)}
      /\ st' = InitialState(w) /\ Workflow' = w
  BY LosesHands DEF AuditInv, CheckpointsKnown
<1>3. Known(events', w, InitialState(w))
  <2>1. Cardinality(DOMAIN events') \in Nat BY LogOf
  <2>2. 1 \in 1 .. (Cardinality(DOMAIN events') + 1) BY <2>1
  <2> QED BY <2>2 DEF Known, Before
<1>4. CheckpointsKnown'
  <2>1. \A s \in Checkpoints' : Known(events', w, s) BY <1>2, <1>3
  <2> QED BY <1>2, <2>1 DEF CheckpointsKnown
<1>5. NodeSound' BY DEF NodeSound, Alive, Working
<1>6. AtWork' BY DEF AtWork, Working
<1>7. mode' \in Alive \cup Gone \cup {"flush"} BY DEF Gone
<1> QED BY <1>1, <1>2, <1>4, <1>5, <1>6, <1>7 DEF AuditInv, Keeps

\* The longer log, and what still holds of the manifest and the checkpoints.
IsLonger(longer, w, n, man, e, log, S) ==
    /\ Extends(longer, w, n, man, e, log)
    /\ ManifestSound(longer, w, man)
    /\ \A s \in S : Known(longer, w, s)

LEMMA LogRecorded ==
    ASSUME NEW w \in {"baseline-v1", "research-v1"}, NEW man, NEW log, LogSound(log, w, man),
           Billed \subseteq Nat, NEW n \in Nat, DOMAIN log = 1 .. n,
           NEW e, EntrySound(log, w, man, e, n + 1), Before(log, w, n + 1).node # "END",
           NEW longer, longer = Written(log, n + 1, e),
           ManifestSound(log, w, man), NEW S, \A s \in S : Known(log, w, s)
    PROVE  IsLonger(longer, w, n, man, e, log, S)
<1>1. Extends(longer, w, n, man, e, log) BY LogGrows
<1>2. DOMAIN longer = 1 .. (n + 1) /\ \A j \in 1 .. n : longer[j] = log[j]
  BY <1>1 DEF Extends
<1>3. ManifestSound(longer, w, man)
  BY <1>2, ManifestGrows
<1>4. \A s \in S : Known(longer, w, s)
  BY <1>2, KnownStays
<1> QED BY <1>1, <1>3, <1>4 DEF IsLonger

\* The event the process has made is durable.
LEMMA EventRecorded ==
    ASSUME AuditAssumption, AuditInv,
           NEW e, EntrySound(events, Workflow, manifest, e, Count + 1),
           Before(events, Workflow, Count + 1).node # "END",
           events' = Written(events, Count + 1, e)
    PROVE  IsLonger(events', Workflow, Count, manifest, e, events, Checkpoints)
<1> DEFINE w == Workflow
           n == Count
           S == Checkpoints
<1>2. /\ w \in {"baseline-v1", "research-v1"} /\ n \in Nat /\ DOMAIN events = 1 .. n
      /\ Billed \subseteq Nat
      /\ LogSound(events, w, manifest) /\ ManifestSound(events, w, manifest)
      /\ \A s \in S : Known(events, w, s)
      /\ EntrySound(events, w, manifest, e, n + 1) /\ Before(events, w, n + 1).node # "END"
  BY InvLog DEF AuditInv, CheckpointsKnown
<1>3. events' = Written(events, n + 1, e) OBVIOUS
<1>5. IsLonger(events', w, n, manifest, e, events, S)
  <2> HIDE DEF w, n, S
  <2> QED BY <1>2, <1>3, LogRecorded
<1> QED BY <1>5

-----------------------------------------------------------------------------
(* The steps of a handler. *)

LEMMA OwnCall == CallsOf(st.node, AttemptOf(st), {Operation})
<1>1. CallInput[1] = st.node BY DEF CallInput
<1>2. Operation.input[1] = st.node /\ Operation.attempt = AttemptOf(st)
  BY <1>1 DEF Operation, Attempt, AttemptOf
<1> QED BY <1>2, FS_Singleton DEF CallsOf

\* A handler is through and leaves its flow behind.
LEMMA HandlerEnds ==
    ASSUME AuditAssumption, AuditInv, mode \in Working \/ Entered,
           UNCHANGED <<events, saved, unsaved, st, why>>, mode' = "handled",
           ChargedTo(st.total, acc', units', out'.err # "none"),
           CallsOf(st.node, AttemptOf(st), calls'),
           LogSound(events, Workflow, manifest'), ManifestSound(events, Workflow, manifest'),
           FlowLeft(Workflow, st.node, out'), CacheSound', JournalStep,
           st.node = "PersistResults" /\ out'.err = "none" => manifest' = st.seq - 1
    PROVE  Keeps
<1>1. mode \in Alive BY DEF Alive, Working, Entered
<1>2. st.seq = Count + 1 BY <1>1, InvNode
<1>3. NodeSound'
  <2>1. (mode' \in Publishing /\ out'.err # "none") = (out'.err # "none") BY DEF Publishing
  <2> QED BY <1>1, <2>1, NodeKept
<1>4. AtWork'
  <2>1. why = "none" BY <1>1 DEF AuditInv, AtWork, Alive, Working
  <2> QED BY <1>2, <2>1 DEF AtWork, Working, Workflow, Count
<1>5. mode' \in Alive BY DEF Alive, Working
<1> QED BY <1>1, <1>3, <1>4, <1>5, WorkStep

\* The same where nothing is charged.
LEMMA HandlerThrough ==
    ASSUME AuditAssumption, AuditInv, mode \in {"enter", "run"}, mode = "run" \/ Entered,
           UNCHANGED <<events, saved, unsaved, st, calls, units, acc, why>>, mode' = "handled",
           LogSound(events, Workflow, manifest'), ManifestSound(events, Workflow, manifest'),
           FlowLeft(Workflow, st.node, out'), JournalStep,
           UNCHANGED <<cache, paid, crashes, resumes, spoiled>>,
           st.node = "PersistResults" /\ out'.err = "none" => manifest' = st.seq - 1
    PROVE  Keeps
<1>1. mode \in Alive /\ mode \notin Publishing BY DEF Alive, Working, Publishing
<1>2. ChargedTo(st.total, acc, units, FALSE) /\ CallsOf(st.node, AttemptOf(st), calls)
  BY <1>1, InvNode
<1>3. ChargedTo(st.total, acc', units', out'.err # "none") BY <1>2, ChargeKept
<1>4. CacheSound' BY <1>1, StopsStays, CacheStays DEF AuditInv
<1>5. mode \in Working \/ Entered BY DEF Working
<1> QED BY <1>2, <1>3, <1>4, <1>5, HandlerEnds

\* What is used is charged and on the receipt.
LEMMA SettlesCharge ==
    ASSUME AuditAssumption, AuditInv, mode = "paying", NEW used \in Billed, Settles(used)
    PROVE  /\ acc' \in Nat /\ \A failed : ChargedTo(st.total, acc', units', failed)
           /\ CallsOf(st.node, AttemptOf(st), calls')
<1>1. mode \in Alive BY DEF Alive, Working
<1>2. acc = st.total /\ st.total \in Nat /\ used \in Nat BY <1>1, InvNode, InvLog
<1>3. acc + Estimate <= Budget BY DEF AuditInv, AtWork
<1>4. acc' = acc + used /\ calls' = {Operation} /\ units' = used BY DEF Settles
<1>5. \A failed : ChargedTo(st.total, acc', units', failed)
  BY <1>2, <1>3, <1>4 DEF ChargedTo
<1> QED BY <1>2, <1>4, <1>5, OwnCall

LEMMA CallCachedKeeps ==
    ASSUME AuditAssumption, AuditInv, CallCached
    PROVE  Keeps
<1>1. /\ mode = "enter" /\ Entered /\ st.node \in Metered /\ mode' = "run"
      /\ CallInput \in DOMAIN cache
      /\ UNCHANGED <<events, manifest, saved, unsaved, st, why, cache, paid, crashes, resumes, spoiled>>
  BY DEF CallCached, Calling, Entered, durable, bounds
<1>2. mode \in Alive /\ mode' \in Alive /\ mode \notin Publishing /\ mode' \notin Publishing
  BY <1>1 DEF Alive, Working, Publishing
<1>3. /\ acc = st.total /\ acc \in Nat /\ st.seq = Count + 1 /\ Billed \subseteq Nat
  BY <1>1, <1>2, InvNode, InvLog
<1>4. /\ \A failed : ChargedTo(st.total, acc', units', failed)
      /\ CallsOf(st.node, AttemptOf(st), calls') /\ units' \in Nat /\ acc' = acc + units'
  <2> DEFINE entry == cache[CallInput]
  <2>1. CASE Own(entry)
    <3>1. calls' = {Operation} /\ units' = entry.units /\ acc' = acc + units'
          /\ acc + Estimate <= Budget
      BY <2>1 DEF CallCached
    <3>2. entry.units \in Billed BY <1>1 DEF AuditInv, CacheSound
    <3> HIDE DEF entry
    <3> QED BY <1>3, <3>1, <3>2, OwnCall DEF ChargedTo
  <2>2. CASE ~Own(entry)
    <3>1. calls' = {} /\ units' = 0 /\ acc' = acc + units' BY <2>2 DEF CallCached
    <3>2. CallsOf(st.node, AttemptOf(st), {}) BY FS_EmptySet DEF CallsOf
    <3> QED BY <1>3, <3>1, <3>2 DEF ChargedTo, Billed
  <2> QED BY <2>1, <2>2
<1>5. NodeSound' BY <1>1, <1>2, <1>4, NodeKept
<1>6. AtWork'
  <2>1. why = "none" BY <1>1 DEF AuditInv, AtWork
  <2> QED BY <1>1, <1>3, <2>1 DEF AtWork, Working, Count
<1>7. CacheSound'
  <2>1. Budget \in Nat BY DEF AuditAssumption
  <2>2. acc > Budget => acc' > Budget BY <1>3, <1>4, <2>1
  <2>3. Failing => Failing' BY <1>1, <1>2 DEF Failing, Publishing
  <2>4. Stops => Stops' BY <2>2, <2>3 DEF Stops
  <2> QED BY <1>1, <1>2, <2>4, CacheStays DEF AuditInv
<1>8. /\ LogSound(events, Workflow, manifest') /\ ManifestSound(events, Workflow, manifest')
      /\ JournalStep
  BY <1>1 DEF AuditInv, JournalStep
<1> QED BY <1>1, <1>2, <1>5, <1>6, <1>7, <1>8, WorkStep

LEMMA CallRefusedKeeps ==
    ASSUME AuditAssumption, AuditInv, CallRefused
    PROVE  Keeps
<1>1. /\ Entered /\ st.node \in Metered /\ mode = "enter" /\ mode' = "handled"
      /\ UNCHANGED <<events, manifest, saved, unsaved, st, calls, units, acc, why>>
      /\ UNCHANGED <<cache, paid, crashes, resumes, spoiled>>
      /\ out' = OutOfBudget(st.flow)
  BY DEF CallRefused, Calling, Entered, durable, bounds
<1>2. mode \in Alive BY <1>1 DEF Alive
<1>3. FlowRead(Workflow, st.node, st.flow) BY <1>2, InvNode
<1>4. st.node \notin {"ValidateRequest", "PersistResults"} BY <1>1 DEF AuditAssumption
<1>5. FlowLeft(Workflow, st.node, out') BY <1>1, <1>3, <1>4, BudgetLeaves
<1>6. /\ LogSound(events, Workflow, manifest') /\ ManifestSound(events, Workflow, manifest')
      /\ JournalStep
  BY <1>1 DEF AuditInv, JournalStep
<1> QED BY <1>1, <1>4, <1>5, <1>6, HandlerThrough

LEMMA CallProviderKeeps ==
    ASSUME AuditAssumption, AuditInv, CallProvider
    PROVE  Keeps
<1>1. /\ mode = "enter" /\ Entered /\ st.node \in Metered /\ mode' = "paying" /\ paid' = paid + 1
      /\ UNCHANGED <<events, manifest, saved, unsaved, st, why, cache, crashes, resumes, spoiled>>
      /\ UNCHANGED <<acc, calls, units>>
      /\ CallInput \notin DOMAIN cache /\ acc + Estimate <= Budget
  BY DEF CallProvider, Calling, Entered, bounds
<1>2. mode \in Alive /\ mode' \in Alive /\ mode \notin Publishing
  BY <1>1 DEF Alive, Working, Publishing
<1>3. /\ calls = {} /\ units = 0 /\ ChargedTo(st.total, acc, units, FALSE) /\ st.seq = Count + 1
      /\ CallsOf(st.node, AttemptOf(st), calls)
  BY <1>1, <1>2, InvNode
<1>4. NodeSound' BY <1>1, <1>2, <1>3, ChargeKept, NodeKept
<1>5. AtWork'
  <2>1. why = "none" BY <1>1 DEF AuditInv, AtWork
  <2> QED BY <1>1, <1>3, <2>1 DEF AtWork, Working, Count, CallInput
<1>6. CacheSound'
  <2>1. CacheSound BY DEF AuditInv
  <2>2. Cardinality(DOMAIN cache) \in Nat BY <2>1, FS_CardinalityType DEF CacheSound
  <2>3. CallPaidAgainForCause' BY <1>1, <2>1, <2>2 DEF CacheSound, CallPaidAgainForCause
  <2>4. Halted' BY <1>1, <1>2, <2>1, StopsStays DEF CacheSound, Halted
  <2> QED BY <1>1, <2>1, <2>3, <2>4 DEF CacheSound
<1>7. /\ LogSound(events, Workflow, manifest') /\ ManifestSound(events, Workflow, manifest')
      /\ JournalStep
  BY <1>1 DEF AuditInv, JournalStep
<1> QED BY <1>1, <1>2, <1>4, <1>5, <1>6, <1>7, WorkStep

LEMMA CallSettledKeeps ==
    ASSUME AuditAssumption, AuditInv, CallSettled
    PROVE  Keeps
<1>1. /\ mode = "paying" /\ mode' = "charged"
      /\ UNCHANGED <<events, manifest, saved, unsaved, st, why, cache, paid, crashes, resumes, spoiled>>
  BY DEF CallSettled, durable, bounds
<1>2. PICK used \in Usages : Settles(used) /\ acc' <= Budget BY DEF CallSettled
<1>3. mode \in Alive /\ mode' \in Alive /\ mode \in Working BY <1>1 DEF Alive, Working
<1>4. st.seq = Count + 1 BY <1>3, InvNode
<1>5. st.node \in Metered /\ CallInput \notin DOMAIN cache /\ why = "none"
  BY <1>1 DEF AuditInv, AtWork
<1>6. /\ \A failed : ChargedTo(st.total, acc', units', failed)
      /\ CallsOf(st.node, AttemptOf(st), calls')
  <2>1. used \in Billed BY DEF Billed
  <2> QED BY <1>1, <1>2, <2>1, SettlesCharge
<1>7. NodeSound' BY <1>1, <1>3, <1>6, NodeKept
<1>8. AtWork' BY <1>1, <1>2, <1>4, <1>5 DEF AtWork, Working, Count, CallInput
<1>9. CacheSound'
  <2>1. acc + Estimate <= Budget BY <1>1 DEF AuditInv, AtWork
  <2>2. acc \in Nat /\ Estimate \in Nat /\ Budget \in Nat BY <1>3, InvNode DEF AuditAssumption
  <2>3. Failing => Failing' BY <1>1 DEF Failing
  <2>4. Stops => Stops' BY <2>1, <2>2, <2>3 DEF Stops
  <2> QED BY <1>1, <1>3, <2>4, CacheStays DEF AuditInv
<1>10. /\ LogSound(events, Workflow, manifest') /\ ManifestSound(events, Workflow, manifest')
      /\ JournalStep
  BY <1>1 DEF AuditInv, JournalStep
<1> QED BY <1>1, <1>3, <1>7, <1>8, <1>9, <1>10, WorkStep

\* A call whose answer its node does not keep.
LEMMA CallDropped ==
    ASSUME AuditAssumption, AuditInv, mode \in {"paying", "charged"}, mode' = "handled",
           UNCHANGED <<events, manifest, saved, unsaved, st, why>>,
           ChargedTo(st.total, acc', units', out'.err # "none"),
           CallsOf(st.node, AttemptOf(st), calls'), CacheSound',
           (\E code : code # "none" /\ out' = Raise(st.flow, code)) \/ out' = OutOfBudget(st.flow)
    PROVE  Keeps
<1>1. mode \in Alive /\ mode \in Working BY DEF Alive, Working
<1>2. st.node \in Metered BY DEF AuditInv, AtWork
<1>3. st.node \notin {"ValidateRequest", "PersistResults"} BY <1>2 DEF AuditAssumption
<1>4. FlowRead(Workflow, st.node, st.flow) BY <1>1, InvNode
<1>5. FlowLeft(Workflow, st.node, out') BY <1>3, <1>4, ReadRaiseLeaves, BudgetLeaves
<1>6. /\ LogSound(events, Workflow, manifest') /\ ManifestSound(events, Workflow, manifest')
      /\ JournalStep
  BY DEF AuditInv, JournalStep
<1> QED BY <1>1, <1>3, <1>5, <1>6, HandlerEnds

\* The flow a failed call leaves carries its error.
LEMMA CallRaises ==
    ASSUME AuditAssumption, AuditInv, mode \in {"paying", "charged"}, mode' = "handled",
           NEW code, code # "none", out' = Raise(st.flow, code)
    PROVE  out'.err # "none" /\ Stops'
<1>1. mode \in Alive BY DEF Alive, Working
<1>2. IsFlow(st.flow) BY <1>1, InvNode DEF FlowRead
<1>3. out'.err # "none" BY <1>2, RaiseKeeps
<1> QED BY <1>3 DEF Stops, Failing

LEMMA CallOverdrawsKeeps ==
    ASSUME AuditAssumption, AuditInv, CallOverdraws
    PROVE  Keeps
<1>1. /\ mode = "paying" /\ mode' = "handled" /\ out' = OutOfBudget(st.flow)
      /\ UNCHANGED <<events, manifest, saved, unsaved, st, why, cache, paid, crashes, resumes>>
      /\ spoiled' = spoiled + 1
  BY DEF CallOverdraws, durable
<1>2. PICK used \in Usages : Settles(used) /\ acc' > Budget BY DEF CallOverdraws
<1>3. /\ \A failed : ChargedTo(st.total, acc', units', failed)
      /\ CallsOf(st.node, AttemptOf(st), calls')
  <2>1. used \in Billed BY DEF Billed
  <2> QED BY <1>1, <1>2, <2>1, SettlesCharge
<1>4. Stops' BY <1>2 DEF Stops
<1>5. CacheSound' BY <1>1, <1>4, CacheSpoils
<1> QED BY <1>1, <1>3, <1>5, CallDropped

LEMMA CallFailsKeeps ==
    ASSUME AuditAssumption, AuditInv, CallFails
    PROVE  Keeps
<1>1. /\ mode = "paying" /\ mode' = "handled" /\ out' = Raise(st.flow, "PROVIDER")
      /\ UNCHANGED <<events, manifest, saved, unsaved, st, why, cache, crashes, resumes>>
      /\ (paid' = paid - 1 /\ spoiled' = spoiled) \/ (paid' = paid /\ spoiled' = spoiled + 1)
  BY DEF CallFails, CallFault
<1>2. PICK used \in Usages \cup {0} : Settles(used) BY DEF CallFails
<1>3. /\ \A failed : ChargedTo(st.total, acc', units', failed)
      /\ CallsOf(st.node, AttemptOf(st), calls')
  <2>1. used \in Billed BY DEF Billed
  <2> QED BY <1>1, <1>2, <2>1, SettlesCharge
<1>4. Stops' BY <1>1, CallRaises
<1>5. CacheSound'
  <2>1. CASE paid' = paid - 1 /\ spoiled' = spoiled
    <3>1. CacheSound BY DEF AuditInv
    <3>2. Cardinality(DOMAIN cache) \in Nat BY <3>1, FS_CardinalityType DEF CacheSound
    <3>3. CallPaidAgainForCause' BY <1>1, <2>1, <3>1, <3>2 DEF CacheSound, CallPaidAgainForCause
    <3>4. Halted' BY <1>4 DEF Halted
    <3> QED BY <1>1, <2>1, <3>1, <3>3, <3>4 DEF CacheSound
  <2>2. CASE paid' = paid /\ spoiled' = spoiled + 1
    BY <1>1, <1>4, <2>2, CacheSpoils
  <2> QED BY <1>1, <2>1, <2>2
<1> QED BY <1>1, <1>3, <1>5, CallDropped

LEMMA ReceiptFailsKeeps ==
    ASSUME AuditAssumption, AuditInv, ReceiptFails
    PROVE  Keeps
<1>1. /\ mode \in {"paying", "charged"} /\ spoiled' = spoiled + 1
      /\ UNCHANGED <<events, cache, manifest, paid, crashes, resumes>>
  BY DEF ReceiptFails, CallFault, durable
<1>2. mode \in Alive BY <1>1 DEF Alive, Working
<1>3. CASE /\ mode = "paying" /\ \E used \in Usages : acc' = acc + used
           /\ out' = Raise(st.flow, "HANDLER") /\ mode' = "handled"
           /\ UNCHANGED <<durable, st, calls, units, answer, unsaved, why>>
  <2>1. PICK used \in Usages : acc' = acc + used BY <1>3
  <2>2. out'.err # "none" /\ Stops' BY <1>3, CallRaises
  <2>3. acc = st.total /\ units = 0 /\ CallsOf(st.node, AttemptOf(st), calls)
    BY <1>2, <1>3, InvNode
  <2>4. ChargedTo(st.total, acc', units', out'.err # "none")
    BY <1>3, <2>1, <2>2, <2>3 DEF ChargedTo, Billed
  <2>5. CacheSound' BY <1>1, <1>3, <2>2, CacheSpoils
  <2> QED BY <1>1, <1>3, <2>3, <2>4, <2>5, CallDropped DEF durable
<1>4. CASE Fail("audit")
  <2>1. LosesProcess /\ mode' = "raised" /\ why' = "audit" BY <1>4 DEF Fail
  <2>2. mode' \notin Alive BY <2>1 DEF Alive, Working
  <2>3. CacheSound' BY <1>1, <2>1, <2>2, CacheSpoils
  <2>4. RefusedOnlyBehindFailure' BY <2>1 DEF RefusedOnlyBehindFailure
  <2>5. /\ LogSound(events', Workflow, manifest') /\ ManifestSound(events', Workflow, manifest')
        /\ JournalStep /\ \A s \in Checkpoints : Known(events', Workflow, s)
    BY <1>1 DEF AuditInv, CheckpointsKnown, JournalStep
  <2> QED BY <2>1, <2>3, <2>4, <2>5, GoesDown
<1> QED BY <1>3, <1>4 DEF ReceiptFails

LEMMA CallStoredKeeps ==
    ASSUME AuditAssumption, AuditInv, CallStored
    PROVE  Keeps
<1>1. /\ mode = "charged" /\ mode' = "run"
      /\ UNCHANGED <<events, manifest, saved, unsaved, st, why, acc, calls, units>>
      /\ UNCHANGED <<paid, crashes, resumes, spoiled>>
      /\ cache' = Written(cache, CallInput, Completion)
  BY DEF CallStored, bounds
<1>2. mode \in Alive /\ mode' \in Alive /\ mode \in Working /\ mode \notin Publishing
  BY <1>1 DEF Alive, Working, Publishing
<1>3. /\ ChargedTo(st.total, acc, units, FALSE) /\ st.seq = Count + 1
      /\ CallsOf(st.node, AttemptOf(st), calls)
  BY <1>1, <1>2, InvNode
<1>4. NodeSound' BY <1>1, <1>2, <1>3, ChargeKept, NodeKept
<1>5. st.node \in Metered /\ why = "none" BY <1>1 DEF AuditInv, AtWork
<1>6. AtWork' BY <1>1, <1>3, <1>5 DEF AtWork, Working, Count
<1>7. CacheSound' BY <1>1, <1>2, StopsStays, CacheGrows
<1>8. /\ LogSound(events, Workflow, manifest') /\ ManifestSound(events, Workflow, manifest')
      /\ JournalStep
  BY <1>1 DEF AuditInv, JournalStep
<1> QED BY <1>1, <1>2, <1>4, <1>6, <1>7, <1>8, WorkStep

LEMMA CallUnstoredKeeps ==
    ASSUME AuditAssumption, AuditInv, CallUnstored
    PROVE  Keeps
<1>1. /\ mode = "charged" /\ mode' = "handled" /\ out' = Raise(st.flow, "HANDLER")
      /\ UNCHANGED <<events, manifest, saved, unsaved, st, why, acc, calls, units>>
      /\ UNCHANGED <<paid, crashes, resumes>>
      /\ \/ cache' = Written(cache, CallInput, Completion) /\ spoiled' = spoiled
         \/ spoiled' = spoiled + 1 /\ cache' = cache
  BY DEF CallUnstored, CallFault
<1>2. mode \in Alive /\ mode \notin Publishing BY <1>1 DEF Alive, Working, Publishing
<1>3. ChargedTo(st.total, acc, units, FALSE) /\ CallsOf(st.node, AttemptOf(st), calls)
  BY <1>2, InvNode
<1>4. ChargedTo(st.total, acc', units', out'.err # "none") BY <1>1, <1>3, ChargeKept
<1>5. Stops' BY <1>1, CallRaises
<1>6. CASE cache' = Written(cache, CallInput, Completion) /\ spoiled' = spoiled
  <2>1. CacheSound' BY <1>1, <1>5, <1>6, CacheGrows
  <2> QED BY <1>1, <1>3, <1>4, <2>1, CallDropped
<1>7. CASE spoiled' = spoiled + 1 /\ cache' = cache
  <2>1. CacheSound' BY <1>1, <1>5, <1>7, CacheSpoils
  <2> QED BY <1>1, <1>3, <1>4, <2>1, CallDropped
<1> QED BY <1>1, <1>6, <1>7

\* The node whose handler runs is one whose handler is modelled.
LEMMA RunningNode ==
    ASSUME AuditAssumption, AuditInv, Running
    PROVE  /\ mode \in {"enter", "run"} /\ (mode = "run" \/ Entered)
           /\ st.node \in Executed /\ Workflow \in {"baseline-v1", "research-v1"}
           /\ FlowRead(Workflow, st.node, st.flow)
<1>1. mode \in {"enter", "run"} /\ (mode = "run" \/ Entered) BY DEF Running, Entered
<1>2. mode \in Alive BY <1>1 DEF Alive, Working
<1>3. st.node \in NodesOf(Workflow) /\ FlowRead(Workflow, st.node, st.flow)
  BY <1>2, InvNode
<1>4. st.node \in Executed
  BY <1>3 DEF Running, Executed, NodesOf, Reached, ResearchNodes, BaselineNodes
<1> QED BY <1>1, <1>3, <1>4, InvLog

LEMMA HandleKeeps ==
    ASSUME AuditAssumption, AuditInv, Handle
    PROVE  Keeps
<1>1. /\ Running /\ mode' = "handled" /\ st.node # "PersistResults"
      /\ UNCHANGED <<events, manifest, saved, unsaved, st, calls, units, acc, why>>
      /\ UNCHANGED <<cache, paid, crashes, resumes, spoiled>>
      /\ out' \in Outcomes(st.node, st.flow, acc >= Budget, answer)
  BY DEF Handle, Running, durable, bounds
<1>2. FlowLeft(Workflow, st.node, out') BY <1>1, RunningNode, HandlerLeaves
<1>3. mode \in {"enter", "run"} /\ (mode = "run" \/ Entered) BY <1>1, RunningNode
<1>4. /\ LogSound(events, Workflow, manifest') /\ ManifestSound(events, Workflow, manifest')
      /\ JournalStep
  BY <1>1 DEF AuditInv, JournalStep
<1> QED BY <1>1, <1>2, <1>3, <1>4, HandlerThrough

LEMMA HandlerFailsKeeps ==
    ASSUME AuditAssumption, AuditInv, HandlerFails
    PROVE  Keeps
<1>1. /\ Running /\ mode' = "handled" /\ st.node # "PersistResults"
      /\ UNCHANGED <<events, manifest, saved, unsaved, st, calls, units, acc, why>>
      /\ UNCHANGED <<cache, paid, crashes, resumes, spoiled>>
      /\ out' = Raise(st.flow, "HANDLER")
  BY DEF HandlerFails, Running, durable, Fault, CallFault
<1>2. FlowLeft(Workflow, st.node, out') BY <1>1, RunningNode, ReadRaiseLeaves
<1>3. mode \in {"enter", "run"} /\ (mode = "run" \/ Entered) BY <1>1, RunningNode
<1>4. /\ LogSound(events, Workflow, manifest') /\ ManifestSound(events, Workflow, manifest')
      /\ JournalStep
  BY <1>1 DEF AuditInv, JournalStep
<1> QED BY <1>1, <1>2, <1>3, <1>4, HandlerThrough

LEMMA PersistFailsKeeps ==
    ASSUME AuditAssumption, AuditInv, PersistFails
    PROVE  Keeps
<1>1. /\ Entered /\ mode = "enter" /\ mode' = "handled" /\ st.node = "PersistResults"
      /\ UNCHANGED <<events, manifest, saved, unsaved, st, calls, units, acc, why>>
      /\ UNCHANGED <<cache, paid, crashes, resumes, spoiled>>
      /\ out' = Raise(st.flow, "PERSIST_RESULTS_FAILED")
  BY DEF PersistFails, Persisting, Entered, durable, Fault, CallFault
<1>2. mode \in Alive BY <1>1 DEF Alive
<1>3. FlowRead(Workflow, st.node, st.flow) BY <1>2, InvNode
<1>4. FlowLeft(Workflow, st.node, out') BY <1>1, <1>3, ReadRaiseLeaves
<1>5. IsFlow(st.flow) BY <1>3 DEF FlowRead
<1>6. out'.err # "none" BY <1>1, <1>5, RaiseKeeps
<1>7. /\ LogSound(events, Workflow, manifest') /\ ManifestSound(events, Workflow, manifest')
      /\ JournalStep
  BY <1>1 DEF AuditInv, JournalStep
<1> QED BY <1>1, <1>4, <1>6, <1>7, HandlerThrough

\* The handler of PersistResults that finds the trail closed.
LEMMA PersistWrites ==
    ASSUME AuditAssumption, AuditInv, Persisting, manifest' = st.seq - 1, events' = events
    PROVE  /\ LogSound(events, Workflow, manifest') /\ ManifestSound(events, Workflow, manifest')
           /\ JournalStep
<1>1. mode \in Alive /\ Entered /\ st.node = "PersistResults" BY DEF Alive, Persisting, Entered
<1>2. /\ st.seq = Count + 1 /\ st = Before(events, Workflow, st.seq) /\ Count \in Nat
      /\ DOMAIN events = 1 .. Count
      /\ Workflow \in {"baseline-v1", "research-v1"} /\ LogSound(events, Workflow, manifest)
  BY <1>1, InvNode, InvLog
<1> DEFINE w == Workflow
           n == Count
<1>3. /\ w \in {"baseline-v1", "research-v1"} /\ n \in Nat /\ DOMAIN events = 1 .. n
      /\ LogSound(events, w, manifest) /\ Before(events, w, n + 1).node = "PersistResults"
  BY <1>1, <1>2
<1>4. manifest' = n BY <1>2
<1>5. LogSound(events, w, n) /\ ManifestSound(events, w, n)
  <2> HIDE DEF w, n
  <2> QED BY <1>3, ManifestWritten
<1> QED BY <1>3, <1>4, <1>5 DEF JournalStep

LEMMA PersistHandlerKeeps ==
    ASSUME AuditAssumption, AuditInv, PersistHandler
    PROVE  Keeps
<1>1. /\ Persisting /\ Entered /\ mode = "enter" /\ mode' = "handled"
      /\ st.node = "PersistResults"
      /\ UNCHANGED <<events, saved, unsaved, st, calls, units, acc, why>>
      /\ UNCHANGED <<cache, paid, crashes, resumes, spoiled>>
  BY DEF PersistHandler, Persisting, Entered, bounds
<1>2. mode \in Alive BY <1>1 DEF Alive
<1>3. FlowRead(Workflow, st.node, st.flow) BY <1>2, InvNode
<1>5. \/ manifest' = st.seq - 1 /\ out' = st.flow
      \/ manifest' = manifest /\ out' = Raise(st.flow, "PERSIST_RESULTS_FAILED")
  BY DEF PersistHandler
<1>6. FlowLeft(Workflow, st.node, st.flow)
  <2>1. st.node \in Closing BY <1>1 DEF Closing
  <2> QED BY <1>1, <1>3, <2>1 DEF FlowRead, FlowLeft
<1>7. CASE manifest' = st.seq - 1 /\ out' = st.flow
  <2>1. /\ LogSound(events, Workflow, manifest') /\ ManifestSound(events, Workflow, manifest')
        /\ JournalStep
    BY <1>1, <1>7, PersistWrites
  <2> QED BY <1>1, <1>6, <1>7, <2>1, HandlerThrough
<1>8. CASE manifest' = manifest /\ out' = Raise(st.flow, "PERSIST_RESULTS_FAILED")
  <2>1. IsFlow(st.flow) BY <1>3 DEF FlowRead
  <2>2. out'.err # "none" BY <1>8, <2>1, RaiseKeeps
  <2>3. FlowLeft(Workflow, st.node, out') BY <1>3, <1>8, ReadRaiseLeaves
  <2>4. /\ LogSound(events, Workflow, manifest') /\ ManifestSound(events, Workflow, manifest')
        /\ JournalStep
    BY <1>1, <1>8 DEF AuditInv, JournalStep
  <2> QED BY <1>1, <2>2, <2>3, <2>4, HandlerThrough
<1> QED BY <1>5, <1>7, <1>8

-----------------------------------------------------------------------------
(* The steps of the publication. *)

\* The event a node that is through makes of a flow it may leave.
LEMMA NodeMakes ==
    ASSUME AuditAssumption, AuditInv, mode \in Publishing,
           NEW f, FlowLeft(Workflow, st.node, f), out.err # "none" => f.err # "none",
           st.node = "PersistResults" /\ f.err = "none" => manifest = st.seq - 1,
           NEW e, e = EventOf(st, f, acc, calls, units)
    PROVE  /\ EntrySound(events, Workflow, manifest, e, Count + 1)
           /\ e.ok = (f.err = "none") /\ e.post.total = acc
           /\ Failing => ~e.ok \/ e.receipt.node = "PersistResults"
           /\ Before(events, Workflow, Count + 1).node # "END"
           /\ st.seq = Count + 1
<1> DEFINE w == Workflow
           n == Count
           i == n + 1
<1>1. mode \in Alive /\ mode \in Working BY DEF Alive, Working, Publishing
<1>2. /\ st.seq = i /\ st = Before(events, w, i) /\ StateSound(events, w, i) /\ st.node # "END"
      /\ ChargedTo(st.total, acc, units, mode \in Publishing /\ out.err # "none")
      /\ CallsOf(st.node, AttemptOf(st), calls) /\ IsState(st)
      /\ FlowRead(w, st.node, st.flow)
  BY <1>1, InvNode
<1>3. n \in Nat /\ \A j \in 1 .. n : EntrySound(events, w, manifest, events[j], j)
  BY InvLog
<1>4. FlowLeft(w, st.node, f) OBVIOUS
<1>5. i \in 1 .. (n + 1) /\ (st.node = "PersistResults" /\ f.err = "none" => manifest = i - 1)
  BY <1>2, <1>3
<1>6. ChargedTo(st.total, acc, units, f.err # "none")
  BY <1>2 DEF ChargedTo
<1>7. /\ e.post.total = acc /\ e.ok = (f.err = "none")
      /\ Failing => ~e.ok \/ e.receipt.node = "PersistResults"
  <2>1. IsFlow(f) BY <1>4 DEF FlowLeft
  <2>2. IsEventOf(e, st, f, acc, calls, units) BY <1>2, <2>1, PostFields
  <2>3. e.post.total = acc /\ e.ok = (f.err = "none") /\ e.receipt.node = st.node
    BY <2>2 DEF IsEventOf, Receipt
  <2>4. st.flow.err # "none" => st.node = "PersistResults" BY <1>2 DEF FlowRead
  <2> QED BY <2>3, <2>4 DEF Failing
<1>8. EntrySound(events, w, manifest, EventOf(st, f, acc, calls, units), i)
  <2> DEFINE s == st
             c == calls
             total == acc
             u == units
  <2>1. /\ i \in 1 .. (n + 1) /\ StateSound(events, w, i) /\ s = Before(events, w, i)
        /\ s.node # "END" /\ FlowLeft(w, s.node, f) /\ CallsOf(s.node, AttemptOf(s), c)
        /\ ChargedTo(s.total, total, u, f.err # "none")
        /\ s.node = "PersistResults" /\ f.err = "none" => manifest = i - 1
    BY <1>2, <1>4, <1>5, <1>6
  <2> HIDE DEF w, n, i, s, c, total, u
  <2>2. EntrySound(events, w, manifest, EventOf(s, f, total, c, u), i)
    BY <1>3, <2>1, ThisSound
  <2> QED BY <2>2 DEF s, c, total, u
<1> QED BY <1>2, <1>7, <1>8

LEMMA ThisIs ==
    /\ This = EventOf(st, out, acc, calls, units)
    /\ Replacement = EventOf(st, Raise(out, "DATA_CORRUPTION"), acc, calls, units)
BY DEF This, Replacement, EventOf, Post, PostOf, Attempt, AttemptOf

\* What a node that is through publishes.
LEMMA ThisMade ==
    ASSUME AuditAssumption, AuditInv, mode \in {"handled", "retry"}
    PROVE  /\ EntrySound(events, Workflow, manifest, This, Count + 1)
           /\ This.ok = (out.err = "none") /\ This.post.total = acc
           /\ Failing => ~This.ok \/ This.receipt.node = "PersistResults"
           /\ Before(events, Workflow, Count + 1).node # "END" /\ st.seq = Count + 1
<1>1. /\ FlowLeft(Workflow, st.node, out) /\ mode \in Publishing
      /\ st.node = "PersistResults" /\ out.err = "none" => manifest = st.seq - 1
  BY DEF AuditInv, AtWork, Publishing
<1> HIDE DEF This
<1> QED BY <1>1, NodeMakes, ThisIs

LEMMA ReplacementMade ==
    ASSUME AuditAssumption, AuditInv, mode = "replace"
    PROVE  /\ EntrySound(events, Workflow, manifest, Replacement, Count + 1)
           /\ Replacement.post.total = acc
           /\ Failing => ~Replacement.ok \/ Replacement.receipt.node = "PersistResults"
           /\ Before(events, Workflow, Count + 1).node # "END" /\ st.seq = Count + 1
<1>1. FlowLeft(Workflow, st.node, out) /\ mode \in Publishing
  BY DEF AuditInv, AtWork, Publishing
<1>2. FlowLeft(Workflow, st.node, Raise(out, "DATA_CORRUPTION")) BY <1>1, RaiseLeaves
<1>3. st.node # "PersistResults" BY DEF AuditInv, AtWork
<1>4. Raise(out, "DATA_CORRUPTION").err # "none" BY <1>1, RaiseKeeps DEF FlowLeft
<1> HIDE DEF Replacement
<1> QED BY <1>1, <1>2, <1>3, <1>4, NodeMakes, ThisIs

\* The failure behind an event that was read back late.
LEMMA BehindMade ==
    ASSUME AuditAssumption, AuditInv, mode = "second"
    PROVE  /\ EntrySound(events, Workflow, manifest, Behind, Count + 1)
           /\ Behind.post.total = acc /\ ~Behind.ok
           /\ Before(events, Workflow, Count + 1).node # "END" /\ st.seq + 1 = Count + 1
<1> DEFINE w == Workflow
           n == Count
           d == events[n]
<1>1. /\ st.seq = n /\ d = This /\ This.ok /\ FlowLeft(w, st.node, out)
      /\ st.node \notin {"FinalizeCitations", "PersistResults"}
  BY DEF AuditInv, AtWork
<1>2. mode \in Alive BY DEF Alive
<1>3. /\ st = Before(events, w, n) /\ IsState(st) /\ n \in Nat /\ n # 0
      /\ w \in {"baseline-v1", "research-v1"} /\ Billed \subseteq Nat /\ StateSound(events, w, n)
  <2>1. /\ st.seq \in 1 .. (Count + 1) /\ st = Before(events, Workflow, st.seq) /\ IsState(st)
        /\ StateSound(events, Workflow, st.seq)
    BY <1>2, InvNode
  <2>2. w \in {"baseline-v1", "research-v1"} /\ Billed \subseteq Nat /\ n \in Nat BY InvLog
  <2>3. st.seq = n BY <1>1
  <2> QED BY <2>1, <2>2, <2>3
<1>4. /\ \A j \in 1 .. n : EntrySound(events, w, manifest, events[j], j)
      /\ StateSound(events, w, n + 1)
  <2>1. n + 1 \in 1 .. (Count + 1) BY <1>3
  <2> QED BY <2>1, InvLog
<1>5. IsFlow(out) BY <1>1 DEF FlowLeft
<1>6. d = EventOf(st, out, acc, calls, units) BY <1>1, ThisIs
<1>7. IsEventOf(d, st, out, acc, calls, units) BY <1>3, <1>5, <1>6, PostFields
<1>8. out.err = "none"
  <2>1. d.ok = (out.err = "none") BY <1>7 DEF IsEventOf
  <2> QED BY <1>1, <2>1
<1>9. Behind = BehindOf(d, st, out)
  <2>1. This.post.seq = st.seq BY <1>1, <1>7 DEF IsEventOf
  <2>2. Onward(This.post, {This.receipt}, st.seq + 1) = After(This) BY <2>1 DEF After
  <2> QED BY <1>1, <2>2 DEF Behind, BehindOf, Attempt, AttemptOf
<1>10. /\ EntrySound(events, w, manifest, BehindOf(d, st, out), n + 1)
       /\ Before(events, w, n + 1).node # "END"
  <2> HIDE DEF w, n
  <2> QED BY <1>1, <1>3, <1>4, <1>6, <1>8, BehindSound
<1>11. BehindOf(d, st, out).post.total = acc /\ ~BehindOf(d, st, out).ok
  <2>1. IsState(d.post) /\ d.post.total = acc BY <1>7 DEF IsEventOf
  <2>2. IsBehindOf(BehindOf(d, st, out), d, st, out)
    <3> HIDE DEF d
    <3> QED BY <1>5, <2>1, BehindFields
  <2>3. After(d).total = d.post.total
    <3> HIDE DEF d
    <3> QED BY <2>1, StateFieldsOf
  <2> QED BY <2>1, <2>2, <2>3 DEF IsBehindOf
<1> QED BY <1>1, <1>9, <1>10, <1>11

\* An event is recorded and the graph goes on behind it.
LEMMA PublishMoves ==
    ASSUME AuditAssumption, AuditInv, mode \in {"handled", "replace", "retry", "second"},
           NEW e, EntrySound(events, Workflow, manifest, e, Count + 1),
           Failing => ~e.ok \/ e.receipt.node = "PersistResults",
           Before(events, Workflow, Count + 1).node # "END",
           events' = Written(events, Count + 1, e), UNCHANGED <<cache, manifest, paid>>,
           UNCHANGED <<crashes, resumes, spoiled>>,
           Proceed(After(e)), acc' = acc, e.post.total = acc
    PROVE  Keeps
<1>1. IsLonger(events', Workflow, Count, manifest, e, events, Checkpoints)
  BY EventRecorded
<1>2. /\ LogSound(events', Workflow, manifest') /\ ManifestSound(events', Workflow, manifest')
      /\ \A s \in Checkpoints : Known(events', Workflow, s)
      /\ Cardinality(DOMAIN events') = Count + 1
      /\ Before(events', Workflow, Count + 2) = After(e)
  BY <1>1 DEF IsLonger, Extends
<1>3. Count + 2 \in 1 .. (Cardinality(DOMAIN events') + 1) BY <1>2, InvLog
<1>4. After(e).total = acc /\ After(e).flow = e.post.flow /\ e.ok = (e.post.flow.err = "none")
  <2>1. IsState(e.post) /\ e.ok = (e.post.flow.err = "none") BY DEF EntrySound
  <2> QED BY <2>1, StateFieldsOf
<1>5. mode \in Alive /\ mode \notin {"paying", "charged"} BY DEF Alive, Working
<1>6. JournalStep BY DEF JournalStep, Working
<1>7. e.receipt.node = "PersistResults" => After(e).node = "END"
  <2>1. Workflow \in {"baseline-v1", "research-v1"} BY InvLog
  <2> QED BY <2>1, PersistEnds
<1>8. Stops => After(e).node = "END" \/ After(e).total > Budget \/ After(e).flow.err # "none"
  BY <1>4, <1>7 DEF Stops
<1>9. acc' = After(e).total BY <1>4
<1> QED BY <1>2, <1>3, <1>5, <1>6, <1>8, <1>9, MovesOn

\* The process raises on a sink it cannot use, whether the event is there or not.
LEMMA SinkFails ==
    ASSUME AuditAssumption, AuditInv, mode \in {"handled", "replace", "retry", "second"},
           NEW e, EntrySound(events, Workflow, manifest, e, Count + 1),
           Before(events, Workflow, Count + 1).node # "END",
           events' = Written(events, Count + 1, e) \/ events' = events,
           UNCHANGED <<cache, manifest, paid, crashes, resumes, spoiled>>, Fail("sink")
    PROVE  Keeps
<1>1. /\ LogSound(events', Workflow, manifest') /\ ManifestSound(events', Workflow, manifest')
      /\ \A s \in Checkpoints : Known(events', Workflow, s)
  <2>1. CASE events' = Written(events, Count + 1, e)
    <3>1. IsLonger(events', Workflow, Count, manifest, e, events, Checkpoints)
      BY <2>1, EventRecorded
    <3> QED BY <3>1 DEF IsLonger, Extends
  <2>2. CASE events' = events
    BY <2>2 DEF AuditInv, CheckpointsKnown
  <2> QED BY <2>1, <2>2
<1>2. LosesProcess /\ mode' = "raised" /\ why' = "sink" BY DEF Fail
<1>3. mode' \notin Alive BY <1>2 DEF Alive, Working
<1>4. CacheSound' BY <1>3, CacheStays DEF AuditInv
<1>5. RefusedOnlyBehindFailure' BY <1>2 DEF RefusedOnlyBehindFailure
<1>6. JournalStep BY DEF JournalStep, Working
<1> QED BY <1>1, <1>2, <1>4, <1>5, <1>6, GoesDown

LEMMA PublishKeeps ==
    ASSUME AuditAssumption, AuditInv, Publish
    PROVE  Keeps
<1>1. /\ mode = "handled" /\ events' = Written(events, st.seq, This) /\ Proceed(After(This))
      /\ UNCHANGED <<acc, cache, manifest, paid, crashes, resumes, spoiled>>
  BY DEF Publish, Durable, bounds
<1>2. mode \in Alive /\ mode \notin {"paying", "charged"} BY <1>1 DEF Alive, Working
<1> HIDE DEF This
<1> QED BY <1>1, <1>2, ThisMade, PublishMoves

\* The event is there after all, and the run cannot tell: a second one follows.
LEMMA SecondKeeps ==
    ASSUME AuditAssumption, AuditInv, mode = "handled", mode' = "second",
           events' = Written(events, st.seq, This), This.ok, Stay,
           UNCHANGED <<cache, manifest, paid, crashes, resumes, spoiled>>,
           st.node \notin {"FinalizeCitations", "PersistResults"}
    PROVE  Keeps
<1> DEFINE w == Workflow
           n == Count
<1>1. /\ EntrySound(events, w, manifest, This, n + 1)
      /\ Before(events, w, n + 1).node # "END" /\ st.seq = n + 1 /\ out.err = "none"
  <2>1. This.ok = (out.err = "none") BY ThisMade
  <2> HIDE DEF This
  <2> QED BY <2>1, ThisMade
<1>2. mode \in Alive /\ mode' \in Alive /\ mode' \notin Publishing BY DEF Alive, Working, Publishing
<1>3. /\ n \in Nat /\ st = Before(events, w, st.seq) /\ st.node # "END"
      /\ ChargedTo(st.total, acc, units, mode \in Publishing /\ out.err # "none")
      /\ CallsOf(st.node, AttemptOf(st), calls)
  BY <1>2, InvNode, InvLog
<1>4. UNCHANGED <<saved, unsaved, st, out, calls, units, acc, why>> BY DEF Stay
<1>5. events' = Written(events, n + 1, This) BY <1>1
<1>6. IsLonger(events', w, n, manifest, This, events, Checkpoints)
  BY <1>1, <1>5, EventRecorded
<1>7. /\ LogSound(events', w, manifest) /\ ManifestSound(events', w, manifest)
      /\ \A s \in Checkpoints : Known(events', w, s)
      /\ Cardinality(DOMAIN events') = n + 1 /\ events'[n + 1] = This
      /\ \A j \in 1 .. n : events'[j] = events[j]
  BY <1>6 DEF IsLonger, Extends
<1>8. Before(events', w, n + 1) = Before(events, w, n + 1)
  <2> DEFINE longer == events'
             i == n + 1
  <2>1. i \in 1 .. (n + 1) /\ \A j \in 1 .. n : longer[j] = events[j] BY <1>3, <1>7
  <2> HIDE DEF longer, i, w, n
  <2>2. Before(longer, w, i) = Before(events, w, i) BY <1>3, <2>1, BeforeSame
  <2> QED BY <2>2 DEF longer, i
<1>9. This' = This BY <1>4 DEF This, Event, Receipt, Attempt, Post
<1>10. Workflow' = w /\ Count' = n + 1 /\ Checkpoints' = Checkpoints /\ Attempt' = AttemptOf(st)
  BY <1>4, <1>7 DEF Workflow, Count, Checkpoints, Attempt, AttemptOf
<1>11. CheckpointsKnown'
  BY <1>4, <1>7, <1>10 DEF CheckpointsKnown, AuditInv
<1>12. NodeSound'
  <2>1. st'.seq \in 1 .. (Count' + 1) BY <1>1, <1>3, <1>4, <1>10
  <2>2. st' = Before(events', w, st'.seq) BY <1>1, <1>3, <1>4, <1>8
  <2>3. ChargedTo(st'.total, acc', units', mode' \in Publishing /\ out'.err # "none")
    BY <1>1, <1>2, <1>3, <1>4 DEF ChargedTo
  <2> HIDE DEF w, n
  <2> QED BY <1>3, <1>4, <1>10, <2>1, <2>2, <2>3 DEF NodeSound
<1>13. AtWork'
  <2>1. why = "none" BY DEF AuditInv, AtWork
  <2>2. FlowLeft(w, st.node, out) BY DEF AuditInv, AtWork
  <2>3. st'.seq = Count' /\ events'[st'.seq] = This' /\ This'.ok
    BY <1>1, <1>4, <1>7, <1>9, <1>10
  <2> HIDE DEF w, n
  <2> QED BY <1>4, <1>10, <2>1, <2>2, <2>3 DEF AtWork, Working
<1>14. CacheSound'
  <2>1. Stops => Stops' BY <1>1, <1>4 DEF Stops, Failing
  <2> QED BY <1>2, <2>1, CacheStays DEF AuditInv
<1>15. RefusedOnlyBehindFailure'
  <2>1. why = "none" BY DEF AuditInv, AtWork
  <2> QED BY <1>4, <2>1 DEF RefusedOnlyBehindFailure
<1>16. Workflow' \in Workflows /\ LogSound(events', Workflow', manifest')
       /\ ManifestSound(events', Workflow', manifest')
  BY <1>7, <1>10 DEF AuditInv
<1>17. JournalStep
  <2> HIDE DEF This
  <2> QED BY <1>1, <1>5 DEF JournalStep, Working
<1> QED BY <1>2, <1>10, <1>11, <1>12, <1>13, <1>14, <1>15, <1>16, <1>17 DEF AuditInv, Keeps

\* PersistResults ends the run without an event of its own, or behind one.
LEMMA EndsUnpublished ==
    ASSUME AuditAssumption, AuditInv, mode = "handled", EndUnpublished,
           LogSound(events', Workflow, manifest'), ManifestSound(events', Workflow, manifest'),
           \A s \in Checkpoints : Known(events', Workflow, s),
           st.seq \in 1 .. (Cardinality(DOMAIN events') + 1),
           UNCHANGED <<cache, paid, crashes, resumes, spoiled>>, JournalStep
    PROVE  Keeps
<1> DEFINE w == Workflow
           r == Raise(out, "PERSIST_RESULTS_FAILED")
           next == [st EXCEPT !.flow = r, !.total = acc, !.node = "END"]
<1>1. mode \in Alive BY DEF Alive, Working
<1>2. IsState(st) /\ FlowLeft(w, st.node, out) BY <1>1, InvNode DEF AuditInv, AtWork
<1>3. IsFlow(r) /\ r.err # "none" /\ r.workflow = w
  BY <1>2, RaiseKeeps DEF FlowLeft
<1>4. next.node = "END" /\ next.flow = r /\ next.seq = st.seq
  <2> HIDE DEF r
  <2> QED BY <1>2 DEF IsState, StateFields
<1>5. Proceed(next) BY DEF EndUnpublished
<1> HIDE DEF next, r
<1>6. /\ unsaved' \in Seq(Range(unsaved')) /\ Checkpoints' \subseteq Checkpoints \cup {next}
      /\ st' = next /\ why' = why /\ mode' = "flush"
  BY <1>4, <1>5, ProceedHands DEF AuditInv, CheckpointsKnown
<1>7. Known(events', w, next) BY <1>3, <1>4 DEF Known, Closed
<1>8. Workflow' = w BY <1>3, <1>4, <1>6 DEF Workflow
<1>9. CheckpointsKnown'
  <2>1. \A s \in Checkpoints' : Known(events', w, s) BY <1>6, <1>7
  <2> QED BY <1>6, <1>8, <2>1 DEF CheckpointsKnown
<1>10. NodeSound' BY <1>6 DEF NodeSound, Alive, Working
<1>11. why = "none" BY DEF AuditInv, AtWork
<1>12. AtWork' BY <1>4, <1>6, <1>11 DEF AtWork, Working
<1>13. CacheSound'
  <2>1. mode' \notin Alive BY <1>6 DEF Alive, Working
  <2> QED BY <2>1, CacheStays DEF AuditInv
<1>14. RefusedOnlyBehindFailure' BY <1>6, <1>11 DEF RefusedOnlyBehindFailure
<1>15. w \in Workflows BY DEF AuditInv
<1> QED BY <1>6, <1>8, <1>9, <1>10, <1>12, <1>13, <1>14, <1>15 DEF AuditInv, Keeps

LEMMA PublishRecoveredKeeps ==
    ASSUME AuditAssumption, AuditInv, PublishRecovered
    PROVE  Keeps
<1>1. /\ mode = "handled" /\ events' = Written(events, st.seq, This)
      /\ UNCHANGED <<cache, manifest, paid, crashes, resumes, spoiled>>
  BY DEF PublishRecovered, Durable, Fault, CallFault
<1>2. mode \in Alive /\ mode \notin {"paying", "charged"} BY <1>1 DEF Alive, Working
<1>3. /\ EntrySound(events, Workflow, manifest, This, Count + 1) /\ This.post.total = acc
      /\ Failing => ~This.ok \/ This.receipt.node = "PersistResults"
      /\ Before(events, Workflow, Count + 1).node # "END" /\ st.seq = Count + 1
  BY <1>1, ThisMade
<1>4. \/ Proceed(After(This)) /\ acc' = acc
      \/ Fail("sink")
      \/ mode' = "second" /\ Stay /\ This.ok
         /\ st.node \notin {"FinalizeCitations", "PersistResults"}
  BY DEF PublishRecovered
<1> HIDE DEF This
<1>5. CASE Proceed(After(This)) /\ acc' = acc
  BY <1>1, <1>2, <1>3, <1>5, PublishMoves
<1>6. CASE Fail("sink")
  BY <1>1, <1>2, <1>3, <1>6, SinkFails
<1>7. CASE mode' = "second" /\ Stay /\ This.ok
           /\ st.node \notin {"FinalizeCitations", "PersistResults"}
  BY <1>1, <1>7, SecondKeeps
<1> QED BY <1>4, <1>5, <1>6, <1>7

LEMMA PublishAbsentKeeps ==
    ASSUME AuditAssumption, AuditInv, PublishAbsent
    PROVE  Keeps
<1>1. /\ mode = "handled" /\ UNCHANGED <<events, cache, manifest, paid, crashes, resumes, spoiled>>
  BY DEF PublishAbsent, Unwritten, Fault, CallFault
<1>2. mode \in Alive /\ mode \notin {"paying", "charged"} BY <1>1 DEF Alive, Working
<1>3. /\ EntrySound(events, Workflow, manifest, This, Count + 1)
      /\ Before(events, Workflow, Count + 1).node # "END" /\ st.seq = Count + 1
  BY <1>1, ThisMade
<1>4. /\ LogSound(events', Workflow, manifest') /\ ManifestSound(events', Workflow, manifest')
      /\ \A s \in Checkpoints : Known(events', Workflow, s)
      /\ LogSound(events, Workflow, manifest') /\ ManifestSound(events, Workflow, manifest')
      /\ JournalStep
  BY <1>1 DEF AuditInv, CheckpointsKnown, JournalStep
<1>5. \/ EndUnpublished
      \/ Fail("sink")
      \/ mode' \in {"replace", "retry"} /\ Stay /\ st.node # "PersistResults"
  BY DEF PublishAbsent
<1> HIDE DEF This
<1>6. CASE EndUnpublished
  <2>1. st.seq \in 1 .. (Cardinality(DOMAIN events') + 1)
    BY <1>1, <1>3, InvLog DEF Count
  <2> QED BY <1>1, <1>4, <1>6, <2>1, EndsUnpublished
<1>7. CASE Fail("sink")
  BY <1>1, <1>2, <1>3, <1>7, SinkFails
<1>8. CASE mode' \in {"replace", "retry"} /\ Stay /\ st.node # "PersistResults"
  <2>1. /\ ChargedTo(st.total, acc, units, mode \in Publishing /\ out.err # "none")
        /\ CallsOf(st.node, AttemptOf(st), calls)
    BY <1>2, InvNode
  <2>2. UNCHANGED <<saved, unsaved, st, out, calls, units, acc, why>> BY <1>8 DEF Stay
  <2>3. NodeSound'
    <3>1. mode \in Publishing /\ mode' \in Publishing BY <1>1, <1>8 DEF Publishing
    <3>2. ChargedTo(st.total, acc', units', mode' \in Publishing /\ out'.err # "none")
      BY <2>1, <2>2, <3>1
    <3> QED BY <1>1, <1>2, <1>8, <2>1, <2>2, <3>2, NodeKept
  <2>4. why = "none" /\ FlowLeft(Workflow, st.node, out) BY <1>1 DEF AuditInv, AtWork
  <2>5. AtWork'
    BY <1>1, <1>3, <1>8, <2>2, <2>4 DEF AtWork, Working, Workflow, Count
  <2>6. CacheSound'
    <3>1. Stops => Stops' BY <1>8, <2>2 DEF Stops, Failing
    <3> QED BY <1>1, <1>2, <3>1, CacheStays DEF AuditInv
  <2>7. mode' \in Alive BY <1>8 DEF Alive, Working
  <2> QED BY <1>1, <1>2, <1>4, <2>2, <2>3, <2>5, <2>6, <2>7, WorkStep
<1> QED BY <1>5, <1>6, <1>7, <1>8

LEMMA PublishUnreadableKeeps ==
    ASSUME AuditAssumption, AuditInv, PublishUnreadable
    PROVE  Keeps
<1>1. /\ mode = "handled" /\ UNCHANGED <<cache, manifest, paid, crashes, resumes, spoiled>>
      /\ events' = Written(events, st.seq, This) \/ events' = events
      /\ EndUnpublished \/ Fail("sink")
  BY DEF PublishUnreadable, Durable, Unwritten, Fault, CallFault
<1>2. mode \in Alive /\ mode \notin {"paying", "charged"} BY <1>1 DEF Alive, Working
<1>3. /\ EntrySound(events, Workflow, manifest, This, Count + 1)
      /\ Before(events, Workflow, Count + 1).node # "END" /\ st.seq = Count + 1
  BY <1>1, ThisMade
<1> HIDE DEF This
<1>4. CASE EndUnpublished
  <2>1. /\ LogSound(events', Workflow, manifest') /\ ManifestSound(events', Workflow, manifest')
        /\ \A s \in Checkpoints : Known(events', Workflow, s)
        /\ Cardinality(DOMAIN events') \in {Count, Count + 1} /\ JournalStep
    <3>1. CASE events' = events
      BY <1>1, <3>1 DEF AuditInv, CheckpointsKnown, Count, JournalStep
    <3>2. CASE events' = Written(events, st.seq, This)
      <4>1. events' = Written(events, Count + 1, This) BY <1>3, <3>2
      <4>2. IsLonger(events', Workflow, Count, manifest, This, events, Checkpoints)
        BY <1>3, <4>1, EventRecorded
      <4>3. JournalStep BY <1>1, <1>3, <4>1 DEF JournalStep, Working
      <4> QED BY <1>1, <4>2, <4>3 DEF IsLonger, Extends
    <3> QED BY <1>1, <3>1, <3>2
  <2>2. st.seq \in 1 .. (Cardinality(DOMAIN events') + 1)
    BY <1>3, <2>1, InvLog
  <2> QED BY <1>1, <1>4, <2>1, <2>2, EndsUnpublished
<1>5. CASE Fail("sink")
  BY <1>1, <1>2, <1>3, <1>5, SinkFails
<1> QED BY <1>1, <1>4, <1>5

LEMMA PublishAgainKeeps ==
    ASSUME AuditAssumption, AuditInv, PublishAgain
    PROVE  Keeps
<1>1. /\ mode \in {"replace", "retry"} /\ UNCHANGED <<acc, cache, manifest, paid, crashes, resumes, spoiled>>
  BY DEF PublishAgain, Durable, bounds
<1>2. mode \in Alive /\ mode \notin {"paying", "charged"} BY <1>1 DEF Alive, Working
<1>3. CASE mode = "retry"
  <2>1. events' = Written(events, st.seq, This) /\ Proceed(After(This))
    BY <1>3 DEF PublishAgain, Durable
  <2> HIDE DEF This
  <2> QED BY <1>1, <1>2, <1>3, <2>1, ThisMade, PublishMoves
<1>4. CASE mode = "replace"
  <2>1. events' = Written(events, st.seq, Replacement) /\ Proceed(After(Replacement))
    BY <1>4 DEF PublishAgain, Durable
  <2> HIDE DEF Replacement
  <2> QED BY <1>1, <1>2, <1>4, <2>1, ReplacementMade, PublishMoves
<1> QED BY <1>1, <1>3, <1>4

LEMMA PublishAgainFailsKeeps ==
    ASSUME AuditAssumption, AuditInv, PublishAgainFails
    PROVE  Keeps
<1>1. /\ mode \in {"replace", "retry"} /\ UNCHANGED <<cache, manifest, paid, crashes, resumes, spoiled>>
      /\ Fail("sink")
  BY DEF PublishAgainFails, Durable, Unwritten, Fault, CallFault
<1>2. mode \in Alive /\ mode \notin {"paying", "charged"} BY <1>1 DEF Alive, Working
<1>3. CASE mode = "retry"
  <2>1. events' = Written(events, st.seq, This) \/ events' = events
    BY <1>3 DEF PublishAgainFails, Durable, Unwritten
  <2> HIDE DEF This
  <2> QED BY <1>1, <1>2, <1>3, <2>1, ThisMade, SinkFails
<1>4. CASE mode = "replace"
  <2>1. events' = Written(events, st.seq, Replacement) \/ events' = events
    BY <1>4 DEF PublishAgainFails, Durable, Unwritten
  <2> HIDE DEF Replacement
  <2> QED BY <1>1, <1>2, <1>4, <2>1, ReplacementMade, SinkFails
<1> QED BY <1>1, <1>3, <1>4

LEMMA PublishBehindKeeps ==
    ASSUME AuditAssumption, AuditInv, PublishBehind
    PROVE  Keeps
<1>1. /\ mode = "second" /\ events' = Written(events, st.seq + 1, Behind)
      /\ Proceed(After(Behind)) /\ UNCHANGED <<acc, cache, manifest, paid, crashes, resumes, spoiled>>
  BY DEF PublishBehind, Durable, bounds
<1>2. mode \in Alive /\ mode \notin {"paying", "charged"} BY <1>1 DEF Alive
<1> HIDE DEF Behind
<1> QED BY <1>1, <1>2, BehindMade, PublishMoves

LEMMA PublishBehindFailsKeeps ==
    ASSUME AuditAssumption, AuditInv, PublishBehindFails
    PROVE  Keeps
<1>1. /\ mode = "second"
      /\ events' = Written(events, st.seq + 1, Behind) \/ events' = events
      /\ Fail("sink") /\ UNCHANGED <<cache, manifest, paid, crashes, resumes, spoiled>>
  BY DEF PublishBehindFails, Durable, Unwritten, Fault, CallFault
<1>2. mode \in Alive /\ mode \notin {"paying", "charged"} BY <1>1 DEF Alive
<1> HIDE DEF Behind
<1> QED BY <1>1, <1>2, BehindMade, SinkFails

-----------------------------------------------------------------------------
(* The end of a run, its death and its resumption. *)

LEMMA FlushKeeps ==
    ASSUME AuditAssumption, AuditInv, Flush
    PROVE  Keeps
<1>1. /\ mode = "flush" /\ mode' = "done" /\ saved' = saved \cup Range(unsaved)
      /\ unsaved' = <<>> /\ UNCHANGED <<events, cache, manifest, paid, st, why, crashes, resumes, spoiled>>
  BY DEF Flush, bounds
<1>2. Checkpoints' = Checkpoints /\ unsaved' \in Seq(Range(unsaved')) /\ Workflow' = Workflow
  BY <1>1, NoCheckpoints DEF Checkpoints, Workflow
<1>3. CheckpointsKnown' BY <1>1, <1>2 DEF CheckpointsKnown, AuditInv
<1>4. NodeSound' BY <1>1 DEF NodeSound, Alive, Working
<1>5. AtWork' BY <1>1 DEF AuditInv, AtWork, Working
<1>6. CacheSound'
  <2>1. mode' \notin Alive BY <1>1 DEF Alive, Working
  <2> QED BY <1>1, <2>1, CacheStays DEF AuditInv
<1>7. RefusedOnlyBehindFailure'
  <2>1. why = "none" BY <1>1 DEF AuditInv, AtWork
  <2> QED BY <1>1, <2>1 DEF RefusedOnlyBehindFailure
<1>8. mode' \in Gone /\ JournalStep BY <1>1 DEF Gone, JournalStep
<1> QED BY <1>1, <1>2, <1>3, <1>4, <1>5, <1>6, <1>7, <1>8 DEF AuditInv, Keeps

\* An event that was not made from the state before it is a node's failure
\* behind its success.
LEMMA NotMadeFrom ==
    ASSUME AuditAssumption, AuditInv, NEW i \in DOMAIN events,
           events[i].input # Before(events, Workflow, i)
    PROVE  \E k \in DOMAIN events :
              /\ k + 1 \in DOMAIN events
              /\ events[k].ok /\ ~events[k + 1].ok
              /\ events[k].receipt.node = events[k + 1].receipt.node
<1> DEFINE w == Workflow
           n == Count
           e == events[i]
           k == i - 1
           d == events[k]
<1>1. /\ n \in Nat /\ DOMAIN events = 1 .. n /\ i \in 1 .. n
      /\ EntrySound(events, w, manifest, e, i) /\ StateSound(events, w, i)
  BY InvLog
<1>2. IsBehind(events, w, e, i) /\ e.input.node = e.receipt.node
  BY <1>1 DEF EntrySound
<1>3. /\ i # 1 /\ d.ok /\ ~e.ok
      /\ e.input = [Before(events, w, i) EXCEPT !.node = d.receipt.node]
  BY <1>2 DEF IsBehind
<1>4. k \in DOMAIN events /\ k + 1 = i BY <1>1, <1>3
<1>5. IsState(Before(events, w, i)) BY <1>1 DEF StateSound
<1>6. e.input.node = d.receipt.node
  <2> HIDE DEF d, e, w
  <2> QED BY <1>3, <1>5 DEF IsState, StateFields
<1> QED BY <1>1, <1>2, <1>3, <1>4, <1>6

LEMMA RecoverKeeps ==
    ASSUME AuditAssumption, AuditInv, Recover
    PROVE  Keeps
<1> DEFINE i == st.seq
           e == events[i]
           Taken == /\ e.receipt.node = st.node /\ MadeFrom(e, st)
                    /\ acc + Replayed(e) = e.post.total
<1>1. /\ mode = "enter" /\ i \in DOMAIN events
      /\ UNCHANGED <<events, cache, manifest, paid, crashes, resumes, spoiled>>
      /\ IF Taken THEN Proceed(After(e)) /\ acc' = acc + Replayed(e) ELSE Fail("stuck")
  BY DEF Recover, bounds
<1>2. mode \in Alive BY <1>1 DEF Alive
<1>3. /\ st = Before(events, Workflow, i) /\ acc = st.total
      /\ i \in 1 .. Count /\ Count \in Nat /\ Count = Cardinality(DOMAIN events)
      /\ EntrySound(events, Workflow, manifest, e, i)
      /\ Before(events, Workflow, i + 1) = After(e)
  BY <1>1, <1>2, InvNode, InvLog DEF Count
<1>4. /\ LogSound(events', Workflow, manifest') /\ ManifestSound(events', Workflow, manifest')
      /\ JournalStep /\ \A s \in Checkpoints : Known(events', Workflow, s)
  BY <1>1 DEF AuditInv, CheckpointsKnown, JournalStep
<1>5. CASE Taken
  <2>1. Proceed(After(e)) /\ acc' = e.post.total /\ e.post.total = acc + e.units
    BY <1>1, <1>5 DEF Replayed
  <2>2. After(e).total = e.post.total
    <3>1. IsState(e.post) BY <1>3 DEF EntrySound
    <3> HIDE DEF e
    <3> QED BY <3>1, StateFieldsOf
  <2>5. Stops => After(e).node = "END" \/ After(e).total > Budget
    <3>1. st.flow.err # "none" => st.node = "PersistResults" BY <1>2, InvNode DEF FlowRead
    <3>2. e.receipt.node = "PersistResults" => After(e).node = "END"
      <4>1. Workflow \in {"baseline-v1", "research-v1"} BY InvLog
      <4>2. EntrySound(events, Workflow, manifest, e, i) BY <1>3
      <4> HIDE DEF e, i
      <4> QED BY <4>1, <4>2, PersistEnds
    <3>3. Failing => After(e).node = "END" BY <1>1, <1>5, <3>1, <3>2 DEF Failing
    <3>4. e.units \in Nat /\ acc \in Nat /\ Budget \in Nat
      <4>1. e.units \in Billed /\ Billed \subseteq Nat BY <1>3, InvLog DEF EntrySound, ChargedTo
      <4> QED BY <1>2, <4>1, InvNode DEF AuditAssumption
    <3>5. acc > Budget => After(e).total > Budget
      <4> HIDE DEF e
      <4> QED BY <2>1, <2>2, <3>4
    <3> QED BY <3>3, <3>5 DEF Stops
  <2>3. i + 1 \in 1 .. (Cardinality(DOMAIN events') + 1) BY <1>1, <1>3
  <2>4. After(e) = Before(events', Workflow, i + 1) BY <1>1, <1>3
  <2> HIDE DEF e, i
  <2> QED BY <1>1, <1>2, <1>4, <2>1, <2>2, <2>3, <2>4, <2>5, MovesOn
<1>6. CASE ~Taken
  <2>1. LosesProcess /\ mode' = "raised" BY <1>1, <1>6 DEF Fail
  <2>2. e.input # st \/ Unreceipted(e)
    <3> SUFFICES ASSUME e.input = st, ~Unreceipted(e) PROVE Taken BY <1>6
    <3>1. e.receipt.node = st.node BY <1>3 DEF EntrySound
    <3>2. e.post.total = st.total + e.units BY DEF Unreceipted
    <3> QED BY <1>3, <3>1, <3>2 DEF MadeFrom, Replayed
  <2>3. RefusedOnlyBehindFailure'
    <3>1. CASE e.input # st
      BY <1>1, <1>3, <3>1, NotMadeFrom DEF RefusedOnlyBehindFailure
    <3>2. CASE Unreceipted(e)
      <4>1. events'[i] = e /\ i \in DOMAIN events' BY <1>1
      <4>2. Unreceipted(events'[i]) BY <3>2, <4>1
      <4> QED BY <4>1, <4>2 DEF RefusedOnlyBehindFailure
    <3> QED BY <2>2, <3>1, <3>2
  <2>4. CacheSound'
    <3>1. mode' \notin Alive BY <2>1 DEF Alive, Working
    <3> QED BY <1>1, <3>1, CacheStays DEF AuditInv
  <2> QED BY <1>4, <2>1, <2>3, <2>4, GoesDown
<1> QED BY <1>5, <1>6

LEMMA LookupFailsKeeps ==
    ASSUME AuditAssumption, AuditInv, NEW reason, reason # "stuck", mode = "enter", Fail(reason),
           UNCHANGED <<events, cache, manifest, paid, crashes, resumes, spoiled>>
    PROVE  Keeps
<1>1. LosesProcess /\ mode' = "raised" /\ why' = reason BY DEF Fail
<1>2. /\ LogSound(events', Workflow, manifest') /\ ManifestSound(events', Workflow, manifest')
      /\ JournalStep /\ \A s \in Checkpoints : Known(events', Workflow, s)
  BY DEF AuditInv, CheckpointsKnown, JournalStep
<1>3. CacheSound'
  <2>1. mode' \notin Alive BY <1>1 DEF Alive, Working
  <2> QED BY <2>1, CacheStays DEF AuditInv
<1>4. RefusedOnlyBehindFailure' BY <1>1 DEF RefusedOnlyBehindFailure
<1> QED BY <1>1, <1>2, <1>3, <1>4, GoesDown

LEMMA CrashKeeps ==
    ASSUME AuditAssumption, AuditInv, Crash
    PROVE  Keeps
<1>1. /\ mode \notin {"down", "raised", "done"} /\ mode' = "down" /\ crashes' = crashes + 1
      /\ LosesProcess /\ UNCHANGED <<events, cache, manifest, paid, why, resumes, spoiled>>
  BY DEF Crash
<1>2. /\ LogSound(events', Workflow, manifest') /\ ManifestSound(events', Workflow, manifest')
      /\ JournalStep /\ \A s \in Checkpoints : Known(events', Workflow, s)
  BY <1>1 DEF AuditInv, CheckpointsKnown, JournalStep
<1>3. CacheSound'
  <2>1. CacheSound BY DEF AuditInv
  <2>2. Cardinality(DOMAIN cache) \in Nat BY <2>1, FS_CardinalityType DEF CacheSound
  <2>3. CallPaidAgainForCause' BY <1>1, <2>1, <2>2 DEF CacheSound, CallPaidAgainForCause
  <2>4. Halted' BY <1>1 DEF Halted, Alive, Working
  <2> QED BY <1>1, <2>1, <2>3, <2>4 DEF CacheSound
<1>4. why' = "none" BY <1>1 DEF AuditInv, AtWork
<1>5. RefusedOnlyBehindFailure' BY <1>4 DEF RefusedOnlyBehindFailure
<1> QED BY <1>1, <1>2, <1>3, <1>4, <1>5, GoesDown

\* A run is taken up at a checkpoint that was written.
LEMMA TakenUp ==
    ASSUME AuditAssumption, AuditInv, NEW c \in saved, mode \in Gone,
           st' = c, acc' = c.total, calls' = {}, units' = 0, unsaved' = <<>>,
           UNCHANGED <<events, saved, cache, manifest, paid, crashes, spoiled>>,
           resumes' = resumes + 1,
           mode' \in {"raised", "enter", "flush"},
           mode' = "enter" => c.node # "END", mode' = "flush" => c.node = "END",
           mode' # "raised" => why' = "none", RefusedOnlyBehindFailure'
    PROVE  Keeps
<1> DEFINE w == Workflow
<1>1. c \in Checkpoints /\ Known(events, w, c) BY DEF Checkpoints, AuditInv, CheckpointsKnown
<1>2. /\ w \in {"baseline-v1", "research-v1"} /\ LogSound(events, w, manifest)
      /\ Count \in Nat
  BY InvLog
<1>3. /\ c.flow.workflow = w /\ c.seq \in 1 .. (Count + 1)
      /\ c.node # "END" => c = Before(events, w, c.seq)
  <2> HIDE DEF w
  <2> QED BY <1>1, <1>2, KnownWorkflow DEF Count
<1>4. Workflow' = w BY <1>3 DEF Workflow
<1>5. CheckpointsKnown'
  <2>1. Checkpoints' \subseteq Checkpoints BY <1>1, NoCheckpoints DEF Checkpoints
  <2>2. \A s \in Checkpoints' : Known(events', w, s)
    BY <2>1 DEF AuditInv, CheckpointsKnown
  <2> QED BY <1>4, <2>2, NoCheckpoints DEF CheckpointsKnown
<1>6. NodeSound'
  <2> SUFFICES ASSUME mode' = "enter" PROVE NodeSound'
    BY DEF NodeSound, Alive, Working
  <2>1. c = Before(events, w, c.seq) /\ c.node # "END" BY <1>3
  <2>2. StateSound(events, w, c.seq) BY <1>3, InvLog
  <2>3. c.total \in Nat
    <3> DEFINE b == Before(events, w, c.seq)
    <3>1. b.total \in Nat BY <2>2 DEF StateSound
    <3> QED BY <2>1, <3>1
  <2>4. CallsOf(st'.node, Attempt', {}) BY FS_EmptySet DEF CallsOf
  <2>5. ASSUME NEW failed PROVE ChargedTo(st'.total, acc', units', failed)
    BY <2>3 DEF ChargedTo, Billed
  <2>6. st'.seq \in 1 .. (Count' + 1) /\ st' = Before(events', w, st'.seq) /\ st'.node # "END"
    BY <1>3, <2>1 DEF Count
  <2> HIDE DEF w
  <2> QED BY <1>4, <2>4, <2>5, <2>6 DEF NodeSound
<1>7. AtWork' BY DEF AtWork, Working
<1>8. CacheSound'
  <2>1. mode \notin {"paying", "charged"} BY DEF Gone
  <2>2. CacheSound BY DEF AuditInv
  <2>3. Cardinality(DOMAIN cache) \in Nat BY <2>2, FS_CardinalityType DEF CacheSound
  <2>4. CallPaidAgainForCause' /\ spoiled' <= resumes'
    BY <2>1, <2>2, <2>3 DEF CacheSound, CallPaidAgainForCause
  <2> QED BY <2>2, <2>4 DEF CacheSound, Halted
<1>9. mode' \in Alive \cup Gone \cup {"flush"} BY DEF Alive, Gone
<1>10. w \in Workflows /\ ManifestSound(events, w, manifest) /\ JournalStep
  BY DEF AuditInv, JournalStep
<1> QED BY <1>2, <1>4, <1>5, <1>6, <1>7, <1>8, <1>9, <1>10 DEF AuditInv, Keeps

LEMMA ResumeKeeps ==
    ASSUME AuditAssumption, AuditInv, NEW c \in saved, Resume(c)
    PROVE  Keeps
<1>1. /\ mode \in Gone /\ st' = c /\ acc' = c.total /\ calls' = {} /\ unsaved' = <<>>
      /\ UNCHANGED <<events, saved, cache, manifest, paid, crashes, spoiled>>
      /\ units' = 0 /\ resumes' = resumes + 1
  BY DEF Resume, Gone, durable
<1>2. Known(events, Workflow, c) BY DEF Checkpoints, AuditInv, CheckpointsKnown
<1>3. c.node # "END" => c = Before(events, Workflow, c.seq)
  BY <1>2, InvLog, KnownWorkflow
<1>4. CASE c.seq \in DOMAIN events /\ ~MadeFrom(events[c.seq], c)
  <2>1. mode' = "raised" /\ why' = (IF c.node = "END" THEN "ended" ELSE "stuck")
    BY <1>4 DEF Resume
  <2>2. RefusedOnlyBehindFailure'
    <3>1. CASE c.node = "END"
      BY <2>1, <3>1 DEF RefusedOnlyBehindFailure
    <3>2. CASE c.node # "END"
      BY <1>1, <1>3, <1>4, <3>2, NotMadeFrom DEF RefusedOnlyBehindFailure, MadeFrom
    <3> QED BY <3>1, <3>2
  <2> QED BY <1>1, <2>1, <2>2, TakenUp
<1>5. CASE ~(c.seq \in DOMAIN events /\ ~MadeFrom(events[c.seq], c))
  <2>1. mode' = (IF c.node = "END" THEN "flush" ELSE "enter") /\ why' = "none"
    BY <1>5 DEF Resume
  <2>2. RefusedOnlyBehindFailure' BY <2>1 DEF RefusedOnlyBehindFailure
  <2> QED BY <1>1, <2>1, <2>2, TakenUp
<1> QED BY <1>4, <1>5

LEMMA ResumeRunKeeps ==
    ASSUME AuditAssumption, AuditInv, NEW c \in saved, mode \in Gone, ResumeRun(c)
    PROVE  Keeps
<1>1. CASE c.seq \in torn
  <2>1. /\ st' = c /\ acc' = c.total /\ calls' = {} /\ unsaved' = <<>>
        /\ UNCHANGED <<events, saved, cache, manifest, paid, crashes, spoiled>>
        /\ units' = 0 /\ resumes' = resumes + 1
        /\ mode' = "raised" /\ why' = "torn"
    BY <1>1 DEF ResumeRun, durable
  <2>2. RefusedOnlyBehindFailure' BY <2>1 DEF RefusedOnlyBehindFailure
  <2> QED BY <2>1, <2>2, TakenUp
<1>2. CASE c.seq \notin torn
  BY <1>2, ResumeKeeps DEF ResumeRun
<1> QED BY <1>1, <1>2

-----------------------------------------------------------------------------
(* The whole of the envelope. *)

LEMMA StepKeeps ==
    ASSUME AuditAssumption, AuditInv, Process \/ Faults
    PROVE  Keeps
<1>1. CASE Process
  <2>1. CASE Flush BY <2>1, FlushKeeps
  <2>2. CASE Recover BY <2>2, RecoverKeeps
  <2>3. CASE CallCached BY <2>3, CallCachedKeeps
  <2>4. CASE CallRefused BY <2>4, CallRefusedKeeps
  <2>5. CASE CallProvider BY <2>5, CallProviderKeeps
  <2>6. CASE CallSettled BY <2>6, CallSettledKeeps
  <2>7. CASE CallStored BY <2>7, CallStoredKeeps
  <2>8. CASE Handle BY <2>8, HandleKeeps
  <2>9. CASE PersistHandler BY <2>9, PersistHandlerKeeps
  <2>10. CASE Publish BY <2>10, PublishKeeps
  <2>11. CASE PublishAgain BY <2>11, PublishAgainKeeps
  <2>12. CASE PublishBehind BY <2>12, PublishBehindKeeps
  <2>13. CASE CallOverdraws BY <2>13, CallOverdrawsKeeps
  <2> QED BY <1>1, <2>1, <2>2, <2>3, <2>4, <2>5, <2>6, <2>7, <2>8, <2>9, <2>10, <2>11, <2>12, <2>13
          DEF Process
<1>2. CASE Faults
  <2>1. CASE LookupFails
    <3>1. /\ mode = "enter" /\ Fail("sink")
          /\ UNCHANGED <<events, cache, manifest, paid, crashes, resumes, spoiled>>
      BY <2>1 DEF LookupFails, Fault, CallFault
    <3> QED BY <3>1, LookupFailsKeeps
  <2>2. CASE CallFails BY <2>2, CallFailsKeeps
  <2>3. CASE HandlerFails BY <2>3, HandlerFailsKeeps
  <2>4. CASE PersistFails BY <2>4, PersistFailsKeeps
  <2>5. CASE PublishRecovered BY <2>5, PublishRecoveredKeeps
  <2>6. CASE PublishAbsent BY <2>6, PublishAbsentKeeps
  <2>7. CASE PublishUnreadable BY <2>7, PublishUnreadableKeeps
  <2>8. CASE PublishAgainFails BY <2>8, PublishAgainFailsKeeps
  <2>9. CASE PublishBehindFails BY <2>9, PublishBehindFailsKeeps
  <2>10. CASE ReceiptFails BY <2>10, ReceiptFailsKeeps
  <2>11. CASE CallUnstored BY <2>11, CallUnstoredKeeps
  <2> QED BY <1>2, <2>1, <2>2, <2>3, <2>4, <2>5, <2>6, <2>7, <2>8, <2>9, <2>10, <2>11 DEF Faults
<1> QED BY <1>1, <1>2

\* A node starts to work where no event is recorded yet.
LEMMA StepEnters ==
    ASSUME Process \/ Faults, mode' \in Working \cup {"second"}
    PROVE  mode \in Working \cup {"second"} \/ (mode = "enter" /\ st.seq \notin DOMAIN events)
<1> DEFINE Here == mode \in Working \cup {"second"} \/ (mode = "enter" /\ st.seq \notin DOMAIN events)
<1>1. ASSUME NEW next, Proceed(next) PROVE FALSE
  <2>1. mode' \in {"flush", "enter"} BY <1>1 DEF Proceed
  <2> QED BY <2>1 DEF Working
<1>2. ASSUME NEW reason, Fail(reason) PROVE FALSE
  <2>1. mode' = "raised" BY <1>2 DEF Fail
  <2> QED BY <2>1 DEF Working
<1>3. Entered \/ mode \in Working \/ mode = "second" => Here BY DEF Entered
<1>4. CASE Process
  <2>1. CASE Flush BY <2>1 DEF Flush, Working
  <2>2. CASE Recover BY <1>1, <1>2, <2>2 DEF Recover
  <2>3. CASE CallCached \/ CallRefused \/ CallProvider
    BY <1>3, <2>3 DEF CallCached, CallRefused, CallProvider, Calling
  <2>4. CASE CallSettled \/ CallOverdraws \/ CallStored
    BY <1>3, <2>4 DEF CallSettled, CallOverdraws, CallStored, Working
  <2>5. CASE Handle BY <1>3, <2>5 DEF Handle, Running, Working
  <2>6. CASE PersistHandler BY <1>3, <2>6 DEF PersistHandler, Persisting
  <2>7. CASE Publish BY <1>3, <2>7 DEF Publish, Working
  <2>8. CASE PublishAgain BY <1>3, <2>8 DEF PublishAgain, Working
  <2>9. CASE PublishBehind BY <1>3, <2>9 DEF PublishBehind
  <2> HIDE DEF Here
  <2> QED BY <1>4, <2>1, <2>2, <2>3, <2>4, <2>5, <2>6, <2>7, <2>8, <2>9 DEF Process
<1>5. CASE Faults
  <2>1. CASE LookupFails BY <1>2, <2>1 DEF LookupFails
  <2>2. CASE CallFails \/ ReceiptFails \/ CallUnstored
    BY <1>3, <2>2 DEF CallFails, ReceiptFails, CallUnstored, Working
  <2>3. CASE HandlerFails BY <1>3, <2>3 DEF HandlerFails, Running, Working
  <2>4. CASE PersistFails BY <1>3, <2>4 DEF PersistFails, Persisting
  <2>5. CASE PublishRecovered \/ PublishAbsent \/ PublishUnreadable
    BY <1>3, <2>5 DEF PublishRecovered, PublishAbsent, PublishUnreadable, Working
  <2>6. CASE PublishAgainFails BY <1>3, <2>6 DEF PublishAgainFails, Working
  <2>7. CASE PublishBehindFails BY <1>3, <2>7 DEF PublishBehindFails
  <2> HIDE DEF Here
  <2> QED BY <1>5, <2>1, <2>2, <2>3, <2>4, <2>5, <2>6, <2>7 DEF Faults
<1> QED BY <1>4, <1>5

LEMMA AuditInit ==
    ASSUME AuditAssumption, Init
    PROVE  AuditInv
<1>1. PICK w \in Workflows :
        st = InitialState(w) /\ unsaved = <<InitialState(w)>> /\ out = InitialFlow(w)
  BY DEF Init
<1>2. /\ events = <<>> /\ saved = {} /\ cache = <<>> /\ manifest = 0 /\ paid = 0
      /\ mode = "enter" /\ calls = {} /\ units = 0 /\ acc = 0 /\ why = "none"
      /\ crashes = 0 /\ resumes = 0 /\ spoiled = 0
  BY DEF Init
<1>3. Workflow = w /\ st.node = "ValidateRequest" /\ st.seq = 1 /\ st.total = 0
  BY <1>1 DEF Workflow, InitialState, InitialFlow
<1>4. w \in {"baseline-v1", "research-v1"} BY DEF AuditAssumption
<1>5. DOMAIN events = {} /\ IsFiniteSet({}) /\ Cardinality({}) = 0 /\ Count = 0
  BY <1>2, FS_EmptySet DEF Count
<1>6. LogSound(events, w, manifest) /\ ManifestSound(events, w, manifest)
  <2>1. StateSound(events, w, 1) BY <1>4, <1>5, InitialSound
  <2>2. \A i \in 1 .. Cardinality(DOMAIN events) + 1 : i = 1 BY <1>5
  <2>3. {} = 1 .. 0 OBVIOUS
  <2> QED BY <1>2, <1>5, <2>1, <2>2, <2>3 DEF LogSound, ManifestSound
<1>7. Known(events, w, st)
  <2>1. st = Before(events, w, 1) BY <1>1 DEF Before
  <2>2. 1 \in 1 .. Cardinality(DOMAIN events) + 1 BY <1>5
  <2> QED BY <2>1, <2>2 DEF Known
<1>8. CheckpointsKnown
  <2>1. Range(unsaved) = {st} BY <1>1 DEF Range
  <2>2. unsaved \in Seq(Range(unsaved)) BY <1>1, <2>1
  <2> QED BY <1>2, <1>3, <1>7, <2>1, <2>2 DEF CheckpointsKnown, Checkpoints
<1>9. NodeSound
  <2>1. st = Before(events, w, st.seq) BY <1>1, <1>3 DEF Before
  <2>2. CallsOf(st.node, Attempt, calls) BY <1>2, <1>5 DEF CallsOf
  <2>3. ASSUME NEW failed PROVE ChargedTo(st.total, acc, units, failed)
    BY <1>2, <1>3 DEF ChargedTo, Billed
  <2> QED BY <1>2, <1>3, <1>4, <1>5, <2>1, <2>2, <2>3 DEF NodeSound
<1>10. AtWork BY <1>2 DEF AtWork, Working
<1>11. CacheSound
  <2>1. DOMAIN cache = {} BY <1>2
  <2>2. CallPaidAgainForCause BY <1>2, <1>5, <2>1 DEF CallPaidAgainForCause
  <2>3. Halted BY <1>2 DEF Halted
  <2> QED BY <1>2, <1>5, <2>1, <2>2, <2>3 DEF CacheSound
<1>12. RefusedOnlyBehindFailure BY <1>2 DEF RefusedOnlyBehindFailure
<1>13. mode \in Alive BY <1>2 DEF Alive
<1> QED BY <1>3, <1>6, <1>8, <1>9, <1>10, <1>11, <1>12, <1>13 DEF AuditInv

-----------------------------------------------------------------------------
(* The command around the run. *)

LEMMA EndIsLast ==
    ASSUME AuditAssumption, AuditInv, RunEnded
    PROVE  Before(events, Workflow, Count + 1).node = "END"
<1> DEFINE w == Workflow
           n == Count
<1>1. /\ w \in {"baseline-v1", "research-v1"} /\ n \in Nat /\ DOMAIN events = 1 .. n
      /\ LogSound(events, w, manifest)
  BY InvLog
<1>2. n # 0 /\ events[n].receipt.node = "PersistResults" BY DEF RunEnded
<1>3. n \in 1 .. n BY <1>1, <1>2
<1> HIDE DEF w, n
<1>4. events[n].receipt.node = "PersistResults" <=> Before(events, w, n + 1).node = "END"
  BY <1>1, <1>3, PersistIsLast
<1>5. Before(events, w, n + 1).node = "END" BY <1>2, <1>4
<1> QED BY <1>5 DEF w, n

\* Nothing is recorded behind the end of a run.
LEMMA EndKept ==
    ASSUME AuditAssumption, AuditInv, RunEnded, JournalStep
    PROVE  UNCHANGED <<events, manifest>>
BY EndIsLast DEF JournalStep

LEMMA TornKept ==
    ASSUME AuditAssumption, AuditInv, TornSound, JournalStep
    PROVE  torn \subseteq {Count' + 1}
<1>1. CASE events' = events BY <1>1 DEF TornSound, Count
<1>2. CASE mode \in Working \cup {"second"} BY <1>2 DEF TornSound
<1> QED BY <1>1, <1>2 DEF JournalStep

LEMMA PlacesKept ==
    ASSUME AuditAssumption, AuditInv, PlacesSound, JournalStep, Workflow' = Workflow,
           places' = places
    PROVE  PlacesSound'
<1> SUFFICES ASSUME Published # {} PROVE PlacesSound'
  BY DEF PlacesSound, Published
<1>1. RunEnded BY DEF PlacesSound
<1>2. UNCHANGED <<events, manifest>> BY <1>1, EndKept
<1>3. Count' = Count /\ Published' = Published BY <1>2 DEF Count, Published
<1> QED BY <1>2, <1>3 DEF PlacesSound, RunEnded

\* The run stands still, or dies behind its end.
LEMMA NoGraphStep ==
    ASSUME AuditInv, UNCHANGED <<durable, process, resumes, spoiled>>,
           crashes' \in {crashes, crashes + 1}
    PROVE  AuditInv' /\ Workflow' = Workflow /\ JournalStep /\ Count' = Count
<1>1. /\ UNCHANGED <<events, saved, cache, manifest, paid, mode, st, out, calls, units, acc>>
      /\ UNCHANGED <<unsaved, why>>
  BY DEF durable, process
<1>2. Workflow' = Workflow /\ Count' = Count /\ Checkpoints' = Checkpoints /\ JournalStep
      /\ Attempt' = Attempt /\ CallInput' = CallInput /\ This' = This
  BY <1>1 DEF Workflow, Count, Checkpoints, JournalStep, Attempt, CallInput, This, Event,
              Receipt, Post
<1>3. CheckpointsKnown' BY <1>1, <1>2 DEF AuditInv, CheckpointsKnown
<1>4. NodeSound' BY <1>1, <1>2 DEF AuditInv, NodeSound
<1>5. AtWork'
  <2> HIDE DEF This, CallInput
  <2> QED BY <1>1, <1>2 DEF AuditInv, AtWork
<1>6. CacheSound'
  <2>1. CacheSound BY DEF AuditInv
  <2>2. Cardinality(DOMAIN cache) \in Nat BY <2>1, FS_CardinalityType DEF CacheSound
  <2>3. CallPaidAgainForCause' BY <1>1, <2>1, <2>2 DEF CacheSound, CallPaidAgainForCause
  <2>4. Halted' BY <1>1, <2>1 DEF CacheSound, Halted, Stops, Failing
  <2> QED BY <1>1, <2>1, <2>3, <2>4 DEF CacheSound
<1>7. RefusedOnlyBehindFailure' BY <1>1 DEF AuditInv, RefusedOnlyBehindFailure, Unreceipted
<1> QED BY <1>1, <1>2, <1>3, <1>4, <1>5, <1>6, <1>7 DEF AuditInv

\* A completed run has recorded its end, and the manifest over the rest.
LEMMA CompletedRun ==
    ASSUME AuditAssumption, AuditInv, mode = "done", HostedHere, ResultOf(st.flow) = "completed"
    PROVE  /\ RunEnded /\ manifest = Count - 1 /\ Workflow = "baseline-v1"
           /\ st.flow = events[Count].post.flow
<1> DEFINE w == Workflow
           n == Count
<1>1. /\ w \in {"baseline-v1", "research-v1"} /\ n \in Nat /\ DOMAIN events = 1 .. n
      /\ LogSound(events, w, manifest)
      /\ \A j \in 1 .. n : EntrySound(events, w, manifest, events[j], j)
      /\ \A j \in 1 .. n : Before(events, w, j + 1) = After(events[j])
      /\ \A j \in 1 .. (n + 1) : StateSound(events, w, j)
  BY InvLog
<1>2. st.node = "END" BY DEF AuditInv, AtWork
<1>3. st.flow.err = "none" BY DEF ResultOf
<1>4. Known(events, w, st) BY DEF AuditInv, CheckpointsKnown, Checkpoints
<1>5. st.seq \in 1 .. (n + 1) /\ st = Before(events, w, st.seq)
  <2> HIDE DEF w
  <2> QED BY <1>1, <1>2, <1>3, <1>4, KnownWorkflow DEF n, Count
<1>6. st.seq = n + 1
  <2> SUFFICES ASSUME st.seq \in DOMAIN events PROVE FALSE BY <1>1, <1>5
  <2>1. StateSound(events, w, st.seq) BY <1>1, <1>5
  <2>2. Before(events, w, st.seq).node # "END" BY <2>1 DEF StateSound
  <2> QED BY <1>2, <1>5, <2>2
<1>7. n # 0
  <2> SUFFICES ASSUME n = 0 PROVE FALSE OBVIOUS
  <2>1. st = InitialState(w) BY <1>5, <1>6 DEF Before
  <2> QED BY <1>2, <2>1 DEF InitialState
<1> DEFINE e == events[n]
<1>8. n \in 1 .. n /\ EntrySound(events, w, manifest, e, n) /\ st = After(e)
  BY <1>1, <1>5, <1>6, <1>7
<1>9. e.receipt.node = "PersistResults"
  <2>1. Before(events, w, n + 1).node = "END" BY <1>2, <1>5, <1>6
  <2> HIDE DEF w, n
  <2> QED BY <1>1, <1>8, <2>1, PersistIsLast DEF e
<1>10. st.flow = e.post.flow
  <2>1. IsState(e.post) BY <1>8 DEF EntrySound
  <2> HIDE DEF e
  <2> QED BY <1>8, <2>1, StateFieldsOf
<1>11. e.ok /\ manifest = n - 1
  <2>1. e.ok = (e.post.flow.err = "none") /\ (e.receipt.node = "PersistResults" /\ e.ok => manifest = n - 1)
    BY <1>8 DEF EntrySound
  <2>2. e.post.flow.err = "none" BY <1>3, <1>10
  <2> HIDE DEF e
  <2>3. e.ok BY <2>1, <2>2
  <2> QED BY <1>9, <2>1, <2>3
<1>12. Workflow = "baseline-v1" BY DEF HostedHere, Workflow
<1> QED BY <1>7, <1>9, <1>10, <1>11, <1>12 DEF RunEnded

LEMMA SourcesKept ==
    ASSUME SourcesSound, header' = header, using' \in Admitted[header],
           answered' \subseteq answered \cup {using}
    PROVE  SourcesSound'
BY DEF SourcesSound

LEMMA GraphStepKeeps ==
    ASSUME AuditAssumption, CommandInv, GraphStep
    PROVE  CommandInv'
<1>1. /\ stage = "graph" /\ ~Corrupt /\ (Process \/ Faults)
      /\ UNCHANGED <<torn, stage, places, header, using>>
      /\ answered' \subseteq answered \cup {using}
  BY DEF GraphStep, command
<1>2. AuditInv /\ TornSound /\ PlacesSound /\ SourcesSound /\ DOMAIN places = Dests
  BY DEF CommandInv
<1>3. AuditInv' /\ Workflow' = Workflow /\ JournalStep
  BY <1>1, <1>2, StepKeeps DEF Keeps
<1>4. TornSound'
  <2>1. torn' \subseteq {Count' + 1} BY <1>1, <1>2, <1>3, TornKept
  <2>2. ASSUME mode' \in Working \cup {"second"} PROVE torn = {}
    <3>1. CASE mode \in Working \cup {"second"} BY <1>2, <3>1 DEF TornSound
    <3>2. CASE mode = "enter" /\ st.seq \notin DOMAIN events
      <4>1. mode \in Alive /\ Entered BY <3>2 DEF Alive, Entered
      <4>2. st.seq = Count + 1 BY <1>2, <4>1, InvNode
      <4>3. st.seq \notin torn BY <1>1, <3>2 DEF Corrupt
      <4> QED BY <1>2, <4>2, <4>3 DEF TornSound
    <3> QED BY <1>1, <2>2, <3>1, <3>2, StepEnters
  <2> QED BY <1>1, <2>1, <2>2 DEF TornSound
<1>5. PlacesSound' BY <1>1, <1>2, <1>3, PlacesKept
<1>6. SourcesSound' BY <1>1, <1>2, SourcesKept DEF SourcesSound
<1>7. StageSound' BY <1>1 DEF StageSound
<1> QED BY <1>1, <1>2, <1>3, <1>4, <1>5, <1>6, <1>7 DEF CommandInv

\* A step that does not run the graph.
LEMMA StillKeeps ==
    ASSUME AuditAssumption, CommandInv, UNCHANGED <<durable, process, torn, header, using, answered>>,
           UNCHANGED <<resumes, spoiled>>, crashes' \in {crashes, crashes + 1},
           DOMAIN places' = Dests, PlacesSound', StageSound'
    PROVE  CommandInv'
<1>1. AuditInv' /\ Count' = Count BY NoGraphStep DEF CommandInv
<1>2. TornSound' BY <1>1 DEF CommandInv, TornSound, process
<1>3. SourcesSound' BY DEF CommandInv, SourcesSound
<1> QED BY <1>1, <1>2, <1>3 DEF CommandInv

LEMMA PlacesStill ==
    ASSUME AuditAssumption, CommandInv, UNCHANGED <<durable, process, places>>,
           UNCHANGED <<resumes, spoiled>>, crashes' \in {crashes, crashes + 1}
    PROVE  DOMAIN places' = Dests /\ PlacesSound'
<1>1. AuditInv /\ PlacesSound /\ DOMAIN places = Dests BY DEF CommandInv
<1>2. JournalStep /\ Workflow' = Workflow BY <1>1, NoGraphStep
<1> QED BY <1>1, <1>2, PlacesKept

\* The process or the run ends in the graph.
LEMMA DownKeeps ==
    ASSUME AuditAssumption, CommandInv, Keeps, UNCHANGED <<events, manifest, places, header, using, answered>>,
           torn' \subseteq {Count + 1}, mode' \in {"raised", "down", "enter", "flush"}, StageSound'
    PROVE  CommandInv'
<1>1. AuditInv' /\ Workflow' = Workflow /\ JournalStep BY DEF Keeps
<1>2. Count' = Count BY DEF Count
<1>3. TornSound' BY <1>2 DEF TornSound, Working
<1>4. PlacesSound' BY <1>1, PlacesKept DEF CommandInv
<1>5. SourcesSound' BY DEF CommandInv, SourcesSound
<1> QED BY <1>1, <1>3, <1>4, <1>5 DEF CommandInv

LEMMA LookupCorruptKeeps ==
    ASSUME AuditAssumption, CommandInv, LookupCorrupt
    PROVE  CommandInv'
<1>1. /\ stage = "graph" /\ mode = "enter" /\ Fail("torn") /\ mode' = "raised"
      /\ UNCHANGED <<events, cache, manifest, paid, crashes, resumes, spoiled>>
      /\ UNCHANGED <<torn, stage, places, header, using, answered>>
  BY DEF LookupCorrupt, Corrupt, Fail, bounds, command, inputs
<1>2. AuditInv BY DEF CommandInv
<1>3. Keeps BY <1>1, <1>2, LookupFailsKeeps
<1>4. StageSound' BY <1>1 DEF StageSound
<1>5. torn' \subseteq {Count + 1} BY <1>1 DEF CommandInv, TornSound
<1> QED BY <1>1, <1>3, <1>4, <1>5, DownKeeps

LEMMA GraphDiesKeeps ==
    ASSUME AuditAssumption, CommandInv, GraphDies
    PROVE  CommandInv'
<1>1. /\ Crash /\ mode' = "down" /\ stage' = "over"
      /\ UNCHANGED <<events, manifest, places, header, using, answered>>
      /\ torn' \subseteq torn \cup Writing
  BY DEF GraphDies, Crash, Ends, inputs
<1>2. AuditInv /\ TornSound BY DEF CommandInv
<1>3. Keeps BY <1>1, <1>2, CrashKeeps
<1>4. Writing \subseteq {Count + 1}
  <2>1. CASE mode \in {"handled", "retry", "replace"}
    <3>1. mode \in Alive /\ mode \in Working BY <2>1 DEF Alive, Working
    <3>2. st.seq = Count + 1 BY <1>2, <3>1, InvNode
    <3> QED BY <2>1, <3>2 DEF Writing
  <2>2. CASE mode = "second"
    <3>1. st.seq = Count BY <1>2, <2>2 DEF AuditInv, AtWork
    <3> QED BY <2>2, <3>1 DEF Writing
  <2>3. CASE mode \notin {"handled", "retry", "replace", "second"}
    BY <2>3 DEF Writing
  <2> QED BY <2>1, <2>2, <2>3
<1>5. torn' \subseteq {Count + 1} BY <1>1, <1>2, <1>4 DEF TornSound
<1>6. StageSound' BY <1>1 DEF StageSound, Gone
<1> QED BY <1>1, <1>3, <1>5, <1>6, DownKeeps

LEMMA ResumeCommandKeeps ==
    ASSUME AuditAssumption, CommandInv, NEW c \in saved, NEW d \in Dests,
           NEW sources \in Admitted[header], ResumeCommand(c, d, sources)
    PROVE  CommandInv'
<1>1. /\ stage = "over" /\ stage' = "graph" /\ ResumeRun(c) /\ using' = sources
      /\ UNCHANGED <<torn, places, header, answered>>
  BY DEF ResumeCommand
<1>2. AuditInv /\ TornSound /\ mode \in Gone BY <1>1 DEF CommandInv, StageSound
<1>3. AuditInv' /\ Workflow' = Workflow /\ JournalStep
  BY <1>1, <1>2, ResumeRunKeeps DEF Keeps
<1>4. UNCHANGED <<events, manifest>> /\ mode' \in {"raised", "enter", "flush"}
  BY <1>1 DEF ResumeRun, Resume, durable
<1>5. TornSound' BY <1>1, <1>2, <1>4 DEF TornSound, Count, Working
<1>6. PlacesSound' BY <1>1, <1>2, <1>3, PlacesKept DEF CommandInv
<1>7. SourcesSound' BY <1>1, SourcesKept DEF CommandInv
<1>8. StageSound' BY <1>1 DEF StageSound
<1> QED BY <1>1, <1>3, <1>5, <1>6, <1>7, <1>8 DEF CommandInv

LEMMA RenameKeeps ==
    ASSUME AuditAssumption, CommandInv, Rename
    PROVE  CommandInv'
<1>1. /\ stage = "write" /\ staged = 3
      /\ UNCHANGED <<durable, process, crashes, resumes, spoiled, torn, header, using, answered>>
      /\ \/ /\ places' = [places EXCEPT ![dest] = Output(3)] /\ stage' = "sync"
         \/ places' = places /\ stage' = "over"
  BY DEF Rename, Ends, Removed, vars, bounds, inputs
<1>2. /\ AuditInv /\ mode = "done" /\ HostedHere /\ ResultOf(st.flow) = "completed"
      /\ PlacesSound /\ DOMAIN places = Dests
  BY <1>1 DEF CommandInv, StageSound
<1>3. UNCHANGED <<st, mode, events, manifest>> BY <1>1 DEF durable, process
<1>4. StageSound' BY <1>1, <1>2, <1>3 DEF StageSound, HostedHere, Gone
<1>5. CASE places' = places
  BY <1>1, <1>4, <1>5, PlacesStill, StillKeeps
<1>6. CASE places' = [places EXCEPT ![dest] = Output(3)]
  <2>1. /\ RunEnded /\ manifest = Count - 1 /\ Workflow = "baseline-v1"
        /\ st.flow = events[Count].post.flow
    BY <1>2, CompletedRun
  <2>2. Workflow' = Workflow /\ Count' = Count /\ (RunEnded' <=> RunEnded)
    BY <1>3 DEF Workflow, Count, RunEnded
  <2> DEFINE f == events[Count].post.flow
  <2>3. Output(3) = [kind |-> "output", files |-> 3, status |-> ResultOf(f),
                     report |-> f.report, partial |-> f.partial, covered |-> f.covered,
                     evidence |-> f.evidence, manifest |-> manifest]
    BY <2>1 DEF Output
  <2>4. ResultOf(f) = "completed" BY <1>2, <2>1
  <2>5. ASSUME NEW d \in Dests, places'[d].kind = "output"
        PROVE places'[d] = [kind |-> "output", files |-> 3, status |-> ResultOf(f),
                            report |-> f.report, partial |-> f.partial, covered |-> f.covered,
                            evidence |-> f.evidence, manifest |-> manifest]
    <3>1. CASE d = dest BY <1>2, <1>6, <2>3, <3>1
    <3>2. CASE d # dest
      <4>1. places'[d] = places[d] BY <1>2, <1>6, <3>2
      <4>2. d \in Published BY <2>5, <4>1 DEF Published
      <4> QED BY <1>2, <4>1, <4>2 DEF PlacesSound
    <3> QED BY <3>1, <3>2
  <2>6. PlacesSound'
    <3>1. f' = f BY <1>3, <2>2
    <3> HIDE DEF f
    <3> SUFFICES ASSUME NEW d \in Published'
                 PROVE  /\ RunEnded' /\ manifest' = Count' - 1 /\ Workflow' = "baseline-v1"
                        /\ ResultOf(f)' = "completed"
                        /\ places'[d] = [kind |-> "output", files |-> 3, status |-> ResultOf(f)',
                               report |-> f'.report, partial |-> f'.partial, covered |-> f'.covered,
                               evidence |-> f'.evidence, manifest |-> manifest']
      BY DEF PlacesSound, f
    <3>2. d \in Dests /\ places'[d].kind = "output" BY DEF Published
    <3> QED BY <1>3, <2>1, <2>2, <2>4, <2>5, <3>1, <3>2
  <2>7. DOMAIN places' = Dests BY <1>2, <1>6
  <2> QED BY <1>1, <1>4, <2>6, <2>7, StillKeeps
<1> QED BY <1>1, <1>5, <1>6

LEMMA CommandKeeps ==
    ASSUME AuditAssumption, CommandInv, [CommandNext]_commandVars
    PROVE  CommandInv'
<1>1. CASE GraphStep BY <1>1, GraphStepKeeps
<1>2. CASE LookupCorrupt BY <1>2, LookupCorruptKeeps
<1>3. CASE GraphDies BY <1>3, GraphDiesKeeps
<1>4. CASE \E c \in saved, d \in Dests, sources \in Admitted[header] :
              ResumeCommand(c, d, sources)
  BY <1>4, ResumeCommandKeeps
<1>5. CASE Rename BY <1>5, RenameKeeps
<1>6. ASSUME UNCHANGED <<durable, process, torn, places, inputs, resumes, spoiled>>,
             crashes' \in {crashes, crashes + 1}, StageSound'
      PROVE  CommandInv'
  BY <1>6, PlacesStill, StillKeeps DEF inputs
<1>7. CASE GraphRaises
  <2>1. UNCHANGED <<durable, process, torn, places, inputs, crashes, resumes, spoiled>>
        /\ stage' = "over" /\ mode = "raised"
    BY <1>7 DEF GraphRaises, Ends, vars, bounds
  <2>2. StageSound' BY <2>1 DEF StageSound, process, Gone
  <2> QED BY <1>6, <2>1, <2>2
<1>8. CASE ReadArtifacts
  <2>1. /\ UNCHANGED <<durable, process, torn, places, inputs, crashes, resumes, spoiled>>
        /\ mode = "done"
        /\ \/ stage' = "publish" /\ HostedHere /\ ResultOf(st.flow) = "completed"
           \/ stage' = "over"
    BY <1>8 DEF ReadArtifacts, Returned, Ends, vars, bounds
  <2>2. UNCHANGED <<st, mode>> BY <2>1 DEF process
  <2>3. StageSound' BY <2>1, <2>2 DEF StageSound, Gone, HostedHere
  <2> QED BY <1>6, <2>1, <2>3
<1>9. CASE CloseFails
  <2>1. UNCHANGED <<durable, process, torn, places, inputs, crashes, resumes, spoiled>>
        /\ stage' = "over" /\ mode = "done"
    BY <1>9 DEF CloseFails, Returned, Ends, Fault, CallFault
  <2>2. StageSound' BY <2>1 DEF StageSound, process, Gone
  <2> QED BY <1>6, <2>1, <2>2
<1>10. ASSUME UNCHANGED <<durable, process, torn, places, inputs, resumes, spoiled>>,
              crashes' \in {crashes, crashes + 1},
              stage \in {"publish", "write", "sync"},
              stage' \in {"publish", "write", "sync", "over"}
       PROVE  CommandInv'
  <2>1. UNCHANGED <<st, mode>> BY <1>10 DEF process
  <2>2. StageSound' BY <1>10, <2>1 DEF CommandInv, StageSound, HostedHere
  <2> QED BY <1>6, <1>10, <2>2
<1>11. CASE MakeStaging
  <2>1. /\ UNCHANGED <<durable, process, torn, places, inputs, crashes, resumes, spoiled>>
        /\ stage = "publish" /\ stage' \in {"write", "over"}
    BY <1>11 DEF MakeStaging, Ends, vars, bounds
  <2> QED BY <1>10, <2>1
<1>12. CASE WriteFile
  <2>1. /\ UNCHANGED <<durable, process, torn, places, inputs, crashes, resumes, spoiled>>
        /\ stage = "write" /\ stage' = "write"
    BY <1>12 DEF WriteFile, vars, bounds
  <2> QED BY <1>10, <2>1
<1>13. CASE WriteFails
  <2>1. /\ UNCHANGED <<durable, process, torn, places, inputs, crashes, resumes, spoiled>>
        /\ stage = "write" /\ stage' = "over"
    BY <1>13 DEF WriteFails, Ends, Fault, CallFault
  <2> QED BY <1>10, <2>1
<1>14. CASE Sync
  <2>1. /\ UNCHANGED <<durable, process, torn, places, inputs, crashes, resumes, spoiled>>
        /\ stage = "sync" /\ stage' = "over"
    BY <1>14 DEF Sync, Ends, vars, bounds
  <2> QED BY <1>10, <2>1
<1>15. CASE SyncFails
  <2>1. /\ UNCHANGED <<durable, process, torn, places, inputs, crashes, resumes, spoiled>>
        /\ stage = "sync" /\ stage' = "over"
    BY <1>15 DEF SyncFails, Ends, Fault, CallFault
  <2> QED BY <1>10, <2>1
<1>16. CASE PublisherDies
  <2>1. /\ UNCHANGED <<durable, process, torn, places, inputs, resumes, spoiled>>
        /\ crashes' = crashes + 1
        /\ stage \in {"publish", "write", "sync"} /\ stage' = "over"
    BY <1>16 DEF PublisherDies, Ends
  <2> QED BY <1>10, <2>1
<1>17. CASE OtherTakes
  <2>1. /\ UNCHANGED <<durable, process, torn, stage, inputs, crashes, resumes, spoiled>>
        /\ places' = [places EXCEPT ![dest] = Foreign]
    BY <1>17 DEF OtherTakes, vars, bounds
  <2>2. UNCHANGED <<st, mode, events, manifest>> BY <2>1 DEF durable, process
  <2>3. StageSound' BY <2>1, <2>2 DEF CommandInv, StageSound, HostedHere
  <2>4. DOMAIN places = Dests /\ PlacesSound BY DEF CommandInv
  <2>5. DOMAIN places' = Dests BY <2>1, <2>4
  <2>6. Published' \subseteq Published /\ \A d \in Published' : places'[d] = places[d]
    <3>1. Foreign.kind # "output" BY DEF Foreign
    <3> QED BY <2>1, <2>4, <3>1 DEF Published
  <2>7. PlacesSound'
    <3>1. Workflow' = Workflow /\ Count' = Count /\ (RunEnded' <=> RunEnded)
      BY <2>2 DEF Workflow, Count, RunEnded
    <3> QED BY <2>2, <2>4, <2>6, <3>1 DEF PlacesSound
  <2> QED BY <2>1, <2>3, <2>5, <2>7, StillKeeps DEF inputs
<1>18. CASE UNCHANGED commandVars
  <2>1. UNCHANGED <<durable, process, torn, places, stage, inputs, crashes, resumes, spoiled>>
    BY <1>18 DEF commandVars, vars, command, bounds
  <2>2. UNCHANGED <<st, mode>> BY <2>1 DEF process
  <2>3. StageSound' BY <2>1, <2>2 DEF CommandInv, StageSound, HostedHere
  <2> QED BY <1>6, <2>1, <2>3
<1> QED BY <1>1, <1>2, <1>3, <1>4, <1>5, <1>7, <1>8, <1>9, <1>11, <1>12, <1>13, <1>14, <1>15,
           <1>16, <1>17, <1>18
        DEF CommandNext

LEMMA CommandStarts ==
    ASSUME AuditAssumption, CommandInit
    PROVE  CommandInv
<1>1. /\ Init /\ torn = {} /\ stage = "graph" /\ places = [d \in Dests |-> Free] /\ answered = {}
  BY DEF CommandInit
<1>2. PICK g \in Given : header = RunHeader(g) /\ using = Sources(g)
  BY DEF CommandInit
<1>3. AuditInv BY <1>1, AuditInit
<1>4. TornSound /\ StageSound BY <1>1 DEF TornSound, StageSound
<1>5. SourcesSound
  <2>1. Sources(g) \in {Sources(k) : k \in {h \in Given : RunHeader(h) = header}}
    BY <1>2
  <2>2. header \in {RunHeader(h) : h \in Given} BY <1>2
  <2>3. Admitted[header] = {Sources(k) : k \in {h \in Given : RunHeader(h) = header}}
    BY <2>2, Zenon DEF Admitted
  <2> QED BY <1>1, <1>2, <2>1, <2>2, <2>3 DEF SourcesSound
<1>6. Published = {}
  <2>1. Free.kind # "output" BY DEF Free
  <2> QED BY <1>1, <2>1 DEF Published
<1>7. PlacesSound /\ DOMAIN places = Dests BY <1>1, <1>6 DEF PlacesSound
<1> QED BY <1>3, <1>4, <1>5, <1>7 DEF CommandInv

\* The inductive invariant of the research command.
THEOREM CommandKeepsInv == CommandSpec => []CommandInv
<1>1. CommandInit => CommandInv BY AuditAssumption, CommandStarts
<1>2. CommandInv /\ [CommandNext]_commandVars => CommandInv'
  BY AuditAssumption, CommandKeeps
<1> QED BY <1>1, <1>2, PTL DEF CommandSpec

-----------------------------------------------------------------------------
(* What the invariant says of the audit trail. *)

LEMMA ExecutionsGrow ==
    ASSUME NEW log, NEW node, NEW i \in Nat, NEW j \in Nat, i <= j
    PROVE  Executions(log, node, i) <= Executions(log, node, j)
<1> DEFINE S == {k \in 1 .. i : log[k].receipt.node = node}
           T == {k \in 1 .. j : log[k].receipt.node = node}
<1>1. \A k \in 1 .. i : k \in 1 .. j OBVIOUS
<1>2. S \in SUBSET T BY <1>1
<1>3. IsFiniteSet(T)
  <2>1. T \in SUBSET (1 .. j) /\ IsFiniteSet(1 .. j) BY FS_Interval
  <2> HIDE DEF T
  <2> QED BY <2>1, FS_Subset
<1> HIDE DEF S, T
<1>4. Cardinality(S) <= Cardinality(T) BY <1>2, <1>3, FS_Subset
<1> QED BY <1>4 DEF Executions, S, T

\* The i-th event numbers its execution and owns its calls.
Numbered(log, i) ==
    LET r == log[i].receipt
    IN  /\ r.attempt = Executions(log, r.node, i - 1) + 1
        /\ r.attempt = Executions(log, r.node, i)
        /\ CallsOf(r.node, r.attempt, log[i].calls)

LEMMA EntryNumbers ==
    ASSUME NEW log, NEW w, NEW man, NEW i \in Nat, i # 0, EntrySound(log, w, man, log[i], i)
    PROVE  Numbered(log, i)
<1> DEFINE r == log[i].receipt
           node == log[i].receipt.node
           before == Executions(log, node, i - 1)
           now == Executions(log, node, i)
<1>1. r = Receipt(node, before + 1, i) /\ CallsOf(node, r.attempt, log[i].calls)
  BY DEF EntrySound
<1>2. now = before + 1
  <2>1. now = before + (IF node = node THEN 1 ELSE 0) BY ExecutionsNext
  <2> QED BY <2>1
<1> HIDE DEF before, now, node
<1>3. r.attempt = before + 1 BY <1>1 DEF Receipt
<1> QED BY <1>1, <1>2, <1>3 DEF Numbered, before, now, node

\* No two events of a run are the same execution of a node.
LEMMA ExecutionsDiffer ==
    ASSUME NEW log, NEW w, NEW man, NEW n \in Nat,
           \A k \in 1 .. n : EntrySound(log, w, man, log[k], k),
           NEW i \in 1 .. n, NEW j \in 1 .. n, i < j,
           log[i].receipt.node = log[j].receipt.node
    PROVE  log[i].receipt.attempt # log[j].receipt.attempt
<1> DEFINE early == Executions(log, log[i].receipt.node, i)
           late == Executions(log, log[j].receipt.node, j - 1)
<1>1. /\ EntrySound(log, w, man, log[i], i) /\ EntrySound(log, w, man, log[j], j)
      /\ i \in Nat /\ i # 0 /\ j \in Nat /\ j # 0 /\ j - 1 \in Nat /\ i <= j - 1
  OBVIOUS
<1>2. Numbered(log, i) /\ Numbered(log, j) BY <1>1, EntryNumbers
<1>3. log[i].receipt.attempt = early /\ log[j].receipt.attempt = late + 1
  BY <1>2 DEF Numbered
<1>4. early <= late
  <2> DEFINE k == j - 1
  <2>1. k \in Nat /\ i <= k BY <1>1
  <2> HIDE DEF k
  <2>2. Executions(log, log[j].receipt.node, i) <= Executions(log, log[j].receipt.node, k)
    BY <1>1, <2>1, ExecutionsGrow
  <2> QED BY <2>2 DEF k
<1>5. early \in Nat /\ late \in Nat BY <1>1, ExecutionsType
<1> HIDE DEF early, late
<1> QED BY <1>3, <1>4, <1>5

OneExecutionEach(log, n) ==
    \A i, j \in 1 .. n :
        /\ log[i].receipt.node = log[j].receipt.node
        /\ log[i].receipt.attempt = log[j].receipt.attempt
        => i = j

LEMMA SameExecution ==
    ASSUME NEW log, NEW w, NEW man, NEW n \in Nat,
           \A k \in 1 .. n : EntrySound(log, w, man, log[k], k)
    PROVE  OneExecutionEach(log, n)
<1> SUFFICES ASSUME NEW i \in 1 .. n, NEW j \in 1 .. n,
                    log[i].receipt.node = log[j].receipt.node,
                    log[i].receipt.attempt = log[j].receipt.attempt
             PROVE  i = j
  BY DEF OneExecutionEach
<1>1. CASE i < j BY <1>1, ExecutionsDiffer
<1>2. CASE j < i BY <1>2, ExecutionsDiffer
<1> QED BY <1>1, <1>2

\* The charges on the first events, as the accountant adds them up.
LEMMA ChargedUpTo ==
    ASSUME NEW k \in Nat, 1 .. k \subseteq DOMAIN events
    PROVE  Charged(1 .. k) = SpentUpTo(events, k)
<1> DEFINE f == [i \in DOMAIN events |-> events[i].units]
           g == [i \in 1 .. k |-> events[i].units]
<1>1. \A i \in 1 .. k : f[i] = g[i] OBVIOUS
<1>2. IsFiniteSet(1 .. k) BY FS_Interval
<1> HIDE DEF f, g
<1>3. SumFunctionOnSet(f, 1 .. k) = SumFunctionOnSet(g, 1 .. k) BY <1>1, <1>2, SumSame
<1> QED BY <1>3 DEF Charged, SpentUpTo, f, g

LEMMA InvCharges ==
    ASSUME AuditAssumption, AuditInv
    PROVE  ChargesAreReceipted
<1> DEFINE k == st.seq - 1
           receipted == Charged(DOMAIN events \cap 1 .. k) + units
<1> SUFFICES ASSUME mode \in Alive
             PROVE  acc = receipted \/ (acc > receipted /\ Failing)
  BY DEF ChargesAreReceipted, AuditInv, Gone
<1>1. /\ st.seq \in 1 .. (Count + 1) /\ st = Before(events, Workflow, st.seq)
      /\ StateSound(events, Workflow, st.seq) /\ st.node # "END"
      /\ st.total \in Nat /\ acc \in Nat /\ units \in Nat
      /\ ChargedTo(st.total, acc, units, mode \in Publishing /\ out.err # "none")
  BY InvNode
<1>2. Count \in Nat /\ DOMAIN events = 1 .. Count /\ Billed \subseteq Nat BY InvLog
<1>3. k \in Nat /\ DOMAIN events \cap 1 .. k = 1 .. k /\ 1 .. k \subseteq DOMAIN events
  <2>1. k \in Nat /\ k <= Count BY <1>1, <1>2
  <2> HIDE DEF k
  <2>2. 1 .. k \subseteq 1 .. Count BY <1>2, <2>1
  <2> QED BY <1>2, <2>1, <2>2, Zenon
<1>4. \/ st.total = SpentUpTo(events, k)
      \/ st.total > SpentUpTo(events, k) /\ st.flow.err # "none"
  <2> DEFINE b == Before(events, Workflow, st.seq)
  <2>1. \/ b.total = SpentUpTo(events, k)
        \/ b.total > SpentUpTo(events, k) /\ (b.node # "END" => b.flow.err # "none")
    BY <1>1 DEF StateSound
  <2> QED BY <1>1, <2>1
<1>5. Charged(1 .. k) = SpentUpTo(events, k)
  <2> HIDE DEF k
  <2> QED BY <1>3, ChargedUpTo
<1>6. receipted = SpentUpTo(events, k) + units BY <1>3, <1>5
<1>7. SpentUpTo(events, k) \in Nat
  <2>1. ASSUME NEW j \in 1 .. k PROVE events[j].units \in Nat
    <3>1. j \in 1 .. Count BY <1>1, <1>2
    <3>2. EntrySound(events, Workflow, manifest, events[j], j) BY <3>1, InvLog
    <3> QED BY <1>2, <3>2 DEF EntrySound, ChargedTo
  <2> HIDE DEF k
  <2>2. CASE k = 0 BY <2>2, SpentNone
  <2>3. CASE k # 0 BY <1>3, <2>1, <2>3, SpentNext
  <2> QED BY <2>2, <2>3
<1>8. /\ acc >= st.total
      /\ acc = st.total + units \/ (units = 0 /\ mode \in Publishing /\ out.err # "none")
  BY <1>1, <1>2 DEF ChargedTo
<1> HIDE DEF k, receipted
<1> QED BY <1>1, <1>4, <1>6, <1>7, <1>8 DEF Failing, Publishing

LEMMA InvTrail ==
    ASSUME AuditAssumption, AuditInv, Persisting
    PROVE  TrailCloses
<1> DEFINE w == Workflow
           n == Count
<1>1. mode \in Alive /\ Entered /\ st.node = "PersistResults"
  BY DEF Alive, Persisting, Entered
<1>2. /\ st.seq = n + 1 /\ st = Before(events, w, n + 1)
      /\ StateSound(events, w, n + 1) /\ n \in Nat /\ DOMAIN events = 1 .. n
      /\ \A j \in 1 .. n : EntrySound(events, w, manifest, events[j], j)
  BY <1>1, InvNode, InvLog
<1>3. st.seq - 1 = n BY <1>2
<1>4. /\ st.receipts = ReceiptsUpTo(events, n)
      /\ st.total = SpentUpTo(events, n) \/ Understated(events, n)
      /\ st.terminals = {n}
  <2> DEFINE s == Before(events, w, n + 1)
  <2>1. (n + 1) - 1 = n BY <1>2
  <2>2. /\ s.receipts = ReceiptsUpTo(events, n)
        /\ s.total = SpentUpTo(events, n) \/ Understated(events, n)
        /\ TerminalsOf(s.node, n + 1, s.terminals)
    BY <1>2, <2>1 DEF StateSound
  <2>3. s.terminals = {n} BY <1>1, <1>2, <2>1, <2>2 DEF TerminalsOf
  <2> QED BY <1>2, <2>2, <2>3
<1> HIDE DEF w, n
<1>5. ASSUME NEW i \in 1 .. n, NEW j \in 1 .. n,
             events[i].receipt.node = events[j].receipt.node,
             events[i].receipt.attempt = events[j].receipt.attempt
      PROVE  i = j
  <2>1. OneExecutionEach(events, n) BY <1>2, SameExecution
  <2> QED BY <1>5, <2>1 DEF OneExecutionEach
<1>6. AuditClosure
  <2>1. st.receipts = {events[i].receipt : i \in 1 .. n} BY <1>4 DEF ReceiptsUpTo
  <2>2. ASSUME NEW r \in st.receipts, NEW q \in st.receipts,
               <<r.node, r.attempt>> = <<q.node, q.attempt>>
        PROVE  r = q
    <3>1. PICK i \in 1 .. n : r = events[i].receipt BY <2>1
    <3>2. PICK j \in 1 .. n : q = events[j].receipt BY <2>1
    <3>3. r.node = q.node /\ r.attempt = q.attempt BY <2>2
    <3> QED BY <1>5, <3>1, <3>2, <3>3
  <2>3. 1 .. n \subseteq DOMAIN events BY <1>2
  <2> QED BY <1>3, <1>4, <2>1, <2>2, <2>3 DEF AuditClosure, TerminalOwned
<1>7. AttemptsContiguous
  <2>1. ASSUME NEW i \in 1 .. n
        PROVE events[i].receipt.attempt =
                Cardinality({j \in 1 .. i : events[j].receipt.node = events[i].receipt.node})
    <3>1. i \in Nat /\ i # 0 /\ EntrySound(events, w, manifest, events[i], i) BY <1>2
    <3>2. Numbered(events, i) BY <3>1, EntryNumbers
    <3> QED BY <3>2 DEF Numbered, Executions
  <2> QED BY <1>3, <2>1 DEF AttemptsContiguous, Trail
<1>8. CallsContained
  <2>1. ASSUME NEW i \in 1 .. n, NEW j \in 1 .. n, NEW op \in events[i].calls,
               op \in events[j].calls
        PROVE  i = j
    <3>1. i \in Nat /\ i # 0 /\ EntrySound(events, w, manifest, events[i], i) BY <1>2
    <3>2. j \in Nat /\ j # 0 /\ EntrySound(events, w, manifest, events[j], j) BY <1>2
    <3>3. /\ CallsOf(events[i].receipt.node, events[i].receipt.attempt, events[i].calls)
          /\ CallsOf(events[j].receipt.node, events[j].receipt.attempt, events[j].calls)
      <4>1. Numbered(events, i) BY <3>1, EntryNumbers
      <4>2. Numbered(events, j) BY <3>2, EntryNumbers
      <4> QED BY <4>1, <4>2 DEF Numbered
    <3>4. op.input[1] = events[i].receipt.node /\ op.attempt = events[i].receipt.attempt
      BY <3>3 DEF CallsOf
    <3>5. op.input[1] = events[j].receipt.node /\ op.attempt = events[j].receipt.attempt
      BY <2>1, <3>3 DEF CallsOf
    <3> QED BY <1>5, <3>4, <3>5
  <2>2. \A i, j \in 1 .. n : i # j => events[i].calls \cap events[j].calls = {}
    BY <2>1
  <2> QED BY <1>3, <2>2 DEF CallsContained, Trail
<1>9. Charged(Trail) = st.total \/ \E i \in Trail : Unreceipted(events[i])
  <2>1. Charged(1 .. n) = SpentUpTo(events, n) BY <1>2, ChargedUpTo
  <2> QED BY <1>3, <1>4, <2>1 DEF Understated, Trail
<1>10. \A i \in Trail : events[i].units # 0 => events[i].input.total + Estimate <= Budget
  <2>1. ASSUME NEW i \in 1 .. n, events[i].units # 0
        PROVE  events[i].input.total + Estimate <= Budget
    <3>1. EntrySound(events, w, manifest, events[i], i) BY <1>2
    <3> QED BY <2>1, <3>1 DEF EntrySound, ChargedTo
  <2> QED BY <1>3, <2>1 DEF Trail
<1> QED BY <1>6, <1>7, <1>8, <1>9, <1>10 DEF TrailCloses

-----------------------------------------------------------------------------
(* The properties of the audited run under the research command. *)

\* While a process runs, its accountant holds the charges on the receipts of the
\* events before this node and of the calls this node has made, billed failures
\* and overdrafts included, however often events and cached calls were replayed
\* into it; it holds more only behind the failure that lost a receipt
\* (_safe_node, _invoke_metered, UsageAccountant.replay).
THEOREM NodesChargeTheirReceipts == CommandSpec => []ChargesAreReceipted
<1>1. CommandInv => ChargesAreReceipted BY AuditAssumption, InvCharges DEF CommandInv
<1> QED BY <1>1, CommandKeepsInv, PTL

\* The provider is paid for a call again only if its process died before the
\* completion cache had the answer, or the call failed, overdrew the budget or
\* could not be stored; and a command goes on from the latter to no other call
\* (_invoke_metered, _persist_provider_result).
THEOREM CallsPaidOnce == CommandSpec => []CallPaidAgainForCause
<1>1. CommandInv => CallPaidAgainForCause BY DEF CommandInv, AuditInv, CacheSound
<1> QED BY <1>1, CommandKeepsInv, PTL

\* Whatever crashed, was resumed, failed or was lost, the trail PersistResults
\* reads closes; its usage is the accountant's unless a charge lost its receipt,
\* and each charged call began within the budget (_persist_results, RunManifest).
THEOREM TrailsClose == CommandSpec => []TrailCloses
<1>1. CommandInv => TrailCloses
  <2>1. ~Persisting => TrailCloses BY DEF TrailCloses
  <2> QED BY <2>1, AuditAssumption, InvTrail DEF CommandInv
<1> QED BY <1>1, CommandKeepsInv, PTL

\* A run is refused for its log only behind a success that was read back late
\* and then failed, or behind an event whose charge lost its receipt
\* (_publish_node_event, _recover_node).
THEOREM RefusalsHaveCause == CommandSpec => []RefusedOnlyBehindFailure
<1>1. CommandInv => RefusedOnlyBehindFailure BY DEF CommandInv, AuditInv
<1> QED BY <1>1, CommandKeepsInv, PTL

-----------------------------------------------------------------------------
(* What the research command publishes. *)

\* Two commands whose inputs come to the same header read the same sources.
LEMMA HeaderBindsSources ==
    ASSUME NEW g \in Given, NEW k \in Given, RunHeader(g) = RunHeader(k)
    PROVE  Sources(g) = Sources(k)
<1>1. g.mode = k.mode /\ Content(g, {"code"}) = Content(k, {"code"})
      /\ ProviderProfile(g) = ProviderProfile(k)
  <2>1. /\ RunHeader(g).profile = ProviderProfile(g) /\ RunHeader(k).profile = ProviderProfile(k)
        /\ RunHeader(g).code = Content(g, {"code"}) /\ RunHeader(k).code = Content(k, {"code"})
    BY DEF RunHeader
  <2>2. ProviderProfile(g) = ProviderProfile(k) BY <2>1
  <2>3. ProviderProfile(g).mode = g.mode /\ ProviderProfile(k).mode = k.mode
    BY DEF ProviderProfile
  <2> QED BY <2>1, <2>2, <2>3
<1>2. /\ g.mode # "live" => ReplayProfile(g) = ReplayProfile(k)
      /\ g.mode # "replay" => LiveProfile(g) = LiveProfile(k)
  <2> HIDE DEF ReplayProfile, LiveProfile, Absent
  <2> QED BY <1>1 DEF ProviderProfile
<1>3. g.mode \in {"live", "replay", "hybrid"} BY DEF Given
<1>4. CASE g.mode = "live"
  <2>1. Recorded(g) = Content(g, {}) /\ Recorded(k) = Content(k, {})
    BY <1>1, <1>4 DEF Recorded
  <2>2. Content(g, {}) = Content(k, {}) BY DEF Content
  <2>3. Provided(g) = Provided(k) BY <1>1, <1>2, <1>4 DEF Provided, LiveProfile
  <2> QED BY <1>1, <2>1, <2>2, <2>3 DEF Sources
<1>5. CASE g.mode = "replay"
  <2>1. Recorded(g) = Recorded(k) BY <1>1, <1>2, <1>5 DEF Recorded, ReplayProfile
  <2>2. Provided(g) = Content(g, {}) /\ Provided(k) = Content(k, {})
    BY <1>1, <1>5 DEF Provided
  <2>3. Content(g, {}) = Content(k, {}) BY DEF Content
  <2> QED BY <1>1, <2>1, <2>2, <2>3 DEF Sources
<1>6. CASE g.mode = "hybrid"
  <2>1. Recorded(g) = Recorded(k) BY <1>1, <1>2, <1>6 DEF Recorded, ReplayProfile
  <2>2. Provided(g) = Provided(k) BY <1>1, <1>2, <1>6 DEF Provided, LiveProfile
  <2> QED BY <1>1, <2>1, <2>2 DEF Sources
<1> QED BY <1>3, <1>4, <1>5, <1>6

LEMMA InvComposition ==
    ASSUME SourcesSound
    PROVE  OneComposition
<1>1. Admitted[header] = {Sources(g) : g \in {k \in Given : RunHeader(k) = header}}
  BY Zenon DEF Admitted, SourcesSound
<1>2. ASSUME NEW a \in answered, NEW b \in answered PROVE a = b
  <2>1. a \in Admitted[header] /\ b \in Admitted[header] BY DEF SourcesSound
  <2>2. PICK g \in Given : RunHeader(g) = header /\ a = Sources(g) BY <1>1, <2>1
  <2>3. PICK k \in Given : RunHeader(k) = header /\ b = Sources(k) BY <1>1, <2>1
  <2> QED BY <2>2, <2>3, HeaderBindsSources
<1>3. CASE answered = {}
  <2>1. Cardinality(answered) = 0 BY <1>3, FS_EmptySet
  <2> QED BY <2>1 DEF OneComposition
<1>4. CASE answered # {}
  <2>1. PICK a : answered = {a} BY <1>2, <1>4
  <2>2. Cardinality(answered) = 1 BY <2>1, FS_Singleton
  <2> QED BY <2>2 DEF OneComposition
<1> QED BY <1>3, <1>4

LEMMA InvPublication ==
    ASSUME AuditAssumption, CommandInv
    PROVE  PublicationSound
<1> DEFINE n == Count
           f == events[n].post.flow
           node == events[n].receipt.node
<1>1. AuditInv /\ TornSound /\ PlacesSound /\ SourcesSound BY DEF CommandInv
<1>2. n \in Nat /\ DOMAIN events = 1 .. n BY <1>1, InvLog
<1>3. LogHasNoGap BY <1>1, <1>2 DEF LogHasNoGap, TornSound, Count
<1>4. ASSUME NEW d \in Published
      PROVE  /\ places[d] = [kind |-> "output", files |-> 3, status |-> "completed",
                             report |-> f.report, partial |-> f.partial,
                             covered |-> f.covered, evidence |-> f.evidence,
                             manifest |-> n - 1]
             /\ n # 0 /\ node = "PersistResults" /\ ResultOf(f) = "completed"
  BY <1>1 DEF PlacesSound, RunEnded
<1>5. ASSUME NEW d \in Published
      PROVE  f.report /\ (~f.partial => f.covered = Subs)
  <2>1. n # 0 /\ ResultOf(f) = "completed" BY <1>4
  <2>2. EntrySound(events, Workflow, manifest, events[n], n)
    BY <1>1, <1>2, <2>1, InvLog
  <2>3. Conclusive(f) BY <2>2 DEF EntrySound, FlowLeft
  <2> HIDE DEF f
  <2> QED BY <2>1, <2>3 DEF ResultOf, Conclusive
<1>6. ASSUME NEW d \in Published
      PROVE  /\ places[d].files = 3 /\ places[d].status = "completed"
             /\ places[d].report
             /\ places[d].manifest = Cardinality(DOMAIN events) - 1
             /\ events[places[d].manifest + 1].receipt.node = "PersistResults"
             /\ ~places[d].partial => places[d].covered = Subs
  <2>1. n = Cardinality(DOMAIN events) BY DEF Count
  <2>2. (n - 1) + 1 = n BY <1>2
  <2>3. places[d].manifest = n - 1 BY <1>4
  <2>4. events[places[d].manifest + 1].receipt.node = "PersistResults" BY <1>4, <2>2, <2>3
  <2> HIDE DEF n, f, node
  <2> QED BY <1>4, <1>5, <2>1, <2>3, <2>4
<1>7. \A d, e \in Published : places[d] = places[e] BY <1>4
<1>8. PublishedIsTheRun BY <1>6, <1>7 DEF PublishedIsTheRun
<1> QED BY <1>1, <1>3, <1>8, InvComposition DEF PublicationSound

\* What research commands publish is one completed run in full: a log without a
\* gap, the same three artifacts from every command, a manifest over every event
\* before the last, and one set of sources behind every call
\* (_publish_public_output, _build_provider_profile).
THEOREM CommandsPublishTheRun == CommandSpec => []PublicationSound
<1>1. CommandInv => PublicationSound BY AuditAssumption, InvPublication
<1> QED BY <1>1, CommandKeepsInv, PTL

-----------------------------------------------------------------------------
(* The run implements the journal. *)

\* An entry of the journal may follow the last of n, and adds a charge.
MayFollow(e, log, w, n, charge) ==
    /\ n = 0 => /\ e.receipt.node = "ValidateRequest"
                /\ e.post.total = charge
    /\ n # 0 => LET p == log[n]
                IN  /\ e.post.total = p.post.total + charge
                    /\ \/ p.ok /\ <<p.receipt.node, e.receipt.node>> \in EdgesOf(w)
                       \/ p.ok /\ e.receipt.node = p.receipt.node /\ ~e.ok
                       \/ /\ ~p.ok /\ e.receipt.node = "PersistResults"
                          /\ p.receipt.node # "PersistResults"

\* The manifest of a run that goes on accounts for the whole log.
LEMMA ManifestIsWhole ==
    ASSUME NEW w \in {"baseline-v1", "research-v1"}, NEW man, NEW log, LogSound(log, w, man),
           ManifestSound(log, w, man), NEW n \in Nat, DOMAIN log = 1 .. n,
           Before(log, w, n + 1).node # "END", man # 0
    PROVE  man = n /\ Before(log, w, n + 1).node = "PersistResults"
<1>1. Cardinality(DOMAIN log) = n BY FS_Interval
<1>2. man \in Nat /\ man <= n /\ n <= man + 1 /\ Before(log, w, man + 1).node = "PersistResults"
  BY <1>1 DEF ManifestSound
<1>3. n # man + 1
  <2> SUFFICES ASSUME n = man + 1 PROVE FALSE OBVIOUS
  <2>1. n \in 1 .. n BY <1>2
  <2>2. Before(log, w, n).node = "PersistResults" BY <1>2
  <2> QED BY <2>1, <2>2, PersistIsLast
<1>4. man = n BY <1>2, <1>3
<1> QED BY <1>2, <1>4

LEMMA EntryFollows ==
    ASSUME NEW w \in {"baseline-v1", "research-v1"}, NEW man, NEW log, LogSound(log, w, man),
           ManifestSound(log, w, man), NEW n \in Nat, DOMAIN log = 1 .. n,
           \A j \in 1 .. n : EntrySound(log, w, man, log[j], j),
           Billed \subseteq Nat, StateSound(log, w, n + 1), Before(log, w, n + 1).node # "END",
           NEW e, EntrySound(log, w, man, e, n + 1)
    PROVE  /\ e.receipt.node \in ResearchNodes /\ e.ok \in BOOLEAN
           /\ man = 0 \/ e.receipt.node = "PersistResults"
           /\ \E charge \in Billed : MayFollow(e, log, w, n, charge)
<1> DEFINE s == Before(log, w, n + 1)
           p == log[n]
           node == e.receipt.node
           i == n + 1
<1>0. PICK c \in Billed : e.post.total = s.total + c
  <2> HIDE DEF s
  <2> QED BY DEF EntrySound, ChargedTo, s
<1>1. /\ e.input = s \/ IsBehind(log, w, e, i)
      /\ node \in NodesOf(w) /\ e.input.node = node
      /\ e.ok = (e.post.flow.err = "none")
  BY DEF EntrySound
<1>2. node \in ResearchNodes
  BY <1>1 DEF NodesOf, Reached, ResearchNodes
<1>3. e.ok \in BOOLEAN BY <1>1
<1>4. c \in Nat OBVIOUS
<1>5. IsState(s) /\ s.node # "END" BY DEF StateSound
<1>6. CASE n = 0
  <2>1. s = InitialState(w) BY <1>6 DEF Before
  <2>2. s.node = "ValidateRequest" /\ s.total = 0 BY <2>1 DEF InitialState
  <2>3. e.input = s BY <1>1, <1>6 DEF IsBehind
  <2>4. node = "ValidateRequest" BY <1>1, <2>2, <2>3
  <2>5. man = 0
    <3>1. man # 0 => s.node = "PersistResults" BY <1>5, ManifestIsWhole
    <3> QED BY <2>2, <3>1
  <2>6. e.post.total = c BY <1>0, <1>4, <2>2
  <2>7. MayFollow(e, log, w, n, c) BY <1>6, <2>4, <2>6 DEF MayFollow
  <2> QED BY <1>2, <1>3, <2>5, <2>7
<1>7. CASE n # 0
  <2>1. n \in 1 .. n /\ EntrySound(log, w, man, p, n) /\ s = After(p) /\ i - 1 = n /\ i # 1
    BY <1>7 DEF Before
  <2>2. s.total = p.post.total
    <3>1. IsState(p.post) BY <2>1 DEF EntrySound
    <3> HIDE DEF p
    <3> QED BY <2>1, <3>1, StateFieldsOf
  <2>3. /\ p.receipt.node = "PersistResults" <=> s.node = "END"
        /\ p.receipt.node # "PersistResults" /\ ~p.ok => s.node = "PersistResults"
        /\ p.receipt.node \notin {"FinalizeCitations", "PersistResults"} /\ p.ok
              => s.node # "PersistResults"
        /\ p.ok /\ s.node # "END" => <<p.receipt.node, s.node>> \in EdgesOf(w)
    <3> HIDE DEF p, s
    <3> QED BY <2>1, EntryNext
  <2>4. CASE e.input = s
    <3>1. node = s.node BY <1>1, <2>4
    <3>2. man = 0 \/ node = "PersistResults" BY <1>5, <3>1, ManifestIsWhole
    <3>3. \/ p.ok /\ <<p.receipt.node, node>> \in EdgesOf(w)
          \/ ~p.ok /\ node = "PersistResults" /\ p.receipt.node # "PersistResults"
      <4> HIDE DEF p, s, node
      <4> QED BY <1>5, <2>3, <3>1
    <3>4. MayFollow(e, log, w, n, c) BY <1>0, <1>7, <2>2, <3>3 DEF MayFollow
    <3> QED BY <1>2, <1>3, <3>2, <3>4
  <2>5. CASE IsBehind(log, w, e, i)
    <3>1. /\ p.ok /\ ~e.ok /\ p.receipt.node \notin {"FinalizeCitations", "PersistResults"}
          /\ e.input = [s EXCEPT !.node = p.receipt.node]
      BY <2>1, <2>5 DEF IsBehind
    <3>2. e.input.node = p.receipt.node
      <4> HIDE DEF p, s
      <4> QED BY <1>5, <3>1 DEF IsState, StateFields
    <3>3. node = p.receipt.node BY <1>1, <3>2
    <3>4. man = 0 BY <1>5, <2>3, <3>1, ManifestIsWhole
    <3>5. MayFollow(e, log, w, n, c) BY <1>0, <1>7, <2>2, <3>1, <3>3 DEF MayFollow
    <3> QED BY <1>2, <1>3, <3>4, <3>5
  <2> QED BY <1>1, <2>4, <2>5
<1> QED BY <1>6, <1>7

\* The journal's entry of an event.
EntryOf(e) == [node |-> e.receipt.node, ok |-> e.ok, total |-> e.post.total]

JournalOf(log, n) == [i \in 1 .. n |-> EntryOf(log[i])]

LEMMA JournalIs ==
    /\ Journal = JournalOf(events, Count)
    /\ Journal' = JournalOf(events', Count')
BY DEF Journal, JournalOf, EntryOf, Count

\* A sequence of one entry for each of n events.
IsJournal(J, log, n) ==
    /\ J \in Seq({EntryOf(log[i]) : i \in 1 .. n}) /\ Len(J) = n
    /\ J = <<>> <=> n = 0
    /\ \A i \in 1 .. n : J[i] = EntryOf(log[i])

LEMMA JournalFacts ==
    ASSUME NEW n \in Nat, NEW log
    PROVE  IsJournal(JournalOf(log, n), log, n)
<1> DEFINE J == JournalOf(log, n)
           S == {EntryOf(log[i]) : i \in 1 .. n}
<1>1. J \in [1 .. n -> S] /\ \A i \in 1 .. n : J[i] = EntryOf(log[i])
  BY DEF JournalOf
<1> HIDE DEF J, S
<1>2. J \in Seq(S) /\ Len(J) = n BY <1>1
<1>3. J = <<>> <=> n = 0 BY <1>2
<1> QED BY <1>1, <1>2, <1>3 DEF IsJournal, J, S

LEMMA JournalGrows ==
    ASSUME NEW n \in Nat, NEW log, NEW longer, \A j \in 1 .. n : longer[j] = log[j]
    PROVE  JournalOf(longer, n + 1) = Append(JournalOf(log, n), EntryOf(longer[n + 1]))
<1> DEFINE J == JournalOf(log, n)
           K == JournalOf(longer, n + 1)
           e == EntryOf(longer[n + 1])
           A == Append(J, e)
<1>1. DOMAIN K = 1 .. (n + 1) /\ K = [i \in 1 .. (n + 1) |-> K[i]] BY DEF JournalOf
<1>2. J \in Seq({EntryOf(log[i]) : i \in 1 .. n}) /\ Len(J) = n BY JournalFacts DEF IsJournal
<1>3. A = [i \in 1 .. (n + 1) |-> A[i]] /\ A[n + 1] = e /\ \A i \in 1 .. n : A[i] = J[i]
  <2> DEFINE S == {EntryOf(log[i]) : i \in 1 .. n} \cup {e}
  <2>1. J \in Seq(S) /\ e \in S /\ Len(J) = n
    <3> HIDE DEF J, e
    <3> QED BY <1>2
  <2> HIDE DEF J, e, S
  <2>2. A \in Seq(S) /\ Len(A) = n + 1 /\ A[n + 1] = e /\ \A i \in 1 .. n : A[i] = J[i]
    BY <2>1, AppendProperties
  <2> HIDE DEF A
  <2> QED BY <2>2
<1>4. K[n + 1] = e /\ \A i \in 1 .. n : K[i] = J[i] BY DEF JournalOf
<1>5. \A i \in 1 .. (n + 1) : i = n + 1 \/ i \in 1 .. n OBVIOUS
<1> HIDE DEF J, K, e, A
<1>6. K = A BY <1>1, <1>3, <1>4, <1>5
<1> QED BY <1>6 DEF K, A, J, e

\* A journal one event longer is one entry longer.
LEMMA JournalOfLonger ==
    ASSUME NEW n \in Nat, NEW log, DOMAIN log = 1 .. n, NEW e, NEW longer,
           longer = Written(log, n + 1, e)
    PROVE  /\ DOMAIN longer = 1 .. (n + 1)
           /\ JournalOf(longer, n + 1) = Append(JournalOf(log, n), EntryOf(e))
<1>1. DOMAIN longer = 1 .. (n + 1) /\ longer[n + 1] = e
      /\ \A j \in 1 .. n : longer[j] = log[j]
  BY Longer
<1>2. JournalOf(longer, n + 1) = Append(JournalOf(log, n), EntryOf(longer[n + 1]))
  BY <1>1, JournalGrows
<1> QED BY <1>1, <1>2

\* Every step of the command is a step of the journal or leaves it alone.
LEMMA CommandJournal ==
    ASSUME AuditAssumption, CommandInv, [CommandNext]_commandVars
    PROVE  JournalStep /\ Workflow' = Workflow
<1>1. AuditInv BY DEF CommandInv
<1>2. CASE GraphStep BY <1>1, <1>2, StepKeeps DEF GraphStep, Keeps
<1>3. CASE LookupCorrupt
  <2>1. /\ mode = "enter" /\ Fail("torn")
        /\ UNCHANGED <<events, cache, manifest, paid, crashes, resumes, spoiled>>
    BY <1>3 DEF LookupCorrupt, Corrupt, bounds
  <2> QED BY <1>1, <2>1, LookupFailsKeeps DEF Keeps
<1>4. CASE GraphDies BY <1>1, <1>4, CrashKeeps DEF GraphDies, Keeps
<1>5. CASE \E c \in saved, d \in Dests, sources \in Admitted[header] :
              ResumeCommand(c, d, sources)
  <2>1. PICK c \in saved : ResumeRun(c) /\ stage = "over" BY <1>5 DEF ResumeCommand
  <2>2. mode \in Gone BY <2>1 DEF CommandInv, StageSound
  <2> QED BY <1>1, <2>1, <2>2, ResumeRunKeeps DEF Keeps
<1>6. ASSUME UNCHANGED <<durable, process>> PROVE JournalStep /\ Workflow' = Workflow
  BY <1>6 DEF JournalStep, Workflow, durable, process
<1>7. CASE \/ GraphRaises \/ ReadArtifacts \/ MakeStaging \/ WriteFile \/ Rename \/ Sync
           \/ OtherTakes \/ UNCHANGED commandVars
  <2>1. UNCHANGED vars
    BY <1>7 DEF GraphRaises, ReadArtifacts, MakeStaging, WriteFile, Rename, Sync, OtherTakes,
                commandVars
  <2> QED BY <1>6, <2>1 DEF vars
<1>8. CASE CloseFails \/ WriteFails \/ SyncFails \/ PublisherDies
  BY <1>6, <1>8 DEF CloseFails, WriteFails, SyncFails, PublisherDies
<1> QED BY <1>2, <1>3, <1>4, <1>5, <1>7, <1>8 DEF CommandNext

\* A step of the journal maps to a step of the abstract one.
LEMMA JournalMaps ==
    ASSUME AuditAssumption, AuditInv, JournalStep, Workflow' = Workflow
    PROVE  [Abstract!Next]_Abstract!vars
<1> DEFINE n == Count
           w == Workflow
           E == IF st.flow.workflow = "baseline-v1" THEN BaselineEdges ELSE ResearchEdges
<1>1. /\ w \in {"baseline-v1", "research-v1"} /\ n \in Nat /\ DOMAIN events = 1 .. n
      /\ LogSound(events, w, manifest) /\ ManifestSound(events, w, manifest)
      /\ \A j \in 1 .. n : EntrySound(events, w, manifest, events[j], j)
      /\ \A j \in 1 .. n : Before(events, w, j + 1) = After(events[j])
      /\ StateSound(events, w, n + 1) /\ Billed \subseteq Nat
  <2>1. n + 1 \in 1 .. (n + 1) BY InvLog
  <2> QED BY <2>1, InvLog
<1>2. E = EdgesOf(w) /\ E' = E BY DEF EdgesOf, Workflow
<1>3. Journal = JournalOf(events, n) /\ Journal' = JournalOf(events', n') BY JournalIs
<1>4. /\ Len(Journal) = n /\ (Journal = <<>> <=> n = 0)
      /\ \A i \in 1 .. n : Journal[i] = EntryOf(events[i])
  <2> DEFINE J == JournalOf(events, n)
  <2>1. IsJournal(J, events, n)
    <3> HIDE DEF n
    <3> QED BY <1>1, JournalFacts
  <2> HIDE DEF J
  <2>2. Journal = J BY <1>3 DEF J
  <2> QED BY <2>1, <2>2 DEF IsJournal
<1>5. CASE UNCHANGED <<events, manifest>>
  <2>1. Journal' = Journal BY <1>5 DEF Journal
  <2> QED BY <1>2, <1>5, <2>1 DEF Abstract!vars
<1>6. ASSUME manifest' = manifest, Before(events, w, n + 1).node # "END",
             NEW e, EntrySound(events, w, manifest, e, n + 1),
             events' = Written(events, n + 1, e)
      PROVE  Abstract!Next
  <2>1. /\ e.receipt.node \in ResearchNodes /\ e.ok \in BOOLEAN
        /\ manifest = 0 \/ e.receipt.node = "PersistResults"
        /\ \E used \in Billed : MayFollow(e, events, w, n, used)
    <3> HIDE DEF n, w
    <3> QED BY <1>1, <1>6, EntryFollows
  <2>2. /\ DOMAIN events' = 1 .. (n + 1)
        /\ Journal' = Append(Journal, EntryOf(e))
    <3>1. n \in Nat /\ DOMAIN events = 1 .. n BY <1>1
    <3>2. events' = Written(events, n + 1, e) BY <1>6
    <3> DEFINE longer == events'
    <3>3. longer = Written(events, n + 1, e) BY <3>2
    <3> HIDE DEF n, longer
    <3>4. /\ DOMAIN longer = 1 .. (n + 1)
          /\ JournalOf(longer, n + 1) = Append(JournalOf(events, n), EntryOf(e))
      BY <3>1, <3>3, JournalOfLonger
    <3>5. DOMAIN events' = 1 .. (n + 1) BY <3>4 DEF longer
    <3>6. n' = n + 1 BY <3>1, <3>5, FS_Interval DEF n, Count
    <3>7. JournalOf(events', n') = Append(JournalOf(events, n), EntryOf(e))
      BY <3>4, <3>6 DEF longer
    <3> QED BY <3>5, <3>7, JournalIs DEF n
  <2>3. n' = n + 1 BY <1>1, <2>2, FS_Interval DEF Count
  <2>4. Journal' = Append(Journal, EntryOf(e)) BY <2>2
  <2> DEFINE node == e.receipt.node
             ok == e.ok
  <2>8. PICK charge \in Usages \cup {0} : MayFollow(e, events, w, n, charge)
    BY <2>1 DEF Billed
  <2>5. Abstract!Follows(node, ok)
    BY <1>2, <1>4, <2>1, <2>8 DEF Abstract!Follows, MayFollow, EntryOf
  <2>6. e.post.total = Abstract!Total + charge
    <3>1. n \in Nat /\ charge \in Nat BY <1>1 DEF Billed
    <3> HIDE DEF n, w
    <3>2. CASE n = 0
      <4>1. e.post.total = charge BY <2>8, <3>2 DEF MayFollow
      <4>2. Abstract!Total = 0 BY <1>4, <3>2 DEF Abstract!Total
      <4> QED BY <3>1, <4>1, <4>2
    <3>3. CASE n # 0
      <4>1. e.post.total = events[n].post.total + charge BY <2>8, <3>3 DEF MayFollow
      <4>2. n \in 1 .. n BY <3>1, <3>3
      <4>3. Journal[n].total = events[n].post.total BY <1>4, <4>2 DEF EntryOf
      <4>4. Abstract!Total = Journal[n].total BY <1>4, <3>3 DEF Abstract!Total
      <4> QED BY <4>1, <4>3, <4>4
    <3> QED BY <3>2, <3>3
  <2>7. Abstract!Record(node, ok, charge)
    BY <1>2, <1>6, <2>1, <2>4, <2>5, <2>6 DEF Abstract!Record, EntryOf
  <2> QED BY <2>1, <2>7 DEF Abstract!Next
<1>7. ASSUME events' = events, manifest' = n, Before(events, w, n + 1).node = "PersistResults"
      PROVE  [Abstract!Next]_Abstract!vars
  <2>1. Journal' = Journal BY <1>7 DEF Journal
  <2>2. CASE manifest # 0
    <3>1. manifest = n
      <4> HIDE DEF n, w
      <4> QED BY <1>1, <1>7, <2>2, ManifestIsWhole
    <3> QED BY <1>2, <1>7, <2>1, <3>1 DEF Abstract!vars
  <2>3. CASE manifest = 0
    <3>1. n # 0
      <4> SUFFICES ASSUME n = 0 PROVE FALSE OBVIOUS
      <4>1. Before(events, w, 1).node = "ValidateRequest" BY DEF Before, InitialState
      <4> QED BY <1>7, <4>1
    <3> DEFINE p == events[n]
    <3>2. n \in 1 .. n /\ EntrySound(events, w, manifest, p, n)
          /\ After(p).node = "PersistResults"
      BY <1>1, <1>7, <3>1
    <3>3. p.receipt.node # "PersistResults"
          /\ (p.ok => <<p.receipt.node, "PersistResults">> \in EdgesOf(w))
      <4> HIDE DEF p, w
      <4> QED BY <1>1, <3>2, EntryNext
    <3>4. Journal[Len(Journal)] = EntryOf(p) BY <1>4, <3>2
    <3>5. Abstract!Persist
      BY <1>2, <1>4, <1>7, <2>1, <2>3, <3>1, <3>3, <3>4 DEF Abstract!Persist, EntryOf
    <3> QED BY <3>5 DEF Abstract!Next
  <2> QED BY <2>2, <2>3
<1> QED BY <1>5, <1>6, <1>7 DEF JournalStep

LEMMA JournalStarts ==
    ASSUME AuditAssumption, CommandInit
    PROVE  Abstract!Init
<1>1. Init /\ events = <<>> /\ manifest = 0 BY DEF CommandInit, Init
<1>2. Count = 0
  <2>1. DOMAIN events = {} BY <1>1
  <2> QED BY <2>1, FS_EmptySet DEF Count
<1>3. Journal = <<>>
  <2>1. Journal = JournalOf(events, 0) BY <1>2, JournalIs
  <2>2. IsJournal(JournalOf(events, 0), events, 0) BY JournalFacts
  <2> QED BY <2>1, <2>2 DEF IsJournal
<1> QED BY <1>1, <1>3 DEF Abstract!Init

\* The audited run, whatever crashes and commands it took, implements one journal
\* that grows along the graph's edges and one manifest over it (_safe_node,
\* _persist_results, RunManifest).
THEOREM CommandsKeepJournal == CommandSpec => JournalKept
<1>1. CommandInit => Abstract!Init BY AuditAssumption, JournalStarts
<1>2. CommandInv /\ [CommandNext]_commandVars => [Abstract!Next]_Abstract!vars
  <2>1. CommandInv => AuditInv BY DEF CommandInv
  <2> QED BY <2>1, AuditAssumption, CommandJournal, JournalMaps
<1> QED BY <1>1, <1>2, CommandKeepsInv, PTL DEF CommandSpec, JournalKept, Abstract!Spec
=============================================================================
