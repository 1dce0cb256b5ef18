------------------------------ MODULE NodeAudit ------------------------------
(***************************************************************************)
(* One run of an audited research graph: every node runs inside the        *)
(* envelope of _safe_node, which publishes exactly one durable event per   *)
(* node, and LangGraph checkpoints the state behind it.  The process may   *)
(* die at any step and the run may be resumed from any checkpoint that was *)
(* written, while the event log, the completion cache, the manifest and    *)
(* the provider's bill stay.                                               *)
(*                                                                         *)
(* A call node makes one metered call (the calls of a node follow each     *)
(* other and each goes the same way).  A call reserves Estimate and is     *)
(* charged what it used, which may be more.  It may fail, billed or not,   *)
(* and so may everything that is stored behind it: its receipt, its        *)
(* result, its entry in the completion cache.                              *)
(*                                                                         *)
(* Definitions named Bug... are faulty variants: the properties of the     *)
(* last section are violated by them.                                      *)
(***************************************************************************)
EXTENDS ResearchFlow, Functions

CONSTANTS
    Workflows,      \* the graphs explored
    Metered,        \* nodes that make a provider call
    Budget,         \* units the accountant may charge
    Estimate,       \* units a call reserves
    Usages,         \* units a call may use
    MaxLag,         \* checkpoints in flight behind the running graph
    MaxFaults,      \* failing handlers, providers, stores and sinks
    MaxCrashes,     \* deaths of the process
    MaxResumes      \* resumptions, from any checkpoint

ASSUME AuditAssumption ==
    /\ Workflows \subseteq {"baseline-v1", "research-v1"}
    /\ Metered \subseteq {"Plan", "Search", "Fetch", "RankEvidence", "DraftReport"}
    /\ "Search" \in Metered /\ MaxLag # 0 /\ Estimate # 0
    /\ {Budget, Estimate, MaxLag, MaxFaults, MaxCrashes, MaxResumes} \subseteq Nat
    /\ Usages \subseteq Nat \ {0}

VARIABLES
    events,     \* the durable sink: seq -> the event with its node receipt
    saved,      \* the checkpoints on disk
    cache,      \* completion cache: the content of a call -> who completed it
    manifest,   \* 0, or the events the manifest on disk accounts for
    paid,       \* calls the provider bills
    mode,       \* where the process is
    st,         \* the state the node reads
    out,        \* the flow its handler leaves behind
    calls,      \* the calls of this node that have a receipt
    units,      \* what those receipts charge
    acc,        \* what the accountant has charged
    answer,     \* what the call in flight returns
    unsaved,    \* checkpoints handed to the saver and not yet on disk
    why,        \* why the process raised
    faults, crashes, resumes,
    spoiled     \* calls paid for by a process that lived and kept no answer

durable == <<events, saved, cache, manifest, paid>>
process == <<mode, st, out, calls, units, acc, answer, unsaved, why>>
bounds  == <<faults, crashes, resumes, spoiled>>
vars    == <<durable, process, bounds>>

-----------------------------------------------------------------------------
\* A file, or an entry, is written under its key.
Written(f, key, value) ==
    [k \in DOMAIN f \cup {key} |-> IF k = key THEN value ELSE f[k]]

\* The execution number is one more than the node's receipts in the state.
Attempt == Cardinality({r \in st.receipts : r.node = st.node}) + 1

Receipt(node, attempt, seq) == [node |-> node, attempt |-> attempt, seq |-> seq]

\* An event and the node receipt it names: the state read and left behind,
\* before the receipt itself and the next sequence number are added.
Event(node, attempt, seq, input, post, receipted, charged) ==
    [receipt |-> Receipt(node, attempt, seq), ok |-> post.flow.err = "none",
     input |-> input, post |-> post, calls |-> receipted, units |-> charged]

\* Bug: only FinalizeCitations leaves a terminal receipt.
BugPost(flow) ==
    [st EXCEPT !.flow = flow, !.total = acc,
       !.terminals = IF st.node = "FinalizeCitations" THEN @ \cup {st.seq} ELSE @]

Post(flow) ==
    [st EXCEPT !.flow = flow, !.total = acc,
       !.terminals = IF st.node # "PersistResults"
                        /\ (flow.err # "none" \/ st.node = "FinalizeCitations")
                       THEN @ \cup {st.seq} ELSE @]

InitialState(workflow) ==
    [flow |-> InitialFlow(workflow), node |-> "ValidateRequest", seq |-> 1,
     total |-> 0, receipts |-> {}, terminals |-> {}]

\* The graph takes the state on along the conditional edges.
Onward(post, receipts, seq) ==
    [post EXCEPT !.receipts = @ \cup receipts, !.seq = seq,
                 !.node = Route(post.node, post.flow)]

After(event) ==
    Onward(event.post, {event.receipt}, event.post.seq + 1)

\* LangGraph writes the checkpoints in their order while the graph runs on:
\* the last MaxLag of them are in flight.
Proceed(next) ==
    /\ st' = next
    /\ IF Len(unsaved) < MaxLag
         THEN unsaved' = Append(unsaved, next) /\ UNCHANGED saved
         ELSE /\ unsaved' = Append(Tail(unsaved), next)
              /\ saved' = saved \cup {Head(unsaved)}
    /\ mode' = IF next.node = "END" THEN "flush" ELSE "enter"
    /\ calls' = {} /\ units' = 0
    /\ UNCHANGED <<out, answer, why>>

\* The first checkpoints in flight reach the disk before the process is gone.
LosesProcess ==
    /\ \E k \in 0 .. Len(unsaved) :
          saved' = saved \cup Range(SubSeq(unsaved, 1, k))
    /\ st' = InitialState(st.flow.workflow) /\ out' = st'.flow /\ acc' = 0
    /\ unsaved' = <<>> /\ calls' = {} /\ units' = 0 /\ answer' = {}

Fail(reason) == mode' = "raised" /\ why' = reason /\ LosesProcess

Stay == UNCHANGED <<saved, st, out, calls, units, acc, answer, unsaved, why>>

CallFault == faults < MaxFaults /\ faults' = faults + 1 /\ UNCHANGED <<crashes, resumes>>

Fault == CallFault /\ UNCHANGED spoiled

-----------------------------------------------------------------------------
(* A fresh run: the header is written, the input is the first checkpoint.  *)

Init ==
    /\ \E w \in Workflows :
          st = InitialState(w) /\ unsaved = <<InitialState(w)>> /\ out = InitialFlow(w)
    /\ events = <<>> /\ saved = {} /\ cache = <<>> /\ manifest = 0 /\ paid = 0
    /\ mode = "enter" /\ calls = {} /\ units = 0 /\ acc = 0 /\ answer = {} /\ why = "none"
    /\ faults = 0 /\ crashes = 0 /\ resumes = 0 /\ spoiled = 0

\* The saver has written every checkpoint before the graph's call returns.
Flush ==
    /\ mode = "flush"
    /\ mode' = "done"
    /\ saved' = saved \cup Range(unsaved) /\ unsaved' = <<>>
    /\ UNCHANGED <<events, cache, manifest, paid, st, out, calls, units, acc, answer, why,
                   bounds>>

-----------------------------------------------------------------------------
(* Entering a node: an event that is already durable is taken as it is.    *)

\* No event yet: the node's handler runs.
Entered == mode = "enter" /\ st.seq \notin DOMAIN events

LookupFails ==
    /\ mode = "enter" /\ Fault /\ Fail("sink")
    /\ UNCHANGED <<events, cache, manifest, paid>>

\* The charges on the provider receipts the node receipt names.
Replayed(e) == e.units

\* The event's node receipt hashes the state it read.
MadeFrom(e, state) == e.input = state

\* Bug: the recovered state lacks the receipt of the recovered event.
BugRecover ==
    /\ mode = "enter" /\ st.seq \in DOMAIN events
    /\ LET e == events[st.seq]
       IN  IF /\ e.receipt.node = st.node
              /\ MadeFrom(e, st)
              /\ acc + Replayed(e) = e.post.total
             THEN /\ Proceed(Onward(e.post, {}, st.seq + 1))
                  /\ acc' = acc + Replayed(e)
             ELSE Fail("stuck")
    /\ UNCHANGED <<events, cache, manifest, paid, bounds>>

\* The event must be this node's, read this state, and the charges on its
\* receipts must bring the accountant to the total the receipt recorded.
Recover ==
    /\ mode = "enter" /\ st.seq \in DOMAIN events
    /\ LET e == events[st.seq]
       IN  IF /\ e.receipt.node = st.node
              /\ MadeFrom(e, st)
              /\ acc + Replayed(e) = e.post.total
             THEN Proceed(After(e)) /\ acc' = acc + Replayed(e)
             ELSE Fail("stuck")
    /\ UNCHANGED <<events, cache, manifest, paid, bounds>>

-----------------------------------------------------------------------------
(* The provider call of a node.  The operation is named by the node, its   *)
(* execution and its input; the cache is keyed by the input alone.         *)

CallInput ==
    <<st.node, CASE st.node = "Search" -> st.flow.active
                 [] st.node = "Fetch" ->
                      IF Has(st.flow, "search") THEN Latest(st.flow, "search") ELSE {}
                 [] st.node = "RankEvidence" -> st.flow.evidence
                 [] OTHER -> 0>>

Operation == [input |-> CallInput, attempt |-> Attempt]

\* Nothing is called to fetch no page, to rank nothing, or for a draft that is
\* made locally or refused.
NoCall ==
    \/ st.node \in {"Fetch", "RankEvidence"} /\ CallInput[2] = {}
    \/ st.node = "DraftReport" /\ st.flow.stop = "BUDGET_EXHAUSTED"

Calling == Entered /\ st.node \in Metered /\ ~NoCall

\* An entry must describe this very call; it is the operation's own when its
\* receipt names the operation.
Own(entry) == entry.operation = Operation

\* A completion of this very operation is charged again what it used (the
\* process that made the call died before its event), another one's is only
\* observed.
CallCached ==
    /\ Calling /\ CallInput \in DOMAIN cache
    /\ LET entry == cache[CallInput]
           own == Own(entry)
       IN  /\ own => acc + Estimate <= Budget
           /\ answer' = entry.answer
           /\ calls' = IF own THEN {Operation} ELSE {}
           /\ units' = IF own THEN entry.units ELSE 0
           /\ acc' = acc + units'
    /\ mode' = "run"
    /\ UNCHANGED <<durable, st, out, unsaved, why, bounds>>

CallRefused ==
    /\ Calling
    /\ CallInput \in DOMAIN cache => Own(cache[CallInput])
    /\ acc + Estimate > Budget
    /\ out' = OutOfBudget(st.flow)
    /\ mode' = "handled"
    /\ UNCHANGED <<durable, st, calls, units, acc, answer, unsaved, why, bounds>>

\* Bug: the completion cache is not asked.
BugCallProvider ==
    /\ Calling
    /\ acc + Estimate <= Budget
    /\ paid' = paid + 1
    /\ answer' \in IF st.node = "Search" THEN SUBSET Docs ELSE {{}}
    /\ mode' = "paying"
    /\ UNCHANGED <<events, saved, cache, manifest, st, out, calls, units, acc,
                   unsaved, why, bounds>>

CallProvider ==
    /\ Calling /\ CallInput \notin DOMAIN cache
    /\ acc + Estimate <= Budget
    /\ paid' = paid + 1
    /\ answer' \in IF st.node = "Search" THEN SUBSET Docs ELSE {{}}
    /\ mode' = "paying"
    /\ UNCHANGED <<events, saved, cache, manifest, st, out, calls, units, acc,
                   unsaved, why, bounds>>

\* The usage is settled: what the call used is charged whatever is left of
\* the budget, and its receipt names it.
Settles(used) ==
    /\ acc' = acc + used
    /\ calls' = {Operation} /\ units' = used

\* The receipt is written with the result.
CallSettled ==
    /\ mode = "paying"
    /\ \E used \in Usages :
          Settles(used) /\ acc' <= Budget
    /\ mode' = "charged"
    /\ UNCHANGED <<durable, st, out, answer, unsaved, why, bounds>>

\* A charge above the budget has its receipt, and the answer is dropped: the
\* node leaves the state of an exhausted budget.
CallOverdraws ==
    /\ mode = "paying"
    /\ \E used \in Usages :
          Settles(used) /\ acc' > Budget
    /\ out' = OutOfBudget(st.flow)
    /\ mode' = "handled"
    /\ spoiled' = spoiled + 1
    /\ UNCHANGED <<durable, st, answer, unsaved, why, faults, crashes, resumes>>

\* The provider fails and has billed the call, or has not.  The usage it
\* reported is charged; a search or a page is charged in any case, a model
\* call that reported nothing is released.  Either way it has its receipt.
CallFails ==
    /\ mode = "paying" /\ CallFault
    /\ \E used \in Usages \cup {0} :
          Settles(used) /\ (st.node \in {"Search", "Fetch"} => used # 0)
    /\ \/ paid' = paid - 1 /\ UNCHANGED spoiled
       \/ spoiled' = spoiled + 1 /\ UNCHANGED paid
    /\ out' = Raise(st.flow, "PROVIDER")
    /\ mode' = "handled"
    /\ UNCHANGED <<events, saved, cache, manifest, st, answer, unsaved, why>>

\* The receipt cannot be stored.  Behind an answer over the budget, or one
\* whose usage contradicts itself, the node fails with a charge nothing names;
\* behind any other the audit stays open and stops the process.
ReceiptFails ==
    /\ mode \in {"paying", "charged"} /\ CallFault
    /\ spoiled' = spoiled + 1
    /\ \/ /\ mode = "paying"
          /\ \E used \in Usages : acc' = acc + used
          /\ out' = Raise(st.flow, "HANDLER")
          /\ mode' = "handled"
          /\ UNCHANGED <<durable, st, calls, units, answer, unsaved, why>>
       \/ Fail("audit") /\ UNCHANGED <<events, cache, manifest, paid>>

Completion == [operation |-> Operation, answer |-> answer, units |-> units]

\* The completion cache is published last.
CallStored ==
    /\ mode = "charged"
    /\ cache' = Written(cache, CallInput, Completion)
    /\ mode' = "run"
    /\ UNCHANGED <<events, saved, manifest, paid, st, out, calls, units, acc, answer,
                   unsaved, why, bounds>>

\* The result or the cache entry cannot be stored, or the entry not read back:
\* the node fails, and the call keeps its receipt and its charge.
CallUnstored ==
    /\ mode = "charged" /\ CallFault
    /\ \/ cache' = Written(cache, CallInput, Completion) /\ UNCHANGED spoiled
       \/ spoiled' = spoiled + 1 /\ UNCHANGED cache
    /\ out' = Raise(st.flow, "HANDLER")
    /\ mode' = "handled"
    /\ UNCHANGED <<events, saved, manifest, paid, st, calls, units, acc, answer,
                   unsaved, why>>

\* The rest of the handler, behind its call if it makes one.
Running ==
    /\ st.node # "PersistResults"
    /\ \/ mode = "run"
       \/ Entered /\ (st.node \in Metered => NoCall)

Handle ==
    /\ Running
    /\ out' \in Outcomes(st.node, st.flow, acc >= Budget, answer)
    /\ mode' = "handled"
    /\ UNCHANGED <<durable, st, calls, units, acc, answer, unsaved, why, bounds>>

\* Any other exception of the handler, a passed deadline included.
HandlerFails ==
    /\ Running /\ Fault
    /\ out' = Raise(st.flow, "HANDLER")
    /\ mode' = "handled"
    /\ UNCHANGED <<durable, st, calls, units, acc, answer, unsaved, why>>

-----------------------------------------------------------------------------
(* PersistResults: every event of the run must be there and name exactly   *)
(* one receipt of the state, every receipt must be consumed, their keys    *)
(* must differ, and the one terminal receipt names the last event.         *)

TerminalOwned == st.terminals = {st.seq - 1}

AuditClosure ==
    /\ 1 .. (st.seq - 1) \subseteq DOMAIN events
    /\ st.receipts = {events[i].receipt : i \in 1 .. (st.seq - 1)}
    /\ \A r, q \in st.receipts :
          <<r.node, r.attempt>> = <<q.node, q.attempt>> => r = q
    /\ TerminalOwned

(* What RunManifest's validator asks of the executions and calls it is     *)
(* given: the events of the run, in their order.                           *)

Trail == 1 .. (st.seq - 1)

\* A node's executions are numbered from one without a gap.
AttemptsContiguous ==
    \A i \in Trail :
        events[i].receipt.attempt =
            Cardinality({j \in 1 .. i : events[j].receipt.node = events[i].receipt.node})

\* A call lies in one execution of its node.
CallsContained ==
    \A i, j \in Trail : i # j => events[i].calls \cap events[j].calls = {}

Charged(trail) ==
    SumFunctionOnSet([i \in DOMAIN events |-> events[i].units], trail)

\* The usage of the run is added up from its receipts.
WithinBudget == Charged(Trail) <= Budget

ManifestValid == AttemptsContiguous /\ CallsContained /\ WithinBudget

Persisting == Entered /\ st.node = "PersistResults"

PersistHandler ==
    /\ Persisting
    /\ IF AuditClosure /\ TypedClosure(st.flow) /\ ManifestValid
         THEN manifest' = st.seq - 1 /\ out' = st.flow
         ELSE out' = Raise(st.flow, "PERSIST_RESULTS_FAILED") /\ UNCHANGED manifest
    /\ mode' = "handled"
    /\ UNCHANGED <<events, saved, cache, paid, st, calls, units, acc, answer, unsaved,
                   why, bounds>>

PersistFails ==
    /\ Persisting /\ Fault
    /\ out' = Raise(st.flow, "PERSIST_RESULTS_FAILED")
    /\ mode' = "handled"
    /\ UNCHANGED <<durable, st, calls, units, acc, answer, unsaved, why>>

-----------------------------------------------------------------------------
(* Publication: the sink is written and read back; when the two do not     *)
(* agree the event is read once more.                                      *)

This == Event(st.node, Attempt, st.seq, st, Post(out), calls, units)

Durable(seq, e) ==
    /\ events' = Written(events, seq, e)
    /\ UNCHANGED <<cache, manifest, paid>>

Unwritten == UNCHANGED <<events, cache, manifest, paid>>

Publish ==
    /\ mode = "handled"
    /\ Durable(st.seq, This)
    /\ Proceed(After(This))
    /\ UNCHANGED <<acc, bounds>>

\* Written, but it took the second read to see it.  A node that succeeded is
\* then failed by a second event, except where the run cannot be closed.
PublishRecovered ==
    /\ mode = "handled" /\ Fault
    /\ Durable(st.seq, This)
    /\ IF ~This.ok \/ st.node = "PersistResults"
         THEN Proceed(After(This)) /\ UNCHANGED acc
       ELSE IF st.flow.evidence = {} \/ st.node = "FinalizeCitations" THEN Fail("sink")
       ELSE mode' = "second" /\ Stay

\* PersistResults ends the run with a failure and keeps the manifest that is
\* already on disk; the event's number stays free.
EndUnpublished ==
    /\ Proceed([st EXCEPT !.flow = Raise(out, "PERSIST_RESULTS_FAILED"),
                          !.total = acc, !.node = "END"])
    /\ UNCHANGED acc

\* Not written, and the sink says so.
PublishAbsent ==
    /\ mode = "handled" /\ Fault
    /\ Unwritten
    /\ IF st.node = "PersistResults" THEN EndUnpublished
       ELSE IF out.evidence = {} THEN Fail("sink")
       ELSE mode' = (IF This.ok THEN "replace" ELSE "retry") /\ Stay

\* The sink cannot be read: the event may or may not be there.
PublishUnreadable ==
    /\ mode = "handled" /\ Fault
    /\ Durable(st.seq, This) \/ Unwritten
    /\ IF st.node = "PersistResults" THEN EndUnpublished ELSE Fail("sink")

\* The failure that takes the place of the missing event: same node, same
\* number, same charges.
Replacement ==
    Event(st.node, Attempt, st.seq, st, Post(Raise(out, "DATA_CORRUPTION")),
          calls, units)

PublishAgain ==
    /\ mode \in {"replace", "retry"}
    /\ LET e == IF mode = "retry" THEN This ELSE Replacement
       IN  Durable(st.seq, e) /\ Proceed(After(e))
    /\ UNCHANGED <<acc, bounds>>

PublishAgainFails ==
    /\ mode \in {"replace", "retry"} /\ Fault
    /\ Durable(st.seq, IF mode = "retry" THEN This ELSE Replacement) \/ Unwritten
    /\ Fail("sink")

\* The failure behind an event that was recovered: the node's next execution,
\* reading the state the event left.
Behind ==
    LET done == [Onward(This.post, {This.receipt}, st.seq + 1) EXCEPT !.node = st.node]
    IN  Event(st.node, Attempt + 1, done.seq, done,
              [done EXCEPT !.flow = Raise(out, "DATA_CORRUPTION"),
                           !.terminals = @ \cup {done.seq}], {}, 0)

PublishBehind ==
    /\ mode = "second"
    /\ Durable(st.seq + 1, Behind)
    /\ Proceed(After(Behind))
    /\ UNCHANGED <<acc, bounds>>

PublishBehindFails ==
    /\ mode = "second" /\ Fault
    /\ Durable(st.seq + 1, Behind) \/ Unwritten
    /\ Fail("sink")

-----------------------------------------------------------------------------
Crash ==
    /\ mode \notin {"down", "raised", "done"}
    /\ crashes < MaxCrashes
    /\ crashes' = crashes + 1
    /\ mode' = "down"
    /\ LosesProcess
    /\ UNCHANGED <<events, cache, manifest, paid, why, faults, resumes,
                   spoiled>>

\* Bug: the resumed accountant starts from nothing.
BugResume(c) ==
    /\ mode \in {"down", "raised", "done"}
    /\ resumes < MaxResumes
    /\ resumes' = resumes + 1
    /\ st' = c /\ acc' = 0 /\ out' = c.flow
    /\ calls' = {} /\ units' = 0 /\ answer' = {} /\ unsaved' = <<>>
    /\ mode' = (IF c.node = "END" THEN "flush" ELSE "enter") /\ why' = "none"
    /\ UNCHANGED <<durable, faults, crashes, spoiled>>

\* LangGraphResearchRunner.run with a checkpoint: the accountant starts from
\* the checkpoint's snapshot, and an event that is already behind the
\* checkpoint must have been made from its state.
Resume(c) ==
    /\ mode \in {"down", "raised", "done"}
    /\ resumes < MaxResumes
    /\ resumes' = resumes + 1
    /\ st' = c /\ acc' = c.total /\ out' = c.flow
    /\ calls' = {} /\ units' = 0 /\ answer' = {} /\ unsaved' = <<>>
    /\ IF c.seq \in DOMAIN events /\ ~MadeFrom(events[c.seq], c)
         THEN mode' = "raised" /\ why' = (IF c.node = "END" THEN "ended" ELSE "stuck")
         ELSE mode' = (IF c.node = "END" THEN "flush" ELSE "enter") /\ why' = "none"
    /\ UNCHANGED <<durable, faults, crashes, spoiled>>

\* What a running process does next when nothing goes wrong.
Process ==
    \/ Flush \/ Recover
    \/ CallCached \/ CallRefused \/ CallProvider \/ CallSettled
    \/ CallOverdraws \/ CallStored
    \/ Handle \/ PersistHandler \/ Publish \/ PublishAgain \/ PublishBehind

Faults ==
    \/ LookupFails \/ CallFails \/ ReceiptFails \/ CallUnstored \/ HandlerFails \/ PersistFails
    \/ PublishRecovered \/ PublishAbsent \/ PublishUnreadable
    \/ PublishAgainFails \/ PublishBehindFails

Next == Process \/ Faults \/ Crash \/ \E c \in saved : Resume(c)

Spec == Init /\ [][Next]_vars
-----------------------------------------------------------------------------
(***************************************************************************)
(* Properties.                                                             *)
(***************************************************************************)

\* The charge of one call has no receipt: the snapshot an event leaves behind
\* is above the one it read by more than its receipts.
Unreceipted(e) == e.post.total # e.input.total + e.units

\* The node has failed, or one before it.
Failing ==
    \/ st.flow.err # "none"
    \/ mode \in {"handled", "retry", "replace"} /\ out.err # "none"

\* A node is charged for what it called and for nothing else: while a process
\* runs, the accountant holds the charges on the receipts of the events before
\* this node and of the calls this node has made, billed failures and answers
\* over the budget included, however often the run was resumed and the events
\* and the cache were replayed into a fresh accountant.  A charge without a
\* receipt only ever stands in a run that has failed with it.
ChargesAreReceipted ==
    mode \notin {"down", "raised", "done", "flush"} =>
        LET receipted == Charged(DOMAIN events \cap 1 .. (st.seq - 1)) + units
        IN  acc = receipted \/ (acc > receipted /\ Failing)

\* A call is paid for again only when its answer was not kept: the process died
\* before the completion cache had it, or the call itself failed, overdrew the
\* budget or could not be stored.  A command lives through that once: whatever
\* is resumed, no process goes on to pay for another call.
CallPaidAgainForCause ==
    /\ paid <= Cardinality(DOMAIN cache) + crashes + spoiled
                 + (IF mode \in {"paying", "charged"} THEN 1 ELSE 0)
    /\ spoiled <= resumes + 1

\* The audit trail of a run that reaches PersistResults always closes: a crash,
\* a resume from an old checkpoint, a failed call or a lost, repeated or
\* replaced event leaves no event without its receipt, no receipt twice, no
\* second terminal receipt and no gap in a node's executions.  Its usage is
\* what the accountant charged unless a charge lost its receipt, and every
\* charged call was begun when its estimate still fitted the budget: only the
\* last of them can have overdrawn it, and the manifest is refused for nothing
\* else.
TrailCloses ==
    Persisting =>
        /\ AuditClosure /\ AttemptsContiguous /\ CallsContained
        /\ Charged(Trail) = st.total \/ \E i \in Trail : Unreceipted(events[i])
        /\ \A i \in Trail : events[i].units # 0 => events[i].input.total + Estimate <= Budget

\* A resumed run is refused for its event log only if the log holds an event
\* that was read back late, with the node's failure behind it, or one whose
\* charge has no receipt, or if the run had already ended without seeing its
\* last event.
RefusedOnlyBehindFailure ==
    why = "stuck" =>
        \E i \in DOMAIN events :
            \/ Unreceipted(events[i])
            \/ /\ i + 1 \in DOMAIN events
               /\ events[i].ok /\ ~events[i + 1].ok
               /\ events[i].receipt.node = events[i + 1].receipt.node

\* The detailed model implements the journal.
Journal ==
    [i \in 1 .. Cardinality(DOMAIN events) |->
        [node |-> events[i].receipt.node, ok |-> events[i].ok,
         total |-> events[i].post.total]]

Abstract == INSTANCE RunJournal WITH
    Nodes <- ResearchNodes, Graphs <- {BaselineEdges, ResearchEdges},
    Entry <- "ValidateRequest", Last <- "PersistResults", Charges <- Usages \cup {0},
    edges <- IF st.flow.workflow = "baseline-v1" THEN BaselineEdges ELSE ResearchEdges,
    journal <- Journal, manifest <- manifest

\* One journal that only grows along the graph, and one manifest over it.
JournalKept == Abstract!Spec
=============================================================================
