# A TLA+ development of the deep-research service

This directory models and verifies the stateful core of Multi-Agent
DeepResearch (`src/` is the repository): the service that accepts and ends
runs, the audited graph that works on them, the calls it pays for, the files it
leaves, and the commands and experiments built on it.  Line numbers in this
file are lines of `src/src/deepresearch/...` unless a path says otherwise.

## 1. The system: inventory

A client asks the FastAPI service for a research run, or a user starts one with
the command line.  One Python process with one event loop works on it; what
must survive lies in a SQL store or in event files, in directories of artifacts
named by their hash, and in a LangGraph checkpointer.  Experiments launch such
runs in other processes and keep their records in plain directories.

| Part | Source | State it keeps | Operations |
|---|---|---|---|
| Run service | `runtime/manager.py` | per run: task, `CancellationToken`, lock, `_user_cancel_requested`, `_shutdown_requested`, subscribers; `_creation_lock`, `_closing` | `create`, `resume`, `cancel`, `emit`, `subscribe`, `shutdown`, tasks `_start`, `_recover_start`, `_execute` |
| Run store | `storage/sqlalchemy_store.py`, `usage_recovery.py`, `models.py` | rows: run, run event, usage ledger | `create_run`, `transition`, `finalize_run`, `append_event`, `list_events_after`, `reserve/settle/release_daily_cost`, `clear_admission`, `reconcile_startup` |
| Admission limits | `runtime/limits.py`, `admission.py`, `deployment_policy.py` | `CapacityGate` (2 runs), two token buckets, `_local_run_leases`, search and host semaphores | `admit`, `settle`, `release`, `defer_settlement`, slots |
| Event stream | `apps/api/sse.py`, `routes_events.py` | one cursor and one subscription per client | `event_stream`, `Last-Event-ID` |
| HTTP service | `apps/api/*` | none of its own | routes, lifespan (reconcile, serve, shutdown), identity, health |
| Budget accountant | `runtime/budget.py` | used and reserved amounts per dimension, reservations | `reserve`, `settle`, `release`, `snapshot`, `from_snapshot` |
| Provider execution | `providers/resilience.py`, `workflow/baseline_graph.py` (`_invoke_metered`) | attempts, usage observers, provider locks | call with retry, deadline, fallback; metering |
| Provider adapters | `providers/tavily.py`, `httpx_fetcher.py`, `openai_compatible.py` | none between calls | search, fetch, complete, structured, stream: what a reply means and what it costs |
| Research graphs and audit | `workflow/*` | graph state, audit buffer | nodes from `validate_request` to `persist_results`, `_safe_node`, event publication and its recovery |
| Checkpoints | `runtime/checkpoints.py`, `checkpointers.py` | checkpoint rows | load, resume validation |
| Content stores | `storage/cache.py`, `artifacts.py`, `evidence_store.py` | files addressed by their hash | put if absent, get, conflicts |
| Planning | `planning/*` | plan, query cache, token ledger, query schedule, coverage | `create_plan`, `queries_for`, `dispatch`, stop decision |
| Evidence, retrieval, reporting, security | those packages | none (pure) | extraction, ranking, citations, URL policy, redaction |
| Recording and replay | `providers/recording.py`, `replay*.py` | recorded bundles, staging directories, locks | record, seal, abort, load, replay |
| Command line | `src/apps/cli/main.py` | event files, checkpoints, output directory | run, resume, publish |
| Experiments | `src/experiments/*` | raw records, requests, receipt sidecars, candidate pool, aggregates, seal | matrix, single run, resume, external portfolio, summarize, render |
| UI, benchmarks, scripts | those directories | files | batch tools |

How they interact.  `create` takes the creation lock, asks `LimitManager.admit`
(a reservation row in the usage ledger and a slot), inserts the run row and
starts a task, with no await between the row and the task.  The task moves the
row to `running` and invokes Core (the research graph), whose events come back
through `emit` as durable rows followed by a broadcast that only wakes the
subscribed streams.  Whoever ends the run (the task, a cancel request,
shutdown, the create request itself) walks the same tail under the run's
lock: `finalize_run` (status, bill and terminal event in one transaction),
`_complete_accounting` (settle or defer the reservation, give the slot back,
clear the link) and the broadcast.  `reconcile_startup` does the same for the
rows a dead process left, from the database alone.

Core walks a graph of nodes.  `_safe_node` wraps each: it looks whether the
node's event is already durable, runs the handler, whose provider calls go
through the completion cache, the budget accountant, the executor with its
retries and one adapter, and then publishes one event with the node's receipt.
LangGraph writes a checkpoint behind it.  Fetched pages, parsed documents and
evidence go to content stores that all runs share.  The command line runs the
same graph with events in files, resumes it from a checkpoint, and publishes
three artifacts of a completed run as a directory.  A recording wraps the
providers and seals their answers as a bundle that later runs replay.  An
experiment group launches an agent per key, records a receipt for each, and a
summary seals aggregates over the records.

What is hard here: every store call is an await, so a cancel, a shutdown and
the run's own task interleave between a read of the row and the write that
relies on it; a write may fail before it commits or after it (its reply is
lost), and every retry loop must tell the two apart from the durable state
alone; the process may die at any await, inside a file write too; a slot of the
gate, a reservation of the daily budget and a row are three pieces of state in
two places that must agree at the end; an unknown bill must survive all of it.
A resumed graph meets durable events and cached answers that are ahead of its
checkpoint and must charge each of them once.  Directories are published by a
rename that must never replace anything, and what failed before it must be
found again.  Commands on one group follow failed, half-written and dead ones.

What correctness means, by part:

- run service and store: a run's log agrees with its row, Core runs at most
  once and only while admitted, an acknowledged cancel is honoured, every
  accepted run ends, nothing is announced before it is settled, an unknown
  bill keeps its reservation;
- limits: the gate counts the leases, a rejected request consumes nothing, a
  day's reserved and settled amounts stay under the limit;
- event stream: no durable event is skipped, doubled or reordered, the stream
  ends only after the terminal event was sent, and does end though wake-ups
  are lost;
- accountant and metering: reserved capacity returns, nothing is charged
  twice, an overdraft is only ever one call's; retries are bounded, no attempt
  starts after the deadline; a stream is taken for what a whole reply would be;
- planning: askers of one subquestion get the same queries, the planner's one
  ledger is overdrawn by one call of each subquestion at most, each query is
  charged once;
- graph, audit and checkpoints: an event is published once over crashes,
  charges, those of failed calls included, are restored from receipts exactly
  once, the trail of a run that reaches its end closes, no call begins once the
  budget is overdrawn, a call is paid again only if its answer was not kept;
- content stores: what is on disk rests on what is on disk, nobody is refused
  or pays again under one provider profile without a cause;
- recording: a bundle is whole or absent, stands for good, answers as the
  recorded callers were answered, and no leftover is forgotten;
- command line: what is published is the run, the same from every resumption,
  and answered by one set of sources;
- experiments: completed records stand, failed ones move only by a resumption
  asked for, money is spent again for a cause, what is sealed agrees with the
  records.

## 2. Modules

| Module | What it is |
|---|---|
| `RunLifecycle` | abstract contract of a run: status, event log, bill and reservation, with the steps a client may ever observe |
| `RunService` | `RunManager` over `SqlAlchemyRunStore` with the reservations and slots of `LimitManager`, in one process that may die; implements `RunLifecycle` |
| `EventStream` | one `event_stream` generator per client beside a run (`RunLifecycle`) that writes, ends and broadcasts |
| `AdmissionLimits` | `LimitManager` with amounts: slot, token buckets, the day's reservations, roll back of a refused admission |
| `BudgetAccountant` | `reserve`, `settle` and `release` of a run's budget, as steps the modules below compose |
| `QueryDispatch` | `QueryScheduler.dispatch`: concurrent searches behind a semaphore, sharing reservations by query |
| `QueryPlanning` | `FixedPlanner` with its gates, cache and token ledger, in front of rounds of `QueryDispatch` |
| `WebReplies`, `ModelReplies` | what the adapters make of replies: search and fetch; complete, structured and streams piece by piece (operators, no state) |
| `ProviderCalls` | `_invoke_metered` around `ProviderCallExecutor`: reservation, attempts ending with the verdicts of the two modules above, pauses, deadline, settlement |
| `ResearchFlow` | the nodes and routes of both research graphs (operators, no state) |
| `RunJournal` | abstract promise of an audited run: one journal that grows along the graph, one manifest over it |
| `NodeAudit` | `_safe_node` over `ResearchFlow` with events, checkpoints, cache and resumption; implements `RunJournal` |
| `CommandLine` | the research command around `NodeAudit`: event files, inputs, publication |
| `ContentStore` | artifacts, completion cache and evidence store, shared by runs that fetch, parse and file pages |
| `ReplayBundles` | recording a run, sealing, abort and its repairs, replaying |
| `ExperimentGroup` | an experiment group on disk under its commands, external portfolios included |
| `ExperimentReport` | reference scores, summary, seal and page, between the commands of `ExperimentGroup` |
| `MC...` | one instance for TLC per run below (`MCReplayBundles` holds both `ReplayBundles` and an instance of `ContentStore`) |
| `FiniteInduction` | induction over finite sets and intervals with a set for its hypothesis, and what follows: recursive functions exist, sums over finite sets can be taken apart |
| `Service_proofs` | proofs about `RunService`, the refinement of `RunLifecycle` included, and about `EventStream` |
| `AdmissionLimits_proofs` | proofs about `AdmissionLimits` |
| `ProviderCalls_proofs` | proofs about `ProviderCalls` and the replies of `WebReplies` and `ModelReplies` |
| `QueryPlanning_proofs` | proofs about `BudgetAccountant`, `QueryDispatch` and `QueryPlanning`, which composes them |
| `CommandLine_proofs` | proofs about `NodeAudit` and `CommandLine`, the refinement of `RunJournal` included |
| `Disk_proofs` | proofs about `ReplayBundles` and about `ContentStore`, as `MCReplayBundles` instantiates it |
| `ExperimentReport_proofs` | proofs about `ExperimentGroup` and `ExperimentReport`, which composes it with the reports |

Definitions named `Bug...` are faulty variants used to check that the
properties can fail; nothing else uses them.

### RunService against the code

Durable variables (they survive `Crash`): `status`, `log`, `bill` and `link`
are the columns `status`, events, `final usage` and `reservation_id` of a run
row and its events; `ledger` is the state of its usage-ledger row.  The rest
is the process: `task` says where the run's asyncio task stands (`created`:
before or in `_start`; `recover`: the loop of `_recover_start`; `core`: Core is
running; `exec`: Core has returned and `_execute` finalizes; `done`: the task
ended and its done callback `_forget` has not run yet; `none`: not
registered), `token` is its `CancellationToken`, `leases` and `gate` are
`_local_run_leases` and the counter of `CapacityGate`.

`held[r]` is the run's `asyncio.Lock` (`_hold_lock`) and, while it is held, the
local variables of the coroutine holding it: who (`by`), the await it stands at
(`step`), the status it read (`expect`), the status it is going to write
(`goal`) and the cost it computed (`cost`).  A coroutine that read the row and
has not written it yet is exactly such a record, so every interleaving at the
awaits of the code is a behaviour of the model.  Steps between two awaits are
one action: `asyncio` does not preempt.

| Code | Actions |
|---|---|
| `create` 256-346, `LimitManager.admit`, `release` | `Admit`, `AdmitLost`, `Insert`, `InsertUntasked`, `InsertLost`, `ReleaseAdmission`, `ReleaseAdmissionLost` |
| `_start` 440-463 | `StartBegin`, `StartReadLost`, `Transition`, `TransitionLost` |
| `_recover_start` 465-501 | `RecoverBegin` and the tail |
| `_execute` 503-553 | `CoreEmit`, `CoreReturn`, `CoreRaisesLost`, `ExecBegin` and the tail |
| `_finalize`, `_complete_accounting`, `_broadcast_terminal` 555-620 | the tail: `Finalize`, `Account`, `ClearAdmission`, `Announce` and their `...Lost` variants |
| `_forget` 348 | `Forget` |
| `cancel` 391-415 | `CancelRunning`, `CancelInactive`, `CancelRepair` and the tail |
| `shutdown` 633-663 | `ShutdownBegin`, `ShutdownSnapshot`, `GraceOver`, `SweepSkip`, `SweepSignal`, `SweepLost`, `SweepDone`, `GatherDone` and the tail |
| `lifespan` (`src/apps/api/main.py` 107-170), `reconcile_startup` | `Crash`, `Startup`, `StartupLost` |

A `...Lost` action is the failing variant of the action it is named for: the
store call raises, having committed or not (both are tried), and the handler's
exception path runs.  `Fault` budgets them.

Abstractions.  Amounts are not modelled here: a bill is `open`, `known` or
`unknown`, and a reservation is one row per run (`AdmissionLimits` has the
amounts).  A Core event is `core`; its payload and sequence number are its
position in the log.  Requests name runs the service told the client of, so
`cancel` finds a row or nothing.  `resume` is not an action: every path of it
(368-389) ends in a refusal and changes no state.

### EventStream against the code

A client is a record of its generator's locals: the `cursor`, the batch still
to be sent, the place in the loop of `event_stream` (61-99), whether its
subscription was woken, and, as history, what the client received.  `Connect`
is a request with any `Last-Event-ID`; `List`, `Send`, `ReadStatus` and `Again`
are the awaits and yields of one turn of the loop, so that a write, a broadcast
or a second client may come between any two of them; `Heartbeat` is the
timeout of `wait_for`, `Drop` a lost connection in any place, after which the
client may connect again with the last id it saw.  The run beside it is
`RunLifecycle` (`Write`: any of its steps), with the broadcast that follows a
write or is lost, and `Reboot`, which drops every connection.

### AdmissionLimits against the code

`admit` (114-173) holds the admission lock over the one await that leaves the
process, so there is at most one request `asking`; `Take` is everything before
`reserve_daily_cost`, with the day read at that moment, `Grant`, `OverLimit` and
`ReserveLost` its three outcomes, and `GiveBack` the handler that undoes what
was taken.  The clock (`now`) passes in between.  Buckets hold their level and
time of refill as in `TokenBucketMap`; ledger rows have a day, an amount and a
state.  `Settle`, `ReleaseAdmission` and `DeferSettlement` are the three ends of
a lease, `RestartLimits` forgets the process's part and settles or releases
what `reconcile_startup` finds.

### BudgetAccountant, QueryDispatch and ProviderCalls against the code

Every method of `BudgetAccountant` (`runtime/budget.py`) takes a thread lock
and awaits nothing, so `Reserve`, `Settle` and `Release` are single steps
and the two modules that follow conjoin them with the step of the caller.
`Fits` is `_offending_dimensions`; the idempotency keys of the code are `Keys`.

`QueryDispatch` has a task per round and candidate; its place is where `execute`
(163-206) stands: behind the semaphore, awaiting the provider, or how it ended.
`Start` is the code from the slot to the request, `Answer` and `Fail` the code
from the provider's answer or exception to the task's end, with the handlers
that release.  `Gather` raises with the first task that raised and leaves the
others running; `Interrupt` is the cancellation of the caller's task.

`ProviderCalls` has the one call in flight (the nodes of a run call one after
the other): `current` has its start, its retries and the time the attempt or
pause it awaits is over; `phase` says which.  `Refuse`, `ReserveLate` and
`Invoke` are the ways through `_invoke_metered` up to the request (2644-2695),
`Answer`, `Reject`, `Raise`, `Retryable` and `Resume` the attempts of `call_with_trace`
(`providers/resilience.py` 158-242), `SeeToken` the poll of the token while a
request is awaited, `Interrupt` a cancelled task; `Succeed`, `FailWith` and
`GiveUp` are the three settlements (with a result, with a usage the error
carries, without).  What a provider reports is what the adapters report: a
search counts once it was asked for, a page once it came, tokens as the model
says, and nothing for attempts that were retried.  The remaining retries and
seconds are reserved whole, as in the code.  Time is an integer clock that any
await may move, up to `Slack` past the moment it should have ended.

### QueryPlanning against the code

`plan` says where `create_plan` (502-565 of `planning/fixed.py`) stands and what
it holds of the planner's token ledger, `lent` and `spent`.  `gate` is
`_query_locks` and `cache` is `_query_cache`, with an entry for each of
`Subquestions` (the key of both is the plan's id, the subquestion's and the version of
the prompt), named by the asker that made it; an asker is a coroutine in `queries_for`
(620-745) for the subquestion `AsksFor` gives it: waiting behind a gate, calling
the model, or ended.  Askers of two subquestions wait behind two gates and reserve
in the one ledger, so that their calls are in flight together and may overdraw it
together, as `tests/unit/planning/test_fixed.py:1262-1305` shows.

| Code | Actions |
|---|---|
| `create_plan`, `_generate_candidate`, `_repair_requests` | `StartPlan`, `Candidate`, `CandidateFails`, `Repair` |
| `queries_for`, `_acquire_query_lock` | `Ask`, `Enter`, `Desist`, `Queries`, `QueriesFail`, each with `Leave` |
| `P1FixedPlanner.next_action`, `evaluate_stop`, `dispatch` | `Begin`, `Round`, and `QueryDispatch` |

The deadline is an argument of each call, so any check of a boundary may fail.
The rounds begin when nobody asks any more.

### WebReplies and ModelReplies against the code

Operators on small descriptions of replies: a status or a lost connection, a
`Retry-After`, a body that does or does not have what the adapter looks at.
`SearchOnce`, `FetchOnce`, `Complete`, `Structured` and `StreamOnce` are
`_search_once`, `_fetch_once`, `complete`, `structured` and `_stream_once`; each
yields a verdict: whether there is a result, whether the error is retried, the
usage it carries and the pause it asks for.  A stream is a sequence of events
read one at a time (`Read`); tool calls are assembled piece by piece.
`ProviderCalls` lets an attempt end with any verdict these operators yield for
some reply, so no outcome of an attempt is invented there.

### ResearchFlow and NodeAudit against the code

`ResearchFlow` has one operator per node: the set of states its handler may
leave behind, over every outcome of a search, a ranking, a draft or a
verification.  `BaselineRoute` and `ResearchRoute` are the conditional edges.  A
document is a value, a claim a flag, coverage a set of subquestions.

`NodeAudit` runs these nodes.  Its durable variables are the event sink
(`events`), the checkpoints on disk (`saved`), the completion cache (`cache`),
the manifest and the provider's bill (`paid`); the process has the state the
node reads (`st`), the checkpoints handed to the saver and not yet on disk
(`unsaved`), and what the accountant has charged (`acc`).

| Code | Actions |
|---|---|
| `LangGraphResearchRunner.run` 353-535 | `Init`, `Resume`, `Fail`, `Flush` |
| `_safe_node` 5541-5642 | `Recover`, `LookupFails`, `Handle`, `HandlerFails` |
| `_cached_model_call`, `_observe_cached`, `_preflight`, `_invoke_metered`, `_persist_provider_result`, `_publish_completion_cache` | `CallCached`, `CallRefused`, `CallProvider`, `CallSettled`, `CallOverdraws`, `CallFails`, `ReceiptFails`, `CallStored`, `CallUnstored` |
| `persist_results` 4065-4486, `RunManifest` | `PersistHandler`, `PersistFails` |
| publication, 5371-5530 and 5758-5971 | `Publish`, `PublishRecovered`, `PublishAbsent`, `PublishUnreadable`, `PublishAgain`, `PublishBehind` and their failures |
| outside the code | `Crash`, and the saver inside `Proceed` and `LosesProcess` |

A call reserves `Estimate` and is charged what it used (`Settles`), one of `Usages`,
which may be more than its estimate and more than the budget has left.
`CallSettled` is an answer within the budget and `CallOverdraws` one above it: the
charge and its receipt stay, the answer is dropped and the node leaves the state of
an exhausted budget (2910-2927).  `CallFails` is a failing provider (2714-2825),
which has billed the call or has not; what it reported is charged, a search or a
page in any case, and nothing is cached.  Behind the call its receipt
(`ReceiptFails`), its result or its cache entry (`CallUnstored`: 1947-1962,
1976-2007, a conflict of the cache included) may fail to be stored.  `spoiled`
counts, as history, the calls that were paid for by a process that lived and whose
answer nobody can use again.

The refinement mapping to `RunJournal` reads each durable event as an entry of
the journal: its node, whether it succeeded and the total charged behind it.

### CommandLine against the code

`src/apps/cli/main.py`.  A command holds the lock of the runtime root from
beginning to end, so commands follow each other; `stage` says where the one
command is.  `GraphStep` is a step of `NodeAudit`.  `GraphDies` may die between the
exclusive creation of an event file and its contents (`torn`).  `MakeStaging`,
`WriteFile`, `Rename` and `Sync` are `_publish_public_output`; `OtherTakes` is
another program that creates the destination, between the last look at it
before the publication and the rename.  `using` is what answers the calls
of a command: the recorded and the live inputs it reads, of which one may have
been edited since the run began; `header` is what `create_run_header` kept of
them, and `ResumeCommand` is only possible with inputs of that header.

### ContentStore against the code

`store` maps a key (artifact, fetch and parse completion, source, parsed
document, evidence) to the whole file; a run has a list of keys to look up and
of keys with values to put.  `Start` is the beginning of `fetch` with the hits of
a search, `Hit` and `Miss` the lookup of a completion, `Fetched` and `Parsed`
what the provider or the parser answers, `Put` and `LockTimeout` the beginning
of `put_if_absent`, `put_bytes`, `put_source`, `put_parsed_document` or
`put_evidence` under the key's lock (keep, refuse or write), `Replace` and
`WriteFails` the rename of the written file, `Advance` the step to the next
node, `Die` the end of the process.  A run has a provider profile for good.  It is
the `snapshot_id` of the fetch keys (`apps/cli/main.py:1039`, 1154) and part of that
of the parse keys, over stores that all commands of a runtime root share (1005-1007,
1095-1097); sources, parsed documents and evidence are named without it.

### ReplayBundles against the code

`providers/recording.py`.  A directory is named by the writer that made it, as
the code knows it by device and inode; `site` is the name it has on disk,
`mine` and `root` what the writer believes of it, `book` the records in memory,
`data` those in its files.

| Code | Actions |
|---|---|
| `create` 1006-1077 | `CheckFinal`, `TryLock`, `MakeStaging`, `WriteMarker`, `CreateFails` |
| `_record_call` 1462-1559, `append` 1121-1142 | `Ask`, `Answer` (with `AppendRecord`) |
| `finalize` 1144-1239 | `Finalize`, `WriteRecords`, `WriteManifest`, `LoadStaging`, `Rename`, `Unmark`, `SealFails` |
| `abort`, `_remove_owned_staging`, `_repair_missing_cleanup_marker`, `_RepairedMarkerProof` | `Abort`, `Repair`, `Move`, `MovedBefore`, `Empty`, `DropMarker`, `Bury` and their failures |
| `ReplayBundle.load`, `_lookup` | `Load`, `Lookup` |
| outside the code | `Occupy`, `Crash` |

### ExperimentGroup and ExperimentReport against the code

`src/experiments/runner.py`, `external_runner.py`, `summarize.py`.  The group
directory is `raw` (one record per key), `request`, `bound` (receipt sidecars of
an unseeded group), `ckpt` and `staged` (checkpoints), `pool`, `audit`, and
`torn`: temporary files a dead command left.  The command in progress is `pc`,
`cmd`, `at` and what it has in hand (`got`, `verdict`).

| Code | Actions |
|---|---|
| `_run_variants`, `_candidate_pool` | `RunMatrix`, `PoolLook`, `BuyPool`, `PromotePool`, `PromoteSetup`, `FailArm` |
| `run_one` 1451-1677 | `RunOne`, `Look`, `StageCheckpoint`, `StageRequest`, `Launch`, `KeptOut`, `Bind`, `Rejected`, `Evaluate`, `Retire`, `Unlink`, `Write` |
| `ExternalExperimentRunner.run` | `RunPortfolio`, `StagePortfolio`, `EvaluatePortfolio`, `FileRun`, `FileFailure`, `PublishMetrics`, `SealMetrics` |
| `run_reference`, `summarize_experiment`, `render_results` | `ScoreReference`, `Summarize`, `WriteFile`, `SealSummary`, `Render` |
| outside the code | `Crash`, `ReportDies`, `LosePool` |

## 3. Runs

| Run | Instance | What it shows |
|---|---|---|
| `RunService_one` | 1 public run, 2 faults, 2 restarts, 2 cancels, 2 Core events | `TypeOK`, `EventLogSound`, `AnnouncedIsAccounted`, `UnknownBillStands`, `AckedCancelHonoured`, `CoreRunsOnce`, `LifecycleContract`, `ShutdownReturns`, `RunEnds`: log, bill, reservation and announcement stay consistent, Core runs once, the service implements `RunLifecycle`, and under the event loop's fairness shutdown and the run itself end. |
| `RunService_mixed` | 2 priced public runs and 1 unpriced local one, 1 slot, 1 fault, 1 restart | `CoreIsAdmitted`, `GateCountsLeases`, `NothingLeftOver`: three runs compete for a slot; the gate counts the leases exactly, Core only works while admitted, and without a store failure nothing is left over. |
| `RunService_cancelfault` | 1 run, 1 fault, 1 cancel (violation) | `RecoveryTaskKept`: a cancel of a queued run whose finalization commits but whose reply is lost leaves no task to finish the accounting. |
| `EventStream_client` | 1 client, 3 losses, log of 2 events before the terminal ones | `StreamSound`, `ClientServed`: over dropped connections, lost wake-ups and restarts a client sees the log from its cursor on in order, ends behind the terminal event, and gets every event and the end while it stays connected. |
| `AdmissionLimits_day` | 3 runs of 1 address and 2 sessions, 2 slots, 2 days, 1 fault | `LimitsKept`, `DailyLimitHolds`, `RefusalIsFree`: gate, buckets and the day's amounts stay in their limits and a refusal costs nothing. |
| `QueryPlanning_rounds` | 3 askers of 1 subquestion and 1 of another; 3 candidates of 2 queries, 2 rounds, 2 slots, 2 estimates; 5 tokens, at most 3 per call | `CapacityKept`, `ReservationsReturn`, `ChargedOncePerQuery`, `PlannerSound`: askers of one subquestion agree and the planner's ledger is overdrawn by one call of each subquestion at most; then the run's budget is never overcommitted, each query is charged once, and reservations come back. |
| `QueryDispatch_cancelled` | the same candidates in 1 round with 1 estimate (violation) | `CompletedSearchesCharged`: a search that completed just before the token is read again is released instead of charged. |
| `ProviderCalls_budget` | a search, a fetch and a model call; 4 units, 1 retry, 4 s; 2 retries per call, timeout 2, slack 1; 1 redirect, 2 hits, streams of 3 events and their end | `CallKeepsBounds`, `ReportedIsCharged`, `StreamsAreReplies`, `CallEnds`: reservations never outlive their call, no attempt starts late, the overdraft stays one call's, what providers report is charged, an accepted stream assembles to a message a whole reply could have been, and every call ends. |
| `CommandLine_resume` | 1 subquestion, 1 document, both graphs; budget 2, estimate 1, calls that use 1 or 3, 1 checkpoint in flight; 1 fault, 1 crash, 1 resumption, 2 destinations | `ChargesAreReceipted`, `CallPaidAgainForCause`, `TrailCloses`, `RefusedOnlyBehindFailure`, `PublicationSound`, `JournalKept`: charges, receipts, event log, manifest and output stay consistent whatever is overdrawn, fails (billed or not), cannot be stored, dies and is resumed from any checkpoint with any one input edited, and the run implements `RunJournal`. |
| `ReplayBundles_disk` | 2 writers of one run id, 2 calls of 1 request, 2 faults, 1 crash; 2 runs of 2 provider profiles, 2 URLs, 2 pages of 2 versions, 2 subquestions of 2 types, 1 failed write, 1 death | `BundleSound`, `LeftoverIsKnown`, `BundleStands`: bundles are whole and stand, callers agree with the record, nothing is forgotten. `StoresSound`: stores stay consistent, pay again under one profile and refuse for a cause only. |
| `ExperimentReport_commands` | 3 keys of 2 arms, 2 receipts, 2 faults, 1 crash, 3 commands, 3 reports over 3 files and 2 settings | `PaidAgainForCause`, `ReceiptsSound`, `SealSound`, `GroupStands`: completed records stand, failed ones move by resumption only, launches and pools are bought again for a cause, receipts stay bound, and what is sealed and rendered agrees with the records. |
| `ExperimentGroup_failed` | the same keys, 1 crash, 2 commands, no fault (violation) | `FailedKeepsNoSidecar`: a command dies between binding a receipt and recording its key, and the next one leaves a failed record with a sidecar beside it. |

Bounds and why they are enough.  One run with two faults, two restarts and two
cancels lets a fault hit a retry of what a fault already hit, and a restart
reconcile what a restart reconciled.  In `RunService_mixed` the one slot is
refused, given back and taken again; nothing relates runs to each other except the gate,
whose counting is proved for every capacity.  Two Core events let one follow a
terminal event if nothing prevented it, and tell started work with events from
started work without.  Clients of `EventStream` do not see each other, so one is
enough; its three losses are shared by dropped connections, lost broadcasts and
restarts.  In `AdmissionLimits` two sessions behind one address make one bucket
refuse what the other granted, two days and one fault make a reservation and
its settlement fall on different days.  Three askers are one that calls, one
that waits and one that comes when the gate is being removed, and the fourth is
another subquestion's, which meets them in the ledger only; two rounds let a
query meet its own settled or released reservation, with a candidate more than
there are slots.  The budget of `ProviderCalls` fits each call and not all
three, with one retry less than one call may use, so that every dimension is
exhausted, and overdrawn where the code allows it; a stream of three events
holds a piece, its continuation and one that contradicts them.  In
`CommandLine_resume` the budget pays two small calls and no large one, so that a
refusal, an exhausted stop and an overdraft, by the first call or by the second,
all occur; one checkpoint in flight
makes the durable event run ahead of the checkpoint; the fault, the crash and
the resumption may fall on any three steps, and a resumption may start from
any checkpoint, that of a completed run included.  The two scenes of
`ReplayBundles_disk` share one run because they share no file: `Scenes` chooses
one and leaves the other alone.  Two pages under two URLs make aliases, two
versions a page that changes between two fetches; two profiles make runs of one
profile and runs of two.  Symmetry is over runs, profiles, pages and versions: no
definition names one of them, and a document, a key or a value holds them whole.
Three keys of two arms are
two repeats of one arm and one of another; there are fewer receipts than keys, so
that one is offered twice; three commands are a first run, one that dies or
fails and one that continues.
`CHECK_DEADLOCK FALSE` is set where the bounds on requests, faults, restarts and
commands let the system stop for good.

Fairness.  `FairSpec` of `RunService`: weak fairness of each coroutine's own
steps: the event loop runs every ready task; an `asyncio.Lock` is handed over
first come first served, and the steps of a lock's holder are taken together
(`TailStep`); timers fire (`GraceOver`); Core ends by its wall-clock budget
(`TaskStep` contains `CoreReturn`); a process that died is restarted by its
supervisor (`Startup`).  Nothing is assumed of clients, faults or crashes: they
may never happen.  `ShutdownBegin` has no fairness.  `FairStreams`: a generator's
next step is run, heartbeats fire, and what was sent arrives while the
connection stands; nothing is assumed of the run's writer, and connections
are neither lost nor made by any assumption.  `FairCalls`: an attempt is given
up at its deadline at the latest (`await_with_controls`) and `sleep` returns.
`ExperimentGroup` and `ExperimentReport` state weak fairness of the command in
progress (a program goes on), which no checked property needs.  The other
modules state no fairness; their properties are safety properties.

## 4. What is proved

Every theorem below holds for every value of the constants that the named
assumptions admit: any number of runs, clients, keys or writers, any budget, and
any bound on faults, crashes and resumptions.  Each says that the specification
implies a property that a run of section 3 checks on a small instance (its name
is in parentheses; an invariant, or a property of every step), or the inductive
invariant itself.

None of these properties is inductive by itself.  Each proofs module states a
strengthening (at its beginning, or at the end of the component's module for
`RunService` and `ContentStore`), shows that the initial states have it, that
every action preserves it (one lemma per action, or per part an action can
disturb) and that it implies the properties.  TLC found each strengthening
to hold on the instance of its run as well (`ShelfInv` with one version of a
page, `DayKept` for the days of the instance, `NotBegun` for four indices).  All are proved from the ASSUMEs of
the modules alone; TLC evaluates those on the runs.

**`FiniteInduction`** (no assumption).  The library's induction theorems take a
predicate as a parameter, which the provers cannot instantiate.  Here the
hypothesis is a set: a set of subsets of a finite `S` that holds a subset whenever
it holds the smaller ones holds `S`, since a smallest counterexample would have no
reason.  From it: the functions that `FoldFunction` and
`SumFunctionOnSet` choose exist, and a sum changes, with one summand, by the
change of that summand.  The sums of `BudgetAccountant` and of a day's
reservations rest on it.

**`Service_proofs`, the service** (`LifecycleConstants`, `ServiceConstants`)

- `TypeCorrect` (`TypeOK`): type correctness of the whole service.
- `SlotsExact` (`GateCountsLeases`): the capacity gate always counts exactly the leases held.
- `LogsSound` (`EventLogSound`): the durable event log of every run agrees with its row.
- `CoreAdmitted` (`CoreIsAdmitted`): Core works only for a running, admitted run.
- `Accounts` (`AnnouncedIsAccounted`): no lifecycle is announced before it is settled.
- `UnknownBills` (`UnknownBillStands`): the reservation behind an unknown bill survives every fault, cancel and restart.
- `Cancellations` (`AckedCancelHonoured`): an acknowledged cancel never ends as completed or failed.
- `CoreOnce` (`CoreRunsOnce`): Core is invoked at most once for a run.
- `NothingIsLeft` (`NothingLeftOver`): while no store call has failed, a run nobody works on is absent or terminal, holds no slot and has no settled bill still reserved, over every cancel, shutdown and restart.
- `Implements` (`LifecycleContract`): every step of the service, faults included, is a step of `RunLifecycle` or none.

That no log is doubled depends on the lock's holder still seeing the status it
read, which depends on nobody else having been able to write it.  `IInv` is the
conjunction of `TypeOK`, the gate's count, and `ServiceInv`, whose parts say,
run by run, what the holder of the lock relies on at each step of its work
(`HolderInv`, `WorkInv`), what a create request and the task imply of the row
(`CreateInv`, `TaskInv`), what the durable rows say of each other (`RowInv`,
`LogSound`), and that a dead process holds nothing (`DownInv`).  The runs an
action does not touch are framed (`Frame`), the run it touches keeps each part.
`NothingIsLeft` adds `QuietInv`, under the hypothesis that no fault has happened:
each live run has a task that will go on, and each terminal one somebody who
settles it.  `Implements` maps every step with the same invariant; the refinement
mapping is the identity on the four durable variables.

**`Service_proofs`, its clients** (`StreamConstants`)

- `StreamsKeepInv`, `StreamsTyped`: the inductive invariant, and types.
- `StreamsAreSound` (`StreamSound`): whatever drops, restarts and is lost, a client is sent the events behind its first cursor in order, none doubled and none left out, and its stream ends only behind a terminal event.

`StreamInv`: the log of a run only grows and its last event is terminal while
its status is (`TailInv`); what a client was sent is what its cursor passed; rows
it has read are rows of the log, and an ended generator's cursor is at the log's end.

**`AdmissionLimits_proofs`** (`LimitConstants`: finitely many runs, positive rates
and capacities, two different buckets per run)

- `LimitsKeepInv`, `LimitsTyped`: the inductive invariant, and types.
- `LimitsAreKept` (`LimitsKept`): the gate counts the leases and the waiting request exactly, and a bucket pays for no more admissions than its capacity and the time passed allow.
- `DailyLimitIsKept` (`DailyLimitHolds`): a day's rows exceed the limit only by what bills exceeded their reservations by.
- `RefusalsAreFree` (`RefusalIsFree`): a run refused after it waited for the store leaves every bucket as if it had never asked.

`LimitInv`: what each bucket paid for, is about to pay for and holds is within
its rate (`RateKept`); while a run waits, its two buckets are short of exactly one
token and no other was touched (`TokensTaken`); and the part of each row that was
asked for sums, day by day, to the limit at most (`DayKept`).

**`QueryPlanning_proofs`** (`AccountantConstants`, `DispatchConstants`,
`PlannerConstants`, in which a call may turn out to use as many tokens as the
queries' request reserves)

- `DispatchTyped`: types of the scheduler over every round.
- `CapacityIsKept` (`CapacityKept`): what concurrent searches used and reserved together stays within the budget in every dimension, shared reservations included.
- `ReservationsAreReturned` (`ReservationsReturn`): a reservation is active only while a task of its query is searching, one that its caller's cancellation interrupted excepted.
- `QueriesAreChargedOnce` (`ChargedOncePerQuery`): one search is charged per query that returned hits, however many candidates and rounds asked for it.
- `PlannerIsSound` (`PlannerSound`): askers of one subquestion agree, and the planner's one ledger, which calls of several subquestions use at once, is overdrawn at most by what one call of each used over its bound.

First what `Reserve`, `Settle` and `Release` do to the sums of the accountant;
then `DispatchInv`, which says what each task's place implies of the booking of its
query; then the planner's part: who holds the gate of each subquestion, what is lent
to whom, and that a cache entry is filled by the one who held its gate.  A call
begins only while the ledger covers its bound, and one gate lets one call out at a
time: so the ledger is above its limit by the overuse of the subquestions whose call
is over, and a call still out leaves room for its own (`PlannerOverdraft`).

**`ProviderCalls_proofs`** (`CallConstants`, `ModelConstants`, `ReplyConstants`,
`AccountantConstants`)

- `CallsKeepInv`, `CallsTyped`: the inductive invariant, and types.
- `CallsKeepBounds` (`CallKeepsBounds`): a reservation never outlives its call, no attempt starts after the deadline, the overdraft stays one call's.
- `ReportsAreCharged` (`ReportedIsCharged`): what providers report is charged.
- `StreamsRead` (`StreamsAreReplies`): a stream that is taken, of any length, assembles to a message that a whole reply may carry, and is charged what its one usage event stated.

First streams.  What `_stream_once` remembers is a `FoldLeft` over the events,
whose recursive function is shown to exist; reading one event more is one step
of `Read` (`HeardAppend`), and joining one piece more one step of `JoinAt`
(`ArgsAtAppend`).  `StreamsWithin` is the induction over the streams no event of
which is refused, with a set for its hypothesis.  `ReadInv` says, between two events, that the
reader holds the tool calls the events name, in order and without a gap, with
the id of the first piece of each and the join of all its arguments
(`ToolsHeard`), the one finish reason (`FinishHeard`), and behind it the one
usage (`UsageHeard`).  `StreamsRead` rests on streams alone, not on the call's
steps.  Then what a verdict of `WebReplies` or `ModelReplies` may charge,
whatever the network answers.  `CallInv` adds that a call not yet
made has no reservation, that what the call in flight reserved is still to
be had, and that the seconds charged before it are those that passed before it.

**`CommandLine_proofs`** (`AuditAssumption`, `CommandAssumption`, `FlowAssumption`;
a call reserves something: one search, or the 512 tokens and more of
`workflow/baseline_graph.py:2983`)

- `CommandKeepsInv`: the inductive invariant.
- `NodesChargeTheirReceipts` (`ChargesAreReceipted`): the accountant of a running process holds exactly the charges on the receipts of the log and of the calls of its node, over any number of billed failures, overdrafts, crashes, resumptions and replays; it holds more only in a run that has failed with a charge whose receipt could not be stored.
- `CallsPaidOnce` (`CallPaidAgainForCause`): a call is paid for again only when its answer was not kept: the process died before the completion cache had it, or the call failed, overdrew the budget or could not be stored, which happens to one call of a process at most.
- `TrailsClose` (`TrailCloses`): the audit trail that `PersistResults` reads always closes, its charges are the total of the run unless an event holds a charge without a receipt, and each call that charged began while its estimate still fitted the budget.
- `RefusalsHaveCause` (`RefusedOnlyBehindFailure`): a run is refused for its event log only behind a success that was read back late and then failed, behind a charge without a receipt, or when it had ended without seeing its last event.
- `CommandsPublishTheRun` (`PublicationSound`): what stands at the destinations is one completed run in full, the same from every command, over a log without a gap, answered by one set of sources.
- `CommandsKeepJournal` (`JournalKept`): every step of the audited run and of the command is a step of `RunJournal` or none.

`CommandInv` treats the event log as data: the state behind the first `i` events is
the one the `i`-th of them left (`Before`, `StateSound`), an event was made from
it, or is the failure behind a success read back late (`EntrySound`), and every
checkpoint is one of these states (`Known`).  An induction over the log is not
needed, because a step adds one event at most (`JournalStep`).  The totals the events leave behind are never below
what their receipts add up to, and above it only behind an event of a failed node
whose charge has no receipt.  Besides: what the
provider billed is in the cache, was lost by a crash or was spoiled, and a spoiled
call leaves a failure or an exhausted budget behind which no call of the process
begins (`CacheSound`), and what the torn files, the staging
directory, the destinations and the sources hold agrees with the log
(`TornSound`, `StageSound`, `PlacesSound`, `SourcesSound`).  The routes and outcomes
of `ResearchFlow` enter by lemmas on which channels of a flow a node may change.

**`Disk_proofs`** (`RecordingAssumption`: answers are not names of call states;
`ShelfAssumption`: the URLs a search finds are a list)

- `BundlesAreSound` (`BundleSound`): a bundle under its final name is complete, has its writer's records and answers as its callers were answered, over failed file operations, competitors and crashes.
- `LeftoversAreKnown` (`LeftoverIsKnown`): a directory left on disk is known, by the name it has, to a writer that lives.
- `BundlesStand` (`BundleStands`): what stands under the destination's name is never changed or removed by a step of a writer.
- `StoresAreSound` (`StoresSound`): what is on the shared disk rests on what is on it, a page is paid for twice under one provider profile only by runs at work together or behind a lost result, and a store refuses a run only for a completion of its own profile that a run at work with it made, or a page filed under two URLs, two provider profiles or two types; over every interleaving, failed write and death.

`RecordingInv`: where a writer is says which directory it has, under which name, and
what of it is written (`PlaceInv`, `ContentInv`); the destination is taken once
(`DestinationInv`); a caller was told what its writer recorded (`HeardInv`).
`StoresAreSound` is about `Shelf!Spec`, the instance of `ContentStore` in
`MCReplayBundles`, for any of its constants.  `ShelfInv` says of each run what is left of its
list of work (the lookups of a node; the artifact and the entry of a result in
hand; the rest of a filing list), that its documents are published or in
hand and its paid pages published or pending, which runs met while they
answered the same request, and of each file what it rests on (`FileInv`).  The filing
list is a `FlattenSeq`; the module first shows what stands at each of its positions.

**`ExperimentReport_proofs`** (`GroupAssumption`: a group has a key, none is
listed twice, and no receipt has the name of an error code; `ReportAssumption`: the
aggregate files are a list that begins with a sampled one, and none is a file of the reference,
`summarize.py:1591-1607`, `runner.py:2150-2160`)

- `ReportsKeepInv`, `GroupTyped`: the inductive invariant, and types.
- `TheGroupStands` (`GroupStands`): no command, crash or report changes a completed record, moves a failed one unasked, buys a pool beside records or launches an arm without its pool.
- `PaidForCause` (`PaidAgainForCause`): an agent is paid for once per key, once more per resumption asked for and at most twice more per crash.
- `ReceiptsOnce` (`ReceiptsSound`): in an unseeded group no receipt stands for two repeats, and a completed record keeps its sidecar.
- `SealsHold` (`SealSound`): what is sealed agrees with the records, with itself and with the page rendered from it.

`ReportInv` says by the command's place what it relies on: the key it works on has no
completed record (`WorkInv`), a verdict about to be written is of the receipt in
hand (`VerdictInv`), whose sidecar is there (`BoundInv`), the pool is bought for a
group without records and stands while arms run (`PoolInv`).  The bound on
launches is not inductive: a leftover that keeps a record out costs a launch later,
so `PaidInv` counts launches and leftovers together, and one less before the
launch than after it.  An external portfolio is walked once (`PortfolioInv`).  A
report was begun on complete records, and so on final ones (`JobInv`, `FilesInv`);
a seal says what is beside it (`SealInv`).  Most actions touch one key: the lemmas
say once which parts an action `Elsewhere` leaves alone, and which one `WithinKey` may
disturb.

Only model-checked: the liveness properties `ShutdownReturns`, `RunEnds`,
`ClientServed` and `CallEnds`.  Fairness and ENABLED are out of the prover's reach.
Every safety property and every action property of the passing runs is proved.

## 5. Findings

`RecoveryTaskKept` (run `RunService_cancelfault`): the comment in `cancel`
(`runtime/manager.py:412-413`) says that the run's recovery task is kept alive if
persistence fails before that point.  When the finalization of a queued run
commits and its reply is lost, the task that is kept then runs `_start`, finds
a row that is no longer queued and returns (451-452) without accounting: the
slot and the reservation stay held until the client repeats the cancel or the
process restarts.

`CompletedSearchesCharged` (run `QueryDispatch_cancelled`): after
`provider.search` has returned, `dispatch` reads the token before it settles
(`planning/query_scheduler.py:195-202`), and a set token releases the
reservation of a search that completed.  The design says that a completed
external call that produced usage still counts against the budget
(`src/docs/superpowers/specs/2026-08-29-multi-agent-deep-research-design.md:529`).

`FailedKeepsNoSidecar` (run `ExperimentGroup_failed`): the receipt's sidecar is
written (`src/experiments/runner.py:766-767`) before the evaluator runs and
before the raw record.  A command that dies in between leaves it, and the next
command records the key as failed without removing it.  The docstring of
`_remove_unseeded_receipt_binding` (969-971) says that the sidecar must not
survive the failed raw record.

Seen on the way, without a run of their own.

In the calls:

- no handler of `execute` catches `asyncio.CancelledError`, so a cancelled caller
  leaves the reservations of its searches active (`ReservationsReturn` names this
  exception); a query repeated in a later round is searched again under its
  settled reservation, without a charge (`ChargedOncePerQuery` counts queries,
  not searches);
- a first tool piece with index -1 raises a bare `KeyError` out of `_stream_once`
  (`openai_compatible.py` 739-787; `Raised` in `ModelReplies`); usage read from a
  stream before it drops is lost, and a reply with invalid usage is charged 0;
- the planner's rounds and `QueryScheduler` are composed by tests only; the graphs
  call the planner through `_isolated_planner_call`.

In the graph and the command line:

- an event that is read back late is followed by the node's failure at the next
  number (`baseline_graph.py:5944`).  Once both are durable and the process dies
  before the checkpoint, every resumption is refused: what
  `RefusedOnlyBehindFailure` names as the one way in;
- a torn event file makes every later resumption fail (`main.py:675`;
  `LookupCorrupt`, `ResumeRun`);
- `BudgetExceeded` sets a stop reason and no error code, and the routes of
  research-v1 do not look at stop reasons (`research_graph.py:201`);
- works are known by their content and the latest is the last one that is new
  (`_latest_work`, `baseline_graph.py:1752`), so a search that finds what an
  earlier one found leaves another one's as the latest;
- the last call of a run may use more than the budget has left.  Its charge and
  receipt stay (`baseline_graph.py:2910-2927`) and the graph goes on as
  `BUDGET_EXHAUSTED`, but `RunManifest` refuses totals above the budget
  (`manifest.py:956-972`): `PersistResults` fails and the run leaves no manifest
  (`WithinBudget` in `PersistHandler`);
- when the receipt of an overdraft, or of a usage that contradicts itself, cannot be
  stored, the node fails with a charge no receipt names: the manifest states less
  than was charged, and a resumption that meets the node's event finds the
  accountant below its total and refuses it (`Unreceipted`);
- a call that failed, overdrew the budget or could not be stored is paid for again
  by a resumption from a checkpoint before its node's event was durable
  (`spoiled` in `CallPaidAgainForCause`);
- `_research_async` reports a failed run though the output is published when the
  directory cannot be synced (`exit` is `unsynced`); `--record-replay-root` is
  accepted and not used; a failing command prints neither of the two ids a
  resumption needs.

In the stores and experiments:

- two URLs that redirect to one page, or two subquestions of different source
  type that find it, make `put_source` refuse the second with
  `EvidenceConflictError`, in later runs too (`evidence_store.py:359`); the
  design (line 340) asks for one entry per canonical URL.  `RefusedForCause`
  names this cause;
- a run under another provider profile has other cache keys on the same stores: it
  fetches and pays for a page an earlier run has filed, and `put_source` refuses it
  for the time of its retrieval, with no other run at work;
- two runs that fetch one page at once both pay, and the second fails at the
  completion cache (`cache.py:585`), though the design (line 763) allows two runs;
- `_bind_unseeded_receipt` refuses every receipt while a sidecar of another arm
  exists (`runner.py:753-760`), so that an unseeded group can measure only one
  arm and one of two arms is never summarised;
- a staging file a dead command left fails the next write of that name once
  (`_write_immutable` 88-111); one in `raw/` or `replication-bindings/` makes
  unseeded records unreadable until it is gone; a checkpoint that differs from
  the staged one refuses the resumption for good, and no command calls
  `run_one(resume=True)`.

## 6. Plan

The modelling and the proofs planned are done.  What a next step could add:

1. search and host semaphores of `LimitManager` and the fallbacks of
   `ProviderCallExecutor`, once a caller composes them with the service;
2. the lock over an experiment group, if the runner takes one: then several
   commands at once, and `ReportInv` for each of them.

## 7. Not modelled

Pure functions over text (evidence, citations, retrieval, reporting, redaction),
the formulas of priorities and metrics, the UI, the database migrations, the
dataset builder and the one-shot scripts keep no state that outlives a call.
PROJECT.json lists each part with its reason.

What the modelled parts leave out:

- `LimitManager`: search and host semaphores, which nothing composes with the
  service.  `ProviderCallExecutor`: fallbacks, which no caller passes.  The
  accountant's per-node buckets.
- `NodeAudit`: the calls of one node follow each other and go the same way, so a
  call node makes one; checkpoint encoding and tables; the connection of
  `emit` to a store is `RunService`'s.
- `CommandLine`: one command at a time, as the lock of the runtime root has it;
  at most one input is edited between commands; research-v1 has another host,
  whose events are no files.
- `ContentStore`: each run has a process of its own (runs of one process are the
  interleavings in which no put is interrupted); a provider's failure ends
  a run before it stores anything; a resumed run is another run; the artifacts of
  receipts and the validation of paths and links are left out.
- `ReplayBundles`: which fields of a request make its key, and which headers of a
  fetched page are recorded: the caller gets the page as it came, the record keeps
  the safe headers only (`recording.py:948-966`), and the model has one value for
  both, which stands for what a replay is compared by.  A destination is
  looked at before the lock is taken, as in the code (1006-1033).
- `ExperimentGroup`, `ExperimentReport`: one command at a time (the code takes no
  lock on a group); the reference is scored once all arms are complete; two
  summaries differ in their bootstrap setting only; the agent a command launches
  is any agent.
- Search providers over frozen indexes and document parsers.
