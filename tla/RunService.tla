----------------------------- MODULE RunService -----------------------------
(***************************************************************************)
(* RunManager (runtime/manager.py) over SqlAlchemyRunStore                 *)
(* (storage/sqlalchemy_store.py) with the reservations and execution slots *)
(* of LimitManager (runtime/limits.py), in one process that may die and be *)
(* restarted.  Every store call is a step of its own, so that the tasks of *)
(* the event loop interleave at the awaits of the code, and every store    *)
(* write may fail before it commits or lose its reply after it.            *)
(*                                                                         *)
(* Four kinds of actor act on a run: the create request, the run's task    *)
(* (_start, _recover_start, _execute), cancel requests and shutdown.  All  *)
(* but the first hold the run's lock while they read and finalize, and     *)
(* walk the same tail: finalize_run, _complete_accounting, the broadcast.  *)
(***************************************************************************)
EXTENDS RunLifecycle, FiniteSets

CONSTANTS
    Priced,         \* runs created with pricing_status "estimated"
    Capacity,       \* CapacityGate of LimitManager.runs (2 in the code)
    MaxEvents,      \* bound: Core events of one run
    MaxFaults,      \* bound: store calls that fail
    MaxRestarts,    \* bound: times the process dies
    MaxCancels      \* bound: cancel requests

ASSUME ServiceConstants ==
    /\ Metered \subseteq Priced /\ Priced \subseteq Runs
    /\ Capacity \in Nat \ {0}
    /\ {MaxEvents, MaxFaults, MaxRestarts, MaxCancels} \subseteq Nat

VARIABLES
    link,           \* durable: runs whose row names an admission reservation
    up,             \* the process is running
    creating,       \* step of the create request for each run (_creation_lock)
    leases, gate,   \* LimitManager._local_run_leases and runs._active
    task,           \* where the run's task stands; "none" when not registered
    token,          \* the run's CancellationToken: "none", "live", "cancelled"
    result,         \* what Core returned to _execute
    held,           \* who holds the run's lock, and its lifecycle work
    userCancel,     \* _user_cancel_requested
    shutReq,        \* _shutdown_requested
    sd, snap, pending,  \* shutdown: its step, the tasks it awaits, those to signal
    announced,      \* the last terminal status broadcast for the run
    started,        \* history: runs whose Core has been invoked
    acked,          \* history: runs a cancel request was acknowledged for
    faults, restarts, cancels

durable  == <<status, log, bill, ledger, link>>
manager  == <<task, token, result, userCancel, shutReq>>
slots    == <<leases, gate>>
shutdown == <<sd, snap, pending>>
history  == <<announced, started, acked>>
budgets  == <<faults, restarts, cancels>>
svars    == <<durable, manager, slots, shutdown, history, budgets, up, creating, held>>

CreateSteps == {"idle", "insert", "release", "unstarted"}
TaskSteps   == {"none", "created", "recover", "core", "exec", "done"}
TokenStates == {"none", "live", "cancelled"}
Holders     == {"nobody", "create", "task", "cancel", "shutdown"}
WorkSteps   == {"idle", "transition", "finalize", "account", "clear", "announce"}
ShutSteps   == {"off", "closing", "grace", "sweep", "gather", "done", "aborted"}

Work(by, step, expect, goal, cost) ==
    [by |-> by, step |-> step, expect |-> expect, goal |-> goal, cost |-> cost]
Free == Work("nobody", "idle", "absent", "absent", "open")
NoResult == [goal |-> "absent", cost |-> "open"]

LockFree(r)      == held[r] = Free
CreationLockFree == \A r \in Runs : creating[r] = "idle"
AliveTask(r)     == task[r] \notin {"none", "done"}

Hold(r, work) == held' = [held EXCEPT ![r] = work]
GoTo(r, step) == held' = [held EXCEPT ![r].step = step]
At(r, step)   == up /\ held[r].step = step

\* A store call fails: budgeted, so that a behaviour has finitely many.
Fault == faults < MaxFaults /\ faults' = faults + 1 /\ UNCHANGED <<restarts, cancels>>

(* A definition named Bug... is a faulty variant of the one after it: the    *)
(* properties are checked to fail when it takes that definition's place.     *)

\* The cost of recover_usage: a cost already recorded is kept; without one,
\* only a run that never started and recorded no event is known to be free.
Recovered(r, neverStarted) ==
    IF bill[r] # "open" THEN bill[r]
    ELSE IF neverStarted /\ log[r] = <<>> THEN "known" ELSE "unknown"

ServiceInit ==
    /\ Init
    /\ link = {} /\ up = TRUE
    /\ creating = [r \in Runs |-> "idle"]
    /\ leases = {} /\ gate = 0
    /\ task   = [r \in Runs |-> "none"]
    /\ token  = [r \in Runs |-> "none"]
    /\ result = [r \in Runs |-> NoResult]
    /\ held   = [r \in Runs |-> Free]
    /\ userCancel = {} /\ shutReq = {}
    /\ sd = "off" /\ snap = {} /\ pending = {}
    /\ announced = [r \in Runs |-> "absent"]
    /\ started = {} /\ acked = {}
    /\ faults = 0 /\ restarts = 0 /\ cancels = 0

-----------------------------------------------------------------------------
(* Writes of the store, and LimitManager's local release. *)

CommitInsert(r) ==
    /\ status' = [status EXCEPT ![r] = "queued"]
    /\ link' = IF r \in Metered THEN link \cup {r} ELSE link
    /\ UNCHANGED <<log, bill, ledger>>

CommitTransition(r) ==
    /\ status[r] = held[r].expect
    /\ status' = [status EXCEPT ![r] = "running"]
    /\ UNCHANGED <<log, bill, ledger, link>>

\* Status, bill and terminal event in one transaction, by compare-and-set.
CommitFinalize(r) ==
    /\ status[r] = held[r].expect
    /\ held[r].goal \in Ends(held[r].expect)
    /\ status' = [status EXCEPT ![r] = held[r].goal]
    /\ bill'   = [bill EXCEPT ![r] = held[r].cost]
    /\ log'    = [log EXCEPT ![r] = Append(@, held[r].goal)]
    /\ UNCHANGED <<ledger, link>>

\* settle_daily_cost and release_daily_cost touch reserved rows only.
CommitLedger(r, state) ==
    /\ ledger' = IF ledger[r] = "reserved" THEN [ledger EXCEPT ![r] = state] ELSE ledger
    /\ UNCHANGED <<status, log, bill, link>>

CommitClear(r) ==
    /\ link' = link \ {r}
    /\ UNCHANGED <<status, log, bill, ledger>>

\* The lease is given back without looking whether it is held.
BugReleaseLocal(r) == leases' = leases \ {r} /\ gate' = gate - 1

ReleaseLocal(r) ==
    /\ leases' = leases \ {r}
    /\ gate' = IF r \in leases THEN gate - 1 ELSE gate

-----------------------------------------------------------------------------
(* create: admission, the row, the task, under the creation lock. *)

Admit(r) ==
    /\ up /\ sd = "off" /\ CreationLockFree
    /\ status[r] = "absent" /\ ledger[r] = "none"
    /\ creating' = [creating EXCEPT ![r] = "insert"]
    /\ IF r \in Metered
         THEN /\ gate < Capacity
              /\ gate' = gate + 1 /\ leases' = leases \cup {r}
              /\ ledger' = [ledger EXCEPT ![r] = "reserved"]
         ELSE UNCHANGED <<slots, ledger>>
    /\ UNCHANGED <<status, log, bill, link, manager, shutdown, history, budgets, up, held>>

\* The reservation commits but its reply is lost: admit returns the slot, and
\* nobody remembers the reservation.
AdmitLost(r) ==
    /\ Fault
    /\ up /\ sd = "off" /\ CreationLockFree
    /\ r \in Metered /\ status[r] = "absent" /\ ledger[r] = "none"
    /\ gate < Capacity
    /\ ledger' = [ledger EXCEPT ![r] = "reserved"]
    /\ UNCHANGED <<status, log, bill, link, manager, slots, shutdown, history, up, creating, held>>

\* From the row to the registered task there is no await.
Insert(r) ==
    /\ up /\ creating[r] = "insert"
    /\ CommitInsert(r)
    /\ creating' = [creating EXCEPT ![r] = "idle"]
    /\ task'  = [task EXCEPT ![r] = "created"]
    /\ token' = [token EXCEPT ![r] = "live"]
    /\ UNCHANGED <<result, userCancel, shutReq, slots, shutdown, history, budgets, up, held>>

\* asyncio.create_task fails: create finalizes the run itself.
InsertUntasked(r) ==
    /\ Fault
    /\ up /\ creating[r] = "insert"
    /\ CommitInsert(r)
    /\ creating' = [creating EXCEPT ![r] = "unstarted"]
    /\ Hold(r, Work("create", "finalize", "queued", "interrupted", Recovered(r, TRUE)))
    /\ UNCHANGED <<manager, slots, shutdown, history, up>>

\* create_run raises, with or without a committed row: the admission is released.
InsertLost(r) ==
    /\ Fault
    /\ up /\ creating[r] = "insert"
    /\ CommitInsert(r) \/ UNCHANGED durable
    /\ creating' = [creating EXCEPT ![r] = "release"]
    /\ UNCHANGED <<manager, slots, shutdown, history, up, held>>

ReleaseAdmission(r) ==
    /\ up /\ creating[r] = "release"
    /\ CommitLedger(r, "released")
    /\ ReleaseLocal(r)
    /\ creating' = [creating EXCEPT ![r] = "idle"]
    /\ UNCHANGED <<manager, shutdown, history, budgets, up, held>>

ReleaseAdmissionLost(r) ==
    /\ Fault
    /\ up /\ creating[r] = "release" /\ r \in Metered
    /\ CommitLedger(r, "released") \/ UNCHANGED durable
    /\ creating' = [creating EXCEPT ![r] = "idle"]
    /\ UNCHANGED <<manager, slots, shutdown, history, up, held>>

-----------------------------------------------------------------------------
(* How the holder of a run's lock leaves it. *)

FailWith(r, afterExec, beforeCore) ==
    /\ Hold(r, Free)
    /\ task' = IF held[r].by # "task" THEN task
               ELSE [task EXCEPT ![r] = IF @ = "exec" THEN afterExec ELSE beforeCore]
    /\ sd' = IF held[r].by = "shutdown" THEN "aborted" ELSE sd
    /\ creating' = IF held[r].by = "create" THEN [creating EXCEPT ![r] = "idle"] ELSE creating
    /\ UNCHANGED <<token, result, userCancel, shutReq, snap, pending>>

\* A failed finalization runs Core again.
BugFailReruns(r) == FailWith(r, "core", "recover")

\* An exception leaves the lock: the starting task retries from the durable
\* state, the executing task dies, shutdown aborts, a request fails.
Fail(r) == FailWith(r, "done", "recover")

\* The end of the tail.  Cancel and shutdown cancel the task of a run they
\* found queued: it waits for the lock or sleeps, so it ends there.
Leave(r) ==
    LET by == held[r].by
        stops == \/ by = "task"
                 \/ by \in {"cancel", "shutdown"} /\ held[r].expect = "queued" /\ AliveTask(r)
    IN  /\ Hold(r, Free)
        /\ task' = IF stops THEN [task EXCEPT ![r] = "done"] ELSE task
        /\ acked' = IF by = "cancel" THEN acked \cup {r} ELSE acked
        /\ pending' = IF by = "shutdown" THEN pending \ {r} ELSE pending
        /\ creating' = IF by = "create" THEN [creating EXCEPT ![r] = "idle"] ELSE creating
        /\ UNCHANGED <<token, result, userCancel, shutReq, sd, snap, started>>

-----------------------------------------------------------------------------
(* The tail: finalize_run, _complete_accounting, the broadcast. *)

\* The broadcast overtakes the accounting.
BugFinalize(r) ==
    /\ At(r, "finalize") /\ CommitFinalize(r)
    /\ GoTo(r, "announce")
    /\ UNCHANGED <<manager, slots, shutdown, history, budgets, up, creating>>

Finalize(r) ==
    /\ At(r, "finalize") /\ CommitFinalize(r)
    /\ GoTo(r, "account")
    /\ UNCHANGED <<manager, slots, shutdown, history, budgets, up, creating>>

FinalizeLost(r) ==
    /\ Fault
    /\ At(r, "finalize") /\ (CommitFinalize(r) \/ UNCHANGED durable)
    /\ Fail(r)
    /\ UNCHANGED <<slots, history, up>>

\* Whatever the bill, the reservation is settled.
BugAccountSettles(r) ==
    /\ At(r, "account")
    /\ IF r \notin link
         THEN GoTo(r, "announce") /\ UNCHANGED <<durable, slots>>
         ELSE ReleaseLocal(r) /\ GoTo(r, "clear") /\ CommitLedger(r, "settled")
    /\ UNCHANGED <<manager, shutdown, history, budgets, up, creating>>

\* An unknown bill keeps the execution slot.
BugAccountKeepsSlot(r) ==
    /\ At(r, "account")
    /\ IF r \in link /\ bill[r] = "known"
         THEN ReleaseLocal(r) /\ GoTo(r, "clear") /\ CommitLedger(r, "settled")
         ELSE GoTo(r, "announce") /\ UNCHANGED <<durable, slots>>
    /\ UNCHANGED <<manager, shutdown, history, budgets, up, creating>>

\* A known bill is settled, then the link cleared; an unknown bill leaves the
\* reservation standing and only gives the execution slot back.
Account(r) ==
    /\ At(r, "account")
    /\ IF r \notin link
         THEN GoTo(r, "announce") /\ UNCHANGED <<durable, slots>>
         ELSE /\ ReleaseLocal(r)
              /\ IF bill[r] = "known"
                   THEN GoTo(r, "clear") /\ CommitLedger(r, "settled")
                   ELSE GoTo(r, "announce") /\ UNCHANGED durable
    /\ UNCHANGED <<manager, shutdown, history, budgets, up, creating>>

\* The local lease is released only after the store has answered.
AccountLost(r) ==
    /\ Fault
    /\ At(r, "account") /\ r \in link /\ bill[r] = "known"
    /\ CommitLedger(r, "settled") \/ UNCHANGED durable
    /\ Fail(r)
    /\ UNCHANGED <<slots, history, up>>

ClearAdmission(r) ==
    /\ At(r, "clear") /\ CommitClear(r)
    /\ GoTo(r, "announce")
    /\ UNCHANGED <<manager, slots, shutdown, history, budgets, up, creating>>

ClearAdmissionLost(r) ==
    /\ Fault
    /\ At(r, "clear") /\ (CommitClear(r) \/ UNCHANGED durable)
    /\ Fail(r)
    /\ UNCHANGED <<slots, history, up>>

Announce(r) ==
    /\ At(r, "announce")
    /\ announced' = [announced EXCEPT ![r] = held[r].goal]
    /\ Leave(r)
    /\ UNCHANGED <<durable, slots, budgets, up>>

\* Only _broadcast_terminal, the repair of a run found terminal, reads the store.
AnnounceLost(r) ==
    /\ Fault
    /\ At(r, "announce") /\ held[r].expect = held[r].goal
    /\ Fail(r)
    /\ UNCHANGED <<durable, slots, history, up>>

-----------------------------------------------------------------------------
(* The run's task: _start, _recover_start, _execute, and its done callback. *)

StartBegin(r) ==
    /\ up /\ task[r] = "created" /\ LockFree(r)
    /\ \/ /\ status[r] # "queued"
          /\ task' = [task EXCEPT ![r] = "done"]
          /\ UNCHANGED held
       \/ /\ status[r] = "queued" /\ token[r] = "cancelled"
          /\ task' = [task EXCEPT ![r] = "recover"]
          /\ UNCHANGED held
       \/ /\ status[r] = "queued" /\ token[r] # "cancelled"
          /\ Hold(r, Work("task", "transition", "queued", "running", "open"))
          /\ UNCHANGED task
    /\ UNCHANGED <<durable, token, result, userCancel, shutReq, slots, shutdown, history,
                   budgets, up, creating>>

StartReadLost(r) ==
    /\ Fault
    /\ up /\ task[r] = "created" /\ LockFree(r)
    /\ task' = [task EXCEPT ![r] = "recover"]
    /\ UNCHANGED <<durable, token, result, userCancel, shutReq, slots, shutdown, history,
                   up, creating, held>>

Transition(r) ==
    /\ At(r, "transition") /\ CommitTransition(r)
    /\ Hold(r, Free)
    /\ task' = [task EXCEPT ![r] = "core"]
    /\ started' = started \cup {r}
    /\ UNCHANGED <<token, result, userCancel, shutReq, slots, shutdown, announced, acked,
                   budgets, up, creating>>

TransitionLost(r) ==
    /\ Fault
    /\ At(r, "transition") /\ (CommitTransition(r) \/ UNCHANGED durable)
    /\ Fail(r)
    /\ UNCHANGED <<slots, history, up>>

\* One turn of the retry loop: it decides from the durable status alone.
RecoverBegin(r) ==
    /\ up /\ task[r] = "recover" /\ LockFree(r)
    /\ Hold(r, IF status[r] \in {"queued", "running"}
                 THEN Work("task", "finalize", status[r],
                           IF r \in userCancel THEN "cancelled" ELSE "interrupted",
                           Recovered(r, TRUE))
                 ELSE Work("task", "account", status[r], status[r], bill[r]))
    /\ UNCHANGED <<durable, manager, slots, shutdown, history, budgets, up, creating>>

CoreEmit(r) ==
    /\ up /\ task[r] = "core" /\ Len(log[r]) < MaxEvents
    /\ log' = [log EXCEPT ![r] = Append(@, "core")]
    /\ UNCHANGED <<status, bill, ledger, link, manager, slots, shutdown, history, budgets,
                   up, creating, held>>

\* Core reports cancelled only when its token was; an exception it raises is
\* the failed result with an unknown cost.
CoreReturn(r) ==
    /\ up /\ task[r] = "core"
    /\ \E s \in {"completed", "failed", "cancelled"}, b \in {"known", "unknown"} :
          /\ s = "cancelled" => token[r] = "cancelled"
          /\ result' = [result EXCEPT ![r] = [goal |-> s, cost |-> b]]
    /\ task' = [task EXCEPT ![r] = "exec"]
    /\ UNCHANGED <<durable, token, userCancel, shutReq, slots, shutdown, history, budgets,
                   up, creating, held>>

\* Core raised and the events cannot be read: the exception ends the task.
CoreRaisesLost(r) ==
    /\ Fault
    /\ up /\ task[r] = "core"
    /\ task' = [task EXCEPT ![r] = "done"]
    /\ UNCHANGED <<durable, token, result, userCancel, shutReq, slots, shutdown, history,
                   up, creating, held>>

ExecWith(r, goal, cost) ==
    /\ up /\ task[r] = "exec" /\ LockFree(r)
    /\ Hold(r, Work("task", "finalize", "running", goal, cost))
    /\ result' = [result EXCEPT ![r] = NoResult]
    /\ UNCHANGED <<durable, task, token, userCancel, shutReq, slots, shutdown, history,
                   budgets, up, creating>>

\* A priced run that reports no cost fails; a run of unknown pricing has none.
FinalCost(r) == IF r \in Priced THEN result[r].cost ELSE "unknown"
CoreOutcome(r) ==
    IF r \in Priced /\ result[r].cost = "unknown" THEN "failed" ELSE result[r].goal

\* Core's own outcome wins over a cancellation it did not see.
BugExecCoreWins(r) ==
    ExecWith(r, IF r \in userCancel /\ CoreOutcome(r) # "completed" THEN "cancelled"
                ELSE CoreOutcome(r), FinalCost(r))

\* The requested outcome wins over Core's.
ExecBegin(r) ==
    ExecWith(r, IF r \in userCancel THEN "cancelled"
                ELSE IF r \in shutReq THEN "interrupted" ELSE CoreOutcome(r), FinalCost(r))

Forget(r) ==
    /\ up /\ task[r] = "done"
    /\ task'  = [task EXCEPT ![r] = "none"]
    /\ token' = [token EXCEPT ![r] = "none"]
    /\ userCancel' = userCancel \ {r} /\ shutReq' = shutReq \ {r}
    /\ UNCHANGED <<durable, result, slots, shutdown, history, budgets, up, creating, held>>

-----------------------------------------------------------------------------
(* cancel *)

\* A request reaches the run's lock; its client has been told the run id.
CancelArrives(r) ==
    /\ up /\ LockFree(r) /\ creating[r] = "idle" /\ status[r] # "absent"
    /\ cancels < MaxCancels /\ cancels' = cancels + 1

CancelSignals(r) ==
    /\ userCancel' = userCancel \cup {r}
    /\ token' = [token EXCEPT ![r] = "cancelled"]

\* The request finalizes the running run itself.
BugCancelRunning(r) ==
    /\ CancelArrives(r)
    /\ status[r] = "running" /\ token[r] # "none"
    /\ CancelSignals(r)
    /\ Hold(r, Work("cancel", "finalize", "running", "cancelled", Recovered(r, FALSE)))
    /\ UNCHANGED <<durable, task, result, shutReq, slots, shutdown, history,
                   faults, restarts, up, creating>>

\* Running: Core is told, and finalizes in its own time.  Without a token the
\* request is refused.
CancelRunning(r) ==
    /\ CancelArrives(r)
    /\ status[r] = "running" /\ token[r] # "none"
    /\ CancelSignals(r)
    /\ acked' = acked \cup {r}
    /\ UNCHANGED <<durable, task, result, shutReq, slots, shutdown, announced, started,
                   faults, restarts, up, creating, held>>

CancelInactive(r) ==
    /\ CancelArrives(r)
    /\ status[r] \in {"queued", "interrupted"}
    /\ IF status[r] = "queued" /\ token[r] # "none"
         THEN CancelSignals(r) ELSE UNCHANGED <<userCancel, token>>
    /\ Hold(r, Work("cancel", "finalize", status[r], "cancelled",
                    Recovered(r, status[r] = "queued")))
    /\ UNCHANGED <<durable, task, result, shutReq, slots, shutdown, history,
                   faults, restarts, up, creating>>

\* Already cancelled: repeat the accounting and the broadcast.
CancelRepair(r) ==
    /\ CancelArrives(r)
    /\ status[r] = "cancelled"
    /\ Hold(r, Work("cancel", "account", "cancelled", "cancelled", bill[r]))
    /\ UNCHANGED <<durable, manager, slots, shutdown, history, faults, restarts, up, creating>>

-----------------------------------------------------------------------------
(* shutdown *)

ShutdownBegin ==
    /\ up /\ sd = "off"
    /\ sd' = "closing"
    /\ UNCHANGED <<durable, manager, slots, snap, pending, history, budgets, up, creating, held>>

\* The creation lock is the barrier: no create is in flight past it.
ShutdownSnapshot ==
    /\ up /\ sd = "closing" /\ CreationLockFree
    /\ snap' = {r \in Runs : task[r] # "none"}
    /\ sd' = IF snap' = {} THEN "done" ELSE "grace"
    /\ UNCHANGED <<durable, manager, slots, pending, history, budgets, up, creating, held>>

GraceOver ==
    /\ up /\ sd = "grace"
    /\ sd' = "sweep"
    /\ pending' = {r \in snap : AliveTask(r)}
    /\ UNCHANGED <<durable, manager, slots, snap, history, budgets, up, creating, held>>

NotSweeping == \A r \in Runs : held[r].by # "shutdown"

SweepSkip(r) ==
    /\ up /\ sd = "sweep" /\ r \in pending /\ NotSweeping /\ LockFree(r)
    /\ ~AliveTask(r) \/ status[r] \notin {"queued", "running"}
    /\ pending' = pending \ {r}
    /\ UNCHANGED <<durable, manager, slots, sd, snap, history, budgets, up, creating, held>>

\* Shutdown finalizes the runs whose Core still works, too.
BugSweepFinalizes(r) ==
    /\ up /\ sd = "sweep" /\ r \in pending /\ NotSweeping /\ LockFree(r)
    /\ AliveTask(r) /\ status[r] \in {"queued", "running"}
    /\ token' = [token EXCEPT ![r] = "cancelled"]
    /\ Hold(r, Work("shutdown", "finalize", status[r], "interrupted", Recovered(r, TRUE)))
    /\ UNCHANGED <<durable, task, result, userCancel, shutReq, slots, shutdown, history,
                   budgets, up, creating>>

\* Shutdown cancels a queued run's task without finalizing its row.
BugSweepDrops(r) ==
    /\ up /\ sd = "sweep" /\ r \in pending /\ NotSweeping /\ LockFree(r)
    /\ AliveTask(r) /\ status[r] \in {"queued", "running"}
    /\ token' = [token EXCEPT ![r] = "cancelled"]
    /\ task' = IF status[r] = "queued" THEN [task EXCEPT ![r] = "done"] ELSE task
    /\ pending' = pending \ {r}
    /\ UNCHANGED <<durable, result, userCancel, shutReq, slots, sd, snap, history,
                   budgets, up, creating, held>>

SweepSignal(r) ==
    /\ up /\ sd = "sweep" /\ r \in pending /\ NotSweeping /\ LockFree(r)
    /\ AliveTask(r) /\ status[r] \in {"queued", "running"}
    /\ shutReq' = IF r \in userCancel THEN shutReq ELSE shutReq \cup {r}
    /\ token' = [token EXCEPT ![r] = "cancelled"]
    /\ IF status[r] = "queued"
         THEN /\ Hold(r, Work("shutdown", "finalize", "queued", "interrupted", Recovered(r, TRUE)))
              /\ UNCHANGED pending
         ELSE pending' = pending \ {r} /\ UNCHANGED held
    /\ UNCHANGED <<durable, task, result, userCancel, slots, sd, snap, history, budgets,
                   up, creating>>

SweepLost ==
    /\ Fault
    /\ up /\ sd = "sweep" /\ pending # {} /\ NotSweeping
    /\ sd' = "aborted"
    /\ UNCHANGED <<durable, manager, slots, snap, pending, history, up, creating, held>>

SweepDone ==
    /\ up /\ sd = "sweep" /\ pending = {} /\ NotSweeping
    /\ sd' = "gather"
    /\ UNCHANGED <<durable, manager, slots, snap, pending, history, budgets, up, creating, held>>

\* Shutdown waits for the rows instead of the tasks.
BugGatherRows ==
    /\ up /\ sd = "gather" /\ \A r \in snap : status[r] \in Terminal
    /\ sd' = "done"
    /\ UNCHANGED <<durable, manager, slots, snap, pending, history, budgets, up, creating, held>>

GatherDone ==
    /\ up /\ sd = "gather" /\ \A r \in snap : ~AliveTask(r)
    /\ sd' = "done"
    /\ UNCHANGED <<durable, manager, slots, snap, pending, history, budgets, up, creating, held>>

-----------------------------------------------------------------------------
(* The process dies, or exits after shutdown, and starts again. *)

Crash ==
    /\ up /\ restarts < MaxRestarts
    /\ restarts' = restarts + 1
    /\ up' = FALSE
    /\ creating' = [r \in Runs |-> "idle"]
    /\ leases' = {} /\ gate' = 0
    /\ task'   = [r \in Runs |-> "none"]
    /\ token'  = [r \in Runs |-> "none"]
    /\ result' = [r \in Runs |-> NoResult]
    /\ held'   = [r \in Runs |-> Free]
    /\ userCancel' = {} /\ shutReq' = {}
    /\ sd' = "off" /\ snap' = {} /\ pending' = {}
    /\ announced' = [r \in Runs |-> "absent"]
    /\ UNCHANGED <<durable, started, acked, faults, cancels>>

ReconcileWith(unresolved) ==
    LET stale == {r \in Runs : status[r] \in {"queued", "running"}}
    IN  /\ bill' = [r \in Runs |-> IF r \in stale THEN Recovered(r, status[r] = "queued")
                                                  ELSE bill[r]]
        /\ status' = [r \in Runs |-> IF r \in stale THEN "interrupted" ELSE status[r]]
        /\ log' = [r \in Runs |-> IF r \in stale THEN Append(log[r], "interrupted") ELSE log[r]]
        /\ ledger' = [r \in Runs |->
              CASE ledger[r] # "reserved" -> ledger[r]
                [] ledger[r] = "reserved" /\ status[r] = "absent" -> "released"
                [] ledger[r] = "reserved" /\ bill'[r] = "known"   -> "settled"
                [] OTHER -> unresolved]
        /\ UNCHANGED link

\* The reservation of a run whose bill is unknown is handed back.
BugReconcile == ReconcileWith("released")

\* reconcile_startup: one transaction over the unfinished runs, then over the
\* reservations still standing.
Reconcile == ReconcileWith("reserved")

Startup ==
    /\ ~up /\ Reconcile
    /\ up' = TRUE
    /\ UNCHANGED <<manager, slots, shutdown, history, budgets, creating, held>>

\* The transaction commits, and the process dies before it serves.
StartupLost ==
    /\ Fault
    /\ ~up /\ Reconcile
    /\ UNCHANGED <<manager, slots, shutdown, history, up, creating, held>>

-----------------------------------------------------------------------------
CreateStep(r)  == \/ Admit(r) \/ Insert(r) \/ ReleaseAdmission(r)
TailStep(r)    == \/ Finalize(r) \/ Account(r) \/ ClearAdmission(r) \/ Announce(r)
TaskStep(r)    == \/ StartBegin(r) \/ Transition(r) \/ RecoverBegin(r)
                  \/ CoreReturn(r) \/ ExecBegin(r) \/ Forget(r)
CancelStep(r)  == \/ CancelRunning(r) \/ CancelInactive(r) \/ CancelRepair(r)
ShutdownStep   == \/ ShutdownBegin \/ ShutdownSnapshot \/ GraceOver \/ SweepDone \/ GatherDone
                  \/ \E r \in Runs : SweepSkip(r) \/ SweepSignal(r)
FaultStep      == \/ SweepLost \/ StartupLost
                  \/ \E r \in Runs :
                       \/ AdmitLost(r) \/ InsertUntasked(r) \/ InsertLost(r)
                       \/ ReleaseAdmissionLost(r)
                       \/ FinalizeLost(r) \/ AccountLost(r) \/ ClearAdmissionLost(r)
                       \/ AnnounceLost(r)
                       \/ StartReadLost(r) \/ TransitionLost(r) \/ CoreRaisesLost(r)

ServiceNext ==
    \/ \E r \in Runs :
         CreateStep(r) \/ TailStep(r) \/ TaskStep(r) \/ CoreEmit(r) \/ CancelStep(r)
    \/ ShutdownStep \/ FaultStep \/ Crash \/ Startup

ServiceSpec == ServiceInit /\ [][ServiceNext]_svars

\* The event loop runs every ready task, asyncio.Lock is first come first
\* served, Core ends by its wall-clock budget, timers fire, and the platform
\* restarts a dead process.  Requests, crashes and faults may never happen.
Fairness ==
    /\ \A r \in Runs :
         /\ WF_svars(Insert(r)) /\ WF_svars(ReleaseAdmission(r))
         /\ WF_svars(TailStep(r)) /\ WF_svars(TaskStep(r))
         /\ WF_svars(SweepSkip(r) \/ SweepSignal(r))
    /\ WF_svars(ShutdownSnapshot) /\ WF_svars(GraceOver)
    /\ WF_svars(SweepDone) /\ WF_svars(GatherDone) /\ WF_svars(Startup)

FairSpec == ServiceSpec /\ Fairness
-----------------------------------------------------------------------------
(* Properties *)

WorkRecords == [by : Holders, step : WorkSteps, expect : Statuses, goal : Statuses, cost : Bills]

DurableTypeOK ==
    /\ status \in [Runs -> Statuses]
    /\ log \in [Runs -> Seq(EventKinds)]
    /\ bill \in [Runs -> Bills]
    /\ ledger \in [Runs -> LedgerStates]
    /\ link \subseteq Runs

ManagerTypeOK ==
    /\ creating \in [Runs -> CreateSteps]
    /\ task \in [Runs -> TaskSteps]
    /\ token \in [Runs -> TokenStates]
    /\ result \in [Runs -> [goal : Statuses, cost : Bills]]
    /\ held \in [Runs -> WorkRecords]
    /\ userCancel \subseteq Runs /\ shutReq \subseteq Runs
    /\ sd \in ShutSteps /\ snap \subseteq Runs /\ pending \subseteq Runs

\* Every variable of the service keeps its type, crash, fault or not.
TypeOK ==
    /\ DurableTypeOK /\ ManagerTypeOK
    /\ up \in BOOLEAN
    /\ leases \subseteq Metered /\ gate \in 0..Capacity
    /\ announced \in [Runs -> Statuses]
    /\ started \subseteq Runs /\ acked \subseteq Runs
    /\ faults \in 0..MaxFaults /\ restarts \in 0..MaxRestarts /\ cancels \in 0..MaxCancels

\* finalize_run and reconcile_startup: a run's durable log tells the same story
\* as its row.  Nothing precedes the start, no terminal event precedes the end,
\* none is doubled by a retry, and no Core event follows it; a second terminal
\* event exists only where an interrupted run was cancelled.
LogSound(r) ==
    LET n == Len(log[r])
    IN  /\ status[r] \in {"absent", "queued"} => log[r] = <<>>
        /\ status[r] = "running" => \A i \in 1..n : log[r][i] = "core"
        /\ status[r] \in Terminal => n > 0 /\ log[r][n] = status[r]
        /\ \A i \in 1..n : log[r][i] \in Terminal =>
               \/ i = n
               \/ i = n - 1 /\ log[r][i] = "interrupted" /\ log[r][n] = "cancelled"
EventLogSound == \A r \in Runs : LogSound(r)

\* _start: Core works only for a running row, and for a public run only while
\* its slot is held, its reservation stands and its row can find it again.
CoreIsAdmitted ==
    \A r \in Runs : task[r] \in {"core", "exec"} /\ held[r].step \in {"idle", "transition"} =>
        /\ status[r] = "running" /\ bill[r] = "open"
        /\ r \in Metered => r \in leases /\ r \in link /\ ledger[r] = "reserved"

\* LimitManager._release_local: the gate counts exactly the leases held, though
\* settlement is repeated by retries, cancels and recovery.
GateCountsLeases == gate = Cardinality(leases)

\* _complete_accounting (manager.py:571-572): a lifecycle is never announced
\* while it is partially settled.
AnnouncedIsAccounted ==
    \A r \in Metered : announced[r] # "absent" =>
        /\ r \notin leases
        /\ bill[r] = "known" => ledger[r] \in {"settled", "released"} /\ r \notin link

\* docs/deployment.md:322-324: the reservation and link of a run whose bill is
\* unknown survive failure, restart and repeated cancellation; only a known
\* bill is ever settled.
UnknownBillStands ==
    \A r \in Metered :
        /\ bill[r] = "unknown" => ledger[r] = "reserved" /\ r \in link
        /\ ledger[r] = "settled" => bill[r] = "known" /\ status[r] \in Terminal

\* cancel: a run whose cancellation was acknowledged ends neither completed nor
\* failed, however Core's result, shutdown or a crash race with the request.
AckedCancelHonoured == \A r \in acked : status[r] \notin {"completed", "failed"}

\* Without a store failure nothing is left over: a run nobody works on is
\* absent or terminal, holds no slot, and no known bill is still reserved.
NothingLeftOver ==
    \A r \in Runs : faults = 0 /\ up /\ creating[r] = "idle" /\ LockFree(r) /\ ~AliveTask(r) =>
        /\ status[r] \in Terminal \cup {"absent"}
        /\ r \notin leases
        /\ bill[r] = "known" => ledger[r] # "reserved"

\* _start, _recover_start: Core is invoked at most once for a run, over every
\* retry, cancellation, shutdown and restart.
CoreRunsOnce == [][\A r \in Runs : task[r] # "core" /\ task'[r] = "core" => r \notin started]_svars

\* The service implements the contract of RunLifecycle.
LifecycleContract == Spec

\* shutdown always returns or raises, whatever the tasks it waits for do.
ShutdownReturns == (sd = "closing") ~> (sd \in {"done", "aborted"} \/ ~up)

\* Without a store failure every accepted run ends and frees its slot, whatever
\* cancels, shutdown and restarts do.
RunEnds ==
    \A r \in Runs : (status[r] \in {"queued", "running"})
                      ~> ((status[r] \in Terminal /\ r \notin leases) \/ faults > 0)

\* manager.py:412-413: after a cancel of a queued run whose persistence failed,
\* a recovery task is still there to finish the accounting.
RecoveryTaskKept ==
    \A r \in Metered :
        status[r] = "cancelled" /\ bill[r] = "known" /\ ledger[r] = "reserved"
        /\ r \in leases /\ LockFree(r) => AliveTask(r)

-----------------------------------------------------------------------------
(* The strengthening the proofs of RunService_proofs are by induction on. *)

\* A reservation that stands, with the link a restart finds it by; and the
\* execution slot that goes with it in a living process.
Reserved(r) == r \in Metered => r \in link /\ ledger[r] = "reserved"
Admitted(r) == r \in Metered => r \in leases /\ r \in link /\ ledger[r] = "reserved"
Accounted(r) == r \notin leases
                /\ (r \in Metered /\ bill[r] = "known"
                      => r \notin link /\ ledger[r] \in {"settled", "released"})

\* What the holder of the run's lock relies on at each step of its work.
HolderInv(r) ==
    LET w == held[r]
    IN  /\ w.by = "nobody" <=> w = Free
        /\ w.step = "idle" <=> w = Free
        /\ w.by = "create" <=> creating[r] = "unstarted"
        /\ w.by = "task" => task[r] \in {"created", "recover", "exec"}
        /\ w.by = "task" /\ task[r] = "created" <=> w.step = "transition"
        /\ w.by \notin {"nobody", "task"} => task[r] \notin {"core", "exec"}
        /\ task[r] = "core" => w = Free
        /\ w.by = "cancel" => w.goal = "cancelled"

WorkInv(r) ==
    LET w == held[r]
    IN  /\ w.step = "transition" => status[r] = "queued" /\ w.expect = "queued"
        /\ w.step = "finalize" =>
               /\ status[r] = w.expect /\ w.goal \in Ends(w.expect)
               /\ w.cost # "open" /\ (bill[r] # "open" => w.cost = bill[r])
               /\ w.cost = "unknown" => Reserved(r)
               /\ w.by # "task" => w.expect # "running"
               /\ task[r] = "exec" => w.expect = "running"
               /\ r \in acked => w.goal \in {"cancelled", "interrupted"}
        /\ w.step \in {"account", "clear", "announce"} =>
               status[r] = w.goal /\ status[r] \in Terminal
        /\ w.step = "clear" => /\ bill[r] = "known" /\ r \notin leases
                               /\ ledger[r] \in {"settled", "released"}
        /\ w.step = "announce" => Accounted(r)

\* What the create request and the run's task say of its row.
CreateInv(r) ==
    /\ creating[r] \in {"insert", "release"} => LockFree(r)
    /\ creating[r] # "idle" => task[r] = "none"
    /\ creating[r] = "insert" =>
          status[r] = "absent" /\ (r \in Metered => r \in leases /\ ledger[r] = "reserved")
    /\ creating[r] = "release" => status[r] \in {"absent", "queued"}
    /\ creating[r] = "unstarted" => status[r] # "running" /\ (status[r] = "queued" => Admitted(r))

TaskInv(r) ==
    /\ task[r] = "created" => status[r] \notin {"absent", "running"}
    /\ task[r] = "recover" => status[r] # "absent" /\ (status[r] = "running" => log[r] = <<>>)
    /\ task[r] = "core" => status[r] = "running"
    /\ task[r] = "exec" /\ LockFree(r) =>
          status[r] = "running" /\ result[r].goal \in Terminal /\ result[r].cost # "open"
    /\ AliveTask(r) /\ status[r] \in {"queued", "running"} => Admitted(r)
    /\ task[r] \in {"exec", "done"} => status[r] \notin {"absent", "queued"}
    /\ r \in acked /\ status[r] = "running" /\ AliveTask(r) => r \in userCancel

\* What the durable rows say of each other, and of the history.
RowInv(r) ==
    /\ status[r] \in Terminal <=> bill[r] # "open"
    /\ status[r] = "absent" => /\ task[r] = "none" /\ LockFree(r) /\ r \notin link
                               /\ announced[r] = "absent" /\ r \notin acked
    /\ status[r] = "queued" => r \notin acked
    /\ r \in started => status[r] \notin {"absent", "queued"}
    /\ r \in acked => status[r] \notin {"completed", "failed"}
    /\ r \in leases \cup link => r \in Metered /\ ledger[r] # "none"
    /\ r \in Metered /\ status[r] # "absent" => ledger[r] # "none"
    /\ r \notin Metered => ledger[r] = "none"
    /\ status[r] = "running" => Reserved(r)
    /\ bill[r] = "unknown" => Reserved(r)
    /\ ledger[r] = "settled" => bill[r] = "known"
    /\ r \in Metered /\ status[r] # "absent" /\ r \notin link =>
          bill[r] = "known" /\ r \notin leases /\ ledger[r] \in {"settled", "released"}
    /\ announced[r] # "absent" => status[r] \in Terminal /\ Accounted(r)

\* A dead process holds nothing.
DownInv == ~up => \A r \in Runs : task[r] = "none" /\ LockFree(r) /\ creating[r] = "idle"

RunInv(r) ==
    HolderInv(r) /\ WorkInv(r) /\ CreateInv(r) /\ TaskInv(r) /\ RowInv(r) /\ LogSound(r)

ServiceInv == DownInv /\ \A r \in Runs : RunInv(r)

\* While no store call has failed, what nobody works on is finished: an
\* unfinished row has its task, and a finished one is settled but for the
\* holder of the lock that has the accounting still to do.
QuietRun(r) ==
    /\ creating[r] \in {"idle", "insert"}
    /\ ~up => r \notin leases
    /\ status[r] = "absent" /\ creating[r] = "idle" => r \notin leases
    /\ up /\ status[r] \in {"queued", "running"} => AliveTask(r)
    /\ up /\ status[r] \in Terminal /\ held[r].step # "account" =>
          r \notin leases /\ (bill[r] = "known" => ledger[r] # "reserved")

QuietInv == faults = 0 => \A r \in Runs : QuietRun(r)
=============================================================================
