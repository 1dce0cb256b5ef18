---------------------------- MODULE RunLifecycle ----------------------------
(***************************************************************************)
(* What the service promises of a run, whatever happens inside it: the     *)
(* status machine of runtime/state_machine.py narrowed to the pairs the    *)
(* store accepts, the durable event log that goes with the status, and the *)
(* reservation of the daily budget that goes with the final bill.          *)
(* RunService is shown to implement it.                                    *)
(***************************************************************************)
EXTENDS Naturals, Sequences

CONSTANTS
    Runs,       \* run identities, one per accepted create request
    Metered     \* the public_live runs whose cost is reserved in the ledger

ASSUME LifecycleConstants == Metered \subseteq Runs

VARIABLES
    status,     \* durable status of each run, "absent" before its row exists
    log,        \* durable event log of each run
    bill,       \* the final bill: "open" until the run is terminal
    ledger      \* state of the run's row in the usage ledger

vars == <<status, log, bill, ledger>>

Terminal == {"interrupted", "completed", "failed", "cancelled"}
Statuses == {"absent", "queued", "running"} \cup Terminal
Bills    == {"open", "known", "unknown"}
LedgerStates == {"none", "reserved", "settled", "released"}

\* "core" is any event of the research graph; a terminal status names the
\* event run_<status> the service writes.
EventKinds == {"core"} \cup Terminal

\* The terminal transitions the store accepts (_TERMINAL).
Ends(s) == CASE s = "queued"      -> {"interrupted", "cancelled"}
             [] s = "running"     -> Terminal
             [] s = "interrupted" -> {"cancelled"}
             [] OTHER             -> {}

Init ==
    /\ status = [r \in Runs |-> "absent"]
    /\ log    = [r \in Runs |-> <<>>]
    /\ bill   = [r \in Runs |-> "open"]
    /\ ledger = [r \in Runs |-> "none"]

Reserve(r) ==
    /\ r \in Metered
    /\ status[r] = "absent" /\ ledger[r] = "none"
    /\ ledger' = [ledger EXCEPT ![r] = "reserved"]
    /\ UNCHANGED <<status, log, bill>>

Create(r) ==
    /\ status[r] = "absent"
    /\ r \in Metered => ledger[r] = "reserved"
    /\ status' = [status EXCEPT ![r] = "queued"]
    /\ UNCHANGED <<log, bill, ledger>>

\* A reservation is handed back only for a run that never started.
Release(r) ==
    /\ status[r] \in {"absent", "queued"} /\ ledger[r] = "reserved"
    /\ ledger' = [ledger EXCEPT ![r] = "released"]
    /\ UNCHANGED <<status, log, bill>>

\* No public run starts without a standing reservation.
Start(r) ==
    /\ status[r] = "queued"
    /\ r \in Metered => ledger[r] = "reserved"
    /\ status' = [status EXCEPT ![r] = "running"]
    /\ UNCHANGED <<log, bill, ledger>>

Record(r) ==
    /\ status[r] = "running"
    /\ log' = [log EXCEPT ![r] = Append(@, "core")]
    /\ UNCHANGED <<status, bill, ledger>>

\* The status, its terminal event and the bill change together, and a bill
\* once written stays: cancelling an interrupted run does not reprice it.
Finish(r, s, b) ==
    /\ s \in Ends(status[r])
    /\ IF bill[r] = "open" THEN b # "open" ELSE b = bill[r]
    /\ status' = [status EXCEPT ![r] = s]
    /\ log'    = [log EXCEPT ![r] = Append(@, s)]
    /\ bill'   = [bill EXCEPT ![r] = b]
    /\ UNCHANGED ledger

\* Only the reservation of a known final bill is settled.
Settle(r) ==
    /\ status[r] \in Terminal /\ bill[r] = "known"
    /\ ledger[r] = "reserved"
    /\ ledger' = [ledger EXCEPT ![r] = "settled"]
    /\ UNCHANGED <<status, log, bill>>

\* A restart interrupts everything unfinished in one transaction: work that
\* never started costs nothing, started work has an unknown bill, and the
\* reservations of runs that do not exist are handed back.
Restart ==
    LET stale == {r \in Runs : status[r] \in {"queued", "running"}}
        known(r) == bill'[r] = "known"
    IN  /\ status' = [r \in Runs |-> IF r \in stale THEN "interrupted" ELSE status[r]]
        /\ log'    = [r \in Runs |-> IF r \in stale THEN Append(log[r], "interrupted")
                                                    ELSE log[r]]
        /\ bill'   = [r \in Runs |->
                        IF r \in stale THEN IF status[r] = "queued" THEN "known" ELSE "unknown"
                                       ELSE bill[r]]
        /\ ledger' = [r \in Runs |->
                        IF ledger[r] # "reserved" THEN ledger[r]
                        ELSE IF status[r] = "absent" THEN "released"
                        ELSE IF known(r) THEN "settled" ELSE "reserved"]

Next ==
    \/ \E r \in Runs :
        \/ Reserve(r) \/ Create(r) \/ Release(r)
        \/ Start(r) \/ Record(r) \/ Settle(r)
        \/ \E s \in Terminal, b \in Bills : Finish(r, s, b)
    \/ Restart

Spec == Init /\ [][Next]_vars
=============================================================================
