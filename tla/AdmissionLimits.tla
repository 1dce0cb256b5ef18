-------------------------- MODULE AdmissionLimits --------------------------
(***************************************************************************)
(* LimitManager (runtime/limits.py): the token buckets of the client's     *)
(* address and session, the capacity gate, and the amounts of the daily    *)
(* usage ledger.  RunService has the same reservations without amounts or  *)
(* buckets.                                                                *)
(*                                                                         *)
(* The admission lock is held over the one await that matters, the call    *)
(* that reserves the cost, so admit is two steps: what it takes from this  *)
(* process, and what the store answers.  Tokens are counted in parts: a    *)
(* token is as many parts as its refill takes ticks of the clock, so that  *)
(* one tick refills one part.                                              *)
(***************************************************************************)
EXTENDS Integers, FiniteSetsExt

CONSTANTS
    Runs,           \* run identities
    Keys,           \* bucket keys: client addresses and sessions
    KeysOf,         \* the buckets a run's client draws from, in order
    Tokens,         \* capacity of each bucket, in tokens
    Refill,         \* ticks it takes to refill a token of each bucket
    Slots,          \* capacity of the gate
    DailyLimit,
    Costs,          \* amounts a run may ask for
    Bills,          \* amounts a run may turn out to cost
    DayLength,      \* ticks of a day
    MaxTime,        \* bound: ticks
    MaxFaults       \* bound: store calls that fail, and restarts

ASSUME LimitConstants ==
    /\ IsFiniteSet(Runs) /\ "none" \notin Runs
    /\ KeysOf \in [Runs -> {ks \in Keys \X Keys : ks[1] # ks[2]}]
    /\ Tokens \in [Keys -> Nat \ {0}] /\ Refill \in [Keys -> Nat \ {0}]
    /\ {Slots, DayLength} \subseteq Nat \ {0}
    /\ {DailyLimit, MaxTime, MaxFaults} \subseteq Nat
    /\ Costs \subseteq Nat \ {0} /\ Bills \subseteq Nat

VARIABLES
    clock,
    bucket,         \* of each key: the level last computed, and when
    active, leases, \* CapacityGate._active and _local_run_leases
    asking, day,    \* the run whose admission waits for the store, and the date it read
    rows,           \* usage ledger: state, amount and day of each run's row
    asked,          \* history: what each run asked for
    granted, since, \* history: admissions each bucket paid for since the start
    untouched,      \* history: the buckets before the run now asking
    faults

local   == <<bucket, active, leases, asking, day>>
history == <<asked, granted, since, untouched>>
lvars   == <<clock, local, rows, history, faults>>

NoRun == "none"
NoRow == [state |-> "none", amount |-> 0, day |-> 0]
Row(state, amount, date) == [state |-> state, amount |-> amount, day |-> date]

Today      == clock \div DayLength
Ip(r)      == KeysOf[r][1]
Session(r) == KeysOf[r][2]
Least(a, b) == IF a <= b THEN a ELSE b
Full(k)    == Tokens[k] * Refill[k]

\* _refill: what bucket b of key k holds at a time.
Level(b, k, now) == Least(Full(k), b[k].level + (now - b[k].at))
Has(k) == Level(bucket, k, clock) >= Refill[k]

\* The levels of some keys are computed, and written back with tokens taken;
\* tokens given back do not fill a bucket over its capacity.
Touch(keys, taken) ==
    bucket' = [k \in Keys |->
        IF k \in keys
          THEN [level |-> Least(Full(k), Level(bucket, k, clock) - taken * Refill[k]), at |-> clock]
          ELSE bucket[k]]

\* What a day's reservations and bills add up to, and by how much bills
\* exceeded what was reserved for them.
Counted(d) == {r \in Runs : rows[r].day = d /\ rows[r].state \in {"reserved", "settled"}}
Amount  == [r \in Runs |-> rows[r].amount]
Beyond  == [r \in Runs |-> IF rows[r].amount > asked[r] THEN rows[r].amount - asked[r] ELSE 0]
DayTotal(d) == SumFunctionOnSet(Amount, Counted(d))
Overrun(d)  == SumFunctionOnSet(Beyond, Counted(d))

Fault == faults < MaxFaults /\ faults' = faults + 1

LimitInit ==
    /\ clock = 0
    /\ bucket = [k \in Keys |-> [level |-> Full(k), at |-> 0]]
    /\ active = 0 /\ leases = {} /\ asking = NoRun /\ day = 0
    /\ rows = [r \in Runs |-> NoRow]
    /\ asked = [r \in Runs |-> 0]
    /\ granted = [k \in Keys |-> 0] /\ since = 0 /\ untouched = bucket
    /\ faults = 0

Tick ==
    /\ clock < MaxTime /\ clock' = clock + 1
    /\ UNCHANGED <<local, rows, history, faults>>

-----------------------------------------------------------------------------
(* admit *)

Asks(r) == asking = NoRun /\ rows[r] = NoRow

\* What is given back starts out as if everything had been taken.
BugRefuse(r) ==
    /\ Asks(r)
    /\ \/ ~Has(Ip(r)) /\ Touch({Ip(r)}, 0)
       \/ Has(Ip(r)) /\ ~Has(Session(r)) /\ Touch({Ip(r), Session(r)}, -1)
       \/ Has(Ip(r)) /\ Has(Session(r)) /\ active >= Slots /\ Touch({Ip(r), Session(r)}, 0)
    /\ UNCHANGED <<clock, active, leases, asking, day, rows, history, faults>>

\* Refused by a bucket or the gate: what was taken is given back at once.
Refuse(r) ==
    /\ Asks(r)
    /\ \/ ~Has(Ip(r)) /\ Touch({Ip(r)}, 0)
       \/ Has(Ip(r)) /\ ~Has(Session(r)) /\ Touch({Ip(r), Session(r)}, 0)
       \/ Has(Ip(r)) /\ Has(Session(r)) /\ active >= Slots /\ Touch({Ip(r), Session(r)}, 0)
    /\ UNCHANGED <<clock, active, leases, asking, day, rows, history, faults>>

\* The day is the one before the call to the store.
Take(r) ==
    /\ Asks(r)
    /\ Has(Ip(r)) /\ Has(Session(r)) /\ active < Slots
    /\ Touch({Ip(r), Session(r)}, 1)
    /\ active' = active + 1
    /\ asking' = r /\ day' = Today
    /\ untouched' = bucket
    /\ \E c \in Costs : asked' = [asked EXCEPT ![r] = c]
    /\ UNCHANGED <<clock, leases, rows, granted, since, faults>>

\* Only the bills already settled count against the day.
BugGrant(r) ==
    /\ asking = r
    /\ SumFunctionOnSet(Amount, {q \in Counted(day) : rows[q].state = "settled"})
         + asked[r] <= DailyLimit
    /\ rows' = [rows EXCEPT ![r] = Row("reserved", asked[r], day)]
    /\ leases' = leases \cup {r} /\ asking' = NoRun /\ day' = 0
    /\ granted' = [k \in Keys |-> granted[k] + IF k \in {Ip(r), Session(r)} THEN 1 ELSE 0]
    /\ UNCHANGED <<clock, bucket, active, asked, since, untouched, faults>>

Grant(r) ==
    /\ asking = r
    /\ DayTotal(day) + asked[r] <= DailyLimit
    /\ rows' = [rows EXCEPT ![r] = Row("reserved", asked[r], day)]
    /\ leases' = leases \cup {r} /\ asking' = NoRun /\ day' = 0
    /\ granted' = [k \in Keys |-> granted[k] + IF k \in {Ip(r), Session(r)} THEN 1 ELSE 0]
    /\ UNCHANGED <<clock, bucket, active, asked, since, untouched, faults>>

\* The capacity is given back, the tokens are not.
BugGiveBack(r) ==
    /\ active' = active - 1 /\ asking' = NoRun /\ day' = 0
    /\ UNCHANGED <<bucket, clock, leases, history>>

\* Everything taken is given back, in reverse order.
GiveBack(r) ==
    /\ active' = active - 1 /\ asking' = NoRun /\ day' = 0
    /\ Touch({Ip(r), Session(r)}, -1)
    /\ UNCHANGED <<clock, leases, history>>

OverLimit(r) ==
    /\ asking = r /\ DayTotal(day) + asked[r] > DailyLimit
    /\ GiveBack(r)
    /\ UNCHANGED <<rows, faults>>

\* The store raises, or the request is cancelled while it waits: the row may
\* have been written, and nobody remembers it.
ReserveLost(r) ==
    /\ Fault
    /\ asking = r
    /\ \/ UNCHANGED rows
       \/ /\ DayTotal(day) + asked[r] <= DailyLimit
          /\ rows' = [rows EXCEPT ![r] = Row("reserved", asked[r], day)]
    /\ GiveBack(r)

-----------------------------------------------------------------------------
(* settle, release, defer_settlement: under the admission lock. *)

BugReleaseLocal(r) == leases' = leases \ {r} /\ active' = active - 1

ReleaseLocal(r) ==
    /\ leases' = leases \ {r}
    /\ active' = IF r \in leases THEN active - 1 ELSE active

\* settle_daily_cost touches a reserved row only.
BillRow(r, bill) ==
    rows' = IF rows[r].state = "reserved" THEN [rows EXCEPT ![r] = Row("settled", bill, @.day)]
                                          ELSE rows

Settle(r) ==
    /\ asking = NoRun /\ rows[r] # NoRow
    /\ \E bill \in Bills : BillRow(r, bill)
    /\ ReleaseLocal(r)
    /\ UNCHANGED <<clock, bucket, asking, day, history, faults>>

\* On a persistence failure the lease stays, whether or not the row changed.
SettleLost(r) ==
    /\ Fault
    /\ asking = NoRun /\ r \in leases
    /\ \E bill \in Bills : BillRow(r, bill)
    /\ UNCHANGED <<clock, local, history>>

ReleaseRow(r) ==
    rows' = IF rows[r].state = "reserved" THEN [rows EXCEPT ![r].state = "released"] ELSE rows

ReleaseAdmission(r) ==
    /\ asking = NoRun /\ rows[r] # NoRow
    /\ ReleaseRow(r)
    /\ ReleaseLocal(r)
    /\ UNCHANGED <<clock, bucket, asking, day, history, faults>>

DeferSettlement(r) ==
    /\ asking = NoRun /\ rows[r] # NoRow
    /\ ReleaseLocal(r)
    /\ UNCHANGED <<clock, bucket, asking, day, rows, history, faults>>

Reserved == {r \in Runs : rows[r].state = "reserved"}

\* The process restarts: buckets and gate are new, and reconcile_startup has
\* billed what it could, released the rows without a run and left the rest.
RestartLimits ==
    /\ Fault
    /\ bucket' = [k \in Keys |-> [level |-> Full(k), at |-> clock]]
    /\ active' = 0 /\ leases' = {} /\ asking' = NoRun /\ day' = 0
    /\ granted' = [k \in Keys |-> 0] /\ since' = clock
    /\ \E billed \in SUBSET Reserved :
         \E released \in SUBSET (Reserved \ billed), bill \in [billed -> Bills] :
           rows' = [r \in Runs |->
              CASE r \in billed   -> Row("settled", bill[r], rows[r].day)
                [] r \in released -> [rows[r] EXCEPT !.state = "released"]
                [] OTHER          -> rows[r]]
    /\ UNCHANGED <<clock, asked, untouched>>

-----------------------------------------------------------------------------
LimitNext ==
    \/ Tick \/ RestartLimits
    \/ \E r \in Runs :
         \/ Refuse(r) \/ Take(r) \/ Grant(r) \/ OverLimit(r) \/ ReserveLost(r)
         \/ Settle(r) \/ SettleLost(r) \/ ReleaseAdmission(r) \/ DeferSettlement(r)

LimitSpec == LimitInit /\ [][LimitNext]_lvars
-----------------------------------------------------------------------------
(* Properties *)

Buckets == {b \in [Keys -> [level : Nat, at : 0..MaxTime]] : \A k \in Keys : b[k].level <= Full(k)}
LimitTypeOK ==
    /\ clock \in 0..MaxTime /\ since \in 0..MaxTime
    /\ bucket \in Buckets /\ untouched \in Buckets
    /\ active \in 0..Slots /\ leases \subseteq Runs
    /\ asking \in Runs \cup {NoRun} /\ day \in Nat
    /\ rows \in [Runs -> [state : {"none", "reserved", "settled", "released"},
                          amount : Nat, day : Nat]]
    /\ asked \in [Runs -> Nat]
    /\ granted \in [Keys -> Nat] /\ faults \in 0..MaxFaults

\* admit, _release_local: the gate counts the leases and the request that
\* waits for the store, however often runs are settled, deferred or released.
GateExact == active = Cardinality(leases) + IF asking = NoRun THEN 0 ELSE 1

\* TokenBucketMap: while a process lives, a bucket pays for no more admissions
\* than its capacity and the time passed allow, refunds of refused requests
\* included.
RateBound == \A k \in Keys : granted[k] * Refill[k] <= Full(k) + (clock - since)

\* admit (limits.py:163-169): a request refused after it waited for the store
\* leaves every bucket as if it had never asked.
RefusalIsFree ==
    [][asking # NoRun /\ asking' = NoRun /\ asking \notin leases' /\ since' = since /\ faults' = faults
         => \A k \in Keys : Level(bucket', k, clock) = Level(untouched, k, clock)]_lvars

\* reserve_daily_cost: what a day's rows add up to exceeds the limit only by
\* what bills exceeded their reservations by, over faults, orphans and restarts.
DailyLimitHolds ==
    \A d \in 0..(MaxTime \div DayLength) : DayTotal(d) <= DailyLimit + Overrun(d)

\* The limits of one process: its slots and its rates (limits.py:114-173).
LimitsKept == GateExact /\ RateBound
=============================================================================
