----------------------- MODULE AdmissionLimits_proofs -----------------------
(***************************************************************************)
(* Proofs about AdmissionLimits, for any runs, buckets, limits and bounds: *)
(* the gate is exact, the buckets keep their rates, a refusal costs no     *)
(* tokens, and a day's reservations stay within its limit.                 *)
(***************************************************************************)
EXTENDS AdmissionLimits, FiniteInduction

-----------------------------------------------------------------------------
(* The inductive invariant. *)

\* The keys of the run whose admission waits for the store, if any.
Waiting == IF asking = NoRun THEN {} ELSE {Ip(asking), Session(asking)}

\* Nothing is dated after now.
Timely ==
    /\ since <= clock
    /\ \A k \in Keys : bucket[k].at <= clock

\* The waiting run has no row yet, a lease is that of a row, and a reservation
\* is of what was asked for.
RowsSound ==
    /\ asking # NoRun => rows[asking] = NoRow
    /\ \A r \in leases : rows[r] # NoRow
    /\ \A r \in Runs : rows[r].state = "reserved" => rows[r].amount = asked[r]

\* What a bucket paid for, what it is about to pay for and what it holds.
Spent(k) == granted[k] * Refill[k] + IF k \in Waiting THEN Refill[k] ELSE 0
RateKept == \A k \in Keys : Spent(k) + Level(bucket, k, clock) <= Full(k) + (clock - since)

\* While a run waits, its buckets are short of one token, and no other bucket
\* has been touched.
OneTokenShort(k) ==
    /\ untouched[k].at <= bucket[k].at
    /\ bucket[k].level + Refill[k] = Level(untouched, k, bucket[k].at)
TokensTaken ==
    asking # NoRun =>
        \A k \in Keys : IF k \in Waiting THEN OneTokenShort(k) ELSE bucket[k] = untouched[k]

\* What a day's rows hold within what was asked for.
Share == [r \in Runs |-> Least(rows[r].amount, asked[r])]
DayShare(d) == SumFunctionOnSet(Share, Counted(d))
DayKept == \A d \in Nat : DayShare(d) <= DailyLimit

LimitInv ==
    LimitTypeOK /\ Timely /\ GateExact /\ RowsSound /\ RateKept /\ TokensTaken /\ DayKept

-----------------------------------------------------------------------------
(* Constants, and the level of a bucket. *)

LEMMA Constants ==
    /\ IsFiniteSet(Runs) /\ NoRun \notin Runs
    /\ \A r \in Runs : Ip(r) \in Keys /\ Session(r) \in Keys /\ Ip(r) # Session(r)
    /\ \A k \in Keys : Tokens[k] \in Nat /\ Refill[k] \in Nat
    /\ Slots \in Nat /\ DailyLimit \in Nat /\ MaxTime \in Nat /\ MaxFaults \in Nat
    /\ Costs \subseteq Nat /\ Bills \subseteq Nat /\ DayLength \in Nat \ {0}
BY LimitConstants DEF NoRun, Ip, Session

LEMMA FullType == \A k \in Keys : Full(k) \in Nat
<1> SUFFICES ASSUME NEW k \in Keys PROVE Full(k) \in Nat
  OBVIOUS
<1>1. Tokens[k] \in Nat /\ Refill[k] \in Nat BY Constants
<1> QED BY <1>1 DEF Full

\* What a bucket of the given capacity holds at t, that held l at a.
LevelAt(full, l, a, t) == Least(full, l + (t - a))

LEMMA LevelIs == \A b, k, t : Level(b, k, t) = LevelAt(Full(k), b[k].level, b[k].at, t)
BY DEF Level, LevelAt

LEMMA LevelRange ==
    ASSUME NEW full \in Nat, NEW l \in Nat, NEW a \in Nat, NEW t \in Nat, a <= t
    PROVE  LevelAt(full, l, a, t) \in Nat /\ LevelAt(full, l, a, t) <= full
BY DEF LevelAt, Least

LEMMA LevelTick ==
    ASSUME NEW full \in Nat, NEW l \in Nat, NEW a \in Nat, NEW t \in Nat, a <= t
    PROVE  LevelAt(full, l, a, t + 1) <= LevelAt(full, l, a, t) + 1
BY DEF LevelAt, Least

LEMMA LevelNow ==
    ASSUME NEW full \in Nat, NEW l \in Nat, l <= full, NEW t \in Nat
    PROVE  LevelAt(full, l, t, t) = l
BY DEF LevelAt, Least

\* What the types say of one bucket.
LEMMA BucketTypes ==
    ASSUME NEW b \in Buckets, NEW k \in Keys
    PROVE  b[k].level \in Nat /\ b[k].at \in Nat /\ b[k].level <= Full(k) /\ b[k].at <= MaxTime
<1>1. b[k] \in [level : Nat, at : 0..MaxTime] BY DEF Buckets
<1>2. b[k].at \in 0..MaxTime /\ b[k].level \in Nat BY <1>1
<1>3. b[k].level <= Full(k) BY DEF Buckets
<1> QED BY <1>2, <1>3, Constants

\* What is in a bucket now.
LEMMA LevelTypes ==
    ASSUME LimitTypeOK, Timely, NEW k \in Keys
    PROVE  /\ Level(bucket, k, clock) \in Nat /\ Level(bucket, k, clock) <= Full(k)
           /\ Level(bucket, k, clock + 1) <= Level(bucket, k, clock) + 1
           /\ Level(bucket, k, clock + 1) \in Nat
<1>1. clock \in Nat /\ MaxTime \in Nat BY Constants DEF LimitTypeOK
<1>2. bucket[k].level \in Nat /\ bucket[k].at \in Nat BY BucketTypes DEF LimitTypeOK
<1>3. bucket[k].at <= clock /\ bucket[k].at <= clock + 1 /\ clock + 1 \in Nat
  BY <1>1, <1>2 DEF Timely
<1>4. Full(k) \in Nat BY FullType
<1> QED BY <1>1, <1>2, <1>3, <1>4, LevelIs, LevelRange, LevelTick

\* What a touched bucket holds.
LeftOf(k, taken) == Least(Full(k), Level(bucket, k, clock) - taken * Refill[k])

LEMMA TouchLevels ==
    ASSUME LimitTypeOK, Timely, NEW keys \in SUBSET Keys, NEW taken \in {-1, 0, 1},
           taken = 1 => \A k \in keys : Has(k), Touch(keys, taken)
    PROVE  /\ bucket' \in Buckets
           /\ \A k \in Keys : bucket'[k].at <= clock
           /\ \A k \in keys : /\ bucket'[k] = [level |-> LeftOf(k, taken), at |-> clock]
                              /\ Level(bucket', k, clock) = LeftOf(k, taken)
           /\ \A k \in Keys : k \notin keys => bucket'[k] = bucket[k]
<1>1. clock \in 0..MaxTime /\ clock \in Nat BY Constants DEF LimitTypeOK
<1>2. ASSUME NEW k \in keys
      PROVE  LeftOf(k, taken) \in Nat /\ LeftOf(k, taken) <= Full(k)
  <2>1. /\ Level(bucket, k, clock) \in Nat /\ Level(bucket, k, clock) <= Full(k)
        /\ Full(k) \in Nat /\ Refill[k] \in Nat
    BY LevelTypes, FullType, Constants
  <2>2. CASE taken = 1
    <3>1. Level(bucket, k, clock) >= Refill[k] BY <2>2 DEF Has
    <3>2. LeftOf(k, taken) = Least(Full(k), Level(bucket, k, clock) - Refill[k])
      BY <2>1, <2>2 DEF LeftOf
    <3> QED BY <2>1, <3>1, <3>2 DEF Least
  <2>3. CASE taken = 0
    <3>1. LeftOf(k, taken) = Least(Full(k), Level(bucket, k, clock)) BY <2>1, <2>3 DEF LeftOf
    <3> QED BY <2>1, <3>1 DEF Least
  <2>4. CASE taken = -1
    <3>1. LeftOf(k, taken) = Least(Full(k), Level(bucket, k, clock) + Refill[k])
      BY <2>1, <2>4 DEF LeftOf
    <3> QED BY <2>1, <3>1 DEF Least
  <2> QED BY <2>2, <2>3, <2>4
<1>3. \A k \in Keys : bucket'[k] = IF k \in keys THEN [level |-> LeftOf(k, taken), at |-> clock]
                                                 ELSE bucket[k]
  BY DEF Touch, LeftOf
<1>4. bucket' = [k \in Keys |-> bucket'[k]] BY DEF Touch
<1>5. ASSUME NEW k \in Keys
      PROVE  /\ bucket'[k] \in [level : Nat, at : 0..MaxTime] /\ bucket'[k].level <= Full(k)
             /\ bucket'[k].at <= clock
  <2>1. CASE k \in keys
    <3> DEFINE x == LeftOf(k, taken)
    <3>1. bucket'[k] = [level |-> x, at |-> clock] BY <1>3, <2>1
    <3>2. x \in Nat /\ x <= Full(k) /\ clock <= clock BY <1>1, <1>2, <2>1
    <3> HIDE DEF x
    <3> QED BY <1>1, <3>1, <3>2
  <2>2. CASE k \notin keys
    <3>1. bucket[k] \in [level : Nat, at : 0..MaxTime] /\ bucket[k].level <= Full(k)
      BY DEF LimitTypeOK, Buckets
    <3> QED BY <1>3, <2>2, <3>1 DEF Timely
  <2> QED BY <2>1, <2>2
<1>6. bucket' \in Buckets
  <2>1. bucket' \in [Keys -> [level : Nat, at : 0..MaxTime]] BY <1>4, <1>5
  <2> QED BY <1>5, <2>1 DEF Buckets
<1>7. ASSUME NEW k \in keys PROVE Level(bucket', k, clock) = LeftOf(k, taken)
  <2> DEFINE x == LeftOf(k, taken)
  <2>0. bucket'[k] = [level |-> x, at |-> clock]
    <3>1. k \in Keys OBVIOUS
    <3> HIDE DEF x
    <3> QED BY <1>3, <3>1 DEF x
  <2>1. bucket'[k].level = LeftOf(k, taken) /\ bucket'[k].at = clock
    <3> HIDE DEF x
    <3>1. bucket'[k].level = x /\ bucket'[k].at = clock BY <2>0
    <3> QED BY <3>1 DEF x
  <2>2. Level(bucket', k, clock) = LevelAt(Full(k), LeftOf(k, taken), clock, clock)
    BY <2>1, LevelIs
  <2> QED BY <1>1, <1>2, <2>2, FullType, LevelNow
<1> QED BY <1>3, <1>5, <1>6, <1>7

LEMMA WaitingType == LimitTypeOK => Waiting \subseteq Keys
BY Constants DEF LimitTypeOK, Waiting

LEMMA SpentType ==
    ASSUME LimitTypeOK, NEW k \in Keys
    PROVE  /\ granted[k] \in Nat /\ Refill[k] \in Nat /\ granted[k] * Refill[k] \in Nat
           /\ (granted[k] + 1) * Refill[k] = granted[k] * Refill[k] + Refill[k]
           /\ clock - since \in Int
<1>1. granted[k] \in Nat /\ Refill[k] \in Nat BY Constants DEF LimitTypeOK
<1>2. clock \in Int /\ since \in Int BY Constants DEF LimitTypeOK
<1> QED BY <1>1, <1>2

-----------------------------------------------------------------------------
(* The buckets. *)

\* The invariant's parts about the buckets, the gate and the ledger, and the rest.
BucketsOK ==
    /\ bucket \in Buckets /\ untouched \in Buckets /\ granted \in [Keys -> Nat]
    /\ Timely /\ RateKept /\ TokensTaken
GateOK == active \in 0..Slots /\ leases \subseteq Runs /\ GateExact
LedgerOK ==
    /\ rows \in [Runs -> [state : {"none", "reserved", "settled", "released"},
                          amount : Nat, day : Nat]]
    /\ asked \in [Runs -> Nat]
    /\ RowsSound /\ DayKept
ScalarsOK ==
    /\ clock \in 0..MaxTime /\ since \in 0..MaxTime
    /\ asking \in Runs \cup {NoRun} /\ day \in Nat /\ faults \in 0..MaxFaults

LEMMA InvParts == LimitInv <=> BucketsOK /\ GateOK /\ LedgerOK /\ ScalarsOK
BY DEF LimitInv, LimitTypeOK, BucketsOK, GateOK, LedgerOK, ScalarsOK

LEMMA RateFrom ==
    ASSUME NEW t, NEW s, clock' = t, since' = s,
           \A k \in Keys : Spent(k)' + Level(bucket', k, t) <= Full(k) + (t - s)
    PROVE  RateKept'
<1>1. \A k \in Keys : Level(bucket, k, clock)' = Level(bucket', k, t) BY DEF Level
<1>2. ASSUME NEW k \in Keys
      PROVE  Spent(k)' + Level(bucket, k, clock)' <= Full(k)' + (clock' - since')
  <2>1. Full(k)' = Full(k) BY DEF Full
  <2>2. Spent(k)' + Level(bucket', k, t) <= Full(k) + (t - s) OBVIOUS
  <2>3. Level(bucket, k, clock)' = Level(bucket', k, t) BY <1>1
  <2> QED BY <2>1, <2>2, <2>3, Zenon
<1> QED BY <1>2, Zenon DEF RateKept

LEMMA TickBuckets ==
    ASSUME LimitInv, Tick
    PROVE  BucketsOK'
<1>1. LimitTypeOK /\ Timely /\ RateKept /\ TokensTaken BY DEF LimitInv
<1>2. UNCHANGED <<bucket, untouched, granted, since, asking>> BY DEF Tick, local, history
<1>3. bucket' \in Buckets /\ untouched' \in Buckets /\ granted' \in [Keys -> Nat]
  BY <1>1, <1>2 DEF LimitTypeOK
<1> DEFINE t == clock + 1
<1>4. clock' = t BY DEF Tick
<1>5. clock \in Nat /\ since \in Nat /\ t = clock + 1 /\ t \in Nat /\ since <= clock
  BY <1>1, Constants DEF LimitTypeOK, Timely
<1> HIDE DEF t
<1>6. \A k \in Keys : bucket[k].at <= t
  <2> TAKE k \in Keys
  <2>1. bucket[k].at \in Nat /\ bucket[k].at <= clock
    BY <1>1, BucketTypes DEF LimitTypeOK, Timely
  <2> QED BY <1>5, <2>1
<1>7. Timely'
  <2>1. since <= t BY <1>5
  <2> QED BY <1>2, <1>4, <1>6, <2>1 DEF Timely
<1>8. ASSUME NEW k \in Keys
      PROVE  Spent(k)' + Level(bucket', k, t) <= Full(k) + (t - since)
  <2> DEFINE x == Level(bucket, k, clock)
             y == Level(bucket, k, t)
             s == Spent(k)
             f == Full(k)
  <2>1. x \in Nat /\ y \in Nat /\ y <= x + 1
    BY <1>1, <1>5, LevelTypes DEF t
  <2>2. s \in Nat
    <3>1. granted[k] * Refill[k] \in Nat /\ Refill[k] \in Nat BY <1>1, SpentType
    <3> QED BY <3>1 DEF Spent
  <2>3. f \in Nat BY FullType
  <2>4. s + x <= f + (clock - since) BY <1>1 DEF RateKept
  <2>5. Spent(k)' = s BY <1>2 DEF Spent, Waiting, Ip, Session
  <2>6. Level(bucket', k, t) = y BY <1>2
  <2> HIDE DEF x, y, s, f
  <2>7. s + y <= f + (t - since) BY <1>5, <2>1, <2>2, <2>3, <2>4
  <2> QED BY <2>5, <2>6, <2>7 DEF f
<1>9. RateKept' BY <1>2, <1>4, <1>8, RateFrom
<1>10. TokensTaken'
  BY <1>1, <1>2 DEF TokensTaken, OneTokenShort, Waiting, Ip, Session, Level, Full
<1> QED BY <1>3, <1>7, <1>9, <1>10 DEF BucketsOK

LEMMA BucketsAlone ==
    ASSUME LimitInv, UNCHANGED <<clock, bucket, untouched, granted, since, asking>>
    PROVE  BucketsOK'
<1>1. BucketsOK BY InvParts
<1> QED BY <1>1
     DEF BucketsOK, Timely, RateKept, TokensTaken, OneTokenShort, Waiting, Ip, Session, Level,
         Full, Spent

LEMMA RefuseBuckets ==
    ASSUME LimitInv, NEW r \in Runs, Refuse(r)
    PROVE  BucketsOK'
<1>1. LimitTypeOK /\ Timely /\ RateKept BY DEF LimitInv
<1>2. asking = NoRun /\ UNCHANGED <<clock, asking, untouched, granted, since>>
  BY DEF Refuse, Asks, history
<1>3. Ip(r) \in Keys /\ Session(r) \in Keys BY Constants
<1>4. PICK keys \in SUBSET Keys : Touch(keys, 0)
  <2>1. Touch({Ip(r)}, 0) \/ Touch({Ip(r), Session(r)}, 0) BY DEF Refuse
  <2>2. {Ip(r)} \in SUBSET Keys /\ {Ip(r), Session(r)} \in SUBSET Keys BY <1>3
  <2> QED BY <2>1, <2>2
<1>5. /\ bucket' \in Buckets
      /\ \A k \in Keys : bucket'[k].at <= clock
      /\ \A k \in keys : Level(bucket', k, clock) = LeftOf(k, 0)
      /\ \A k \in Keys : k \notin keys => bucket'[k] = bucket[k]
  <2>1. 0 \in {-1, 0, 1} /\ 0 # 1 OBVIOUS
  <2> QED BY <1>1, <1>4, <2>1, TouchLevels
<1>6. ASSUME NEW k \in Keys
      PROVE  Level(bucket', k, clock) = Level(bucket, k, clock)
  <2>1. CASE k \in keys
    <3>1. Level(bucket, k, clock) \in Nat /\ Level(bucket, k, clock) <= Full(k) /\ Full(k) \in Nat
      BY <1>1, LevelTypes, FullType
    <3>2. Refill[k] \in Nat BY Constants
    <3>3. LeftOf(k, 0) = Level(bucket, k, clock) BY <3>1, <3>2 DEF LeftOf, Least
    <3> QED BY <1>5, <2>1, <3>3
  <2>2. CASE k \notin keys BY <1>5, <2>2 DEF Level
  <2> QED BY <2>1, <2>2
<1>7. ASSUME NEW k \in Keys
      PROVE  Spent(k)' + Level(bucket', k, clock) <= Full(k) + (clock - since)
  <2>1. Spent(k)' = Spent(k) BY <1>2 DEF Spent, Waiting, Ip, Session
  <2> QED BY <1>1, <1>6, <2>1 DEF RateKept
<1>8. RateKept' BY <1>2, <1>7, RateFrom
<1>9. Timely' BY <1>1, <1>2, <1>5 DEF Timely
<1>10. TokensTaken' BY <1>2 DEF TokensTaken
<1>11. untouched' \in Buckets /\ granted' \in [Keys -> Nat] BY <1>1, <1>2 DEF LimitTypeOK
<1> QED BY <1>5, <1>8, <1>9, <1>10, <1>11 DEF BucketsOK

LEMMA TakeBuckets ==
    ASSUME LimitInv, NEW r \in Runs, Take(r)
    PROVE  BucketsOK'
<1> DEFINE keys == {Ip(r), Session(r)}
<1>1. LimitTypeOK /\ Timely /\ RateKept BY DEF LimitInv
<1>2. /\ asking = NoRun /\ asking' = r /\ untouched' = bucket /\ UNCHANGED <<clock, granted, since>>
      /\ Touch(keys, 1) /\ \A k \in keys : Has(k)
  BY DEF Take, Asks
<1>3. r # NoRun /\ keys \in SUBSET Keys BY Constants
<1>4. Waiting = {} /\ Waiting' = keys BY <1>2, <1>3 DEF Waiting, Ip, Session
<1> HIDE DEF keys
<1>5. /\ bucket' \in Buckets
      /\ \A k \in Keys : bucket'[k].at <= clock
      /\ \A k \in keys : /\ bucket'[k] = [level |-> LeftOf(k, 1), at |-> clock]
                         /\ Level(bucket', k, clock) = LeftOf(k, 1)
      /\ \A k \in Keys : k \notin keys => bucket'[k] = bucket[k]
  <2>1. 1 \in {-1, 0, 1} OBVIOUS
  <2> QED BY <1>1, <1>2, <1>3, <2>1, TouchLevels
<1>6. ASSUME NEW k \in keys
      PROVE  /\ LeftOf(k, 1) \in Nat /\ LeftOf(k, 1) + Refill[k] = Level(bucket, k, clock)
             /\ Refill[k] \in Nat
  <2>0. k \in Keys BY <1>3
  <2>1. Level(bucket, k, clock) \in Nat /\ Level(bucket, k, clock) <= Full(k) /\ Full(k) \in Nat
    BY <1>1, <2>0, LevelTypes, FullType
  <2>2. Refill[k] \in Nat BY <2>0, Constants
  <2>3. Level(bucket, k, clock) >= Refill[k] BY <1>2 DEF Has
  <2>4. LeftOf(k, 1) = Level(bucket, k, clock) - Refill[k] BY <2>1, <2>2, <2>3 DEF LeftOf, Least
  <2> QED BY <2>1, <2>2, <2>3, <2>4
<1>7. ASSUME NEW k \in Keys
      PROVE  Spent(k)' + Level(bucket', k, clock) <= Full(k) + (clock - since)
  <2> DEFINE p == granted[k] * Refill[k]
  <2>1. p \in Nat /\ clock - since \in Int /\ Full(k) \in Nat BY <1>1, SpentType, FullType
  <2>2. Spent(k) = p + 0 BY <1>4 DEF Spent
  <2>3. Spent(k)' = p + (IF k \in keys THEN Refill[k] ELSE 0) BY <1>2, <1>4 DEF Spent
  <2>4. Spent(k) + Level(bucket, k, clock) <= Full(k) + (clock - since) BY <1>1 DEF RateKept
  <2>5. Level(bucket, k, clock) \in Nat BY <1>1, LevelTypes
  <2> HIDE DEF p
  <2>6. CASE k \in keys
    <3>1. Spent(k)' = p + Refill[k] /\ Level(bucket', k, clock) = LeftOf(k, 1)
      BY <1>5, <2>3, <2>6
    <3>2. LeftOf(k, 1) \in Nat /\ LeftOf(k, 1) + Refill[k] = Level(bucket, k, clock) /\ Refill[k] \in Nat
      BY <1>6, <2>6
    <3>3. (p + Refill[k]) + LeftOf(k, 1) = (p + 0) + Level(bucket, k, clock) BY <2>1, <3>2
    <3> QED BY <2>2, <2>4, <3>1, <3>3
  <2>7. CASE k \notin keys
    <3>1. Spent(k)' = p + 0 /\ Level(bucket', k, clock) = Level(bucket, k, clock)
      BY <1>5, <2>3, <2>7 DEF Level
    <3> QED BY <2>2, <2>4, <3>1
  <2> QED BY <2>6, <2>7
<1>8. RateKept' BY <1>2, <1>7, RateFrom
<1>9. Timely' BY <1>1, <1>2, <1>5 DEF Timely
<1>10. TokensTaken'
  <2>1. ASSUME NEW k \in keys PROVE OneTokenShort(k)'
    <3> DEFINE x == LeftOf(k, 1)
    <3>0. k \in Keys BY <1>3
    <3>1. bucket'[k] = [level |-> x, at |-> clock] BY <1>5
    <3>2. x + Refill[k] = Level(bucket, k, clock) BY <1>6
    <3> HIDE DEF x
    <3>3. bucket'[k].level = x /\ bucket'[k].at = clock BY <3>1
    <3>4. untouched'[k].at <= bucket'[k].at BY <1>1, <1>2, <3>0, <3>3 DEF Timely
    <3>5. Level(untouched', k, bucket'[k].at) = Level(bucket, k, clock) BY <1>2, <3>3
    <3>6. bucket'[k].level + Refill[k] = Level(untouched', k, bucket'[k].at) BY <3>2, <3>3, <3>5
    <3> QED BY <3>4, <3>6 DEF OneTokenShort, Level, Full
  <2>2. \A k \in Keys : k \notin keys => bucket'[k] = untouched'[k] BY <1>2, <1>5
  <2> QED BY <1>4, <2>1, <2>2 DEF TokensTaken
<1>11. untouched' \in Buckets /\ granted' \in [Keys -> Nat] BY <1>1, <1>2 DEF LimitTypeOK
<1> QED BY <1>5, <1>8, <1>9, <1>10, <1>11 DEF BucketsOK

LEMMA GrantBuckets ==
    ASSUME LimitInv, NEW r \in Runs, Grant(r)
    PROVE  BucketsOK'
<1> DEFINE keys == {Ip(r), Session(r)}
<1>1. LimitTypeOK /\ Timely /\ RateKept BY DEF LimitInv
<1>2. /\ asking = r /\ asking' = NoRun /\ UNCHANGED <<clock, bucket, untouched, since>>
      /\ granted' = [k \in Keys |-> granted[k] + IF k \in keys THEN 1 ELSE 0]
  BY DEF Grant
<1>3. r # NoRun /\ keys \in SUBSET Keys BY Constants
<1>4. Waiting = keys /\ Waiting' = {} BY <1>2, <1>3 DEF Waiting, Ip, Session
<1> HIDE DEF keys
<1>5. granted' \in [Keys -> Nat]
  <2>1. \A k \in Keys : granted[k] + (IF k \in keys THEN 1 ELSE 0) \in Nat BY <1>1 DEF LimitTypeOK
  <2> QED BY <1>2, <2>1
<1>6. ASSUME NEW k \in Keys
      PROVE  Spent(k)' + Level(bucket', k, clock) <= Full(k) + (clock - since)
  <2> DEFINE p == granted[k] * Refill[k]
  <2>1. p \in Nat /\ Refill[k] \in Nat /\ (granted[k] + 1) * Refill[k] = p + Refill[k]
        /\ granted[k] \in Nat
    BY <1>1, SpentType
  <2>2. Spent(k) + Level(bucket, k, clock) <= Full(k) + (clock - since) BY <1>1 DEF RateKept
  <2>3. Spent(k)' = Spent(k)
    <3>1. CASE k \in keys
      <4>1. granted'[k] = granted[k] + 1 BY <1>2, <3>1
      <4>2. Spent(k)' = granted'[k] * Refill[k] + 0 BY <1>4 DEF Spent
      <4>3. Spent(k) = p + Refill[k] BY <1>4, <3>1 DEF Spent
      <4>4. granted'[k] * Refill[k] = p + Refill[k] BY <2>1, <4>1
      <4> HIDE DEF p
      <4>5. (p + Refill[k]) + 0 = p + Refill[k] BY <2>1
      <4> QED BY <4>2, <4>3, <4>4, <4>5
    <3>2. CASE k \notin keys
      <4>1. granted'[k] = granted[k] BY <1>2, <2>1, <3>2
      <4>2. Spent(k)' = granted'[k] * Refill[k] + 0 BY <1>4 DEF Spent
      <4>3. Spent(k) = granted[k] * Refill[k] + 0 BY <1>4, <3>2 DEF Spent
      <4> QED BY <4>1, <4>2, <4>3
    <3> QED BY <3>1, <3>2
  <2>4. Level(bucket', k, clock) = Level(bucket, k, clock) BY <1>2
  <2> QED BY <2>2, <2>3, <2>4
<1>7. RateKept' BY <1>2, <1>6, RateFrom
<1>8. Timely' BY <1>1, <1>2 DEF Timely
<1>9. TokensTaken' BY <1>2 DEF TokensTaken
<1>10. untouched' \in Buckets /\ bucket' \in Buckets BY <1>1, <1>2 DEF LimitTypeOK
<1> QED BY <1>5, <1>7, <1>8, <1>9, <1>10 DEF BucketsOK

\* What is given back leaves the buckets as they were before the run asked.
LEMMA GivesBack ==
    ASSUME LimitInv, NEW r \in Runs, asking = r, GiveBack(r)
    PROVE  /\ bucket' \in Buckets
           /\ \A k \in Keys : bucket'[k].at <= clock
           /\ \A k \in Keys : Level(bucket', k, clock) = Level(untouched, k, clock)
           /\ \A k \in Keys : Level(bucket', k, clock) <= Level(bucket, k, clock)
                                  + IF k \in Waiting THEN Refill[k] ELSE 0
<1> DEFINE keys == {Ip(r), Session(r)}
<1>1. LimitTypeOK /\ Timely /\ TokensTaken BY DEF LimitInv
<1>2. r # NoRun /\ keys \in SUBSET Keys BY Constants
<1>3. Waiting = keys BY <1>2 DEF Waiting
<1>4. Touch(keys, -1) BY DEF GiveBack
<1> HIDE DEF keys
<1>5. /\ bucket' \in Buckets
      /\ \A k \in Keys : bucket'[k].at <= clock
      /\ \A k \in keys : Level(bucket', k, clock) = LeftOf(k, -1)
      /\ \A k \in Keys : k \notin keys => bucket'[k] = bucket[k]
  <2>1. -1 \in {-1, 0, 1} /\ -1 # 1 OBVIOUS
  <2> QED BY <1>1, <1>2, <1>4, <2>1, TouchLevels
<1>6. ASSUME NEW k \in keys
      PROVE  /\ Level(bucket', k, clock) = Level(untouched, k, clock)
             /\ Level(bucket', k, clock) <= Level(bucket, k, clock) + Refill[k]
  <2>0. k \in Keys BY <1>2
  <2>1. /\ bucket[k].level \in Nat /\ bucket[k].at \in Nat
        /\ untouched[k].level \in Nat /\ untouched[k].at \in Nat /\ untouched[k].level <= Full(k)
    BY <1>1, <2>0, BucketTypes DEF LimitTypeOK
  <2>2. bucket[k].at <= clock /\ clock \in Nat BY <1>1, <2>0, Constants DEF LimitTypeOK, Timely
  <2>3. Full(k) \in Nat /\ Refill[k] \in Nat /\ Level(bucket, k, clock) \in Nat
    BY <1>1, <2>0, FullType, LevelTypes, Constants
  <2>4. OneTokenShort(k) BY <1>1, <1>2, <1>3, <2>0 DEF TokensTaken
  <2>5. /\ untouched[k].at <= bucket[k].at
        /\ bucket[k].level + Refill[k]
             = LevelAt(Full(k), untouched[k].level, untouched[k].at, bucket[k].at)
    BY <2>4, LevelIs DEF OneTokenShort
  <2>6. Least(Full(k), LevelAt(Full(k), bucket[k].level, bucket[k].at, clock) + Refill[k])
          = LevelAt(Full(k), untouched[k].level, untouched[k].at, clock)
    <3> DEFINE l == bucket[k].level
               a == bucket[k].at
               u == untouched[k].level
               v == untouched[k].at
               f == Full(k)
               c == Refill[k]
    <3>1. /\ f \in Nat /\ c \in Nat /\ u \in Nat /\ v \in Nat /\ l \in Nat /\ a \in Nat /\ clock \in Nat
          /\ v <= a /\ a <= clock /\ u <= f /\ l + c = LevelAt(f, u, v, a)
      BY <2>1, <2>2, <2>3, <2>5
    <3> HIDE DEF l, a, u, v, f, c
    \* A token taken at a and given back now makes no difference now.
    <3>2. Least(f, LevelAt(f, l, a, clock) + c) = LevelAt(f, u, v, clock)
      BY <3>1 DEF LevelAt, Least
    <3> QED BY <3>2 DEF l, a, u, v, f, c
  <2>7. LeftOf(k, -1) = Least(Full(k), Level(bucket, k, clock) + Refill[k])
    BY <2>3 DEF LeftOf
  <2>8. LeftOf(k, -1) = Level(untouched, k, clock) BY <2>6, <2>7, LevelIs
  <2>9. LeftOf(k, -1) <= Level(bucket, k, clock) + Refill[k] BY <2>3, <2>7 DEF Least
  <2> QED BY <1>5, <2>8, <2>9
<1>7. ASSUME NEW k \in Keys, k \notin keys
      PROVE  /\ Level(bucket', k, clock) = Level(untouched, k, clock)
             /\ Level(bucket', k, clock) <= Level(bucket, k, clock) + 0
  <2>1. bucket'[k] = bucket[k] /\ bucket[k] = untouched[k]
    BY <1>1, <1>2, <1>3, <1>5, <1>7 DEF TokensTaken
  <2>2. Level(bucket, k, clock) \in Nat BY <1>1, LevelTypes
  <2>3. Level(bucket', k, clock) = Level(bucket, k, clock) BY <2>1 DEF Level
  <2>4. Level(bucket, k, clock) = Level(untouched, k, clock) BY <2>1 DEF Level
  <2> QED BY <2>2, <2>3, <2>4
<1>8. ASSUME NEW k \in Keys
      PROVE  /\ Level(bucket', k, clock) = Level(untouched, k, clock)
             /\ Level(bucket', k, clock) <= Level(bucket, k, clock)
                                  + IF k \in Waiting THEN Refill[k] ELSE 0
  <2>1. CASE k \in keys BY <1>3, <1>6, <2>1
  <2>2. CASE k \notin keys BY <1>3, <1>7, <2>2
  <2> QED BY <2>1, <2>2
<1> QED BY <1>5, <1>8

LEMMA GiveBackBuckets ==
    ASSUME LimitInv, NEW r \in Runs, asking = r, GiveBack(r)
    PROVE  BucketsOK'
<1>1. LimitTypeOK /\ Timely /\ RateKept BY DEF LimitInv
<1>2. asking' = NoRun /\ UNCHANGED <<clock, untouched, granted, since>>
  BY DEF GiveBack, history
<1>3. Waiting' = {} BY <1>2 DEF Waiting
<1>4. ASSUME NEW k \in Keys
      PROVE  Spent(k)' + Level(bucket', k, clock) <= Full(k) + (clock - since)
  <2> DEFINE p == granted[k] * Refill[k]
             c == IF k \in Waiting THEN Refill[k] ELSE 0
             x == Level(bucket, k, clock)
             y == Level(bucket', k, clock)
             f == Full(k)
             d == clock - since
  <2>1. p \in Nat /\ c \in Nat /\ d \in Int BY <1>1, SpentType
  <2>2. f \in Nat /\ x \in Nat BY <1>1, FullType, LevelTypes
  <2>3. y \in Nat
    <3>1. y = Level(untouched, k, clock) BY GivesBack
    <3>2. untouched[k].level \in Nat /\ untouched[k].at \in Nat
      BY <1>1, BucketTypes DEF LimitTypeOK
    <3>3. y <= x + c BY GivesBack
    <3>4. bucket'[k].level \in Nat /\ bucket'[k].at \in Nat /\ bucket'[k].at <= clock
      BY GivesBack, BucketTypes
    <3>5. clock \in Nat BY <1>1, Constants DEF LimitTypeOK
    <3> QED BY <2>2, <3>4, <3>5, LevelIs, LevelRange
  <2>4. y <= x + c BY GivesBack
  <2>5. (p + c) + x <= f + d BY <1>1 DEF RateKept, Spent
  <2>6. Spent(k)' = p + 0 BY <1>2, <1>3 DEF Spent
  <2> HIDE DEF p, c, x, y, f, d
  <2>7. (p + 0) + y <= f + d BY <2>1, <2>2, <2>3, <2>4, <2>5
  <2> QED BY <2>6, <2>7 DEF y, f, d
<1>5. RateKept' BY <1>2, <1>4, RateFrom
<1>6. bucket' \in Buckets /\ \A k \in Keys : bucket'[k].at <= clock BY GivesBack
<1>7. Timely' BY <1>1, <1>2, <1>6 DEF Timely
<1>8. TokensTaken' BY <1>2 DEF TokensTaken
<1>9. untouched' \in Buckets /\ granted' \in [Keys -> Nat] BY <1>1, <1>2 DEF LimitTypeOK
<1> QED BY <1>5, <1>6, <1>7, <1>8, <1>9 DEF BucketsOK

\* Full buckets that have paid for nothing.
LEMMA FullBuckets ==
    ASSUME NEW t \in 0..MaxTime
    PROVE  LET b == [k \in Keys |-> [level |-> Full(k), at |-> t]]
           IN  /\ b \in Buckets
               /\ \A k \in Keys : b[k].at = t /\ Level(b, k, t) = Full(k)
<1> DEFINE b == [k \in Keys |-> [level |-> Full(k), at |-> t]]
<1>1. t \in Nat BY Constants
<1>2. ASSUME NEW k \in Keys
      PROVE  /\ b[k] \in [level : Nat, at : 0..MaxTime] /\ b[k].level <= Full(k)
             /\ b[k].at = t /\ Level(b, k, t) = Full(k)
  <2> DEFINE f == Full(k)
  <2>1. f \in Nat BY FullType
  <2>2. b[k] = [level |-> f, at |-> t] OBVIOUS
  <2> HIDE DEF f, b
  <2>3. b[k] \in [level : Nat, at : 0..MaxTime] BY <2>1, <2>2
  <2>4. b[k].level = f /\ b[k].at = t BY <2>2
  <2>5. f <= f /\ LevelAt(f, f, t, t) = f BY <1>1, <2>1, LevelNow
  <2> QED BY <2>3, <2>4, <2>5, LevelIs DEF f
<1>3. b \in [Keys -> [level : Nat, at : 0..MaxTime]]
  <2>1. b = [k \in Keys |-> b[k]] OBVIOUS
  <2> HIDE DEF b
  <2> QED BY <1>2, <2>1
<1> HIDE DEF b
<1>4. b \in Buckets BY <1>2, <1>3 DEF Buckets
<1> QED BY <1>2, <1>4 DEF b

LEMMA RestartBuckets ==
    ASSUME LimitInv, RestartLimits
    PROVE  BucketsOK'
<1>1. LimitTypeOK /\ Timely BY DEF LimitInv
<1>2. /\ bucket' = [k \in Keys |-> [level |-> Full(k), at |-> clock]]
      /\ asking' = NoRun /\ granted' = [k \in Keys |-> 0] /\ since' = clock
      /\ UNCHANGED <<clock, untouched>>
  BY DEF RestartLimits
<1>3. clock \in 0..MaxTime /\ clock \in Nat BY <1>1, Constants DEF LimitTypeOK
<1>4. /\ bucket' \in Buckets
      /\ \A k \in Keys : bucket'[k].at = clock /\ Level(bucket', k, clock) = Full(k)
  BY <1>2, <1>3, FullBuckets
<1>5. Waiting' = {} BY <1>2 DEF Waiting
<1>6. ASSUME NEW k \in Keys
      PROVE  Spent(k)' + Level(bucket', k, clock) <= Full(k) + (clock - clock)
  <2>1. granted'[k] = 0 BY <1>2
  <2>2. Full(k) \in Nat /\ Refill[k] \in Nat BY FullType, Constants
  <2>3. Spent(k)' = 0 * Refill[k] + 0 BY <1>5, <2>1 DEF Spent
  <2>4. (0 * Refill[k] + 0) + Full(k) <= Full(k) + (clock - clock) BY <1>3, <2>2
  <2>5. Level(bucket', k, clock) = Full(k) BY <1>4
  <2> QED BY <2>3, <2>4, <2>5
<1>7. RateKept' BY <1>2, <1>6, RateFrom
<1>8. Timely'
  <2>1. since' <= clock' BY <1>2, <1>3
  <2>2. \A k \in Keys : bucket'[k].at <= clock' BY <1>2, <1>3, <1>4
  <2> QED BY <2>1, <2>2 DEF Timely
<1>9. TokensTaken' BY <1>2 DEF TokensTaken
<1>10. untouched' \in Buckets /\ granted' \in [Keys -> Nat] BY <1>1, <1>2 DEF LimitTypeOK
<1> QED BY <1>4, <1>7, <1>8, <1>9, <1>10 DEF BucketsOK

LEMMA InitBuckets ==
    ASSUME LimitInit
    PROVE  BucketsOK
<1>1. /\ bucket = [k \in Keys |-> [level |-> Full(k), at |-> 0]] /\ untouched = bucket
      /\ asking = NoRun /\ granted = [k \in Keys |-> 0] /\ since = 0 /\ clock = 0
  BY DEF LimitInit
<1>2. 0 \in 0..MaxTime BY Constants
<1>3. /\ bucket \in Buckets
      /\ \A k \in Keys : bucket[k].at = 0 /\ Level(bucket, k, 0) = Full(k)
  BY <1>1, <1>2, FullBuckets
<1>4. ASSUME NEW k \in Keys
      PROVE  Spent(k) + Level(bucket, k, clock) <= Full(k) + (clock - since)
  <2>1. Full(k) \in Nat /\ Refill[k] \in Nat BY FullType, Constants
  <2>2. Spent(k) = 0 * Refill[k] + 0 BY <1>1 DEF Spent, Waiting
  <2>3. (0 * Refill[k] + 0) + Full(k) <= Full(k) + (0 - 0) BY <2>1
  <2> QED BY <1>1, <1>3, <2>2, <2>3
<1>5. RateKept BY <1>4 DEF RateKept
<1>6. Timely BY <1>1, <1>3 DEF Timely
<1>7. TokensTaken BY <1>1 DEF TokensTaken
<1>8. granted \in [Keys -> Nat] BY <1>1
<1> QED BY <1>1, <1>3, <1>5, <1>6, <1>7, <1>8 DEF BucketsOK

-----------------------------------------------------------------------------
(* The gate. *)

LEMMA LeasesFinite ==
    ASSUME LimitInv
    PROVE  /\ IsFiniteSet(leases) /\ Cardinality(leases) \in Nat /\ active \in Nat /\ active <= Slots
           /\ Slots \in Nat /\ active = Cardinality(leases) + IF asking = NoRun THEN 0 ELSE 1
<1>1. leases \subseteq Runs /\ active \in 0..Slots /\ GateExact BY DEF LimitInv, LimitTypeOK
<1>2. IsFiniteSet(leases) BY <1>1, Constants, FS_Subset
<1>3. Slots \in Nat /\ active \in Nat /\ active <= Slots BY <1>1, Constants
<1> QED BY <1>1, <1>2, <1>3, FS_CardinalityType DEF GateExact

LEMMA GateAlone ==
    ASSUME LimitInv, UNCHANGED <<active, leases, asking>>
    PROVE  GateOK'
BY InvParts DEF GateOK, GateExact

\* active changes to n.
LEMMA GateFrom ==
    ASSUME LimitInv, NEW n \in Nat, active' = n, n <= Slots, leases' \subseteq Runs,
           n = Cardinality(leases') + IF asking' = NoRun THEN 0 ELSE 1
    PROVE  GateOK'
<1>1. n \in 0..Slots BY Constants
<1> QED BY <1>1 DEF GateOK, GateExact

LEMMA TakeGate ==
    ASSUME LimitInv, NEW r \in Runs, Take(r)
    PROVE  GateOK'
<1> DEFINE n == active + 1
<1>1. active' = n /\ active < Slots /\ asking = NoRun /\ asking' = r /\ leases' = leases
  BY DEF Take, Asks
<1>2. r # NoRun BY Constants
<1>3. leases \subseteq Runs BY DEF LimitInv, LimitTypeOK
<1>4. n \in Nat /\ n <= Slots /\ n = Cardinality(leases) + 1 BY <1>1, LeasesFinite
<1> HIDE DEF n
<1> QED BY <1>1, <1>2, <1>3, <1>4, GateFrom

LEMMA GrantGate ==
    ASSUME LimitInv, NEW r \in Runs, Grant(r)
    PROVE  GateOK'
<1> DEFINE n == active
           ls == leases \cup {r}
<1>1. active' = n /\ asking = r /\ asking' = NoRun /\ leases' = ls BY DEF Grant
<1>2. r # NoRun BY Constants
<1>3. leases \subseteq Runs BY DEF LimitInv, LimitTypeOK
<1>4. r \notin leases BY <1>1, <1>2 DEF LimitInv, RowsSound
<1>5. Cardinality(ls) = Cardinality(leases) + 1 BY <1>4, LeasesFinite, FS_AddElement
<1>6. n \in Nat /\ n <= Slots /\ n = Cardinality(leases) + 1 BY <1>1, <1>2, LeasesFinite
<1>7. n = Cardinality(ls) + 0 BY <1>5, <1>6, LeasesFinite
<1>8. ls \subseteq Runs BY <1>3
<1> HIDE DEF n, ls
<1> QED BY <1>1, <1>6, <1>7, <1>8, GateFrom

LEMMA GiveBackGate ==
    ASSUME LimitInv, NEW r \in Runs, asking = r, GiveBack(r)
    PROVE  GateOK'
<1> DEFINE n == active - 1
<1>1. active' = n /\ asking' = NoRun /\ leases' = leases BY DEF GiveBack
<1>2. r # NoRun BY Constants
<1>3. leases \subseteq Runs BY DEF LimitInv, LimitTypeOK
<1>4. n \in Nat /\ n <= Slots /\ n = Cardinality(leases) + 0 BY <1>2, LeasesFinite
<1> HIDE DEF n
<1> QED BY <1>1, <1>3, <1>4, GateFrom

LEMMA ReleaseGate ==
    ASSUME LimitInv, NEW r \in Runs, asking = NoRun, asking' = NoRun, ReleaseLocal(r)
    PROVE  GateOK'
<1> DEFINE n == IF r \in leases THEN active - 1 ELSE active
           ls == leases \ {r}
<1>1. active' = n /\ leases' = ls BY DEF ReleaseLocal
<1>2. ls \subseteq Runs BY DEF LimitInv, LimitTypeOK
<1>3. n \in Nat /\ n <= Slots /\ n = Cardinality(ls) + 0
  <2>1. CASE r \in leases
    <3>1. IsFiniteSet(ls) /\ Cardinality(ls) = Cardinality(leases) - 1
      BY <2>1, LeasesFinite, FS_RemoveElement
    <3>2. Cardinality(ls) \in Nat BY <3>1, FS_CardinalityType
    <3>3. n = active - 1 BY <2>1
    <3> HIDE DEF ls, n
    <3> QED BY <3>1, <3>2, <3>3, LeasesFinite
  <2>2. CASE r \notin leases
    <3>1. ls = leases /\ n = active BY <2>2
    <3> HIDE DEF ls, n
    <3> QED BY <3>1, LeasesFinite
  <2> QED BY <2>1, <2>2
<1> HIDE DEF n, ls
<1> QED BY <1>1, <1>2, <1>3, GateFrom

LEMMA RestartGate ==
    ASSUME LimitInv, RestartLimits
    PROVE  GateOK'
<1>1. active' = 0 /\ leases' = {} /\ asking' = NoRun BY DEF RestartLimits
<1>2. Cardinality({}) = 0 BY FS_EmptySet
<1>3. 0 <= Slots BY Constants
<1> QED BY <1>1, <1>2, <1>3, GateFrom

-----------------------------------------------------------------------------
(* The ledger. *)

LEMMA CountedFinite ==
    ASSUME NEW d
    PROVE  IsFiniteSet(Counted(d)) /\ Counted(d) \subseteq Runs
<1>1. Counted(d) \subseteq Runs BY DEF Counted
<1> QED BY <1>1, Constants, FS_Subset

RowType == [state : {"none", "reserved", "settled", "released"}, amount : Nat, day : Nat]

LEMMA RowTypes ==
    ASSUME rows \in [Runs -> RowType], asked \in [Runs -> Nat], NEW r \in Runs
    PROVE  /\ rows[r].amount \in Nat /\ asked[r] \in Nat /\ Amount[r] \in Nat /\ Beyond[r] \in Nat
           /\ rows[r].day \in Nat
           /\ Share[r] \in Nat /\ Share[r] <= Amount[r] /\ Amount[r] = Share[r] + Beyond[r]
           /\ Share[r] = Least(rows[r].amount, asked[r])
<1> DEFINE a == rows[r].amount
           b == asked[r]
<1>1. rows[r] \in RowType BY Zenon
<1>2. a \in Nat /\ b \in Nat /\ rows[r].day \in Nat BY <1>1 DEF RowType
<1>3. Amount[r] = a /\ Beyond[r] = (IF a > b THEN a - b ELSE 0) /\ Share[r] = Least(a, b)
  BY DEF Amount, Beyond, Share
<1> HIDE DEF a, b
<1>4. Amount[r] \in Nat /\ Beyond[r] \in Nat BY <1>2, <1>3
<1>5. Least(a, b) \in Nat /\ Least(a, b) <= a /\ a = Least(a, b) + (IF a > b THEN a - b ELSE 0)
  BY <1>2 DEF Least
<1> QED BY <1>2, <1>3, <1>4, <1>5 DEF a, b

LEMMA LedgerTypes ==
    ASSUME LimitInv
    PROVE  rows \in [Runs -> RowType] /\ asked \in [Runs -> Nat]
BY DEF LimitInv, LimitTypeOK, RowType

\* Rows stay, or are settled or released; what counts of a day does not grow.
RowsClose ==
    \A q \in Runs :
        \/ rows'[q] = rows[q]
        \/ /\ rows[q].state = "reserved" /\ rows'[q].state \in {"settled", "released"}
           /\ rows'[q].day = rows[q].day

LEMMA ClosingKeeps ==
    ASSUME LimitInv, rows' \in [Runs -> RowType], asked' = asked, RowsClose,
           asking' = NoRun \/ (asking' = asking /\ rows' = rows), leases' \subseteq leases
    PROVE  LedgerOK'
<1>1. rows \in [Runs -> RowType] /\ asked \in [Runs -> Nat] BY LedgerTypes
<1>2. asked' \in [Runs -> Nat] BY <1>1
<1>3. RowsSound /\ DayKept /\ leases \subseteq Runs BY DEF LimitInv, LimitTypeOK
<1>4. ASSUME NEW q \in Runs
      PROVE  /\ rows'[q].amount \in Nat /\ rows[q].amount \in Nat /\ asked[q] \in Nat
             /\ Share[q] \in Nat /\ Share'[q] \in Nat
             /\ Share[q] = Least(rows[q].amount, asked[q])
             /\ Share'[q] = Least(rows'[q].amount, asked[q])
             /\ Share'[q] <= Share[q]
  <2>1. /\ rows[q].amount \in Nat /\ asked[q] \in Nat /\ Share[q] \in Nat
        /\ Share[q] = Least(rows[q].amount, asked[q])
    BY <1>1, RowTypes
  <2>2. rows'[q] \in RowType BY Zenon
  <2>3. rows'[q].amount \in Nat BY <2>2 DEF RowType
  <2>4. Share'[q] = Least(rows'[q].amount, asked[q]) BY DEF Share
  <2>5. Least(rows'[q].amount, asked[q]) \in Nat BY <2>1, <2>3 DEF Least
  <2>6. CASE rows'[q] = rows[q] BY <2>1, <2>3, <2>4, <2>5, <2>6
  <2>7. CASE rows[q].state = "reserved"
    <3>1. rows[q].amount = asked[q] BY <1>3, <2>7 DEF RowsSound
    <3>2. Share[q] = asked[q] BY <2>1, <3>1 DEF Least
    <3>3. Least(rows'[q].amount, asked[q]) <= asked[q] BY <2>1, <2>3 DEF Least
    <3> QED BY <2>1, <2>3, <2>4, <2>5, <3>2, <3>3
  <2> QED BY <2>6, <2>7 DEF RowsClose
<1>5. ASSUME NEW d \in Nat PROVE DayShare(d)' <= DailyLimit
  <2> DEFINE f == Share
             g == Share'
             S == Counted(d)
             T == Counted(d)'
  <2>1. T \in SUBSET S BY DEF RowsClose, Counted
  <2>2. IsFiniteSet(S) /\ S \subseteq Runs BY CountedFinite
  <2>3. \A x \in S : f[x] \in Nat BY <1>4, <2>2
  <2>4. \A x \in T : g[x] \in Nat /\ g[x] <= f[x] BY <1>4, <2>1, <2>2
  <2>5. DayShare(d)' = SumFunctionOnSet(g, T) /\ DayShare(d) = SumFunctionOnSet(f, S)
    BY DEF DayShare
  <2> HIDE DEF f, g, S, T
  <2>6. SumFunctionOnSet(g, T) <= SumFunctionOnSet(f, S) BY <2>1, <2>2, <2>3, <2>4, SumBelow
  <2>7. SumFunctionOnSet(f, S) \in Nat /\ SumFunctionOnSet(g, T) \in Nat
    <3>1. IsFiniteSet(T) /\ \A x \in T : g[x] \in Nat BY <2>1, <2>2, <2>4, FS_Subset
    <3> QED BY <2>2, <2>3, <3>1, SumType
  <2>8. SumFunctionOnSet(f, S) <= DailyLimit BY <1>3, <2>5 DEF DayKept
  <2>9. SumFunctionOnSet(g, T) <= DailyLimit BY <2>6, <2>7, <2>8, Constants
  <2> QED BY <2>5, <2>9
<1>6. RowsSound'
  <2>1. asking' # NoRun => rows'[asking'] = NoRow BY <1>3 DEF RowsSound
  <2>2. ASSUME NEW q \in leases' PROVE rows'[q] # NoRow
    <3>1. q \in Runs /\ rows[q] # NoRow BY <1>3 DEF RowsSound
    <3>2. NoRow.state = "none" BY DEF NoRow
    <3> QED BY <3>1, <3>2 DEF RowsClose
  <2>3. ASSUME NEW q \in Runs, rows'[q].state = "reserved" PROVE rows'[q].amount = asked'[q]
    <3>1. rows'[q] = rows[q] BY <2>3 DEF RowsClose
    <3> QED BY <1>3, <2>3, <3>1 DEF RowsSound
  <2> QED BY <2>1, <2>2, <2>3 DEF RowsSound
<1> QED BY <1>2, <1>5, <1>6 DEF LedgerOK, DayKept, RowType

LEMMA RowIs ==
    ASSUME NEW st \in {"none", "reserved", "settled", "released"}, NEW a \in Nat, NEW d \in Nat
    PROVE  /\ Row(st, a, d) \in RowType /\ Row(st, a, d).state = st /\ Row(st, a, d).amount = a
           /\ Row(st, a, d).day = d
BY DEF Row, RowType

LEMMA ReleasedRow ==
    ASSUME NEW x \in RowType
    PROVE  LET y == [x EXCEPT !.state = "released"]
           IN  y \in RowType /\ y.state = "released" /\ y.day = x.day
<1>1. x = [state |-> x.state, amount |-> x.amount, day |-> x.day] BY DEF RowType
<1>2. x.amount \in Nat /\ x.day \in Nat BY DEF RowType
<1>3. [x EXCEPT !.state = "released"] = [state |-> "released", amount |-> x.amount, day |-> x.day]
  BY <1>1
<1> QED BY <1>2, <1>3 DEF RowType

LEMMA BillCloses ==
    ASSUME LimitInv, NEW r \in Runs, NEW bill \in Bills, BillRow(r, bill)
    PROVE  rows' \in [Runs -> RowType] /\ RowsClose
<1>1. rows \in [Runs -> RowType] /\ bill \in Nat /\ rows[r].day \in Nat
  BY LedgerTypes, RowTypes, Constants
<1>2. CASE rows[r].state = "reserved"
  <2> DEFINE x == Row("settled", bill, rows[r].day)
  <2>1. rows' = [rows EXCEPT ![r] = x] BY <1>2 DEF BillRow
  <2>2. x \in RowType /\ x.state = "settled" /\ x.day = rows[r].day BY <1>1, RowIs
  <2> HIDE DEF x
  <2> QED BY <1>1, <1>2, <2>1, <2>2 DEF RowsClose
<1>3. CASE rows[r].state # "reserved"
  BY <1>1, <1>3 DEF BillRow, RowsClose
<1> QED BY <1>2, <1>3

LEMMA ReleaseCloses ==
    ASSUME LimitInv, NEW r \in Runs, ReleaseRow(r)
    PROVE  rows' \in [Runs -> RowType] /\ RowsClose
<1>1. rows \in [Runs -> RowType] BY LedgerTypes
<1>2. CASE rows[r].state = "reserved"
  <2> DEFINE x == [rows[r] EXCEPT !.state = "released"]
  <2>1. rows' = [rows EXCEPT ![r] = x] BY <1>2 DEF ReleaseRow
  <2>2. rows[r] \in RowType BY <1>1
  <2>3. x \in RowType /\ x.state = "released" /\ x.day = rows[r].day BY <2>2, ReleasedRow
  <2> HIDE DEF x
  <2> QED BY <1>1, <1>2, <2>1, <2>3 DEF RowsClose
<1>3. CASE rows[r].state # "reserved"
  BY <1>1, <1>3 DEF ReleaseRow, RowsClose
<1> QED BY <1>2, <1>3

LEMMA RestartCloses ==
    ASSUME LimitInv, RestartLimits
    PROVE  rows' \in [Runs -> RowType] /\ RowsClose
<1>1. rows \in [Runs -> RowType] BY LedgerTypes
<1>2. PICK billed \in SUBSET Reserved :
        \E released \in SUBSET (Reserved \ billed), bill \in [billed -> Bills] :
           rows' = [r \in Runs |->
              CASE r \in billed   -> Row("settled", bill[r], rows[r].day)
                [] r \in released -> [rows[r] EXCEPT !.state = "released"]
                [] OTHER          -> rows[r]]
  BY DEF RestartLimits
<1>3. PICK released \in SUBSET (Reserved \ billed), bill \in [billed -> Bills] :
           rows' = [r \in Runs |->
              CASE r \in billed   -> Row("settled", bill[r], rows[r].day)
                [] r \in released -> [rows[r] EXCEPT !.state = "released"]
                [] OTHER          -> rows[r]]
  BY <1>2
<1>4. ASSUME NEW q \in Runs
      PROVE  /\ rows'[q] \in RowType
             /\ \/ rows'[q] = rows[q]
                \/ /\ rows[q].state = "reserved" /\ rows'[q].state \in {"settled", "released"}
                   /\ rows'[q].day = rows[q].day
  <2>1. rows[q] \in RowType /\ rows[q].day \in Nat BY <1>1, RowTypes, LedgerTypes
  <2>2. CASE q \in billed
    <3> DEFINE x == Row("settled", bill[q], rows[q].day)
    <3>1. rows'[q] = x BY <1>3, <2>2
    <3>2. bill[q] \in Nat BY <2>2, Constants
    <3>3. x \in RowType /\ x.state = "settled" /\ x.day = rows[q].day BY <2>1, <3>2, RowIs
    <3>4. rows[q].state = "reserved" BY <2>2 DEF Reserved
    <3> HIDE DEF x
    <3> QED BY <3>1, <3>3, <3>4
  <2>3. CASE q \in released
    <3> DEFINE x == [rows[q] EXCEPT !.state = "released"]
    <3>0. q \notin billed BY <2>3
    <3>1. rows'[q] = x BY <1>3, <2>3, <3>0
    <3>2. x \in RowType /\ x.state = "released" /\ x.day = rows[q].day BY <2>1, ReleasedRow
    <3>3. rows[q].state = "reserved" BY <2>3 DEF Reserved
    <3> HIDE DEF x
    <3> QED BY <3>1, <3>2, <3>3
  <2>4. CASE q \notin billed /\ q \notin released
    <3>1. rows'[q] = rows[q] BY <1>3, <2>4
    <3> QED BY <2>1, <3>1
  <2> QED BY <2>2, <2>3, <2>4
<1>5. rows' = [q \in Runs |-> rows'[q]] BY <1>3
<1>6. rows' \in [Runs -> RowType] BY <1>4, <1>5
<1> QED BY <1>4, <1>6 DEF RowsClose

LEMMA TakeLedger ==
    ASSUME LimitInv, NEW r \in Runs, Take(r)
    PROVE  LedgerOK'
<1>1. rows \in [Runs -> RowType] /\ asked \in [Runs -> Nat] BY LedgerTypes
<1>2. RowsSound /\ DayKept /\ leases \subseteq Runs BY DEF LimitInv, LimitTypeOK
<1>3. /\ asking = NoRun /\ rows[r] = NoRow /\ asking' = r
      /\ UNCHANGED <<rows, leases>>
  BY DEF Take, Asks
<1>4. PICK c \in Costs : asked' = [asked EXCEPT ![r] = c] BY DEF Take
<1>5. c \in Nat BY Constants
<1>6. asked' \in [Runs -> Nat] /\ \A q \in Runs : q # r => asked'[q] = asked[q]
  BY <1>1, <1>4, <1>5
<1>7. rows[r].state = "none" BY <1>3 DEF NoRow
<1>8. RowsSound' BY <1>2, <1>3, <1>6, <1>7 DEF RowsSound
<1>9. ASSUME NEW d \in Nat PROVE DayShare(d)' = DayShare(d)
  <2> DEFINE f == Share
             g == Share'
             S == Counted(d)
  <2>1. Counted(d)' = S BY <1>3 DEF Counted
  <2>2. IsFiniteSet(S) /\ S \subseteq Runs /\ r \notin S BY <1>7, CountedFinite DEF Counted
  <2>3. \A x \in S : g[x] = f[x] BY <1>3, <1>6, <2>2 DEF Share
  <2>4. DayShare(d)' = SumFunctionOnSet(g, S) /\ DayShare(d) = SumFunctionOnSet(f, S)
    BY <2>1 DEF DayShare
  <2> HIDE DEF f, g, S
  <2>5. SumFunctionOnSet(g, S) = SumFunctionOnSet(f, S) BY <2>2, <2>3, SumSame
  <2> QED BY <2>4, <2>5
<1>10. DayKept' BY <1>2, <1>9 DEF DayKept
<1> QED BY <1>1, <1>3, <1>6, <1>8, <1>10 DEF LedgerOK, RowType

\* A day's share is no more than its total, and the total no more than the
\* share and what bills exceeded it by.
LEMMA DayParts ==
    ASSUME LimitInv, NEW d
    PROVE  /\ DayShare(d) \in Nat /\ DayTotal(d) \in Nat /\ Overrun(d) \in Nat
           /\ DayTotal(d) = DayShare(d) + Overrun(d)
<1> DEFINE f == Share
           g == Beyond
           h == Amount
           S == Counted(d)
<1>1. IsFiniteSet(S) /\ S \subseteq Runs BY CountedFinite
<1>2. \A x \in S : f[x] \in Nat /\ g[x] \in Nat /\ h[x] \in Nat /\ h[x] = f[x] + g[x]
  BY <1>1, LedgerTypes, RowTypes
<1>3. /\ DayShare(d) = SumFunctionOnSet(f, S) /\ Overrun(d) = SumFunctionOnSet(g, S)
      /\ DayTotal(d) = SumFunctionOnSet(h, S)
  BY DEF DayShare, Overrun, DayTotal
<1> HIDE DEF f, g, h, S
<1>4. SumFunctionOnSet(h, S) = SumFunctionOnSet(f, S) + SumFunctionOnSet(g, S)
  BY <1>1, <1>2, SumPlus
<1>5. /\ SumFunctionOnSet(f, S) \in Nat /\ SumFunctionOnSet(g, S) \in Nat
      /\ SumFunctionOnSet(h, S) \in Nat
  BY <1>1, <1>2, SumType
<1> QED BY <1>3, <1>4, <1>5

\* The store reserves what the waiting run asked for.
LEMMA ReserveLedger ==
    ASSUME LimitInv, NEW r \in Runs, asking = r, DayTotal(day) + asked[r] <= DailyLimit,
           rows' = [rows EXCEPT ![r] = Row("reserved", asked[r], day)],
           asking' = NoRun, asked' = asked, leases' \subseteq leases \cup {r}
    PROVE  LedgerOK'
<1> DEFINE x == Row("reserved", asked[r], day)
<1>1. rows \in [Runs -> RowType] /\ asked \in [Runs -> Nat] BY LedgerTypes
<1>2. /\ RowsSound /\ DayKept /\ leases \subseteq Runs /\ day \in Nat /\ asked[r] \in Nat
      /\ r # NoRun
  BY <1>1, Constants DEF LimitInv, LimitTypeOK
<1>3. /\ x \in RowType /\ x.state = "reserved" /\ x.amount = asked[r] /\ x.day = day
  BY <1>2, RowIs
<1> HIDE DEF x
<1>4. rows' = [rows EXCEPT ![r] = x] BY DEF x
<1>5. rows' \in [Runs -> RowType] /\ rows'[r] = x /\ \A q \in Runs : q # r => rows'[q] = rows[q]
  BY <1>1, <1>3, <1>4
<1>6. rows[r] = NoRow /\ rows[r].state = "none" BY <1>2 DEF RowsSound, NoRow
<1>7. RowsSound'
  <2>1. x # NoRow BY <1>3 DEF NoRow
  <2>2. \A q \in leases' : rows'[q] # NoRow BY <1>2, <1>5, <2>1 DEF RowsSound
  <2>3. \A q \in Runs : rows'[q].state = "reserved" => rows'[q].amount = asked'[q]
    BY <1>2, <1>3, <1>5 DEF RowsSound
  <2> QED BY <2>2, <2>3 DEF RowsSound
<1>8. ASSUME NEW d \in Nat PROVE DayShare(d)' <= DailyLimit
  <2> DEFINE f == Share
             g == Share'
             S == Counted(d)
  <2>1. IsFiniteSet(S) /\ S \subseteq Runs /\ r \notin S BY <1>6, CountedFinite DEF Counted
  <2>2. \A q \in S : f[q] \in Nat /\ g[q] = f[q]
    <3> TAKE q \in S
    <3>1. q \in Runs /\ q # r BY <2>1
    <3>2. rows'[q] = rows[q] BY <1>5, <3>1
    <3>3. f[q] \in Nat BY <1>1, <3>1, RowTypes
    <3> QED BY <3>1, <3>2, <3>3 DEF Share
  <2>3. g[r] = asked[r] BY <1>2, <1>3, <1>5 DEF Share, Least
  <2>4. Counted(d)' = IF d = day THEN S \cup {r} ELSE S
    BY <1>3, <1>5, <1>6 DEF Counted
  <2>5. DayShare(d)' = SumFunctionOnSet(g, Counted(d)') /\ DayShare(d) = SumFunctionOnSet(f, S)
    BY DEF DayShare
  <2>6. DayShare(d) <= DailyLimit BY <1>2 DEF DayKept
  <2> HIDE DEF f, g, S
  <2>7. CASE d = day
    <3>1. Counted(d)' = S \cup {r} BY <2>4, <2>7
    <3>2. SumFunctionOnSet(g, S \cup {r}) = g[r] + SumFunctionOnSet(f, S)
      BY <1>2, <2>1, <2>2, <2>3, SumAdd
    <3>3. DayShare(d)' = asked[r] + DayShare(d) BY <2>3, <2>5, <3>1, <3>2
    <3>4. /\ DayShare(d) \in Nat /\ DayTotal(d) \in Nat /\ Overrun(d) \in Nat
          /\ DayTotal(d) = DayShare(d) + Overrun(d)
      BY DayParts
    <3>5. DayTotal(d) + asked[r] <= DailyLimit BY <2>7
    <3>6. asked[r] + DayShare(d) <= DailyLimit BY <1>2, <3>4, <3>5, Constants
    <3> QED BY <3>3, <3>6
  <2>8. CASE d # day
    <3>1. SumFunctionOnSet(g, S) = SumFunctionOnSet(f, S) BY <2>1, <2>2, SumSame
    <3> QED BY <2>4, <2>5, <2>6, <2>8, <3>1
  <2> QED BY <2>7, <2>8
<1> QED BY <1>1, <1>5, <1>7, <1>8 DEF LedgerOK, DayKept, RowType

LEMMA InitLedger ==
    ASSUME LimitInit
    PROVE  LedgerOK
<1>1. /\ rows = [r \in Runs |-> NoRow] /\ asked = [r \in Runs |-> 0] /\ asking = NoRun /\ leases = {}
  BY DEF LimitInit
<1>2. NoRow \in RowType /\ NoRow.state = "none" BY DEF NoRow, RowType
<1>3. rows \in [Runs -> RowType] /\ asked \in [Runs -> Nat] BY <1>1, <1>2
<1>4. RowsSound BY <1>1, <1>2 DEF RowsSound
<1>5. ASSUME NEW d \in Nat PROVE DayShare(d) <= DailyLimit
  <2>1. Counted(d) = {} BY <1>1, <1>2 DEF Counted
  <2>2. DayShare(d) = 0 BY <2>1, SumEmpty DEF DayShare
  <2> QED BY <2>2, Constants
<1> QED BY <1>3, <1>4, <1>5 DEF LedgerOK, DayKept, RowType

-----------------------------------------------------------------------------
(* The steps. *)

LEMMA ScalarsFrom ==
    ASSUME LimitInv, clock' = clock, since' \in {since, clock}, asking' \in Runs \cup {NoRun},
           day' \in Nat, faults' = faults \/ Fault
    PROVE  ScalarsOK'
<1>1. clock \in 0..MaxTime /\ since \in 0..MaxTime /\ faults \in 0..MaxFaults
  BY DEF LimitInv, LimitTypeOK
<1>2. faults' \in 0..MaxFaults BY <1>1, Constants DEF Fault
<1> QED BY <1>1, <1>2 DEF ScalarsOK

LEMMA TodayType == LimitInv => Today \in Nat
<1>1. LimitInv => clock \in Nat BY Constants DEF LimitInv, LimitTypeOK
<1> QED BY <1>1, Constants DEF Today

LEMMA TickKeeps ==
    ASSUME LimitInv, Tick
    PROVE  LimitInv'
<1>1. UNCHANGED <<active, leases, asking, rows, asked, day, since, faults>>
  BY DEF Tick, local, history
<1>2. BucketsOK' BY TickBuckets
<1>3. GateOK' BY <1>1, GateAlone
<1>4. LedgerOK'
  <2>1. rows' \in [Runs -> RowType] /\ RowsClose BY <1>1, LedgerTypes DEF RowsClose
  <2> QED BY <1>1, <2>1, ClosingKeeps
<1>5. ScalarsOK'
  <2>1. clock \in 0..MaxTime /\ clock < MaxTime /\ clock' = clock + 1
    BY DEF LimitInv, LimitTypeOK, Tick
  <2>2. clock' \in 0..MaxTime BY <2>1, Constants
  <2> QED BY <1>1, <2>2 DEF LimitInv, LimitTypeOK, ScalarsOK
<1>6. BucketsOK' /\ GateOK' /\ LedgerOK' /\ ScalarsOK' BY <1>2, <1>3, <1>4, <1>5
<1> QED BY <1>6 DEF LimitInv, LimitTypeOK, BucketsOK, GateOK, LedgerOK, ScalarsOK

\* The parts of the invariant after a step.
LEMMA PartsStep ==
    ASSUME BucketsOK', GateOK', LedgerOK', ScalarsOK'
    PROVE  LimitInv'
BY DEF LimitInv, LimitTypeOK, BucketsOK, GateOK, LedgerOK, ScalarsOK

\* A step that changes no row.
LEMMA SameRows ==
    ASSUME LimitInv, rows' = rows, asked' = asked, asking' \in {asking, NoRun},
           leases' \subseteq leases
    PROVE  LedgerOK'
<1>1. rows' \in [Runs -> RowType] /\ RowsClose BY LedgerTypes DEF RowsClose
<1> QED BY <1>1, ClosingKeeps

LEMMA RefuseKeeps ==
    ASSUME LimitInv, NEW r \in Runs, Refuse(r)
    PROVE  LimitInv'
<1>1. UNCHANGED <<clock, active, leases, asking, rows, asked, day, since, faults>>
  BY DEF Refuse, history
<1>2. BucketsOK' BY RefuseBuckets
<1>3. GateOK' BY <1>1, GateAlone
<1>4. LedgerOK' BY <1>1, SameRows
<1>5. ScalarsOK' BY <1>1, ScalarsFrom DEF LimitInv, LimitTypeOK
<1> QED BY <1>2, <1>3, <1>4, <1>5, PartsStep

LEMMA TakeKeeps ==
    ASSUME LimitInv, NEW r \in Runs, Take(r)
    PROVE  LimitInv'
<1>1. UNCHANGED <<clock, since, faults>> /\ asking' = r /\ day' = Today BY DEF Take
<1>2. day' \in Nat BY <1>1, TodayType
<1>3. ScalarsOK' BY <1>1, <1>2, ScalarsFrom
<1> QED BY <1>3, TakeBuckets, TakeGate, TakeLedger, PartsStep

LEMMA GrantKeeps ==
    ASSUME LimitInv, NEW r \in Runs, Grant(r)
    PROVE  LimitInv'
<1>1. /\ UNCHANGED <<clock, since, faults, asked>> /\ asking = r /\ asking' = NoRun /\ day' = 0
      /\ leases' = leases \cup {r} /\ DayTotal(day) + asked[r] <= DailyLimit
      /\ rows' = [rows EXCEPT ![r] = Row("reserved", asked[r], day)]
  BY DEF Grant
<1>2. ScalarsOK' BY <1>1, ScalarsFrom
<1>3. LedgerOK' BY <1>1, ReserveLedger
<1> QED BY <1>2, <1>3, GrantBuckets, GrantGate, PartsStep

LEMMA GiveBackKeeps ==
    ASSUME LimitInv, NEW r \in Runs, OverLimit(r) \/ ReserveLost(r)
    PROVE  LimitInv'
<1>1. asking = r /\ GiveBack(r) /\ (faults' = faults \/ Fault) BY DEF OverLimit, ReserveLost
<1>2. UNCHANGED <<clock, since, asked, leases>> /\ asking' = NoRun /\ day' = 0
  BY <1>1 DEF GiveBack, history
<1>3. ScalarsOK' BY <1>1, <1>2, ScalarsFrom
<1>4. LedgerOK'
  <2>1. CASE rows' = rows BY <1>2, <2>1, SameRows
  <2>2. CASE /\ DayTotal(day) + asked[r] <= DailyLimit
             /\ rows' = [rows EXCEPT ![r] = Row("reserved", asked[r], day)]
    <3>1. leases' \subseteq leases \cup {r} BY <1>2
    <3> QED BY <1>1, <1>2, <2>2, <3>1, ReserveLedger
  <2> QED BY <2>1, <2>2 DEF OverLimit, ReserveLost
<1> QED BY <1>1, <1>3, <1>4, GiveBackBuckets, GiveBackGate, PartsStep

\* settle, release and defer_settlement, with or without what they return.
LEMMA ClosedKeeps ==
    ASSUME LimitInv, NEW r \in Runs,
           Settle(r) \/ SettleLost(r) \/ ReleaseAdmission(r) \/ DeferSettlement(r)
    PROVE  LimitInv'
<1>1. asking = NoRun /\ UNCHANGED <<clock, bucket, asking, day, history>> /\ (faults' = faults \/ Fault)
  BY DEF Settle, SettleLost, ReleaseAdmission, DeferSettlement, local
<1>2. UNCHANGED <<asked, granted, since, untouched>> /\ asking' = NoRun BY <1>1 DEF history
<1>3. BucketsOK' BY <1>1, <1>2, BucketsAlone
<1>4. day \in Nat BY DEF LimitInv, LimitTypeOK
<1>5. ScalarsOK' BY <1>1, <1>2, <1>4, ScalarsFrom
<1>6. (UNCHANGED <<active, leases>>) \/ ReleaseLocal(r)
  BY DEF Settle, SettleLost, ReleaseAdmission, DeferSettlement, local
<1>7. GateOK'
  <2>1. CASE UNCHANGED <<active, leases>> BY <1>1, <2>1, GateAlone
  <2>2. CASE ReleaseLocal(r) BY <1>1, <1>2, <2>2, ReleaseGate
  <2> QED BY <1>6, <2>1, <2>2
<1>8. leases' \subseteq leases BY <1>6 DEF ReleaseLocal
<1>9. rows' \in [Runs -> RowType] /\ RowsClose
  <2>1. CASE Settle(r) \/ SettleLost(r) BY <2>1, BillCloses DEF Settle, SettleLost
  <2>2. CASE ReleaseAdmission(r) BY <2>2, ReleaseCloses DEF ReleaseAdmission
  <2>3. CASE DeferSettlement(r) BY <2>3, LedgerTypes DEF DeferSettlement, RowsClose
  <2> QED BY <2>1, <2>2, <2>3
<1>10. LedgerOK' BY <1>2, <1>8, <1>9, ClosingKeeps
<1> QED BY <1>3, <1>5, <1>7, <1>10, PartsStep

LEMMA RestartKeeps ==
    ASSUME LimitInv, RestartLimits
    PROVE  LimitInv'
<1>1. /\ UNCHANGED <<clock, asked>> /\ since' = clock /\ asking' = NoRun /\ day' = 0 /\ leases' = {}
      /\ Fault
  BY DEF RestartLimits
<1>2. ScalarsOK' BY <1>1, ScalarsFrom
<1>3. rows' \in [Runs -> RowType] /\ RowsClose BY RestartCloses
<1>4. leases' \subseteq leases BY <1>1
<1>5. LedgerOK' BY <1>1, <1>3, <1>4, ClosingKeeps
<1> QED BY <1>2, <1>5, RestartBuckets, RestartGate, PartsStep

LEMMA LimitInvInit == LimitInit => LimitInv
<1> SUFFICES ASSUME LimitInit PROVE LimitInv
  OBVIOUS
<1>1. BucketsOK BY InitBuckets
<1>2. LedgerOK BY InitLedger
<1>3. GateOK
  <2>1. active = 0 /\ leases = {} /\ asking = NoRun BY DEF LimitInit
  <2>2. 0 \in 0..Slots /\ Cardinality({}) = 0 BY Constants, FS_EmptySet
  <2> QED BY <2>1, <2>2 DEF GateOK, GateExact
<1>4. ScalarsOK
  <2>1. 0 \in 0..MaxTime /\ 0 \in 0..MaxFaults /\ 0 \in Nat BY Constants
  <2> QED BY <2>1 DEF LimitInit, ScalarsOK
<1> QED BY <1>1, <1>2, <1>3, <1>4, InvParts

LEMMA LimitInvStep == LimitInv /\ [LimitNext]_lvars => LimitInv'
<1> SUFFICES ASSUME LimitInv, [LimitNext]_lvars PROVE LimitInv'
  OBVIOUS
<1>1. CASE Tick BY <1>1, TickKeeps
<1>2. CASE RestartLimits BY <1>2, RestartKeeps
<1>3. ASSUME NEW r \in Runs, Refuse(r) PROVE LimitInv' BY <1>3, RefuseKeeps
<1>4. ASSUME NEW r \in Runs, Take(r) PROVE LimitInv' BY <1>4, TakeKeeps
<1>5. ASSUME NEW r \in Runs, Grant(r) PROVE LimitInv' BY <1>5, GrantKeeps
<1>6. ASSUME NEW r \in Runs, OverLimit(r) \/ ReserveLost(r) PROVE LimitInv' BY <1>6, GiveBackKeeps
<1>7. ASSUME NEW r \in Runs,
             Settle(r) \/ SettleLost(r) \/ ReleaseAdmission(r) \/ DeferSettlement(r)
      PROVE  LimitInv'
  BY <1>7, ClosedKeeps
<1>8. CASE UNCHANGED lvars
  <2>1. UNCHANGED <<clock, bucket, active, leases, asking, day, rows, asked, granted, since, untouched, faults>>
    BY <1>8 DEF lvars, local, history
  <2>2. asking \in Runs \cup {NoRun} /\ day \in Nat BY DEF LimitInv, LimitTypeOK
  <2>3. BucketsOK' BY <2>1, BucketsAlone
  <2>4. GateOK' BY <2>1, GateAlone
  <2>5. LedgerOK' BY <2>1, SameRows
  <2>6. ScalarsOK' BY <2>1, <2>2, ScalarsFrom
  <2> QED BY <2>3, <2>4, <2>5, <2>6, PartsStep
<1> QED BY <1>1, <1>2, <1>3, <1>4, <1>5, <1>6, <1>7, <1>8 DEF LimitNext

-----------------------------------------------------------------------------
(* The theorems. *)

THEOREM LimitsKeepInv == LimitSpec => []LimitInv
BY LimitInvInit, LimitInvStep, PTL DEF LimitSpec

\* The variables of LimitManager and of the ledger stay in their sets, no
\* bucket above its capacity and no more runs than the gate has slots.
THEOREM LimitsTyped == LimitSpec => []LimitTypeOK
<1>1. LimitInv => LimitTypeOK BY DEF LimitInv
<1> QED BY <1>1, LimitsKeepInv, PTL

\* admit, _release_local and TokenBucketMap: the gate counts the leases and the
\* request that waits for the store, and while the process lives a bucket pays
\* for no more admissions than its capacity and the time passed allow.
THEOREM LimitsAreKept == LimitSpec => []LimitsKept
<1>1. LimitInv => LimitsKept
  <2> SUFFICES ASSUME LimitInv PROVE LimitsKept
    OBVIOUS
  <2>1. ASSUME NEW k \in Keys PROVE granted[k] * Refill[k] <= Full(k) + (clock - since)
    <3> DEFINE p == granted[k] * Refill[k]
               c == IF k \in Waiting THEN Refill[k] ELSE 0
               x == Level(bucket, k, clock)
               f == Full(k)
               d == clock - since
    <3>1. p \in Nat /\ c \in Nat /\ d \in Int BY SpentType DEF LimitInv
    <3>2. f \in Nat /\ x \in Nat BY FullType, LevelTypes DEF LimitInv
    <3>3. (p + c) + x <= f + d BY DEF LimitInv, RateKept, Spent
    <3> HIDE DEF p, c, x, f, d
    <3>4. p <= f + d BY <3>1, <3>2, <3>3
    <3> QED BY <3>4 DEF p, f, d
  <2> QED BY <2>1 DEF LimitInv, LimitsKept, RateBound
<1> QED BY <1>1, LimitsKeepInv, PTL

\* reserve_daily_cost, settle_daily_cost: over lost answers, deferred and
\* orphaned reservations and restarts, a day's rows exceed the limit only by
\* what bills exceeded their reservations by.
THEOREM DailyLimitIsKept == LimitSpec => []DailyLimitHolds
<1>1. LimitInv => DailyLimitHolds
  <2> SUFFICES ASSUME LimitInv, NEW d \in 0..(MaxTime \div DayLength)
               PROVE  DayTotal(d) <= DailyLimit + Overrun(d)
    BY DEF DailyLimitHolds
  <2>1. d \in Nat OBVIOUS
  <2>2. DayShare(d) <= DailyLimit BY <2>1 DEF LimitInv, DayKept
  <2> QED BY <2>2, DayParts, Constants
<1> QED BY <1>1, LimitsKeepInv, PTL

\* admit (limits.py:163-169): an answer that refuses the waiting run gives back
\* what was taken, and no bucket is worse off than if the run had not asked.
THEOREM RefusalsAreFree == LimitSpec => RefusalIsFree
<1>1. LimitInv /\ [LimitNext]_lvars =>
        [asking # NoRun /\ asking' = NoRun /\ asking \notin leases' /\ since' = since /\ faults' = faults
           => \A k \in Keys : Level(bucket', k, clock) = Level(untouched, k, clock)]_lvars
  <2> SUFFICES ASSUME LimitInv, LimitNext, asking # NoRun, asking' = NoRun, asking \notin leases',
                      faults' = faults
               PROVE  \A k \in Keys : Level(bucket', k, clock) = Level(untouched, k, clock)
    OBVIOUS
  <2>1. faults \in Nat BY Constants DEF LimitInv, LimitTypeOK
  <2>2. ~Fault BY <2>1 DEF Fault
  <2>3. ASSUME NEW r \in Runs, Refuse(r) \/ Take(r) \/ Settle(r) \/ SettleLost(r)
                                   \/ ReleaseAdmission(r) \/ DeferSettlement(r)
        PROVE  FALSE
    BY <2>3 DEF Refuse, Take, Asks, Settle, SettleLost, ReleaseAdmission, DeferSettlement
  <2>4. ~Tick BY DEF Tick, local
  <2>5. ~RestartLimits BY <2>2 DEF RestartLimits
  <2>6. ASSUME NEW r \in Runs, Grant(r) PROVE FALSE BY <2>6 DEF Grant
  <2>7. ASSUME NEW r \in Runs, ReserveLost(r) PROVE FALSE BY <2>2, <2>7 DEF ReserveLost
  <2>8. PICK r \in Runs : OverLimit(r) BY <2>3, <2>4, <2>5, <2>6, <2>7 DEF LimitNext
  <2> QED BY <2>8, GivesBack DEF OverLimit
<1>2. LimitSpec => [][LimitNext]_lvars BY DEF LimitSpec
<1> QED BY <1>1, <1>2, LimitsKeepInv, PTL DEF RefusalIsFree
=============================================================================
