-------------------------- MODULE ExperimentGroup --------------------------
(***************************************************************************)
(* One experiment group on disk.  A command walks the group's keys (an arm *)
(* with a replication), launches an agent for each, validates its receipt, *)
(* lets the evaluator score it and writes one record per key.  Completed   *)
(* keys are skipped, failed ones need an explicit resume from a checkpoint.*)
(* The arms of a ranker protocol share one candidate pool, bought once.  A *)
(* group whose provider takes no seed binds each receipt to its repeat in  *)
(* a sidecar file.  The portfolio of external benchmarks walks its keys    *)
(* the same way, keeps nothing for a later command and publishes metrics.  *)
(*                                                                         *)
(* One command runs at a time; it may die at any step, inside a write too. *)
(* Definitions named Bug... are faulty variants.                           *)
(***************************************************************************)
EXTENDS Naturals, Sequences, FiniteSets, TLC

CONSTANTS
    Order,          \* the keys in the order in which a command walks them
    ArmOf,          \* key -> its arm: task, protocol, variant, budget
    Receipts,       \* identities of agent receipts
    MaxFaults,      \* launches, receipts, scores and files that fail
    MaxCrashes,     \* commands that die
    MaxCommands     \* commands given

None == "none"
Keys == {Order[i] : i \in 1..Len(Order)}
Protocols == {"ranker", "policy", "external"}
Pair == {"pool", "setup"}
Codes == {"checkpoint", "stage", "launch", "receipt", "evaluator", "manifest",
          "agent", "pool"}

ASSUME GroupAssumption ==
    /\ Order \in Seq(Keys) /\ Order # <<>> /\ Cardinality(Keys) = Len(Order)
    /\ ArmOf \in [Keys -> STRING]
    /\ Receipts \cap (Codes \cup {None, "failed"}) = {}
    /\ {MaxFaults, MaxCrashes, MaxCommands} \subseteq Nat

VARIABLES
    protocol, seeded,   \* what the group is made for
    pc, cmd, at,        \* where the command is; which one; at which key
    got,                \* the receipt in hand
    verdict,            \* what is to be recorded: a receipt or an error code
    raw,                \* key -> its record: none, failed or a receipt
    request,            \* request files
    bound,              \* sidecar files
    ckpt, staged,       \* key -> checkpoint the agent left; the one staged
    pool,               \* candidate pool and setup file
    torn,               \* temporary files that a dead command left
    audit,              \* keys whose pool was found invalid later on
    summary,            \* external: key -> outcome, in memory
    published,          \* external: what the metrics file says, and its seal
    launches, asked,    \* key -> agents launched, resumptions asked for
    poolPaid, faults, crashes, commands

setting == <<protocol, seeded>>
files == <<request, bound, ckpt, staged, pool, torn, audit>>
counts == <<launches, asked, poolPaid, faults, crashes, commands>>
vars == <<setting, pc, cmd, at, got, verdict, raw, files, summary, published, counts>>

Key == Order[at]
External == protocol = "external"
Completed(k) == raw[k] \in Receipts
NoReceipt == [id |-> None, ok |-> FALSE]
Unpublished == [of |-> <<>>, out |-> FALSE, sealed |-> FALSE]
How == IF cmd = "resume" THEN "resume" ELSE "fresh"
ThisRequest == <<"request", Key, How>>
ThisSidecar == <<"bound", Key, How>>
ThisRaw == <<"raw", Key, None>>
ThisCheckpoint == <<"ckpt", Key, None>>
PoolRequest == <<"request", None, "pool">>
PoolFile == <<"pool", None, None>>
SetupFile == <<"setup", None, None>>

Init ==
    /\ protocol \in Protocols /\ seeded \in BOOLEAN
    /\ pc = "idle" /\ cmd = None /\ at = 1 /\ got = NoReceipt /\ verdict = None
    /\ raw = [k \in Keys |-> None] /\ request = {} /\ bound = {}
    /\ ckpt = [k \in Keys |-> 0] /\ staged = ckpt /\ pool = {} /\ torn = {} /\ audit = {}
    /\ summary = [k \in Keys |-> None] /\ published = Unpublished
    /\ launches = ckpt /\ asked = ckpt
    /\ poolPaid = 0 /\ faults = 0 /\ crashes = 0 /\ commands = 0

Sound == UNCHANGED faults
Fault == faults < MaxFaults /\ faults' = faults + 1

(* _write_immutable: a file that is there with these bytes is left alone;  *)
(* otherwise it is staged under a fixed name, which a leftover of an       *)
(* earlier write takes: the write fails, and removes the leftover.         *)
Blocked(f, present) == ~present /\ f \in torn
Swept(f, present) == torn' = IF present THEN torn ELSE torn \ {f}

Ends == pc' = "idle" /\ cmd' = None /\ got' = NoReceipt /\ verdict' = None /\ at' = 1
FirstStep == IF External THEN "stage" ELSE "look"
Advance ==
    IF cmd = "matrix" /\ at < Len(Order)
    THEN /\ at' = at + 1 /\ pc' = IF pc = "nopool" THEN pc ELSE FirstStep
         /\ got' = NoReceipt /\ verdict' = None /\ UNCHANGED cmd
    ELSE IF External
    THEN pc' = "metrics" /\ UNCHANGED <<cmd, at, got, verdict>>
    ELSE Ends
Goto(l) == pc' = l /\ UNCHANGED <<cmd, at>>
Record(v) == pc' = "write" /\ verdict' = v /\ UNCHANGED <<cmd, at>>

-----------------------------------------------------------------------------
(* Commands.                                                               *)

Command == pc = "idle" /\ commands < MaxCommands /\ commands' = commands + 1

RunMatrix ==
    /\ Command /\ ~External
    /\ cmd' = "matrix" /\ at' = 1 /\ pc' = IF protocol = "ranker" THEN "pool" ELSE FirstStep
    /\ UNCHANGED <<setting, got, verdict, raw, files, summary, published,
                   launches, asked, poolPaid, faults, crashes>>

\* External files are never replaced, not even by equal ones: the staged
\* configuration of the first attempt refuses every later one.
RunPortfolio ==
    /\ Command /\ External /\ commands = 0
    /\ cmd' = "matrix" /\ at' = 1 /\ pc' = FirstStep
    /\ UNCHANGED <<setting, got, verdict, raw, files, summary, published,
                   launches, asked, poolPaid, faults, crashes>>

\* One key, with the group's pool.
RunOne(k, c) ==
    /\ Command /\ ~External /\ (protocol = "ranker" => pool = Pair)
    /\ cmd' = c /\ at' = CHOOSE i \in 1..Len(Order) : Order[i] = k
    /\ pc' = "look" /\ asked' = [asked EXCEPT ![k] = @ + IF c = "resume" THEN 1 ELSE 0]
    /\ UNCHANGED <<setting, got, verdict, raw, files, summary, published,
                   launches, poolPaid, faults, crashes>>

-----------------------------------------------------------------------------
(* The candidate pool of a ranker protocol.                                *)

PriorArm == \E k \in Keys : raw[k] # None

\* Bug: a pool without its setup is taken.
BugHalfPool ==
    /\ pc = "pool"
    /\ Goto(IF pool # {} THEN "look" ELSE IF PriorArm THEN "nopool" ELSE "buy")
    /\ UNCHANGED <<setting, got, verdict, raw, files, summary, published, counts>>

PoolLook ==
    /\ pc = "pool"
    /\ Goto(IF pool = Pair THEN "look"
            ELSE IF pool # {} \/ PriorArm THEN "nopool" ELSE "buy")
    /\ UNCHANGED <<setting, got, verdict, raw, files, summary, published, counts>>

BuyPool ==
    /\ pc = "buy" /\ Swept(PoolRequest, PoolRequest \in request)
    /\ IF Blocked(PoolRequest, PoolRequest \in request)
       THEN Goto("nopool") /\ Sound /\ UNCHANGED <<request, poolPaid>>
       ELSE /\ request' = request \cup {PoolRequest} /\ poolPaid' = poolPaid + 1
            /\ \/ Sound /\ Goto("promote")
               \/ Fault /\ Goto("nopool")
    /\ UNCHANGED <<setting, got, verdict, raw, bound, ckpt, staged, pool, audit, summary,
                   published, launches, asked, crashes, commands>>

Promote(l, part, f, then) ==
    /\ pc = l /\ Swept(f, FALSE)
    /\ IF Blocked(f, FALSE) THEN Goto("nopool") /\ UNCHANGED pool
       ELSE Goto(then) /\ pool' = pool \cup {part}
    /\ UNCHANGED <<setting, got, verdict, raw, request, bound, ckpt, staged, audit, summary,
                   published, counts>>

PromotePool == Promote("promote", "pool", PoolFile, "account")
PromoteSetup == Promote("account", "setup", SetupFile, "look")

\* Without a pool every arm fails; what is recorded stands.
ArmFile == IF Completed(Key) THEN <<"audit", Key, None>> ELSE ThisRaw
ArmIsFiled == raw[Key] = "failed" \/ Key \in audit
FailArm ==
    /\ pc = "nopool"
    /\ IF Blocked(ArmFile, ArmIsFiled) THEN Ends /\ UNCHANGED <<raw, audit>>
       ELSE /\ raw' = [raw EXCEPT ![Key] = IF @ = None THEN "failed" ELSE @]
            /\ audit' = IF Completed(Key) THEN audit \cup {Key} ELSE audit
            /\ Advance
    /\ Swept(ArmFile, ArmIsFiled)
    /\ UNCHANGED <<setting, request, bound, ckpt, staged, pool, summary, published, counts>>

\* Somebody removes files of the pool.
LosePool ==
    /\ pc = "idle" /\ pool # {} /\ Fault
    /\ pool' \in {{}, {"pool"}} /\ pool' # pool
    /\ UNCHANGED <<setting, pc, cmd, at, got, verdict, raw, request, bound, ckpt, staged, torn,
                   audit, summary, published, launches, asked, poolPaid, crashes, commands>>

-----------------------------------------------------------------------------
(* One key.                                                                *)

\* Before a completed record of an unseeded group is used again, every
\* record and every sidecar of the group is read, and they must match.
BindingsSound ==
    /\ \A f \in torn : f[1] \notin {"raw", "bound"}
    /\ \A s \in bound : raw[s.key] = s.receipt /\ <<"request", s.key, s.how>> \in request
    /\ \A k \in Keys : Completed(k) => Cardinality({s \in bound : s.key = k}) = 1
    /\ \A s, t \in bound : s.receipt = t.receipt => s = t

\* Bug: a failed key is retried without being asked to.
BugRetry ==
    /\ pc = "look"
    /\ CASE Completed(Key) -> IF seeded \/ BindingsSound THEN Advance ELSE Ends
         [] raw[Key] = "failed" /\ cmd = "resume" -> Goto("checkpoint") /\ UNCHANGED <<got, verdict>>
         [] raw[Key] = None /\ cmd = "resume" -> Record("checkpoint") /\ UNCHANGED got
         [] OTHER -> Goto("stage") /\ UNCHANGED <<got, verdict>>
    /\ UNCHANGED <<setting, raw, files, summary, published, counts>>

Look ==
    /\ pc = "look"
    /\ CASE Completed(Key) -> IF seeded \/ BindingsSound THEN Advance ELSE Ends
         [] raw[Key] = "failed" /\ cmd # "resume" -> Ends
         [] raw[Key] = "failed" /\ cmd = "resume" -> Goto("checkpoint") /\ UNCHANGED <<got, verdict>>
         [] raw[Key] = None /\ cmd = "resume" -> Record("checkpoint") /\ UNCHANGED got
         [] OTHER -> Goto("stage") /\ UNCHANGED <<got, verdict>>
    /\ UNCHANGED <<setting, raw, files, summary, published, counts>>

\* The agent's checkpoint is copied once and for all: a later one is refused.
StageCheckpoint ==
    /\ pc = "checkpoint"
    /\ IF ckpt[Key] = 0 \/ staged[Key] \notin {0, ckpt[Key]}
          \/ Blocked(ThisCheckpoint, staged[Key] # 0)
       THEN Record("checkpoint") /\ UNCHANGED staged
       ELSE Goto("stage") /\ staged' = [staged EXCEPT ![Key] = ckpt[Key]] /\ UNCHANGED verdict
    /\ Swept(ThisCheckpoint, ckpt[Key] = 0 \/ staged[Key] # 0)
    /\ UNCHANGED <<setting, got, raw, request, bound, ckpt, pool, audit, summary, published, counts>>

StageRequest ==
    /\ pc = "stage" /\ ~External /\ Swept(ThisRequest, ThisRequest \in request)
    /\ IF Blocked(ThisRequest, ThisRequest \in request)
       THEN Record("stage") /\ UNCHANGED request
       ELSE Goto("launch") /\ request' = request \cup {ThisRequest} /\ UNCHANGED verdict
    /\ UNCHANGED <<setting, got, raw, bound, ckpt, staged, pool, audit, summary, published, counts>>

\* The agent may leave a checkpoint; it returns a receipt, of a run that
\* completed or not, or nothing that validates.
Launch ==
    /\ pc = "launch" /\ launches' = [launches EXCEPT ![Key] = @ + 1]
    /\ \E c \in {ckpt[Key], launches'[Key]} : ckpt' = [ckpt EXCEPT ![Key] = c]
    /\ \/ /\ Sound /\ Goto("bind") /\ UNCHANGED verdict
          /\ \E r \in Receipts : got' = [id |-> r, ok |-> TRUE]
       \/ /\ Fault /\ Goto("bind") /\ UNCHANGED verdict
          /\ \E r \in Receipts : got' = [id |-> r, ok |-> FALSE]
       \/ Fault /\ Record("launch") /\ UNCHANGED got
       \/ Fault /\ Record("receipt") /\ UNCHANGED got
    /\ UNCHANGED <<setting, raw, request, bound, staged, pool, torn, audit, summary, published,
                   asked, poolPaid, crashes, commands>>

Sidecar == [key |-> Key, how |-> How, receipt |-> got.id]

\* Bug: a receipt may serve two repeats.
BugKeptOut == \E s \in bound : ArmOf[s.key] # ArmOf[Key] \/ (s.key = Key /\ s.how = How)

\* A sidecar of another arm, or of this receipt, keeps the receipt out.
KeptOut ==
    \/ \E s \in bound : ArmOf[s.key] # ArmOf[Key] \/ s.receipt = got.id
    \/ \E s \in bound : s.key = Key /\ s.how = How

Bind ==
    /\ pc = "bind" /\ UNCHANGED got
    /\ IF seeded THEN Goto("evaluate") /\ UNCHANGED <<bound, torn, verdict>>
       ELSE /\ Swept(ThisSidecar, KeptOut)
            /\ IF KeptOut \/ Blocked(ThisSidecar, FALSE)
               THEN Record("receipt") /\ UNCHANGED bound
               ELSE Goto("evaluate") /\ bound' = bound \cup {Sidecar} /\ UNCHANGED verdict
    /\ UNCHANGED <<setting, raw, request, ckpt, staged, pool, audit, summary, published, counts>>

Rejected ==
    /\ Fault /\ verdict' = "evaluator"
    /\ Goto(IF seeded THEN "write" ELSE "retire")

\* The score is taken, the evaluator rejects the run, or the artifacts do
\* not validate the second time.
Evaluate ==
    /\ pc = "evaluate" /\ ~External /\ UNCHANGED got
    /\ \/ Sound /\ Record(IF got.ok THEN got.id ELSE "agent")
       \/ Rejected
       \/ Fault /\ Record("manifest")
    /\ UNCHANGED <<setting, raw, files, summary, published, launches, asked, poolPaid,
                   crashes, commands>>

\* The sidecar of a rejected run goes before its record is written.
Retire ==
    /\ pc = "retire" /\ Record(verdict) /\ bound' = bound \ {Sidecar}
    /\ UNCHANGED <<setting, got, raw, request, ckpt, staged, pool, torn, audit, summary,
                   published, counts>>

Unlink ==
    /\ pc = "write" /\ raw[Key] = "failed" /\ raw' = [raw EXCEPT ![Key] = None]
    /\ UNCHANGED <<setting, pc, cmd, at, got, verdict, files, summary, published, counts>>

Write ==
    /\ pc = "write" /\ raw[Key] # "failed" /\ ~External
    /\ IF Completed(Key) \/ Blocked(ThisRaw, FALSE) THEN Ends /\ UNCHANGED raw
       ELSE /\ raw' = [raw EXCEPT ![Key] = IF verdict \in Receipts THEN verdict ELSE "failed"]
            /\ Advance
    /\ Swept(ThisRaw, Completed(Key))
    /\ UNCHANGED <<setting, request, bound, ckpt, staged, pool, audit, summary, published, counts>>

-----------------------------------------------------------------------------
(* External benchmarks: an outcome per key, the metrics, their seal.       *)

\* A request is written once, so a portfolio is walked once.
StagePortfolio ==
    /\ pc = "stage" /\ External /\ Goto("launch")
    /\ request' = request \cup {ThisRequest}
    /\ UNCHANGED <<setting, got, verdict, raw, bound, ckpt, staged, pool, torn, audit, summary,
                   published, counts>>

EvaluatePortfolio ==
    /\ pc = "evaluate" /\ External /\ UNCHANGED got
    /\ (Sound /\ Record(got.id)) \/ Rejected
    /\ UNCHANGED <<setting, raw, files, summary, published, launches, asked, poolPaid,
                   crashes, commands>>

FileRun ==
    /\ pc = "write" /\ External /\ verdict \in Receipts
    /\ raw' = [raw EXCEPT ![Key] = verdict] /\ summary' = [summary EXCEPT ![Key] = verdict]
    /\ Advance /\ UNCHANGED <<setting, files, published, counts>>

FileFailure ==
    /\ pc = "write" /\ External /\ verdict \in Codes
    /\ raw' = [raw EXCEPT ![Key] = "failed"] /\ summary' = [summary EXCEPT ![Key] = "failed"]
    /\ Advance /\ UNCHANGED <<setting, files, published, counts>>

PublishMetrics ==
    /\ pc = "metrics" /\ Goto("seal") /\ published' = [published EXCEPT !.of = summary, !.out = TRUE]
    /\ UNCHANGED <<setting, got, verdict, raw, files, summary, counts>>

SealMetrics ==
    /\ pc = "seal" /\ Ends /\ published' = [published EXCEPT !.sealed = TRUE]
    /\ UNCHANGED <<setting, raw, files, summary, counts>>

-----------------------------------------------------------------------------
(* The file a step writes; a command that dies in it leaves it half made.  *)
Writing ==
    CASE External -> {}
      [] pc = "buy" /\ PoolRequest \notin request -> {PoolRequest}
      [] pc = "promote" -> {PoolFile}
      [] pc = "account" -> {SetupFile}
      [] pc = "checkpoint" /\ staged[Key] = 0 /\ ckpt[Key] # 0 -> {ThisCheckpoint}
      [] pc = "stage" /\ ThisRequest \notin request -> {ThisRequest}
      [] pc = "bind" /\ ~seeded /\ ~KeptOut -> {ThisSidecar}
      [] pc = "write" /\ raw[Key] = None -> {ThisRaw}
      [] pc = "nopool" /\ ~ArmIsFiled -> {ArmFile}
      [] OTHER -> {}

Crash ==
    /\ pc # "idle" /\ crashes < MaxCrashes /\ crashes' = crashes + 1 /\ Ends
    /\ \E w \in SUBSET Writing : torn' = torn \cup w
    /\ summary' = [k \in Keys |-> None]
    /\ UNCHANGED <<setting, raw, request, bound, ckpt, staged, pool, audit, published, launches,
                   asked, poolPaid, faults, commands>>

Step ==
    \/ PoolLook \/ BuyPool \/ PromotePool \/ PromoteSetup \/ FailArm
    \/ Look \/ StageCheckpoint \/ StageRequest \/ Launch \/ Bind \/ Evaluate \/ Retire
    \/ Unlink \/ Write
    \/ StagePortfolio \/ EvaluatePortfolio \/ FileRun \/ FileFailure \/ PublishMetrics \/ SealMetrics

Next ==
    \/ RunMatrix \/ RunPortfolio \/ \E k \in Keys, c \in {"one", "resume"} : RunOne(k, c)
    \/ Step \/ LosePool \/ Crash

Spec == Init /\ [][Next]_vars /\ WF_vars(Step)

-----------------------------------------------------------------------------
(* Properties.                                                             *)

TypeOK ==
    /\ protocol \in Protocols /\ seeded \in BOOLEAN /\ at \in 1..Len(Order)
    /\ cmd \in {None, "matrix", "one", "resume"} /\ got.id \in Receipts \cup {None}
    /\ verdict \in Receipts \cup Codes \cup {None}
    /\ raw \in [Keys -> Receipts \cup {None, "failed"}]
    /\ {s.key : s \in bound} \subseteq Keys /\ pool \subseteq Pair
    /\ {launches, asked, ckpt, staged} \subseteq [Keys -> Nat]

\* A completed key keeps its record and is never launched again, whatever
\* commands follow, crashed ones included (run_one, _record,
\* _record_candidate_pool_failure).
CompletedStands ==
    [][~External => \A k \in Keys : Completed(k) =>
          raw'[k] = raw[k] /\ launches'[k] = launches[k]]_vars

\* A key that failed changes only under a resumption asked for that key
\* ("failed experiment key requires explicit resume").
FailureMovesByResume ==
    [][\A k \in Keys : raw[k] = "failed" /\ (raw'[k] # raw[k] \/ launches'[k] # launches[k])
          => cmd = "resume" /\ Key = k]_vars

\* An agent is paid for once per key, once more per resumption asked for,
\* and at most twice more per crash: the launch the crash lost, and the one
\* whose record its leftover keeps out (_write_immutable).
PaidAgainForCause ==
    \A k \in Keys : launches[k] <= 1 + asked[k] + 2 * crashes

\* The pool of a ranker protocol is never bought once an arm has a record,
\* even when its files are gone (_run_variants).
PoolBoughtBeforeArms ==
    [][poolPaid' # poolPaid => ~PriorArm]_vars

\* No arm of a ranker protocol completes a run while its pool lacks its
\* setup accounting (_candidate_pool).
ArmsShareThePool ==
    [][\A k \in Keys : protocol = "ranker" /\ launches'[k] # launches[k] => pool = Pair]_vars

\* In an unseeded group no receipt stands for two repeats
\* (_bind_unseeded_receipt).
ReceiptsOwnedOnce ==
    ~seeded /\ ~External =>
        \A j, k \in Keys : Completed(j) /\ raw[j] = raw[k] => j = k

\* In an unseeded group a completed record keeps the sidecar that binds its
\* receipt, through rejected runs and resumptions of other keys
\* (_remove_unseeded_receipt_binding).
CompletedIsBound ==
    ~seeded => \A k \in Keys : Completed(k) =>
        \E s \in bound : s.key = k /\ s.receipt = raw[k]

\* Sealed external metrics cover every key, each with the outcome on file
\* (ExternalExperimentRunner.run).
SealedMetricsAreWhole ==
    published.sealed => published.out /\ \A k \in Keys : published.of[k] = raw[k] /\ raw[k] # None

\* Claim of _remove_unseeded_receipt_binding: "the sidecar must not survive
\* the failed raw record".
FailedKeepsNoSidecar ==
    pc = "idle" => \A s \in bound : raw[s.key] # "failed"
=============================================================================
