----------------------- MODULE ExperimentReport_proofs -----------------------
(***************************************************************************)
(* Proofs about ExperimentGroup and the reports made of it, for any keys,  *)
(* arms, receipts and aggregate files and any number of commands, faults   *)
(* and crashes: first the group's records, receipts, launches and pool     *)
(* under its own commands, then what is sealed and rendered of them.       *)
(***************************************************************************)
EXTENDS ExperimentReport, FiniteSetTheorems, TLAPS

-----------------------------------------------------------------------------
(* The inductive invariant of the group. *)

\* Where a command stands while it works on one key, before the agent is
\* launched and from then on.
ToLaunch  == {"checkpoint", "stage", "launch"}
AfterLook == ToLaunch \cup {"bind", "evaluate", "retire", "write"}
Places == {"idle", "pool", "buy", "promote", "account", "nopool", "look", "metrics", "seal"}
          \cup AfterLook

Records == Receipts \cup {None, "failed"}

GroupTypeOK ==
    /\ protocol \in Protocols /\ seeded \in BOOLEAN
    /\ pc \in Places /\ cmd \in {None, "matrix", "one", "resume"} /\ at \in 1..Len(Order)
    /\ got \in [id : Receipts \cup {None}, ok : BOOLEAN]
    /\ verdict \in Receipts \cup Codes \cup {None}
    /\ raw \in [Keys -> Records] /\ summary \in [Keys -> Records]
    /\ bound \subseteq [key : Keys, how : {"fresh", "resume"}, receipt : Receipts]
    /\ pool \subseteq Pair /\ audit \subseteq Keys
    /\ launches \in [Keys -> Nat] /\ asked \in [Keys -> Nat]
    /\ ckpt \in [Keys -> Nat] /\ staged \in [Keys -> Nat]
    /\ commands \in Nat /\ faults \in Nat /\ crashes \in Nat

\* A command of the group works on a key that has no completed record, on a
\* failed one only when it resumes.
WorkInv ==
    /\ pc \in AfterLook => ~Completed(Key)
    /\ pc \in AfterLook /\ raw[Key] = "failed" => cmd = "resume"
    /\ pc \in {"bind", "evaluate", "retire"} => got.id \in Receipts
    /\ pc = "retire" => verdict \in Codes
    /\ pc = "write" => verdict \in Receipts \cup Codes
    /\ \A k \in audit : Completed(k)

\* What an agent's run costs a key.  A leftover of a record that a command
\* died in keeps the next record out, and with it a launch.
Lost(k) == IF <<"raw", k, None>> \in torn THEN 1 ELSE 0
Granted(k) == asked[k] + 2 * crashes
Recorded(k) == raw[k] # None \/ (k = Key /\ pc \in AfterLook \ ToLaunch)
AboutToLaunch == pc \in ToLaunch \/ (pc = "look" /\ cmd = "resume")

PaidInv(k) ==
    /\ raw[k] # None => <<"raw", k, None>> \notin torn
    /\ launches[k] + Lost(k) <= 1 + Granted(k)
    /\ ~Recorded(k) \/ (k = Key /\ AboutToLaunch) => launches[k] + Lost(k) <= Granted(k)

\* Every receipt is bound once; that of a completed key, and one about to be
\* recorded, have a sidecar.
BoundInv ==
    ~seeded =>
        /\ \A s, t \in bound : s.receipt = t.receipt => s = t
        /\ CompletedIsBound
        /\ pc = "evaluate" => Sidecar \in bound
        /\ pc = "write" /\ verdict \in Receipts => Sidecar \in bound
VerdictInv == pc = "write" /\ verdict \in Receipts => verdict = got.id

\* The pool is bought for a group without records, and stands while the arms
\* that share it run.
PoolInv ==
    /\ pc \in {"pool", "buy", "promote", "account", "nopool", "look"} => ~External
    /\ pc \in {"pool", "buy", "promote", "account", "nopool"} => cmd = "matrix"
    /\ pc = "buy" => ~PriorArm /\ pool = {}
    /\ pc = "promote" => pool = {}
    /\ pc = "account" => pool = {"pool"}
    /\ protocol = "ranker" /\ pc \in AfterLook \cup {"look"} => pool = Pair

\* A portfolio is walked once: what is behind has its outcome on file and in
\* memory, what is ahead has not been launched.
WalkedTo(j) ==
    IF j < at THEN raw[Order[j]] # None /\ summary[Order[j]] = raw[Order[j]]
    ELSE raw[Order[j]] = None /\ (j > at \/ pc \in ToLaunch => launches[Order[j]] = 0)

Publication == [of : [Keys -> Records] \cup {<<>>}, out : BOOLEAN, sealed : BOOLEAN]

PortfolioInv ==
    /\ published \in Publication
    /\ pc # "idle" => cmd = "matrix" /\ pc \in (AfterLook \ {"checkpoint"}) \cup {"metrics", "seal"}
    /\ commands = 0 =>
          /\ pc = "idle" /\ published = Unpublished
          /\ \A k \in Keys : raw[k] = None /\ launches[k] = 0
    /\ pc \in AfterLook => \A j \in 1..Len(Order) : WalkedTo(j)
    /\ pc \in {"metrics", "seal"} => \A k \in Keys : raw[k] # None /\ summary[k] = raw[k]
    /\ \A k \in Keys : launches[k] <= 1
    /\ pc = "seal" => published.out /\ published.of = summary
    /\ published.sealed => pc = "idle"

\* The other groups publish nothing.
HomeInv == pc \notin {"metrics", "seal"} /\ published = Unpublished

GroupInv ==
    /\ GroupTypeOK /\ WorkInv /\ BoundInv /\ VerdictInv /\ PoolInv
    /\ External => PortfolioInv
    /\ ~External => HomeInv /\ \A k \in Keys : PaidInv(k)
    /\ SealedMetricsAreWhole

-----------------------------------------------------------------------------
(* The inductive invariant of the reports. *)

\* The report in hand was begun on complete records, with no command of the
\* group beside it; the files it has passed say what it would write.
JobInv ==
    job # NoJob =>
        /\ pc = "idle" /\ ~External /\ Measured
        /\ job.kind \in {"reference", "summary"} /\ job.at \in Nat \ {0}
        /\ job.kind = "summary" =>
              /\ job.rows = raw
              /\ \A i \in 1..Len(Outputs) : i < job.at => out[Outputs[i]] = Payload(Outputs[i])

\* An aggregate file is made of complete records, and so of final ones.
FilesInv ==
    /\ DOMAIN out = OutputNames \cup ReferenceNames
    /\ \A o \in OutputNames : out[o] # Absent => ~External /\ Measured /\ out[o].rows = raw

SealInv ==
    /\ seal # Unsealed =>
          /\ SealHolds
          /\ \A o \in Sampled : seal[o].n = seal[Outputs[1]].n
    /\ page # Absent => SealHolds /\ page = seal[Outputs[1]]

ReportInv == GroupInv /\ JobInv /\ FilesInv /\ SealInv

-----------------------------------------------------------------------------
(* Constants and shared operators. *)

LEMMA Constants ==
    /\ None \notin Receipts /\ "failed" \notin Receipts /\ None # "failed"
    /\ Codes \cap Receipts = {} /\ None \notin Codes
    /\ Len(Order) \in Nat \ {0} /\ \A j \in 1..Len(Order) : Order[j] \in Keys
    /\ MaxFaults \in Nat /\ MaxCrashes \in Nat /\ MaxCommands \in Nat
    /\ NoReceipt \in [id : Receipts \cup {None}, ok : BOOLEAN] /\ NoReceipt.id = None
<1>1. None \notin Receipts /\ "failed" \notin Receipts /\ Codes \cap Receipts = {}
  BY GroupAssumption
<1>2. None # "failed" /\ None \notin Codes
  BY DEF None, Codes
<1>3. Len(Order) \in Nat /\ Len(Order) # 0
  BY GroupAssumption
<1>4. \A j \in 1..Len(Order) : Order[j] \in Keys
  BY DEF Keys
<1>5. MaxFaults \in Nat /\ MaxCrashes \in Nat /\ MaxCommands \in Nat
  BY GroupAssumption
<1>6. NoReceipt \in [id : Receipts \cup {None}, ok : BOOLEAN] /\ NoReceipt.id = None
  BY DEF NoReceipt
<1> QED BY <1>1, <1>2, <1>3, <1>4, <1>5, <1>6

\* The walk meets a key once.
LEMMA OrderOnce ==
    ASSUME NEW i \in 1..Len(Order), NEW j \in 1..Len(Order), Order[i] = Order[j]
    PROVE  i = j
<1> DEFINE S == 1..Len(Order)
<1>1. Len(Order) \in Nat BY Constants
<1>2. IsFiniteSet(S) /\ Cardinality(S) = Len(Order)
  <2>1. Cardinality(S) = IF 1 > Len(Order) THEN 0 ELSE Len(Order) - 1 + 1
    BY <1>1, FS_Interval
  <2>2. IsFiniteSet(S) BY <1>1, FS_Interval
  <2> QED BY <1>1, <2>1, <2>2, Constants
<1>3. Order \in Surjection(S, Keys)
  <2>1. Order \in [S -> Keys] BY GroupAssumption, Constants
  <2>2. \A k \in Keys : \E n \in S : Order[n] = k BY DEF Keys
  <2> QED BY <2>1, <2>2 DEF Surjection
<1>4. Order \in Injection(S, Keys)
  BY <1>2, <1>3, GroupAssumption, FS_Surjection
<1> QED BY <1>4 DEF Injection, IsInjective

LEMMA KeyType ==
    ASSUME at \in 1..Len(Order)
    PROVE  Key \in Keys
BY Constants DEF Key

LEMMA ChosenPlace ==
    ASSUME NEW k \in Keys
    PROVE  LET i == CHOOSE n \in 1..Len(Order) : Order[n] = k
           IN  i \in 1..Len(Order) /\ Order[i] = k
BY DEF Keys

\* A write removes a leftover, if anything.
LEMMA SweptLess ==
    ASSUME NEW f, NEW present, Swept(f, present)
    PROVE  torn' \subseteq torn /\ (present \in BOOLEAN /\ ~present => f \notin torn')
BY DEF Swept

\* The command goes on with the next key, or is over.
LEMMA AdvanceEffect ==
    ASSUME at \in 1..Len(Order), Advance
    PROVE  \/ /\ cmd = "matrix" /\ at < Len(Order) /\ at' = at + 1 /\ cmd' = cmd
              /\ pc' = (IF pc = "nopool" THEN pc ELSE FirstStep)
              /\ got' = NoReceipt /\ verdict' = None
           \/ /\ External /\ pc' = "metrics" /\ UNCHANGED <<cmd, at, got, verdict>>
              /\ ~(cmd = "matrix" /\ at < Len(Order))
           \/ ~External /\ Ends
BY DEF Advance

-----------------------------------------------------------------------------
(* The commands of the group keep its invariant, part by part. *)

USE DEF setting, files, counts, External, Command, Goto, Record, Ends, FirstStep, Sound, Fault

LEMMA AdvanceTypes ==
    ASSUME GroupTypeOK, Advance
    PROVE  /\ at' \in 1..Len(Order) /\ pc' \in Places
           /\ cmd' \in {None, "matrix", "one", "resume"}
           /\ got' \in [id : Receipts \cup {None}, ok : BOOLEAN]
           /\ verdict' \in Receipts \cup Codes \cup {None}
<1> USE Constants DEF GroupTypeOK, Places, AfterLook, ToLaunch
<1>1. at' \in 1..Len(Order)
  BY DEF Advance
<1>2. pc' \in Places /\ cmd' \in {None, "matrix", "one", "resume"}
  BY DEF Advance
<1>3. got' \in [id : Receipts \cup {None}, ok : BOOLEAN]
  BY DEF Advance
<1>4. verdict' \in Receipts \cup Codes \cup {None}
  BY DEF Advance
<1> QED BY <1>1, <1>2, <1>3, <1>4

\* In a group that shares a pool or none, no command begins a key by itself.
LEMMA AdvanceInGroup ==
    ASSUME ~External, Advance
    PROVE  /\ pc' \in {"idle", "nopool", "look"}
           /\ pc' = "nopool" => cmd' = "matrix" /\ pc = "nopool"
           /\ pc' = "look" => cmd' = "matrix" /\ pc # "nopool"
BY DEF Advance

\* The next key of a portfolio, or its metrics.
LEMMA AdvanceInPortfolio ==
    ASSUME External, pc = "write", cmd = "matrix", Advance
    PROVE  \/ at < Len(Order) /\ at' = at + 1 /\ pc' = "stage" /\ cmd' = cmd
           \/ ~(at < Len(Order)) /\ pc' = "metrics" /\ UNCHANGED <<cmd, at>>
BY DEF Advance

\* Steps that work on no key.
Elsewhere ==
    \/ RunMatrix \/ \E k \in Keys, c \in {"one", "resume"} : RunOne(k, c)
    \/ PoolLook \/ BuyPool \/ PromotePool \/ PromoteSetup
    \/ PublishMetrics \/ SealMetrics \/ LosePool \/ Crash

\* Steps from one place of a key to another.
WithinKey ==
    \/ StageCheckpoint \/ StageRequest \/ Launch \/ Bind \/ Evaluate \/ Retire
    \/ StagePortfolio \/ EvaluatePortfolio

LEMMA StepKinds ==
    Next <=> \/ Elsewhere \/ WithinKey \/ RunPortfolio \/ FailArm \/ Look
             \/ Unlink \/ Write \/ FileRun \/ FileFailure
BY DEF Next, Step, Elsewhere, WithinKey

LEMMA ElsewhereEffect ==
    ASSUME Elsewhere
    PROVE  /\ pc' \notin AfterLook
           /\ UNCHANGED <<protocol, seeded, raw, bound, audit, launches>>
<1> USE DEF AfterLook, ToLaunch
<1>1. CASE RunMatrix \/ \E k \in Keys, c \in {"one", "resume"} : RunOne(k, c)
  BY <1>1 DEF RunMatrix, RunOne
<1>2. CASE PoolLook \/ BuyPool
  BY <1>2 DEF PoolLook, BuyPool
<1>3. CASE PromotePool \/ PromoteSetup
  BY <1>3 DEF PromotePool, PromoteSetup, Promote
<1>4. CASE PublishMetrics \/ SealMetrics
  BY <1>4 DEF PublishMetrics, SealMetrics
<1>5. CASE LosePool \/ Crash
  BY <1>5 DEF LosePool, Crash
<1> QED BY <1>1, <1>2, <1>3, <1>4, <1>5 DEF Elsewhere

LEMMA WithinKeyEffect ==
    ASSUME WithinKey
    PROVE  /\ pc \in AfterLook /\ pc' \in AfterLook
           /\ UNCHANGED <<protocol, seeded, cmd, at, raw, audit, summary, published, pool,
                          asked, crashes, commands, poolPaid>>
<1> USE DEF AfterLook, ToLaunch
<1>1. CASE StageCheckpoint \/ StageRequest \/ StagePortfolio
  BY <1>1 DEF StageCheckpoint, StageRequest, StagePortfolio
<1>2. CASE Launch
  BY <1>2 DEF Launch
<1>3. CASE Bind
  BY <1>3 DEF Bind
<1>4. CASE Evaluate \/ EvaluatePortfolio
  BY <1>4 DEF Evaluate, EvaluatePortfolio, Rejected
<1>5. CASE Retire
  BY <1>5 DEF Retire
<1> QED BY <1>1, <1>2, <1>3, <1>4, <1>5 DEF WithinKey

LEMMA TypeKept ==
    ASSUME GroupTypeOK, WorkInv, Next
    PROVE  GroupTypeOK'
<1> USE Constants DEF GroupTypeOK, Places, AfterLook, ToLaunch, Records
<1>1. Key \in Keys
  BY KeyType
<1>2. CASE RunMatrix
  BY <1>2 DEF RunMatrix
<1>3. CASE RunPortfolio
  BY <1>3 DEF RunPortfolio
<1>4. CASE \E k \in Keys, c \in {"one", "resume"} : RunOne(k, c)
  <2>1. PICK k \in Keys, c \in {"one", "resume"} : RunOne(k, c)
    BY <1>4
  <2>2. at' \in 1..Len(Order)
    BY <2>1, ChosenPlace DEF RunOne
  <2>3. asked' \in [Keys -> Nat]
    BY <2>1 DEF RunOne
  <2>4. pc' = "look" /\ cmd' \in {"one", "resume"} /\ commands' \in Nat
    BY <2>1 DEF RunOne
  <2>5. UNCHANGED <<protocol, seeded, got, verdict, raw, request, bound, ckpt, staged, pool, torn,
                    audit, summary, published, launches, poolPaid, faults, crashes>>
    BY <2>1 DEF RunOne
  <2> QED BY <2>2, <2>3, <2>4, <2>5
<1>5. CASE PoolLook
  BY <1>5 DEF PoolLook
<1>6. CASE BuyPool
  BY <1>6 DEF BuyPool
<1>7. CASE PromotePool \/ PromoteSetup
  <2>1. pool' \subseteq Pair /\ pc' \in Places
    BY <1>7 DEF PromotePool, PromoteSetup, Promote, Pair
  <2>2. UNCHANGED <<protocol, seeded, cmd, at, got, verdict, raw, request, bound, ckpt, staged,
                    audit, summary, published, launches, asked, poolPaid, faults, crashes,
                    commands>>
    BY <1>7 DEF PromotePool, PromoteSetup, Promote
  <2> QED BY <2>1, <2>2
<1>8. CASE FailArm
  <2>1. raw' \in [Keys -> Records]
    <3>1. raw \in [Keys -> Records] /\ raw[Key] \in Records /\ "failed" \in Records
      BY <1>1
    <3>2. raw' = raw \/ raw' = [raw EXCEPT ![Key] = IF raw[Key] = None THEN "failed" ELSE raw[Key]]
      BY <1>8 DEF FailArm
    <3>3. \E v \in Records : raw' = raw \/ raw' = [raw EXCEPT ![Key] = v]
      BY <3>1, <3>2
    <3> HIDE DEF Records
    <3> QED BY <3>1, <3>3
  <2>. audit' \subseteq Keys
    BY <1>1, <1>8 DEF FailArm
  <2>2. CASE Ends
    BY <1>8, <2>1, <2>2 DEF FailArm
  <2>3. CASE Advance
    BY <1>8, <2>1, <2>3, AdvanceTypes DEF FailArm
  <2> QED BY <1>8, <2>2, <2>3 DEF FailArm
<1>9. CASE Look
  <2>0. UNCHANGED <<protocol, seeded, raw, request, bound, ckpt, staged, pool, torn, audit, summary,
                    published, launches, asked, poolPaid, faults, crashes, commands>>
    BY <1>9 DEF Look
  <2>1. CASE Advance
    BY <2>0, <2>1, AdvanceTypes
  <2>2. CASE Ends
    <3>1. /\ at' \in 1..Len(Order) /\ pc' \in Places /\ cmd' = None
          /\ got' = NoReceipt /\ verdict' = None
      BY <2>2
    <3> QED BY <2>0, <3>1 DEF NoReceipt
  <2>3. CASE (Goto("checkpoint") \/ Goto("stage")) /\ UNCHANGED <<got, verdict>>
    <3>1. pc' \in Places /\ UNCHANGED <<cmd, at, got, verdict>>
      BY <2>3
    <3> QED BY <2>0, <3>1
  <2>4. CASE Record("checkpoint") /\ UNCHANGED got
    <3>1. pc' \in Places /\ verdict' \in Codes /\ UNCHANGED <<cmd, at, got>>
      BY <2>4 DEF Codes
    <3> QED BY <2>0, <3>1
  <2> QED BY <1>9, <2>1, <2>2, <2>3, <2>4 DEF Look
<1>10. CASE StageCheckpoint
  BY <1>1, <1>10 DEF StageCheckpoint, Codes
<1>11. CASE StageRequest
  BY <1>11 DEF StageRequest, Codes
<1>12. CASE Launch
  <2>1. launches' \in [Keys -> Nat] /\ ckpt' \in [Keys -> Nat]
    BY <1>1, <1>12 DEF Launch
  <2>2. got' \in [id : Receipts \cup {None}, ok : BOOLEAN]
    <3>1. got' = got \/ \E r \in Receipts, b \in BOOLEAN : got' = [id |-> r, ok |-> b]
      BY <1>12 DEF Launch
    <3> QED BY <3>1
  <2>3. /\ verdict' \in Receipts \cup Codes \cup {None}
        /\ pc' \in Places /\ faults' \in Nat
    BY <1>12 DEF Launch, Codes
  <2>4. UNCHANGED <<protocol, seeded, cmd, at, raw, summary, bound, pool, audit, asked, staged,
                    commands, crashes>>
    BY <1>12 DEF Launch
  <2> QED BY <2>1, <2>2, <2>3, <2>4
<1>13. CASE Bind
  <2>1. Sidecar \in [key : Keys, how : {"fresh", "resume"}, receipt : Receipts]
    BY <1>1, <1>13 DEF Bind, Sidecar, How, WorkInv
  <2>0. bound' = bound \/ bound' = bound \cup {Sidecar}
    BY <1>13 DEF Bind
  <2>2. bound' \subseteq [key : Keys, how : {"fresh", "resume"}, receipt : Receipts]
    BY <2>0, <2>1
  <2> QED BY <1>13, <2>2 DEF Bind, Codes
<1>14. CASE Evaluate
  BY <1>14 DEF Evaluate, Rejected, Codes
<1>15. CASE Retire
  BY <1>15 DEF Retire
<1>16. CASE Unlink
  <2>1. raw' \in [Keys -> Records]
    BY <1>1, <1>16 DEF Unlink
  <2>2. UNCHANGED <<protocol, seeded, pc, cmd, at, got, verdict, bound, ckpt, staged, pool, audit,
                    summary, launches, asked, faults, crashes, commands>>
    BY <1>16 DEF Unlink
  <2> QED BY <2>1, <2>2
<1>17. CASE Write
  <2>1. raw' \in [Keys -> Records]
    BY <1>1, <1>17 DEF Write
  <2>2. CASE Ends
    BY <1>17, <2>1, <2>2 DEF Write
  <2>3. CASE Advance
    BY <1>17, <2>1, <2>3, AdvanceTypes DEF Write
  <2> QED BY <1>17, <2>2, <2>3 DEF Write
<1>18. CASE StagePortfolio
  BY <1>18 DEF StagePortfolio
<1>19. CASE EvaluatePortfolio
  BY <1>19 DEF EvaluatePortfolio, Rejected, Codes
<1>20. CASE FileRun
  <2>1. raw' \in [Keys -> Records] /\ summary' \in [Keys -> Records] /\ Advance
    BY <1>1, <1>20 DEF FileRun
  <2>2. UNCHANGED <<protocol, seeded, request, bound, ckpt, staged, pool, torn, audit, published,
                    launches, asked, poolPaid, faults, crashes, commands>>
    BY <1>20 DEF FileRun
  <2> QED BY <2>1, <2>2, AdvanceTypes
<1>21. CASE FileFailure
  <2>1. raw' \in [Keys -> Records] /\ summary' \in [Keys -> Records] /\ Advance
    BY <1>1, <1>21 DEF FileFailure
  <2>2. UNCHANGED <<protocol, seeded, request, bound, ckpt, staged, pool, torn, audit, published,
                    launches, asked, poolPaid, faults, crashes, commands>>
    BY <1>21 DEF FileFailure
  <2> QED BY <2>1, <2>2, AdvanceTypes
<1>22. CASE PublishMetrics
  BY <1>22 DEF PublishMetrics
<1>23. CASE SealMetrics
  <2>1. /\ at' \in 1..Len(Order) /\ pc' \in Places /\ cmd' = None
        /\ got' = NoReceipt /\ verdict' = None
    BY <1>23 DEF SealMetrics
  <2>2. UNCHANGED <<protocol, seeded, raw, request, bound, ckpt, staged, pool, audit, summary,
                    launches, asked, faults, crashes, commands>>
    BY <1>23 DEF SealMetrics
  <2> QED BY <2>1, <2>2 DEF NoReceipt
<1>24. CASE LosePool
  BY <1>24 DEF LosePool, Pair
<1>25. CASE Crash
  <2>1. /\ at' \in 1..Len(Order) /\ pc' \in Places /\ cmd' = None
        /\ got' = NoReceipt /\ verdict' = None
        /\ summary' \in [Keys -> Records] /\ crashes' \in Nat
    BY <1>25 DEF Crash
  <2>2. UNCHANGED <<protocol, seeded, raw, request, bound, ckpt, staged, pool, audit,
                    launches, asked, faults, commands>>
    BY <1>25 DEF Crash
  <2> QED BY <2>1, <2>2 DEF NoReceipt
<1> QED BY <1>2, <1>3, <1>4, <1>5, <1>6, <1>7, <1>8, <1>9, <1>10, <1>11, <1>12, <1>13, <1>14,
           <1>15, <1>16, <1>17, <1>18, <1>19, <1>20, <1>21, <1>22, <1>23, <1>24, <1>25
        DEF Next, Step

\* A look at a key passes it by, or begins work on one without a completed
\* record.
LEMMA LookEffect ==
    ASSUME GroupInv, Look
    PROVE  /\ pc = "look" /\ ~External
           /\ UNCHANGED <<setting, raw, files, summary, published, counts>>
           /\ \/ pc' = "idle" \/ (pc' = "look" /\ cmd' = "matrix")
              \/ /\ pc' \in {"checkpoint", "stage", "write"} /\ ~Completed(Key)
                 /\ UNCHANGED <<cmd, at>>
                 /\ raw[Key] = "failed" => cmd = "resume" /\ pc' = "checkpoint"
                 /\ pc' = "write" => cmd = "resume" /\ verdict' = "checkpoint"
<1> USE Constants DEF Completed
<1>1. pc = "look" /\ ~External /\ UNCHANGED <<setting, raw, files, summary, published, counts>>
  BY DEF Look, GroupInv, PoolInv
<1>2. CASE Completed(Key)
  <2>1. Advance \/ Ends
    BY <1>2 DEF Look
  <2> QED BY <1>1, <2>1, AdvanceInGroup
<1>3. CASE ~Completed(Key) /\ raw[Key] = "failed"
  BY <1>1, <1>3 DEF Look
<1>4. CASE ~Completed(Key) /\ raw[Key] # "failed"
  <2>1. \/ Record("checkpoint") /\ cmd = "resume"
        \/ Goto("stage")
    BY <1>4 DEF Look
  <2> QED BY <1>1, <1>4, <2>1
<1> QED BY <1>2, <1>3, <1>4

\* What stands in the hand while a command works on a key.
LEMMA InHand ==
    ASSUME GroupInv, WithinKey
    PROVE  /\ pc' \in {"bind", "evaluate", "retire"} => got'.id \in Receipts
           /\ pc' = "retire" => verdict' \in Codes
           /\ pc' = "write" => verdict' \in Receipts \cup Codes
<1> USE DEF Codes
<1>1. CASE StageCheckpoint \/ StageRequest \/ StagePortfolio
  BY <1>1 DEF StageCheckpoint, StageRequest, StagePortfolio
<1>2. CASE Launch
  BY <1>2 DEF Launch
<1>3. CASE Bind
  BY <1>3 DEF Bind, GroupInv, WorkInv
<1>4. CASE Evaluate \/ EvaluatePortfolio
  BY <1>4 DEF Evaluate, EvaluatePortfolio, Rejected, GroupInv, WorkInv
<1>5. CASE Retire
  BY <1>5 DEF Retire, GroupInv, WorkInv
<1> QED BY <1>1, <1>2, <1>3, <1>4, <1>5 DEF WithinKey

\* A portfolio goes on with a key that has no record.
LEMMA NextIsFresh ==
    ASSUME GroupInv, External, pc = "write", Advance, pc' \in AfterLook
    PROVE  /\ Key' \in Keys /\ Key' # Key /\ raw[Key'] = None
           /\ pc' = "stage" /\ at' = at + 1 /\ at' \in 1..Len(Order) /\ cmd' = cmd
<1>1. /\ at < Len(Order) /\ at' = at + 1 /\ pc' = "stage" /\ cmd' = cmd
  BY AdvanceInPortfolio DEF GroupInv, PortfolioInv, AfterLook, ToLaunch
<1>2. at \in 1..Len(Order) /\ at' \in 1..Len(Order) /\ at' # at /\ ~(at' < at)
  BY <1>1, Constants DEF GroupInv, GroupTypeOK
<1>3. Key' = Order[at'] /\ Key = Order[at]
  BY DEF Key
<1>4. raw[Order[at']] = None
  BY <1>2 DEF GroupInv, PortfolioInv, WalkedTo, AfterLook, ToLaunch
<1> QED BY <1>1, <1>2, <1>3, <1>4, OrderOnce, Constants

LEMMA WorkKept ==
    ASSUME GroupInv, Next
    PROVE  WorkInv'
<1> USE Constants DEF WorkInv
<1>1. /\ GroupTypeOK /\ WorkInv /\ at \in 1..Len(Order)
      /\ raw \in [Keys -> Records] /\ Key \in Keys /\ audit \subseteq Keys
  BY KeyType DEF GroupInv, GroupTypeOK
<1>2. CASE Elsewhere
  BY <1>1, <1>2, ElsewhereEffect DEF Completed, AfterLook, ToLaunch
<1>3. CASE WithinKey
  <2>1. Key' = Key /\ (\A k \in Keys : Completed(k)' <=> Completed(k)) /\ audit' = audit
    BY <1>3, WithinKeyEffect DEF Key, Completed
  <2> QED BY <1>1, <1>3, <2>1, WithinKeyEffect, InHand
<1>4. CASE RunPortfolio
  <2>1. Key' \in Keys /\ \A k \in Keys : raw[k] = None /\ raw'[k] = None
    BY <1>1, <1>4 DEF RunPortfolio, GroupInv, PortfolioInv, Key
  <2> QED BY <1>1, <1>4, <2>1 DEF RunPortfolio, Completed
<1>5. CASE FailArm
  <2>1. pc' \notin AfterLook
    BY <1>5, AdvanceInGroup DEF FailArm, AfterLook, ToLaunch, GroupInv, PoolInv
  <2>2. \A k \in Keys : Completed(k) => Completed(k)'
    BY <1>1, <1>5 DEF FailArm, Completed, Records
  <2>3. audit' = audit \/ (audit' = audit \cup {Key} /\ Completed(Key))
    BY <1>5 DEF FailArm
  <2> QED BY <1>1, <2>1, <2>2, <2>3 DEF AfterLook, ToLaunch
<1>6. CASE Look
  <2>1. raw' = raw /\ audit' = audit
    BY <1>6, LookEffect
  <2>2. CASE pc' \notin AfterLook
    BY <1>1, <2>1, <2>2 DEF Completed, AfterLook, ToLaunch
  <2>3. CASE pc' \in AfterLook
    BY <1>1, <1>6, <2>1, <2>3, LookEffect DEF Completed, Key, Codes, AfterLook, ToLaunch
  <2> QED BY <2>2, <2>3
<1>7. CASE Unlink
  <2>1. /\ raw' = [raw EXCEPT ![Key] = None] /\ ~Completed(Key)
        /\ UNCHANGED <<pc, cmd, at, got, verdict, audit>>
    BY <1>7 DEF Unlink, Completed, files
  <2> QED BY <1>1, <2>1 DEF Completed, Key
<1>8. CASE Write
  <2>1. pc' \notin AfterLook
    BY <1>8, AdvanceInGroup DEF Write, AfterLook, ToLaunch
  <2>2. (\A k \in Keys : Completed(k) => Completed(k)') /\ audit' = audit
    BY <1>1, <1>8 DEF Write, Completed, AfterLook
  <2> QED BY <1>1, <2>1, <2>2 DEF AfterLook, ToLaunch
<1>9. CASE FileRun \/ FileFailure
  <2>1. /\ External /\ Advance /\ pc = "write" /\ audit' = audit
        /\ \E v \in Records : raw' = [raw EXCEPT ![Key] = v]
    BY <1>9 DEF FileRun, FileFailure, Records
  <2>2. ~Completed(Key)
    BY <1>1, <2>1 DEF AfterLook
  <2>3. \A k \in audit' : Completed(k)'
    BY <1>1, <2>1, <2>2 DEF Completed
  <2>4. pc' \in AfterLook => pc' = "stage" /\ ~Completed(Key)' /\ raw'[Key'] = None
    BY <1>1, <2>1, NextIsFresh DEF Completed
  <2>5. pc' \notin {"bind", "evaluate", "retire", "write"}
    BY <2>4 DEF AfterLook
  <2> QED BY <2>3, <2>4, <2>5
<1> QED BY <1>2, <1>3, <1>4, <1>5, <1>6, <1>7, <1>8, <1>9, StepKinds

LEMMA VerdictKept ==
    ASSUME GroupInv, Next
    PROVE  VerdictInv'
<1> USE Constants DEF VerdictInv, Codes
<1>1. CASE Elsewhere
  BY <1>1, ElsewhereEffect DEF AfterLook
<1>2. CASE StageCheckpoint \/ StageRequest \/ StagePortfolio
  BY <1>2 DEF StageCheckpoint, StageRequest, StagePortfolio
<1>3. CASE Launch
  BY <1>3 DEF Launch
<1>4. CASE Bind
  BY <1>4 DEF Bind
<1>5. CASE Evaluate \/ EvaluatePortfolio
  BY <1>5 DEF Evaluate, EvaluatePortfolio, Rejected
<1>6. CASE Retire
  BY <1>6 DEF Retire, GroupInv, WorkInv
<1>7. CASE RunPortfolio
  BY <1>7 DEF RunPortfolio
<1>8. CASE FailArm
  BY <1>8, AdvanceInGroup DEF FailArm, GroupInv, PoolInv
<1>9. CASE Look
  BY <1>9, LookEffect
<1>10. CASE Unlink
  BY <1>10 DEF Unlink, GroupInv
<1>11. CASE Write
  BY <1>11, AdvanceInGroup DEF Write
<1>12. CASE FileRun \/ FileFailure
  BY <1>12, AdvanceInPortfolio DEF FileRun, FileFailure, GroupInv, PortfolioInv
<1> QED BY <1>1, <1>2, <1>3, <1>4, <1>5, <1>6, <1>7, <1>8, <1>9, <1>10, <1>11, <1>12, StepKinds
        DEF WithinKey

\* A step that binds nothing and completes nothing keeps the bindings.
LEMMA BoundFrame ==
    ASSUME BoundInv, bound' = bound, seeded' = seeded,
           \A k \in Keys : Completed(k)' => Completed(k) /\ raw'[k] = raw[k],
           pc' # "evaluate", pc' = "write" => verdict' \notin Receipts
    PROVE  BoundInv'
BY DEF BoundInv, CompletedIsBound, Sidecar

LEMMA BoundKept ==
    ASSUME GroupInv, Next
    PROVE  BoundInv'
<1> USE Constants
<1>1. /\ GroupTypeOK /\ WorkInv /\ BoundInv /\ VerdictInv
      /\ raw \in [Keys -> Records] /\ Key \in Keys
  BY KeyType DEF GroupInv, GroupTypeOK
<1>2. ASSUME bound' = bound, seeded' = seeded, raw' = raw,
             pc' # "evaluate", pc' = "write" => verdict' \in Codes
      PROVE  BoundInv'
  <2>1. \A k \in Keys : Completed(k)' => Completed(k) /\ raw'[k] = raw[k]
    BY <1>2 DEF Completed
  <2> QED BY <1>1, <1>2, <2>1, BoundFrame
<1>3. CASE Elsewhere
  BY <1>2, <1>3, ElsewhereEffect DEF AfterLook, ToLaunch
<1>4. CASE StageCheckpoint \/ StageRequest \/ StagePortfolio
  <2>1. bound' = bound /\ pc' # "evaluate" /\ (pc' = "write" => verdict' \in Codes)
    BY <1>4 DEF StageCheckpoint, StageRequest, StagePortfolio, Codes
  <2> QED BY <1>2, <1>4, <2>1, WithinKeyEffect DEF WithinKey
<1>5. CASE Launch
  <2>1. bound' = bound /\ pc' # "evaluate" /\ (pc' = "write" => verdict' \in Codes)
    BY <1>5 DEF Launch, Codes
  <2> QED BY <1>2, <1>5, <2>1, WithinKeyEffect DEF WithinKey
<1>6. CASE Bind
  <2>1. UNCHANGED <<raw, seeded, at, cmd, got>>
    BY <1>6 DEF Bind
  <2>2. CASE seeded
    BY <2>1, <2>2 DEF BoundInv
  <2>3. CASE ~seeded /\ (KeptOut \/ Blocked(ThisSidecar, FALSE))
    BY <1>2, <1>6, <2>1, <2>3 DEF Bind, Codes
  <2>4. CASE /\ ~seeded /\ ~KeptOut /\ pc' = "evaluate" /\ bound' = bound \cup {Sidecar}
    <3>1. \A s \in bound : s.receipt # Sidecar.receipt
      BY <2>4 DEF KeptOut, Sidecar
    <3>2. \A s, t \in bound' : s.receipt = t.receipt => s = t
      BY <1>1, <2>4, <3>1 DEF BoundInv
    <3>3. CompletedIsBound'
      BY <1>1, <2>1, <2>4 DEF BoundInv, CompletedIsBound, Completed
    <3>4. Sidecar' = Sidecar
      BY <2>1 DEF Sidecar, Key, How
    <3> QED BY <2>4, <3>2, <3>3, <3>4 DEF BoundInv
  <2> QED BY <1>6, <2>2, <2>3, <2>4 DEF Bind
<1>7. CASE Evaluate \/ EvaluatePortfolio
  <2>1. /\ pc = "evaluate" /\ pc' \in {"write", "retire"}
        /\ UNCHANGED <<raw, seeded, at, cmd, got, bound>>
    BY <1>7 DEF Evaluate, EvaluatePortfolio, Rejected
  <2>2. Sidecar' = Sidecar /\ (CompletedIsBound => CompletedIsBound')
    BY <2>1 DEF Sidecar, Key, How, CompletedIsBound, Completed
  <2> QED BY <1>1, <2>1, <2>2 DEF BoundInv
<1>8. CASE Retire
  <2>1. /\ pc = "retire" /\ pc' = "write" /\ verdict' \in Codes /\ bound' = bound \ {Sidecar}
        /\ UNCHANGED <<raw, seeded>>
    BY <1>1, <1>8 DEF Retire, WorkInv
  <2>2. \A k \in Keys : Completed(k)' => Completed(k) /\ raw'[k] = raw[k] /\ k # Sidecar.key
    BY <1>1, <2>1 DEF WorkInv, Completed, Sidecar, AfterLook
  <2>3. ~seeded => CompletedIsBound'
    BY <1>1, <2>1, <2>2 DEF BoundInv, CompletedIsBound
  <2> QED BY <1>1, <2>1, <2>3 DEF BoundInv
<1>9. CASE RunPortfolio
  BY <1>2, <1>9 DEF RunPortfolio
<1>10. CASE FailArm
  <2>1. /\ bound' = bound /\ seeded' = seeded /\ pc' \notin {"evaluate", "write"}
    BY <1>10, AdvanceInGroup DEF FailArm, GroupInv, PoolInv
  <2>2. \A k \in Keys : Completed(k)' => Completed(k) /\ raw'[k] = raw[k]
    BY <1>1, <1>10 DEF FailArm, Completed
  <2> QED BY <1>1, <2>1, <2>2, BoundFrame
<1>11. CASE Look
  BY <1>2, <1>11, LookEffect DEF Codes
<1>12. CASE Unlink
  <2>1. /\ pc = "write" /\ raw' = [raw EXCEPT ![Key] = None]
        /\ UNCHANGED <<seeded, pc, at, cmd, got, verdict, bound>>
    BY <1>12 DEF Unlink
  <2>2. \A k \in Keys : Completed(k)' => Completed(k) /\ raw'[k] = raw[k]
    BY <1>1, <2>1 DEF Completed
  <2>3. Sidecar' = Sidecar
    BY <2>1 DEF Sidecar, Key, How
  <2>4. ~seeded => CompletedIsBound'
    BY <1>1, <2>1, <2>2 DEF BoundInv, CompletedIsBound
  <2> QED BY <1>1, <2>1, <2>3, <2>4 DEF BoundInv
<1>13. CASE Write \/ FileRun \/ FileFailure
  <2>1. /\ pc = "write" /\ bound' = bound /\ seeded' = seeded
        /\ raw' = raw \/ raw' = [raw EXCEPT ![Key] = IF verdict \in Receipts THEN verdict ELSE "failed"]
    BY <1>13 DEF Write, FileRun, FileFailure
  <2>2. pc' \notin {"evaluate", "write"}
    BY <1>13, AdvanceInGroup, AdvanceInPortfolio
       DEF Write, FileRun, FileFailure, GroupInv, PortfolioInv
  <2>3. \A k \in Keys : Completed(k)' =>
            \/ Completed(k) /\ raw'[k] = raw[k]
            \/ k = Key /\ raw'[k] = verdict /\ verdict \in Receipts
    BY <1>1, <2>1 DEF Completed
  <2>4. ~seeded /\ verdict \in Receipts =>
            Sidecar \in bound /\ Sidecar.key = Key /\ Sidecar.receipt = verdict
    BY <1>1, <2>1 DEF BoundInv, VerdictInv, Sidecar
  <2>5. ~seeded => CompletedIsBound'
    BY <1>1, <2>1, <2>3, <2>4 DEF BoundInv, CompletedIsBound
  <2> QED BY <1>1, <2>1, <2>2, <2>5 DEF BoundInv
<1> QED BY <1>3, <1>4, <1>5, <1>6, <1>7, <1>8, <1>9, <1>10, <1>11, <1>12, <1>13, StepKinds
        DEF WithinKey

LEMMA PoolKept ==
    ASSUME GroupInv, Next
    PROVE  PoolInv'
<1> USE DEF PoolInv, AfterLook, ToLaunch
<1>1. PoolInv
  BY DEF GroupInv
<1>2. CASE RunMatrix
  BY <1>2 DEF RunMatrix
<1>3. CASE \E k \in Keys, c \in {"one", "resume"} : RunOne(k, c)
  BY <1>3 DEF RunOne
<1>4. CASE PoolLook
  BY <1>1, <1>4 DEF PoolLook, PriorArm
<1>5. CASE BuyPool
  BY <1>1, <1>5 DEF BuyPool
<1>6. CASE PromotePool \/ PromoteSetup
  BY <1>1, <1>6 DEF PromotePool, PromoteSetup, Promote, Pair
<1>7. CASE PublishMetrics \/ SealMetrics
  BY <1>7 DEF PublishMetrics, SealMetrics
<1>8. CASE LosePool \/ Crash
  BY <1>8 DEF LosePool, Crash
<1>9. CASE WithinKey
  BY <1>1, <1>9, WithinKeyEffect
<1>10. CASE RunPortfolio
  BY <1>10 DEF RunPortfolio
<1>11. CASE FailArm
  BY <1>1, <1>11, AdvanceInGroup DEF FailArm
<1>12. CASE Look
  BY <1>1, <1>12, LookEffect
<1>13. CASE Unlink
  BY <1>1, <1>13 DEF Unlink
<1>14. CASE Write
  BY <1>1, <1>14, AdvanceInGroup DEF Write
<1>15. CASE FileRun \/ FileFailure
  BY <1>1, <1>15, AdvanceInPortfolio DEF FileRun, FileFailure, GroupInv, PortfolioInv
<1> QED BY <1>2, <1>3, <1>4, <1>5, <1>6, <1>7, <1>8, <1>9, <1>10, <1>11, <1>12, <1>13, <1>14,
           <1>15, StepKinds DEF Elsewhere

LEMMA HomeKept ==
    ASSUME GroupInv, ~External, Next
    PROVE  ~External' /\ HomeInv'
<1> USE DEF HomeInv
<1>1. HomeInv
  BY DEF GroupInv
<1>2. CASE RunMatrix \/ \E k \in Keys, c \in {"one", "resume"} : RunOne(k, c)
  BY <1>1, <1>2 DEF RunMatrix, RunOne
<1>3. CASE PoolLook \/ BuyPool
  BY <1>1, <1>3 DEF PoolLook, BuyPool
<1>4. CASE PromotePool \/ PromoteSetup
  BY <1>1, <1>4 DEF PromotePool, PromoteSetup, Promote
<1>5. CASE PublishMetrics \/ SealMetrics
  BY <1>1, <1>5 DEF PublishMetrics, SealMetrics
<1>6. CASE LosePool \/ Crash
  BY <1>1, <1>6 DEF LosePool, Crash
<1>7. CASE WithinKey
  BY <1>1, <1>7, WithinKeyEffect DEF AfterLook, ToLaunch
<1>8. CASE RunPortfolio \/ FileRun \/ FileFailure
  BY <1>8 DEF RunPortfolio, FileRun, FileFailure
<1>9. CASE FailArm \/ Write
  BY <1>1, <1>9, AdvanceInGroup DEF FailArm, Write
<1>10. CASE Look
  BY <1>1, <1>10, LookEffect
<1>11. CASE Unlink
  BY <1>1, <1>11 DEF Unlink
<1> QED BY <1>2, <1>3, <1>4, <1>5, <1>6, <1>7, <1>8, <1>9, <1>10, <1>11, StepKinds DEF Elsewhere

\* What a portfolio never does.
LEMMA PortfolioOnly ==
    ASSUME GroupInv, External, Next
    PROVE  RunPortfolio \/ StagePortfolio \/ Launch \/ Bind \/ EvaluatePortfolio \/ Retire
           \/ FileRun \/ FileFailure \/ PublishMetrics \/ SealMetrics \/ LosePool \/ Crash
<1>1. ~(RunMatrix \/ (\E k \in Keys, c \in {"one", "resume"} : RunOne(k, c)))
  BY DEF RunMatrix, RunOne
<1>2. ~(PoolLook \/ BuyPool \/ PromotePool \/ PromoteSetup \/ FailArm \/ Look)
  BY DEF PoolLook, BuyPool, PromotePool, PromoteSetup, Promote, FailArm, Look, GroupInv, PoolInv
<1>3. ~(StageCheckpoint \/ StageRequest \/ Evaluate \/ Write)
  BY DEF StageCheckpoint, StageRequest, Evaluate, Write, GroupInv, PortfolioInv, AfterLook, ToLaunch
<1>4. ~Unlink
  <2>1. SUFFICES ASSUME pc = "write" PROVE raw[Key] # "failed"
    BY DEF Unlink
  <2>2. WalkedTo(at) /\ at \in 1..Len(Order)
    BY <2>1 DEF GroupInv, GroupTypeOK, PortfolioInv, AfterLook
  <2> QED BY <2>2, Constants DEF WalkedTo, Key
<1> QED BY <1>1, <1>2, <1>3, <1>4 DEF Next, Step

LEMMA PortfolioKept ==
    ASSUME GroupInv, External, Next
    PROVE  External' /\ PortfolioInv' /\ SealedMetricsAreWhole'
<1> USE Constants
<1>1. /\ PortfolioInv /\ GroupTypeOK /\ at \in 1..Len(Order) /\ Key \in Keys
      /\ launches \in [Keys -> Nat] /\ raw \in [Keys -> Records] /\ summary \in [Keys -> Records]
      /\ commands \in Nat /\ SealedMetricsAreWhole
  BY KeyType DEF GroupInv, GroupTypeOK
<1>2. protocol' = protocol
  BY PortfolioOnly DEF RunPortfolio, StagePortfolio, Launch, Bind, EvaluatePortfolio, Retire, FileRun,
     FileFailure, PublishMetrics, SealMetrics, LosePool, Crash
<1>3. CASE RunPortfolio
  <2>1. /\ pc' = "stage" /\ cmd' = "matrix" /\ at' = 1 /\ commands' # 0
        /\ published = Unpublished /\ UNCHANGED <<raw, launches, published, summary>>
        /\ \A k \in Keys : raw[k] = None /\ launches[k] = 0
    BY <1>1, <1>3 DEF RunPortfolio, PortfolioInv
  <2>2. \A j \in 1..Len(Order) : WalkedTo(j)'
    BY <2>1 DEF WalkedTo
  <2>3. ~published.sealed
    BY <2>1 DEF Unpublished
  <2> QED BY <1>1, <1>2, <2>1, <2>2, <2>3
          DEF PortfolioInv, SealedMetricsAreWhole, AfterLook, ToLaunch
<1>4. CASE StagePortfolio \/ Bind \/ EvaluatePortfolio \/ Retire
  <2>1. /\ pc \in AfterLook /\ pc' \in AfterLook \ {"checkpoint"} /\ (pc' \in ToLaunch => pc \in ToLaunch)
        /\ UNCHANGED <<raw, launches, published, summary, cmd, at, commands>>
    BY <1>4 DEF StagePortfolio, Bind, EvaluatePortfolio, Rejected, Retire, AfterLook, ToLaunch
  <2>2. \A j \in 1..Len(Order) : WalkedTo(j)'
    BY <1>1, <2>1 DEF WalkedTo, PortfolioInv
  <2> QED BY <1>1, <1>2, <2>1, <2>2 DEF PortfolioInv, SealedMetricsAreWhole, AfterLook, ToLaunch
<1>5. CASE Launch
  <2>1. /\ pc = "launch" /\ pc' \in AfterLook \ ToLaunch
        /\ launches' = [launches EXCEPT ![Key] = @ + 1]
        /\ UNCHANGED <<raw, published, summary, cmd, at, commands>>
    BY <1>5 DEF Launch, AfterLook, ToLaunch
  <2>2. launches[Key] = 0
    BY <1>1, <2>1 DEF PortfolioInv, WalkedTo, AfterLook, ToLaunch, Key
  <2>3. \A j \in 1..Len(Order) : WalkedTo(j)'
    <3>1. SUFFICES ASSUME NEW j \in 1..Len(Order) PROVE WalkedTo(j)'
      OBVIOUS
    <3>2. WalkedTo(j) /\ (j > at => Order[j] # Key)
      BY <1>1, <2>1, OrderOnce DEF PortfolioInv, AfterLook, ToLaunch, Key
    <3> QED BY <1>1, <2>1, <3>2 DEF WalkedTo
  <2>4. \A k \in Keys : launches'[k] <= 1
    BY <1>1, <2>1, <2>2 DEF PortfolioInv
  <2> QED BY <1>1, <1>2, <2>1, <2>3, <2>4 DEF PortfolioInv, SealedMetricsAreWhole, AfterLook, ToLaunch
<1>6. CASE FileRun \/ FileFailure
  <2>1. /\ pc = "write" /\ Advance /\ UNCHANGED <<launches, published, commands>>
        /\ \E v \in Records \ {None} : /\ raw' = [raw EXCEPT ![Key] = v]
                                       /\ summary' = [summary EXCEPT ![Key] = v]
    BY <1>6 DEF FileRun, FileFailure, Records
  <2>2. cmd = "matrix" /\ commands # 0 /\ ~published.sealed
    BY <1>1, <2>1 DEF PortfolioInv
  <2>3. ASSUME NEW j \in 1..Len(Order)
        PROVE  /\ j <= at => raw'[Order[j]] # None /\ summary'[Order[j]] = raw'[Order[j]]
               /\ j > at => raw'[Order[j]] = None /\ launches'[Order[j]] = 0
    <3>1. WalkedTo(j) /\ Order[j] \in Keys /\ (j # at => Order[j] # Key)
      BY <1>1, <2>1, OrderOnce DEF PortfolioInv, AfterLook, ToLaunch, Key
    <3>2. CASE j = at
      BY <1>1, <2>1, <3>2 DEF Key
    <3>3. CASE j # at
      <4>1. raw'[Order[j]] = raw[Order[j]] /\ summary'[Order[j]] = summary[Order[j]]
        BY <1>1, <2>1, <3>1, <3>3
      <4> QED BY <1>1, <2>1, <3>1, <3>3, <4>1 DEF WalkedTo
    <3> QED BY <3>2, <3>3
  <2>4. CASE at < Len(Order) /\ at' = at + 1 /\ pc' = "stage" /\ cmd' = cmd
    <3>1. \A j \in 1..Len(Order) : WalkedTo(j)'
      BY <1>1, <2>3, <2>4 DEF WalkedTo
    <3> QED BY <1>1, <1>2, <2>1, <2>2, <2>4, <3>1
            DEF PortfolioInv, SealedMetricsAreWhole, AfterLook, ToLaunch
  <2>5. CASE ~(at < Len(Order)) /\ pc' = "metrics" /\ UNCHANGED <<cmd, at>>
    <3>1. \A k \in Keys : raw'[k] # None /\ summary'[k] = raw'[k]
      BY <1>1, <2>3, <2>5 DEF Keys
    <3> QED BY <1>1, <1>2, <2>1, <2>2, <2>5, <3>1
            DEF PortfolioInv, SealedMetricsAreWhole, AfterLook, ToLaunch
  <2> QED BY <2>1, <2>2, <2>4, <2>5, AdvanceInPortfolio
<1>7. CASE PublishMetrics
  <2>1. /\ pc = "metrics" /\ pc' = "seal" /\ UNCHANGED <<raw, summary, launches, commands, cmd>>
        /\ published' = [published EXCEPT !.of = summary, !.out = TRUE]
    BY <1>7 DEF PublishMetrics
  <2>2. ~published.sealed /\ commands # 0
    BY <1>1, <2>1 DEF PortfolioInv
  <2>3. /\ published' \in Publication /\ published'.of = summary /\ published'.out
        /\ published'.sealed = published.sealed
    BY <1>1, <2>1 DEF PortfolioInv, Publication
  <2> QED BY <1>1, <1>2, <2>1, <2>2, <2>3 DEF PortfolioInv, SealedMetricsAreWhole, AfterLook, ToLaunch
<1>8. CASE SealMetrics
  <2>1. /\ pc = "seal" /\ pc' = "idle" /\ UNCHANGED <<raw, summary, launches, commands>>
        /\ published' = [published EXCEPT !.sealed = TRUE]
    BY <1>8 DEF SealMetrics
  <2>2. /\ published' \in Publication /\ published'.of = published.of
        /\ published'.out = published.out /\ published'.sealed
    BY <1>1, <2>1 DEF PortfolioInv, Publication
  <2> QED BY <1>1, <1>2, <2>1, <2>2 DEF PortfolioInv, SealedMetricsAreWhole, AfterLook, ToLaunch
<1>9. CASE LosePool \/ Crash
  <2>1. /\ pc' = "idle" /\ UNCHANGED <<raw, launches, published, commands>>
        /\ pc = "idle" \/ commands # 0
    BY <1>1, <1>9 DEF LosePool, Crash, PortfolioInv
  <2> QED BY <1>1, <1>2, <2>1 DEF PortfolioInv, SealedMetricsAreWhole, AfterLook, ToLaunch
<1> QED BY <1>3, <1>4, <1>5, <1>6, <1>7, <1>8, <1>9, PortfolioOnly

\* Only a command that dies leaves anything behind.
LEMMA TornLess ==
    ASSUME Next, ~Crash
    PROVE  torn' \subseteq torn
<1>1. CASE RunMatrix \/ RunPortfolio \/ \E k \in Keys, c \in {"one", "resume"} : RunOne(k, c)
  BY <1>1 DEF RunMatrix, RunPortfolio, RunOne
<1>2. CASE PoolLook \/ BuyPool \/ PromotePool \/ PromoteSetup \/ FailArm \/ LosePool
  BY <1>2 DEF PoolLook, BuyPool, PromotePool, PromoteSetup, Promote, FailArm, LosePool, Swept
<1>3. CASE Look \/ StageCheckpoint \/ StageRequest \/ Launch \/ Bind
  BY <1>3 DEF Look, StageCheckpoint, StageRequest, Launch, Bind, Swept
<1>4. CASE Evaluate \/ Retire \/ Unlink \/ Write
  BY <1>4 DEF Evaluate, Retire, Unlink, Write, Swept
<1>5. CASE StagePortfolio \/ EvaluatePortfolio \/ FileRun \/ FileFailure \/ PublishMetrics \/ SealMetrics
  BY <1>5 DEF StagePortfolio, EvaluatePortfolio, FileRun, FileFailure, PublishMetrics, SealMetrics
<1> QED BY <1>1, <1>2, <1>3, <1>4, <1>5 DEF Next, Step

LEMMA PaidTypes ==
    ASSUME GroupTypeOK, NEW k \in Keys
    PROVE  launches[k] \in Nat /\ Granted(k) \in Nat /\ Lost(k) \in {0, 1}
BY DEF GroupTypeOK, Granted, Lost

\* A step that launches and records nothing for a key keeps its account.
LEMMA PaidFrame ==
    ASSUME GroupTypeOK, NEW k \in Keys, PaidInv(k), torn' \subseteq torn,
           launches'[k] = launches[k], Granted(k)' = Granted(k), raw'[k] = raw[k],
           ~Recorded(k)' \/ (k = Key' /\ AboutToLaunch') => ~Recorded(k) \/ (k = Key /\ AboutToLaunch)
    PROVE  PaidInv(k)'
<1>1. Lost(k)' \in Nat /\ Lost(k) \in Nat /\ Lost(k)' <= Lost(k)
  BY DEF Lost
<1>2. launches[k] \in Nat /\ Granted(k) \in Nat
  BY PaidTypes
<1> QED BY <1>1, <1>2 DEF PaidInv

LEMMA PaidKept ==
    ASSUME GroupInv, ~External, Next, NEW k \in Keys
    PROVE  PaidInv(k)'
<1> USE Constants
<1>1. /\ GroupTypeOK /\ WorkInv /\ PoolInv /\ PaidInv(k) /\ Key \in Keys
      /\ raw \in [Keys -> Records] /\ launches \in [Keys -> Nat] /\ asked \in [Keys -> Nat]
      /\ crashes \in Nat /\ launches[k] \in Nat /\ Granted(k) \in Nat /\ Lost(k) \in {0, 1}
  BY KeyType, PaidTypes DEF GroupInv, GroupTypeOK
<1>2. ~Crash => torn' \subseteq torn
  BY TornLess
<1>3. CASE RunMatrix \/ PoolLook \/ BuyPool \/ PromotePool \/ PromoteSetup \/ LosePool
  <2>1. /\ UNCHANGED <<raw, launches, asked, crashes>> /\ ~Crash
        /\ pc \notin AfterLook /\ pc' \notin AfterLook /\ ~AboutToLaunch'
    BY <1>1, <1>3 DEF RunMatrix, PoolLook, BuyPool, PromotePool, PromoteSetup, Promote, LosePool,
       Crash, PoolInv, AboutToLaunch, AfterLook, ToLaunch
  <2> QED BY <1>1, <1>2, <2>1, PaidFrame DEF Granted, Recorded
<1>4. CASE \E j \in Keys, c \in {"one", "resume"} : RunOne(j, c)
  <2>1. PICK j \in Keys, c \in {"one", "resume"} : RunOne(j, c)
    BY <1>4
  <2>2. /\ UNCHANGED <<raw, launches, crashes, torn>> /\ pc = "idle" /\ pc' = "look" /\ Key' = j /\ cmd' = c
    BY <2>1, ChosenPlace DEF RunOne, Key
  <2>3. asked' = [asked EXCEPT ![j] = @ + IF c = "resume" THEN 1 ELSE 0]
    BY <2>1 DEF RunOne
  <2>4. CASE k = j /\ c = "resume"
    <3>1. Granted(k)' = Granted(k) + 1 /\ Lost(k)' = Lost(k)
      BY <1>1, <2>2, <2>3, <2>4 DEF Granted, Lost
    <3> QED BY <1>1, <2>2, <3>1 DEF PaidInv
  <2>5. CASE ~(k = j /\ c = "resume")
    <3>1. Granted(k)' = Granted(k) /\ ~(k = Key' /\ AboutToLaunch')
      BY <1>1, <2>2, <2>3, <2>5 DEF Granted, AboutToLaunch, ToLaunch
    <3>2. Recorded(k) <=> Recorded(k)'
      BY <2>2 DEF Recorded, AfterLook, ToLaunch
    <3> QED BY <1>1, <2>2, <3>1, <3>2, PaidFrame
  <2> QED BY <2>4, <2>5
<1>5. CASE WithinKey /\ ~Launch
  <2>1. launches' = launches /\ (pc' \in ToLaunch => pc \in ToLaunch)
        /\ (pc \in AfterLook \ ToLaunch => pc' \in AfterLook \ ToLaunch) /\ ~Crash
    BY <1>1, <1>5 DEF WithinKey, StageCheckpoint, StageRequest, Bind, Evaluate, Rejected, Retire,
       StagePortfolio, EvaluatePortfolio, Crash, AfterLook, ToLaunch
  <2>2. UNCHANGED <<raw, at, cmd, asked, crashes>> /\ pc \in AfterLook /\ pc' \in AfterLook
    BY <1>5, WithinKeyEffect
  <2>3. Granted(k)' = Granted(k) /\ Key' = Key
    BY <2>2 DEF Granted, Key
  <2> QED BY <1>1, <1>2, <2>1, <2>2, <2>3, PaidFrame DEF Recorded, AboutToLaunch, AfterLook, ToLaunch
<1>6. CASE Launch
  <2>1. /\ pc = "launch" /\ pc' \in {"bind", "write"} /\ launches' = [launches EXCEPT ![Key] = @ + 1]
        /\ UNCHANGED <<raw, at, torn, asked, crashes>>
    BY <1>6 DEF Launch
  <2>2. Granted(k)' = Granted(k) /\ Key' = Key /\ Lost(k)' = Lost(k)
    BY <2>1 DEF Granted, Key, Lost
  <2>3. ~AboutToLaunch' /\ Recorded(Key)'
    BY <2>1, <2>2 DEF AboutToLaunch, Recorded, AfterLook, ToLaunch
  <2>4. CASE k = Key
    BY <1>1, <2>1, <2>2, <2>3, <2>4 DEF PaidInv, AboutToLaunch, ToLaunch
  <2>5. CASE k # Key
    <3>1. launches'[k] = launches[k] /\ (Recorded(k) <=> Recorded(k)')
      BY <1>1, <2>1, <2>2, <2>5 DEF Recorded
    <3> QED BY <1>1, <2>1, <2>2, <2>3, <3>1, PaidFrame
  <2> QED BY <2>4, <2>5
<1>7. CASE Look
  <2>1. /\ pc = "look" /\ UNCHANGED <<raw, launches, asked, crashes, torn>>
        /\ \/ pc' = "idle" \/ (pc' = "look" /\ cmd' = "matrix")
           \/ /\ pc' \in {"checkpoint", "stage", "write"} /\ ~Completed(Key) /\ Key' = Key
              /\ raw[Key] = "failed" => cmd = "resume"
    BY <1>7, LookEffect DEF Key
  <2>2. ~Recorded(k)' => ~Recorded(k)
    BY <2>1 DEF Recorded, AfterLook, ToLaunch
  <2>3. k = Key' /\ AboutToLaunch' => ~Recorded(k) \/ (k = Key /\ AboutToLaunch)
    BY <1>1, <2>1 DEF AboutToLaunch, Recorded, Completed, Records, AfterLook, ToLaunch
  <2> QED BY <1>1, <2>1, <2>2, <2>3, PaidFrame DEF Granted
<1>8. CASE Unlink
  <2>1. /\ pc = "write" /\ pc' = "write" /\ raw' = [raw EXCEPT ![Key] = None] /\ Key' = Key
        /\ UNCHANGED <<launches, asked, crashes, torn, cmd>>
    BY <1>8 DEF Unlink, Key
  <2>2. Recorded(k)' <=> Recorded(k)
    BY <1>1, <2>1 DEF Recorded, AfterLook, ToLaunch
  <2>3. Granted(k)' = Granted(k) /\ Lost(k)' = Lost(k) /\ (raw'[k] # None => raw[k] # None)
        /\ ~AboutToLaunch'
    BY <1>1, <2>1 DEF Granted, Lost, AboutToLaunch, ToLaunch
  <2> QED BY <1>1, <2>1, <2>2, <2>3 DEF PaidInv
<1>9. CASE Write
  <2>1. /\ pc = "write" /\ raw[Key] = None /\ pc' \notin AfterLook /\ ~AboutToLaunch'
        /\ UNCHANGED <<launches, asked, crashes>> /\ torn' = torn \ {ThisRaw}
    BY <1>1, <1>9, AdvanceInGroup DEF Write, WorkInv, Completed, Records, Swept, AboutToLaunch,
       AfterLook, ToLaunch
  <2>2. Granted(k)' = Granted(k)
    BY <2>1 DEF Granted
  <2>3. CASE k = Key
    <3>1. <<"raw", k, None>> \notin torn' /\ Lost(k)' = 0
      BY <2>1, <2>3 DEF ThisRaw, Lost
    <3>2. CASE ThisRaw \in torn
      <4>1. Lost(k) = 1
        BY <2>3, <3>2 DEF Lost, ThisRaw
      <4> QED BY <1>1, <2>1, <2>2, <3>1, <4>1 DEF PaidInv
    <3>3. CASE ThisRaw \notin torn
      <4>1. raw'[k] # None
        BY <1>1, <1>9, <2>1, <2>3, <3>3 DEF Write, Blocked, Completed
      <4> QED BY <1>1, <2>1, <2>2, <3>1, <4>1 DEF PaidInv, Recorded
    <3> QED BY <3>2, <3>3
  <2>4. CASE k # Key
    <3>1. raw'[k] = raw[k]
      BY <1>1, <1>9, <2>4 DEF Write
    <3> QED BY <1>1, <1>2, <2>1, <2>2, <2>4, <3>1, PaidFrame DEF Recorded
  <2> QED BY <2>3, <2>4
<1>10. CASE FailArm
  <2>1. /\ pc = "nopool" /\ pc' \notin AfterLook /\ ~AboutToLaunch'
        /\ UNCHANGED <<launches, asked, crashes>> /\ torn' \subseteq torn
    BY <1>10, AdvanceInGroup DEF FailArm, Swept, AboutToLaunch, AfterLook, ToLaunch
  <2>2. Granted(k)' = Granted(k)
    BY <2>1 DEF Granted
  <2>3. CASE raw'[k] = raw[k]
    BY <1>1, <2>1, <2>2, <2>3, PaidFrame DEF Recorded, AfterLook, ToLaunch
  <2>4. CASE raw'[k] # raw[k]
    <3>1. k = Key /\ raw[k] = None /\ raw'[k] = "failed"
      BY <1>1, <1>10, <2>4 DEF FailArm
    <3>2. ArmFile = ThisRaw /\ ~ArmIsFiled
      BY <1>1, <3>1 DEF ArmFile, ArmIsFiled, WorkInv, Completed
    <3>3. <<"raw", k, None>> \notin torn'
      BY <1>10, <3>1, <3>2 DEF FailArm, Swept, ThisRaw
    <3>4. Lost(k)' = 0
      BY <3>3 DEF Lost
    <3> QED BY <1>1, <2>1, <2>2, <3>1, <3>3, <3>4 DEF PaidInv, Recorded
  <2> QED BY <2>3, <2>4
<1>11. CASE Crash
  <2>1. /\ pc' = "idle" /\ crashes' = crashes + 1 /\ UNCHANGED <<raw, launches, asked>>
        /\ torn' \subseteq torn \cup Writing
    BY <1>11 DEF Crash
  <2>2. Granted(k)' = Granted(k) + 2 /\ Lost(k)' \in {0, 1}
    BY <1>1, <2>1 DEF Granted, Lost
  <2>3. <<"raw", k, None>> \in Writing => raw[k] = None
    <3>1. \A j : <<"raw", k, None>> = <<"raw", j, None>> => k = j
      OBVIOUS
    <3>2. /\ Writing \subseteq {PoolRequest, PoolFile, SetupFile, ThisCheckpoint, ThisRequest, ThisSidecar,
                                <<"audit", Key, None>>, ThisRaw}
          /\ ThisRaw \in Writing => raw[Key] = None
      BY <1>1 DEF Writing, ArmFile, ArmIsFiled, Completed, Records, PoolRequest, PoolFile, SetupFile,
         ThisCheckpoint, ThisRequest, ThisSidecar, ThisRaw
    <3> QED BY <3>1, <3>2 DEF PoolRequest, PoolFile, SetupFile, ThisCheckpoint, ThisRequest,
               ThisSidecar, ThisRaw
  <2> QED BY <1>1, <2>1, <2>2, <2>3 DEF PaidInv, Recorded, AboutToLaunch, AfterLook, ToLaunch
<1>12. CASE RunPortfolio \/ FileRun \/ FileFailure
  BY <1>12 DEF RunPortfolio, FileRun, FileFailure
<1>13. CASE PublishMetrics \/ SealMetrics
  BY <1>13 DEF PublishMetrics, SealMetrics, GroupInv, HomeInv
<1> QED BY <1>3, <1>4, <1>5, <1>6, <1>7, <1>8, <1>9, <1>10, <1>11, <1>12, <1>13, StepKinds
        DEF Elsewhere

LEMMA GroupKept ==
    ASSUME GroupInv, Next
    PROVE  GroupInv'
<1>1. GroupTypeOK' /\ WorkInv' /\ BoundInv' /\ VerdictInv' /\ PoolInv'
  BY TypeKept, WorkKept, BoundKept, VerdictKept, PoolKept DEF GroupInv
<1>2. CASE External
  BY <1>1, <1>2, PortfolioKept DEF GroupInv
<1>3. CASE ~External
  <2>1. ~External' /\ HomeInv' /\ \A k \in Keys : PaidInv(k)'
    BY <1>3, HomeKept, PaidKept
  <2>2. SealedMetricsAreWhole'
    BY <2>1 DEF HomeInv, Unpublished, SealedMetricsAreWhole
  <2> QED BY <1>1, <2>1, <2>2 DEF GroupInv
<1> QED BY <1>2, <1>3

\* What is done beside the group may leave half a report behind.
Beside ==
    UNCHANGED <<setting, pc, cmd, at, got, verdict, raw, request, bound, ckpt, staged, pool, audit,
                summary, published, launches, asked, poolPaid, faults, commands>>

LEMMA BesideKept ==
    ASSUME GroupInv, Beside, crashes' \in Nat, crashes' >= crashes,
           \A k \in Keys : <<"raw", k, None>> \in torn' => <<"raw", k, None>> \in torn
    PROVE  GroupInv'
<1>0. GroupTypeOK'
  BY DEF Beside, GroupInv, GroupTypeOK
<1>1. WorkInv' /\ VerdictInv' /\ SealedMetricsAreWhole'
  BY DEF Beside, GroupInv, WorkInv, VerdictInv, SealedMetricsAreWhole, Key, Completed
<1>2. BoundInv'
  BY DEF Beside, GroupInv, BoundInv, CompletedIsBound, Completed, Sidecar, Key, How
<1>3. PoolInv' /\ (External <=> External')
  BY DEF Beside, GroupInv, PoolInv, PriorArm
<1>4. External => PortfolioInv'
  BY DEF Beside, GroupInv, PortfolioInv, WalkedTo
<1>5. ~External => HomeInv'
  BY DEF Beside, GroupInv, HomeInv
<1>6. ASSUME ~External, NEW k \in Keys
      PROVE  PaidInv(k)'
  <2>1. PaidInv(k) /\ launches[k] \in Nat /\ asked[k] \in Nat /\ crashes \in Nat
    BY <1>6 DEF GroupInv, GroupTypeOK
  <2>2. Lost(k)' <= Lost(k) /\ Lost(k) \in {0, 1} /\ Lost(k)' \in {0, 1}
    BY <1>6 DEF Lost
  <2>3. Granted(k)' >= Granted(k) /\ Granted(k)' \in Nat /\ Granted(k) \in Nat
    BY <2>1 DEF Granted, Beside
  <2>4. (Recorded(k)' <=> Recorded(k)) /\ (AboutToLaunch' <=> AboutToLaunch) /\ Key' = Key
    BY DEF Beside, Recorded, AboutToLaunch, Key
  <2> QED BY <1>6, <2>1, <2>2, <2>3, <2>4 DEF PaidInv, Beside
<1> QED BY <1>0, <1>1, <1>2, <1>3, <1>4, <1>5, <1>6 DEF GroupInv

LEMMA GroupBegins ==
    ASSUME Init
    PROVE  GroupInv
<1> USE Constants DEF Init
<1>1. launches = [k \in Keys |-> 0] /\ asked = launches /\ staged = launches /\ ckpt = launches
  OBVIOUS
<1>2. GroupTypeOK
  BY <1>1 DEF GroupTypeOK, Places, Records
<1>3. WorkInv /\ VerdictInv /\ PoolInv
  BY DEF WorkInv, VerdictInv, PoolInv, AfterLook, ToLaunch
<1>4. BoundInv
  BY DEF BoundInv, CompletedIsBound, Completed
<1>5. PortfolioInv
  <2>1. published \in Publication /\ ~published.sealed
    BY DEF Unpublished, Publication
  <2> QED BY <1>1, <2>1 DEF PortfolioInv, AfterLook, ToLaunch
<1>6. HomeInv
  BY DEF HomeInv
<1>7. \A k \in Keys : PaidInv(k)
  BY <1>1 DEF PaidInv, Lost, Granted, Recorded, AboutToLaunch, ToLaunch, AfterLook
<1>8. SealedMetricsAreWhole
  BY DEF SealedMetricsAreWhole, Unpublished
<1> QED BY <1>2, <1>3, <1>4, <1>5, <1>6, <1>7, <1>8 DEF GroupInv

-----------------------------------------------------------------------------
(* What a step of the group may do to its records and its pool. *)

\* Where an agent is launched, and what changes a record.
LEMMA LaunchEffect ==
    ASSUME GroupInv, Next, launches' # launches
    PROVE  /\ pc = "launch" /\ Key \in Keys /\ launches' = [launches EXCEPT ![Key] = @ + 1]
           /\ raw' = raw /\ pool' = pool /\ protocol' = protocol
<1>1. CASE Elsewhere
  BY <1>1, ElsewhereEffect
<1>2. CASE Launch
  BY <1>2, KeyType DEF Launch, GroupInv, GroupTypeOK
<1>3. CASE WithinKey /\ ~Launch
  BY <1>3 DEF WithinKey, StageCheckpoint, StageRequest, Bind, Evaluate, Rejected, Retire,
     StagePortfolio, EvaluatePortfolio
<1>4. CASE RunPortfolio \/ FailArm
  BY <1>4 DEF RunPortfolio, FailArm
<1>5. CASE Look
  BY <1>5, LookEffect
<1>6. CASE Unlink \/ Write \/ FileRun \/ FileFailure
  BY <1>6 DEF Unlink, Write, FileRun, FileFailure
<1> QED BY <1>1, <1>2, <1>3, <1>4, <1>5, <1>6, StepKinds

LEMMA RecordEffect ==
    ASSUME GroupInv, Next, NEW k \in Keys, raw'[k] # raw[k]
    PROVE  k = Key /\ (pc \in AfterLook \/ raw[k] = None)
<1>1. raw \in [Keys -> Records] /\ Key \in Keys
  BY KeyType DEF GroupInv, GroupTypeOK
<1>2. CASE Elsewhere
  BY <1>2, ElsewhereEffect
<1>3. CASE WithinKey
  BY <1>3, WithinKeyEffect
<1>4. CASE RunPortfolio
  BY <1>4 DEF RunPortfolio
<1>5. CASE FailArm
  BY <1>1, <1>5 DEF FailArm
<1>6. CASE Look
  BY <1>6, LookEffect
<1>7. CASE Unlink \/ Write \/ FileRun \/ FileFailure
  BY <1>1, <1>7 DEF Unlink, Write, FileRun, FileFailure, AfterLook
<1> QED BY <1>2, <1>3, <1>4, <1>5, <1>6, <1>7, StepKinds

LEMMA CompletedKeeps ==
    ASSUME GroupInv, Next, NEW k \in Keys, Completed(k)
    PROVE  raw'[k] = raw[k] /\ launches'[k] = launches[k]
<1>1. pc \in AfterLook => k # Key
  BY DEF GroupInv, WorkInv
<1>2. raw'[k] = raw[k]
  BY <1>1, RecordEffect, Constants DEF Completed
<1>3. launches'[k] = launches[k]
  BY <1>1, LaunchEffect DEF AfterLook, ToLaunch, GroupInv, GroupTypeOK
<1> QED BY <1>2, <1>3

LEMMA FailureKeeps ==
    ASSUME GroupInv, Next, NEW k \in Keys, raw[k] = "failed",
           raw'[k] # raw[k] \/ launches'[k] # launches[k]
    PROVE  cmd = "resume" /\ Key = k
<1>1. Key = k /\ pc \in AfterLook
  BY RecordEffect, LaunchEffect, Constants DEF AfterLook, ToLaunch, GroupInv, GroupTypeOK
<1> QED BY <1>1 DEF GroupInv, WorkInv

LEMMA PoolBuying ==
    ASSUME GroupInv, Next, poolPaid' # poolPaid
    PROVE  ~PriorArm
<1>1. BuyPool
  <2>1. CASE RunMatrix \/ RunPortfolio \/ \E k \in Keys, c \in {"one", "resume"} : RunOne(k, c)
    BY <2>1 DEF RunMatrix, RunPortfolio, RunOne
  <2>2. CASE PoolLook \/ PromotePool \/ PromoteSetup \/ FailArm
    BY <2>2 DEF PoolLook, PromotePool, PromoteSetup, Promote, FailArm
  <2>3. CASE WithinKey
    BY <2>3, WithinKeyEffect
  <2>4. CASE Look
    BY <2>4, LookEffect
  <2>5. CASE Unlink \/ Write \/ FileRun \/ FileFailure
    BY <2>5 DEF Unlink, Write, FileRun, FileFailure
  <2>6. CASE PublishMetrics \/ SealMetrics \/ LosePool \/ Crash
    BY <2>6 DEF PublishMetrics, SealMetrics, LosePool, Crash
  <2> QED BY <2>1, <2>2, <2>3, <2>4, <2>5, <2>6, StepKinds DEF Elsewhere
<1> QED BY <1>1 DEF BuyPool, GroupInv, PoolInv

LEMMA PoolSharing ==
    ASSUME GroupInv, Next, NEW k \in Keys, protocol = "ranker", launches'[k] # launches[k]
    PROVE  pool = Pair
BY LaunchEffect DEF GroupInv, PoolInv, AfterLook, ToLaunch

-----------------------------------------------------------------------------
(* The commands that report on the group. *)

LEMMA Names ==
    /\ Len(Outputs) \in Nat /\ Outputs[1] \in OutputNames /\ Sampled \subseteq OutputNames
    /\ \A i \in 1..Len(Outputs) : Outputs[i] \in OutputNames
    /\ \A o \in OutputNames : \E i \in 1..Len(Outputs) : Outputs[i] = o
    /\ \A i \in 1..Len(Reference) : Reference[i] \in ReferenceNames
    /\ OutputNames \cap ReferenceNames = {}
<1>1. Len(Outputs) \in Nat /\ DOMAIN Outputs = 1..Len(Outputs)
  BY ReportAssumption
<1>2. \A i \in 1..Len(Outputs) : Outputs[i] \in OutputNames
  BY <1>1 DEF OutputNames, Range
<1>3. \A o \in OutputNames : \E i \in 1..Len(Outputs) : Outputs[i] = o
  BY <1>1 DEF OutputNames, Range
<1>4. \A i \in 1..Len(Reference) : Reference[i] \in ReferenceNames
  BY DEF ReferenceNames, Range, Reference
<1> QED BY <1>1, <1>2, <1>3, <1>4, ReportAssumption DEF OutputNames, ReferenceNames

\* A file made of the records of a group is not absent.
LEMMA RowsShow ==
    ASSUME raw \in [Keys -> Records]
    PROVE  raw # <<>> /\ \A o : o.rows = raw => o # Absent
<1>1. \E k \in Keys : k \in DOMAIN raw
  BY Constants
<1>2. raw # <<>>
  BY <1>1
<1> QED BY <1>2 DEF Absent

\* Commands of the group change no record that a report is made of.
LEMMA MeasuredStands ==
    ASSUME GroupInv, Next, ~External, Measured
    PROVE  ~External' /\ Measured' /\ raw' = raw
<1>1. \A k \in Keys : raw'[k] = raw[k]
  BY CompletedKeeps DEF Measured
<1>2. raw \in [Keys -> Records] /\ raw' \in [Keys -> Records]
  BY GroupKept DEF GroupInv, GroupTypeOK
<1> QED BY <1>1, <1>2, HomeKept DEF Measured, Completed

LEMMA GroupStep ==
    ASSUME ReportInv, Next, job = NoJob, UNCHANGED reportVars
    PROVE  ReportInv'
<1>1. GroupInv'
  BY GroupKept DEF ReportInv
<1>2. JobInv'
  BY DEF JobInv, reportVars, NoJob
<1>3. FilesInv'
  BY MeasuredStands DEF ReportInv, FilesInv, reportVars
<1>4. SealInv'
  BY DEF ReportInv, SealInv, SealHolds, reportVars
<1> QED BY <1>1, <1>2, <1>3, <1>4 DEF ReportInv

\* A report begins.
LEMMA ReportBegins ==
    ASSUME ReportInv, ScoreReference \/ \E n \in Resamples : Summarize(n)
    PROVE  ReportInv' /\ UNCHANGED vars
<1> USE DEF ReportInv
<1>1. /\ UNCHANGED <<vars, out, seal, page>> /\ pc = "idle" /\ ~External /\ Measured
      /\ job'.kind \in {"reference", "summary"} /\ job'.at = 1
      /\ job'.kind = "summary" => job'.rows = raw
  BY DEF ScoreReference, Summarize, Report, Summarizable, NoJob
<1>2. GroupInv'
  BY <1>1, BesideKept DEF Beside, vars, GroupInv, GroupTypeOK
<1>3. JobInv'
  BY <1>1 DEF JobInv, vars, Measured, Completed
<1>4. FilesInv' /\ SealInv'
  BY <1>1 DEF FilesInv, SealInv, SealHolds, vars, Measured, Completed
<1> QED BY <1>1, <1>2, <1>3, <1>4

LEMMA RenderKept ==
    ASSUME ReportInv, Render
    PROVE  ReportInv' /\ UNCHANGED vars
<1> USE DEF ReportInv
<1>1. /\ UNCHANGED <<vars, job, out, seal>> /\ SealHolds /\ page' = seal[Outputs[1]]
  BY Names DEF Render, SealHolds
<1>2. GroupInv'
  BY <1>1, BesideKept DEF Beside, vars, GroupInv, GroupTypeOK
<1>3. JobInv' /\ FilesInv'
  BY <1>1 DEF JobInv, FilesInv, Payload, vars, Measured, Completed
<1>4. SealInv'
  BY <1>1 DEF SealInv, SealHolds
<1> QED BY <1>1, <1>2, <1>3, <1>4

\* A job that writes, seals or dies changes nothing of the group but its
\* leftovers.
LEMMA JobBesideGroup ==
    ASSUME ReportInv, WriteFile \/ SealSummary \/ ReportDies
    PROVE  Beside /\ GroupInv'
<1>1. Beside
  BY DEF WriteFile, SealSummary, ReportDies, Unchanged, Beside
<1>2. crashes \in Nat /\ crashes' \in Nat /\ crashes' >= crashes
  BY DEF WriteFile, SealSummary, ReportDies, Unchanged, ReportInv, GroupInv, GroupTypeOK
<1>3. ASSUME NEW k \in Keys, <<"raw", k, None>> \in torn'
      PROVE  <<"raw", k, None>> \in torn
  <2>1. CASE WriteFile \/ SealSummary
    BY <1>3, <2>1 DEF WriteFile, SealSummary
  <2>2. CASE ReportDies
    <3>1. torn' \subseteq torn \cup ReportWriting
      BY <2>2 DEF ReportDies
    <3>2. <<"raw", k, None>> \notin ReportWriting
      BY DEF ReportWriting, File
    <3> QED BY <1>3, <3>1, <3>2
  <2> QED BY <2>1, <2>2
<1> QED BY <1>1, <1>2, <1>3, BesideKept DEF ReportInv

LEMMA WriteFileKept ==
    ASSUME ReportInv, WriteFile
    PROVE  ReportInv'
<1> USE DEF ReportInv
<1>1. /\ GroupInv' /\ raw' = raw /\ (External' <=> External) /\ (Measured' <=> Measured)
      /\ pc' = pc /\ seal' = seal /\ page' = page
  BY JobBesideGroup DEF Beside, Measured, Completed, WriteFile
<1>2. /\ job # NoJob /\ pc = "idle" /\ ~External /\ Measured
      /\ job.kind \in {"reference", "summary"} /\ job.at \in Nat \ {0} /\ job.at <= Len(Files)
      /\ job.kind = "summary" => job.rows = raw
  BY DEF WriteFile, JobInv, NoJob
<1>3. Len(Files) \in Nat /\ job.at \in 1..Len(Files)
  BY <1>2, Names DEF Files, Reference
<1>4. job.kind = "summary" => Name \in OutputNames /\ Payload(Name).rows = raw
  BY <1>2, <1>3, Names DEF Name, Files, Payload
<1>5. job.kind = "reference" => Name \in ReferenceNames
  BY <1>3, Names DEF Name, Files
<1>6. out' = out \/ (out[Name] = Absent /\ out' = [out EXCEPT ![Name] = Payload(Name)])
  BY DEF WriteFile
<1>7. DOMAIN out = OutputNames \cup ReferenceNames
  BY DEF FilesInv
<1>8. \A o \in OutputNames : out'[o] = out[o]
          \/ (o = Name /\ job.kind = "summary" /\ out[o] = Absent /\ out'[o] = Payload(o))
  BY <1>2, <1>4, <1>5, <1>6, <1>7, Names
<1>9. FilesInv'
  BY <1>1, <1>2, <1>4, <1>6, <1>7, <1>8 DEF FilesInv
<1>10. SealInv'
  BY <1>1, <1>8, Names DEF SealInv, SealHolds
<1>11. JobInv'
  <2>1. CASE job' = NoJob
    BY <2>1 DEF JobInv, NoJob
  <2>2. CASE job' = AfterFile /\ job.kind = "reference"
    <3>1. job' = NoJob \/ (job'.kind = "reference" /\ job'.at = job.at + 1)
      BY <1>2, <2>2 DEF AfterFile
    <3> QED BY <1>1, <1>2, <2>1, <3>1 DEF JobInv
  <2>3. CASE job' = AfterFile /\ job.kind = "summary" /\ out'[Name] = Payload(Name)
    <3>1. job' = [job EXCEPT !.at = @ + 1]
      BY <2>3 DEF AfterFile
    <3>2. job'.kind = job.kind /\ job'.rows = job.rows /\ job'.n = job.n /\ job'.at = job.at + 1
      BY <3>1
    <3>3. \A o : Payload(o)' = Payload(o)
      BY <3>2 DEF Payload
    <3>4. ASSUME NEW i \in 1..Len(Outputs), i < job'.at
          PROVE  out'[Outputs[i]] = Payload(Outputs[i])'
      <4>1. CASE i < job.at
        <5>1. out[Outputs[i]] = Payload(Outputs[i])
          BY <1>2, <2>3, <4>1 DEF JobInv
        <5>2. out[Outputs[i]] # Absent
          BY <1>2, <2>3, <5>1, RowsShow DEF GroupInv, GroupTypeOK, Payload
        <5> QED BY <1>8, <3>3, <5>1, <5>2, Names
      <4>2. CASE i = job.at
        BY <2>3, <3>3, <4>2 DEF Name, Files
      <4> QED BY <1>2, <3>2, <3>4, <4>1, <4>2
    <3> QED BY <1>1, <1>2, <2>3, <3>2, <3>4 DEF JobInv
  <2>4. job' = NoJob \/ (job' = AfterFile /\ out'[Name] = Payload(Name))
    <3>1. Name \in DOMAIN out
      BY <1>2, <1>4, <1>5, <1>7
    <3> QED BY <3>1 DEF WriteFile
  <2> QED BY <1>2, <2>1, <2>2, <2>3, <2>4
<1> QED BY <1>1, <1>9, <1>10, <1>11

\* The manifest takes up files that this summary wrote, or found as it would
\* write them.
LEMMA SealSummaryKept ==
    ASSUME ReportInv, SealSummary
    PROVE  ReportInv'
<1> USE DEF ReportInv
<1>1. /\ GroupInv' /\ raw' = raw /\ (External' <=> External) /\ (Measured' <=> Measured)
      /\ job' = NoJob /\ out' = out /\ page' = page
  BY JobBesideGroup DEF Beside, Measured, Completed, SealSummary
<1>2. /\ job # NoJob /\ job.kind = "summary" /\ job.at > Len(Outputs) /\ job.at \in Nat
      /\ job.rows = raw /\ raw \in [Keys -> Records]
  <2>1. job # NoJob /\ job.kind = "summary" /\ job.at > Len(Outputs)
    BY DEF SealSummary, NoJob, None, Files
  <2> QED BY <2>1 DEF JobInv, GroupInv, GroupTypeOK
<1>3. \A o \in OutputNames : out[o] = Payload(o)
  BY <1>2, Names DEF JobInv
<1>4. \A o \in OutputNames : out[o] # Absent
  BY <1>2, <1>3, RowsShow DEF Payload
<1>5. JobInv' /\ FilesInv'
  BY <1>1 DEF JobInv, FilesInv
<1>6. CASE seal' = seal
  <2>1. UNCHANGED <<seal, out, page>> /\ SealInv
    BY <1>1, <1>6
  <2>2. SealInv'
    BY <2>1 DEF SealInv, SealHolds
  <2> QED BY <1>1, <1>5, <2>2
<1>7. CASE seal = Unsealed /\ seal' = [o \in OutputNames |-> out[o]]
  <2>1. \A o \in OutputNames : seal'[o] = out'[o] /\ out'[o] # Absent
    BY <1>1, <1>4, <1>7
  <2>2. \A o \in Sampled : seal'[o].n = job.n
    <3>1. SUFFICES ASSUME NEW o \in Sampled PROVE seal'[o].n = job.n
      OBVIOUS
    <3>2. seal'[o] = Payload(o)
      BY <1>3, <1>7, Names
    <3> QED BY <1>2, <3>2 DEF Payload
  <2>3. page = Absent
    BY <1>7 DEF SealInv, SealHolds
  <2>4. \A o \in Sampled : seal'[o].n = seal'[Outputs[1]].n
    BY <2>2, ReportAssumption
  <2>5. seal' # Unsealed => SealHolds'
    BY <2>1 DEF SealHolds
  <2>6. page' = Absent
    BY <1>1, <2>3
  <2>7. SealInv'
    BY <2>4, <2>5, <2>6 DEF SealInv
  <2> QED BY <1>1, <1>5, <2>7
<1>8. seal' = seal \/ (seal = Unsealed /\ seal' = [o \in OutputNames |-> out[o]])
  BY DEF SealSummary, Digests
<1> QED BY <1>6, <1>7, <1>8

LEMMA ReportDiesKept ==
    ASSUME ReportInv, ReportDies
    PROVE  ReportInv'
<1>1. /\ GroupInv' /\ raw' = raw /\ (External' <=> External) /\ (Measured' <=> Measured)
      /\ job' = NoJob /\ UNCHANGED <<out, seal, page>>
  BY JobBesideGroup DEF Beside, Measured, Completed, ReportDies
<1> QED BY <1>1 DEF ReportInv, JobInv, FilesInv, SealInv, SealHolds

-----------------------------------------------------------------------------
(* The theorems. *)

LEMMA ReportInvInit == ReportInit => ReportInv
<1> SUFFICES ASSUME ReportInit PROVE ReportInv
  OBVIOUS
<1>1. GroupInv
  BY GroupBegins DEF ReportInit
<1>2. JobInv /\ FilesInv /\ SealInv
  BY DEF ReportInit, JobInv, FilesInv, SealInv
<1> QED BY <1>1, <1>2 DEF ReportInv

LEMMA ReportInvStep == ReportInv /\ [ReportNext]_reportAndGroup => ReportInv'
<1> SUFFICES ASSUME ReportInv, [ReportNext]_reportAndGroup PROVE ReportInv'
  OBVIOUS
<1>1. CASE job = NoJob /\ Next /\ UNCHANGED reportVars
  BY <1>1, GroupStep
<1>2. CASE ScoreReference \/ \E n \in Resamples : Summarize(n)
  BY <1>2, ReportBegins
<1>3. CASE WriteFile
  BY <1>3, WriteFileKept
<1>4. CASE SealSummary
  BY <1>4, SealSummaryKept
<1>5. CASE Render
  BY <1>5, RenderKept
<1>6. CASE ReportDies
  BY <1>6, ReportDiesKept
<1>7. CASE UNCHANGED reportAndGroup
  <2>0. Beside /\ UNCHANGED <<crashes, torn>>
    BY <1>7 DEF reportAndGroup, vars, Beside
  <2>1. GroupInv'
    BY <2>0, BesideKept DEF ReportInv, GroupInv, GroupTypeOK
  <2>2. UNCHANGED <<pc, protocol, raw, job, out, seal, page>>
    BY <1>7 DEF reportAndGroup, vars, reportVars
  <2>3. JobInv'
    <3>1. JobInv /\ (Measured' <=> Measured) /\ \A o : Payload(o)' = Payload(o)
      BY <2>2 DEF ReportInv, Payload, Measured, Completed
    <3> QED BY <2>2, <3>1 DEF JobInv
  <2>4. FilesInv' /\ SealInv'
    BY <2>2 DEF ReportInv, FilesInv, SealInv, SealHolds, Measured, Completed
  <2> QED BY <2>1, <2>3, <2>4 DEF ReportInv
<1> QED BY <1>1, <1>2, <1>3, <1>4, <1>5, <1>6, <1>7 DEF ReportNext

\* Experiment commands and reports keep the invariant.
THEOREM ReportsKeepInv == ReportSpec => []ReportInv
BY ReportInvInit, ReportInvStep, PTL DEF ReportSpec

\* The state of a group has its types (ExperimentGroup's variables).
THEOREM GroupTyped == ReportSpec => []TypeOK
<1>1. ReportInv => TypeOK
  BY DEF ReportInv, GroupInv, GroupTypeOK, TypeOK, Records
<1> QED BY <1>1, ReportsKeepInv, PTL

\* An agent is paid for once per key, once more per resumption and at most
\* twice more per crash (_write_immutable, run_one).
THEOREM PaidForCause == ReportSpec => []PaidAgainForCause
<1>1. ASSUME ReportInv, NEW k \in Keys
      PROVE  launches[k] <= 1 + asked[k] + 2 * crashes
  <2>1. launches[k] \in Nat /\ asked[k] \in Nat /\ crashes \in Nat
    BY <1>1 DEF ReportInv, GroupInv, GroupTypeOK
  <2>2. CASE External
    BY <1>1, <2>1, <2>2 DEF ReportInv, GroupInv, PortfolioInv
  <2>3. CASE ~External
    <3>1. launches[k] + Lost(k) <= 1 + Granted(k) /\ Lost(k) \in {0, 1}
      BY <1>1, <2>3, PaidTypes DEF ReportInv, GroupInv, PaidInv
    <3> QED BY <2>1, <3>1 DEF Granted
  <2> QED BY <2>2, <2>3
<1>2. ReportInv => PaidAgainForCause
  BY <1>1 DEF PaidAgainForCause
<1> QED BY <1>2, ReportsKeepInv, PTL

\* In an unseeded group no receipt stands for two repeats, and a completed
\* record keeps its sidecar (_bind_unseeded_receipt).
THEOREM ReceiptsOnce == ReportSpec => []ReceiptsSound
<1>1. ASSUME ReportInv, ~seeded, NEW j \in Keys, NEW k \in Keys, Completed(j), raw[j] = raw[k]
      PROVE  j = k
  <2>1. BoundInv /\ Completed(k)
    BY <1>1 DEF ReportInv, GroupInv, Completed
  <2>2. PICK s \in bound : s.key = j /\ s.receipt = raw[j]
    BY <1>1, <2>1 DEF BoundInv, CompletedIsBound
  <2>3. PICK t \in bound : t.key = k /\ t.receipt = raw[k]
    BY <1>1, <2>1 DEF BoundInv, CompletedIsBound
  <2> QED BY <1>1, <2>1, <2>2, <2>3 DEF BoundInv
<1>2. ReportInv => ReceiptsSound
  BY <1>1 DEF ReceiptsSound, ReceiptsOwnedOnce, CompletedIsBound, ReportInv, GroupInv, BoundInv
<1> QED BY <1>2, ReportsKeepInv, PTL

\* What is sealed and rendered agrees with the records for good
\* (summarize_experiment, ExternalExperimentRunner.run, render_results).
THEOREM SealsHold == ReportSpec => []SealSound
<1>1. ASSUME ReportInv, seal # Unsealed
      PROVE  SealHolds /\ SectionsHold /\ \A o \in Sampled : seal[o].n = seal[Outputs[1]].n
  BY <1>1 DEF ReportInv, FilesInv, SealInv, SealHolds, SectionsHold
<1>2. ASSUME ReportInv, page # Absent
      PROVE  SealHolds /\ page = seal[Outputs[1]] /\ page.rows = raw
  <2>1. SealHolds /\ page = seal[Outputs[1]]
    BY <1>2 DEF ReportInv, SealInv
  <2>2. page = out[Outputs[1]] /\ out[Outputs[1]] # Absent
    BY <2>1, Names DEF SealHolds
  <2> QED BY <1>2, <2>1, <2>2, Names DEF ReportInv, FilesInv
<1>3. ReportInv => SealSound
  BY <1>1, <1>2 DEF SealSound, SealedVerifies, SealedUnderOneSetting, PageShowsTheSeal, ReportInv, GroupInv
<1> QED BY <1>3, ReportsKeepInv, PTL

\* What touches the records, the launches or the pool's price is a step of
\* the group.
LEMMA OnlyTheGroup ==
    ASSUME ReportInv, [ReportNext]_reportAndGroup
    PROVE  GroupInv /\ (Next \/ UNCHANGED <<raw, launches, poolPaid>>)
<1>1. CASE ScoreReference \/ (\E n \in Resamples : Summarize(n)) \/ Render
  BY <1>1, ReportBegins, RenderKept DEF ReportInv, vars
<1>2. CASE WriteFile \/ SealSummary \/ ReportDies
  BY <1>2, JobBesideGroup DEF ReportInv, Beside
<1>3. CASE UNCHANGED reportAndGroup
  BY <1>3 DEF ReportInv, reportAndGroup, vars
<1> QED BY <1>1, <1>2, <1>3 DEF ReportNext, ReportInv

\* No command, no crash and no report changes a completed record, moves a
\* failed one unasked, buys a pool beside records or launches an arm without
\* its pool (run_one, _run_variants, _candidate_pool).
THEOREM TheGroupStands == ReportSpec => GroupStands
<1>1. ReportInv /\ [ReportNext]_reportAndGroup =>
        [~External => \A k \in Keys : Completed(k) =>
             raw'[k] = raw[k] /\ launches'[k] = launches[k]]_vars
  BY OnlyTheGroup, CompletedKeeps
<1>2. ReportInv /\ [ReportNext]_reportAndGroup =>
        [\A k \in Keys : raw[k] = "failed" /\ (raw'[k] # raw[k] \/ launches'[k] # launches[k])
             => cmd = "resume" /\ Key = k]_vars
  BY OnlyTheGroup, FailureKeeps
<1>3. ReportInv /\ [ReportNext]_reportAndGroup => [poolPaid' # poolPaid => ~PriorArm]_vars
  BY OnlyTheGroup, PoolBuying
<1>4. ReportInv /\ [ReportNext]_reportAndGroup =>
        [\A k \in Keys : protocol = "ranker" /\ launches'[k] # launches[k] => pool = Pair]_vars
  BY OnlyTheGroup, PoolSharing
<1>5. ReportSpec => CompletedStands
  BY <1>1, ReportsKeepInv, PTL DEF ReportSpec, CompletedStands
<1>6. ReportSpec => FailureMovesByResume
  BY <1>2, ReportsKeepInv, PTL DEF ReportSpec, FailureMovesByResume
<1>7. ReportSpec => PoolBoughtBeforeArms
  BY <1>3, ReportsKeepInv, PTL DEF ReportSpec, PoolBoughtBeforeArms
<1>8. ReportSpec => ArmsShareThePool
  BY <1>4, ReportsKeepInv, PTL DEF ReportSpec, ArmsShareThePool
<1> QED BY <1>5, <1>6, <1>7, <1>8 DEF GroupStands
=============================================================================
