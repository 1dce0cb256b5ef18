-------------------------- MODULE ExperimentReport --------------------------
(***************************************************************************)
(* What is made of an experiment group: the evaluator's reference scores,  *)
(* the aggregate files of a summary with the manifest that seals them, and *)
(* the page rendered from the sealed files.  These commands run between    *)
(* the group's own, die in any write and are given again, with another     *)
(* bootstrap setting too.                                                  *)
(***************************************************************************)
EXTENDS ExperimentGroup, Functions

CONSTANTS
    Outputs,        \* the aggregate files, in the order in which they are written
    Sampled,        \* those that depend on the bootstrap setting
    Resamples,      \* bootstrap settings a summary is asked for
    MaxReports      \* reference and summary commands

Reference == <<"oracle", "oracle_manifest">>

ASSUME ReportAssumption ==
    /\ Resamples \subseteq Nat \ {0} /\ MaxReports \in Nat
    /\ Outputs \in Seq(Range(Outputs)) /\ Outputs # <<>>
    /\ Outputs[1] \in Sampled /\ Sampled \subseteq Range(Outputs)
    /\ Range(Outputs) \cap Range(Reference) = {}

VARIABLES
    job,            \* the report in hand: kind, next file, records read, setting
    out,            \* aggregate file -> what it says
    seal,           \* the manifest: file -> what its digest stands for
    page,           \* what the rendered page shows
    reports         \* reports asked for

reportVars == <<job, out, seal, page, reports>>
reportAndGroup == <<vars, reportVars>>

OutputNames == Range(Outputs)
ReferenceNames == Range(Reference)

NoJob == [kind |-> None, at |-> 1, rows |-> <<>>, n |-> 0]
Absent == [rows |-> <<>>, n |-> 0]
Scored == [rows |-> <<>>, n |-> 1]
Unsealed == <<>>

ReportInit ==
    /\ Init /\ job = NoJob /\ out = [o \in OutputNames \cup ReferenceNames |-> Absent]
    /\ seal = Unsealed /\ page = Absent /\ reports = 0

\* Any output of this name.
File(o) == <<"report", o, None>>

Files == IF job.kind = "reference" THEN Reference ELSE Outputs
Payload(o) ==
    IF job.kind = "reference" THEN Scored
    ELSE [rows |-> job.rows, n |-> IF o \in Sampled THEN job.n ELSE 0]

-----------------------------------------------------------------------------
(* What a summary demands of the records.                                  *)

GroupStaged == \A k \in Keys : \E how \in {"fresh", "resume"} : <<"request", k, how>> \in request
Covered == \A k \in Keys : raw[k] # None
Measured == \A k \in Keys : Completed(k)

BindingsLoad ==
    /\ \A f \in torn : f[1] # "bound"
    /\ IF seeded THEN bound = {}
       ELSE /\ \A s \in bound : raw[s.key] = s.receipt /\ <<"request", s.key, s.how>> \in request
            /\ \A k \in Keys : Cardinality({s \in bound : s.key = k}) = 1
            /\ \A s, t \in bound : s.receipt = t.receipt => s = t

SetupVerified ==
    protocol = "ranker" => pool = Pair /\ torn \cap {PoolFile, SetupFile} = {}

Referenced == \A o \in ReferenceNames : out[o] = Scored

Summarizable ==
    GroupStaged /\ Covered /\ Measured /\ BindingsLoad /\ SetupVerified /\ Referenced

-----------------------------------------------------------------------------
(* Commands.                                                               *)

Report == pc = "idle" /\ job = NoJob /\ ~External /\ reports < MaxReports /\ reports' = reports + 1

\* The reference is scored once the arms are complete (the order in which
\* the evaluation gives its commands bounds the model).
ScoreReference ==
    /\ Report /\ Measured /\ job' = [NoJob EXCEPT !.kind = "reference"]
    /\ UNCHANGED <<vars, out, seal, page>>

Summarize(n) ==
    /\ Report /\ Summarizable
    /\ job' = [kind |-> "summary", at |-> 1, rows |-> raw, n |-> n]
    /\ UNCHANGED <<vars, out, seal, page>>

Unchanged == UNCHANGED <<setting, pc, cmd, at, got, verdict, raw, request, bound, ckpt, staged, pool,
                         audit, summary, published, counts>>

Name == Files[job.at]
AfterFile == IF job.kind = "reference" /\ job.at = Len(Files) THEN NoJob ELSE [job EXCEPT !.at = @ + 1]

\* Bug: a file that is there is left alone, whatever it says.
BugWriteFile ==
    /\ job.kind # None /\ job.at <= Len(Files)
    /\ IF out[Name] # Absent THEN job' = AfterFile /\ UNCHANGED <<out, torn>>
       ELSE IF File(Name) \in torn THEN job' = NoJob /\ torn' = torn \ {File(Name)} /\ UNCHANGED out
       ELSE job' = AfterFile /\ out' = [out EXCEPT ![Name] = Payload(Name)] /\ UNCHANGED torn
    /\ Unchanged /\ UNCHANGED <<seal, page, reports>>

\* A file with these bytes is left alone, with others it is refused; a
\* leftover of a dead write refuses the file once.
WriteFile ==
    /\ job.kind # None /\ job.at <= Len(Files)
    /\ IF out[Name] = Payload(Name) THEN job' = AfterFile /\ UNCHANGED <<out, torn>>
       ELSE IF out[Name] # Absent THEN job' = NoJob /\ UNCHANGED <<out, torn>>
       ELSE IF File(Name) \in torn THEN job' = NoJob /\ torn' = torn \ {File(Name)} /\ UNCHANGED out
       ELSE job' = AfterFile /\ out' = [out EXCEPT ![Name] = Payload(Name)] /\ UNCHANGED torn
    /\ Unchanged /\ UNCHANGED <<seal, page, reports>>

\* The manifest takes the digests of what is on disk.
Digests == [o \in OutputNames |-> out[o]]

SealSummary ==
    /\ job.kind = "summary" /\ job.at > Len(Files) /\ job' = NoJob
    /\ IF seal # Unsealed THEN UNCHANGED <<seal, torn>>
       ELSE IF File("manifest") \in torn THEN torn' = torn \ {File("manifest")} /\ UNCHANGED seal
       ELSE seal' = Digests /\ UNCHANGED torn
    /\ Unchanged /\ UNCHANGED <<out, page, reports>>

SealHolds == seal # Unsealed /\ \A o \in OutputNames : seal[o] = out[o] /\ out[o] # Absent

\* Only sealed files are rendered, and the page is written over.
Render ==
    /\ pc = "idle" /\ job = NoJob /\ SealHolds /\ page' = out[Outputs[1]] /\ page' # page
    /\ UNCHANGED <<vars, job, out, seal, reports>>

ReportWriting ==
    IF job.at > Len(Files) THEN IF seal = Unsealed THEN {File("manifest")} ELSE {}
    ELSE IF out[Name] = Absent THEN {File(Name)} ELSE {}

ReportDies ==
    /\ job # NoJob /\ crashes < MaxCrashes /\ crashes' = crashes + 1 /\ job' = NoJob
    /\ \E w \in SUBSET ReportWriting : torn' = torn \cup w
    /\ UNCHANGED <<setting, pc, cmd, at, got, verdict, raw, request, bound, ckpt, staged, pool, audit,
                   summary, published, launches, asked, poolPaid, faults, commands>>
    /\ UNCHANGED <<out, seal, page, reports>>

ReportNext ==
    \/ job = NoJob /\ Next /\ UNCHANGED reportVars
    \/ ScoreReference \/ \E n \in Resamples : Summarize(n)
    \/ WriteFile \/ SealSummary \/ Render \/ ReportDies

ReportSpec ==
    ReportInit /\ [][ReportNext]_reportAndGroup /\ WF_vars(Step) /\ WF_reportVars(WriteFile \/ SealSummary)

-----------------------------------------------------------------------------
(* Properties.                                                             *)

\* What verification derives from the records again (_verify_output_sections).
SectionsHold ==
    \A o \in OutputNames : out[o].rows = raw

\* A sealed summary agrees with the records for good: a summary given
\* between experiment commands, resumptions included, never
\* shows what a later command changes (summarize_experiment).
SealedVerifies == seal # Unsealed => SealHolds /\ SectionsHold

\* The sealed files were computed under one bootstrap setting, through
\* crashes and repeated summaries with other settings (_write_reusable); the
\* verification itself does not look.
SealedUnderOneSetting ==
    seal # Unsealed => \A o \in Sampled : seal[o].n = seal[Outputs[1]].n

\* A page that was rendered keeps showing what is sealed (render_results).
PageShowsTheSeal == page # Absent => SealHolds /\ page = seal[Outputs[1]] /\ page.rows = raw

\* What is sealed agrees with the records, with itself and with what was made
\* of it (summarize_experiment, ExternalExperimentRunner.run, render_results).
SealSound == SealedMetricsAreWhole /\ SealedVerifies /\ SealedUnderOneSetting /\ PageShowsTheSeal

\* An unseeded group has one receipt per completed repeat, bound to it.
ReceiptsSound == ReceiptsOwnedOnce /\ CompletedIsBound

\* What experiment commands may never do to the records and the pool.
GroupStands ==
    CompletedStands /\ FailureMovesByResume /\ PoolBoughtBeforeArms /\ ArmsShareThePool
=============================================================================
