----------------------------- MODULE CommandLine -----------------------------
(***************************************************************************)
(* The research command around an audited run: it takes the lock of the    *)
(* runtime root, runs or resumes the graph with events kept as files,      *)
(* reads the three public artifacts of a completed run and publishes them  *)
(* as a directory that did not exist before.  Commands on one runtime root *)
(* follow each other (the lock refuses a second one and dies with its      *)
(* process); a command may die at any step, in the middle of writing an    *)
(* event file included, and somebody else may take a destination.          *)
(*                                                                         *)
(* Definitions named Bug... are faulty variants.                           *)
(***************************************************************************)
EXTENDS NodeAudit

CONSTANTS
    Dests           \* output directories a command may name

ASSUME CommandAssumption == Dests # {}

VARIABLES
    torn,       \* events whose file was created and not written
    stage,      \* where the command is
    dest,       \* the directory it publishes to
    staged,     \* files in its staging directory, NoStaging if there is none
    places,     \* what stands at each destination
    litter,     \* staging directories no command owns
    exit,       \* how the last command ended
    header,     \* what the run was started with
    using,      \* what answers the calls of this command
    answered    \* what has answered calls of the run

inputs == <<header, using, answered>>
command == <<stage, dest, staged, places, litter, exit>>
commandVars == <<vars, torn, command, inputs>>

Free == [kind |-> "free"]
Foreign == [kind |-> "foreign"]

\* report.md, evidence.json and run-manifest.json, as three artifacts of the
\* run; files is how many of them are there.
Output(files) ==
    [kind |-> "output", files |-> files, status |-> ResultOf(st.flow),
     report |-> st.flow.report, partial |-> st.flow.partial,
     covered |-> st.flow.covered, evidence |-> st.flow.evidence,
     manifest |-> manifest]

NoStaging == 4

-----------------------------------------------------------------------------
(* What a command is given: its mode, and the inputs it reads, of which at *)
(* most one was edited since the run began.                                *)

BundleFiles == {"documents", "embeddings", "model_responses", "search"}
Inputs == BundleFiles \cup {"settings", "lock", "code"}
Given == [mode : {"live", "replay", "hybrid"}, edited : Inputs \cup {"nothing"}]

Content(g, files) == [f \in files |-> g.edited = f]

\* What answers the calls: replay reads everything from the bundle, hybrid
\* its searches and documents, live nothing.
Recorded(g) ==
    Content(g, CASE g.mode = "replay" -> BundleFiles
                 [] g.mode = "hybrid" -> {"documents", "search"}
                 [] g.mode = "live" -> {})

Provided(g) == Content(g, IF g.mode = "replay" THEN {} ELSE {"settings", "lock"})

Sources(g) ==
    [recorded |-> Recorded(g), live |-> Provided(g), code |-> Content(g, {"code"})]

\* Bug: the profile of a bundle names its searches alone.
BugReplayProfile(g) == Content(g, {"search"})

\* The hashes the profile binds.
ReplayProfile(g) ==
    Content(g, IF g.mode = "replay" THEN BundleFiles ELSE {"documents", "search"})

LiveProfile(g) == Content(g, {"settings", "lock"})

Absent == Content([edited |-> "nothing"], {})

ProviderProfile(g) ==
    [mode |-> g.mode,
     replay |-> IF g.mode = "live" THEN Absent ELSE ReplayProfile(g),
     live |-> IF g.mode = "replay" THEN Absent ELSE LiveProfile(g)]

\* The run header adds the commit and the lock file of the program to the
\* profile, which is part of the configuration.
RunHeader(g) == [profile |-> ProviderProfile(g), code |-> Content(g, {"code"})]

\* What the commands may read that come to this header.
Admitted ==
    [h \in {RunHeader(g) : g \in Given} |->
        {Sources(g) : g \in {k \in Given : RunHeader(k) = h}}]

\* The command line composes baseline-v1.  A run of research-v1 has another
\* host, whose events are no files and which publishes nothing.
HostedHere == st.flow.workflow = "baseline-v1"

CommandInit ==
    /\ Init
    /\ \E g \in Given :
          /\ g.edited = "nothing" /\ (~HostedHere => g.mode = "live")
          /\ header = RunHeader(g) /\ using = Sources(g)
    /\ answered = {}
    /\ torn = {} /\ stage = "graph" /\ dest \in Dests /\ staged = NoStaging
    /\ places = [d \in Dests |-> Free] /\ litter = 0 /\ exit = "none"

-----------------------------------------------------------------------------
(* The event files.  A file is created exclusively and then written; one   *)
(* that cannot be read as the event it is named for fails every lookup.    *)

\* The event the process is writing, if it is.
Writing ==
    IF mode \in {"handled", "retry", "replace"} THEN {st.seq}
    ELSE IF mode = "second" THEN {st.seq + 1} ELSE {}

\* The lookup at the entry of a node meets a torn file.
Corrupt == mode = "enter" /\ st.seq \in torn

GraphStep ==
    /\ stage = "graph" /\ ~Corrupt
    /\ Process \/ Faults
    /\ answered' = IF paid' > paid THEN answered \cup {using} ELSE answered
    /\ UNCHANGED <<torn, command, header, using>>

LookupCorrupt ==
    /\ stage = "graph" /\ Corrupt
    /\ Fail("torn")
    /\ UNCHANGED <<events, cache, manifest, paid, bounds, torn, command, inputs>>

Ends(how) == stage' = "over" /\ exit' = how

\* The process dies, perhaps between the creation of an event file and its
\* contents.
GraphDies ==
    /\ stage = "graph"
    /\ Crash
    /\ \E started \in SUBSET (Writing \ DOMAIN events) :
          torn' = IF HostedHere THEN torn \cup started ELSE torn
    /\ Ends("killed")
    /\ UNCHANGED <<dest, staged, places, litter, inputs>>

GraphRaises ==
    /\ stage = "graph" /\ mode = "raised"
    /\ Ends("failed")
    /\ UNCHANGED <<vars, torn, dest, staged, places, litter, inputs>>

-----------------------------------------------------------------------------
(* A run that returns.  Only a completed one is published; closing the     *)
(* providers may fail the command behind it.                               *)

Returned == stage = "graph" /\ mode = "done"

ReadArtifacts ==
    /\ Returned
    /\ IF HostedHere /\ ResultOf(st.flow) = "completed"
         THEN stage' = "publish" /\ UNCHANGED exit
         ELSE Ends("failed")
    /\ UNCHANGED <<vars, torn, dest, staged, places, litter, inputs>>

CloseFails ==
    /\ Returned /\ HostedHere /\ Fault /\ Ends("failed")
    /\ UNCHANGED <<durable, process, torn, dest, staged, places, litter, inputs>>

MakeStaging ==
    /\ stage = "publish"
    /\ IF places[dest] = Free
         THEN staged' = 0 /\ stage' = "write" /\ UNCHANGED exit
         ELSE Ends("failed") /\ UNCHANGED staged
    /\ UNCHANGED <<vars, torn, dest, places, litter, inputs>>

WriteFile ==
    /\ stage = "write" /\ staged < 3
    /\ staged' = staged + 1
    /\ UNCHANGED <<vars, torn, stage, dest, places, litter, exit, inputs>>

\* A staging directory that will not be published is removed.
Removed == staged' = NoStaging /\ UNCHANGED litter

WriteFails ==
    /\ stage = "write" /\ Fault
    /\ Removed /\ Ends("failed")
    /\ UNCHANGED <<durable, process, torn, dest, places, inputs>>

\* The rename never replaces what is there.
Rename ==
    /\ stage = "write" /\ staged = 3
    /\ IF places[dest] = Free
         THEN /\ places' = [places EXCEPT ![dest] = Output(staged)]
              /\ staged' = NoStaging /\ stage' = "sync"
              /\ UNCHANGED <<litter, exit>>
         ELSE Removed /\ Ends("failed") /\ UNCHANGED places
    /\ UNCHANGED <<vars, torn, dest, inputs>>

Sync ==
    /\ stage = "sync" /\ Ends("ok")
    /\ UNCHANGED <<vars, torn, dest, staged, places, litter, inputs>>

\* The output is published and the command fails all the same.
SyncFails ==
    /\ stage = "sync" /\ Fault /\ Ends("unsynced")
    /\ UNCHANGED <<durable, process, torn, dest, staged, places, litter, inputs>>

PublisherDies ==
    /\ stage \in {"publish", "write", "sync"}
    /\ crashes < MaxCrashes /\ crashes' = crashes + 1
    /\ litter' = IF staged = NoStaging THEN litter ELSE litter + 1
    /\ staged' = NoStaging /\ Ends("killed")
    /\ UNCHANGED <<durable, process, faults, resumes, spoiled, torn, dest, places, inputs>>

-----------------------------------------------------------------------------
\* The runner looks up the event behind the checkpoint before the graph runs.
ResumeRun(c) ==
    IF c.seq \in torn
      THEN /\ resumes < MaxResumes /\ resumes' = resumes + 1
           /\ mode' = "raised" /\ why' = "torn" /\ st' = c /\ out' = c.flow
           /\ acc' = c.total /\ calls' = {} /\ units' = 0 /\ answer' = {}
           /\ unsaved' = <<>>
           /\ UNCHANGED <<durable, faults, crashes, spoiled>>
      ELSE Resume(c)

\* A command that resumes a checkpoint must be given inputs with the run's
\* header, and a destination that is free; otherwise it ends without a trace.
ResumeCommand(c, d, sources) ==
    /\ stage = "over" /\ places[d] = Free
    /\ ResumeRun(c)
    /\ stage' = "graph" /\ dest' = d /\ exit' = "none" /\ using' = sources
    /\ UNCHANGED <<torn, staged, places, litter, header, answered>>

\* Somebody else takes the destination.  Nothing looks at it while the graph
\* runs, so it is taken before or behind the look of MakeStaging.
OtherTakes ==
    /\ stage \in {"publish", "write"} /\ places[dest] = Free
    /\ places' = [places EXCEPT ![dest] = Foreign]
    /\ UNCHANGED <<vars, torn, stage, dest, staged, litter, exit, inputs>>

CommandNext ==
    \/ GraphStep \/ LookupCorrupt \/ GraphDies \/ GraphRaises
    \/ ReadArtifacts \/ CloseFails
    \/ MakeStaging \/ WriteFile \/ WriteFails \/ Rename \/ Sync \/ SyncFails
    \/ PublisherDies
    \/ \E c \in saved, d \in Dests, sources \in Admitted[header] :
          ResumeCommand(c, d, sources)
    \/ OtherTakes

CommandSpec == CommandInit /\ [][CommandNext]_commandVars
-----------------------------------------------------------------------------
(***************************************************************************)
(* Properties.                                                             *)
(***************************************************************************)

Published == {d \in Dests : places[d].kind = "output"}

\* The event log is a prefix without a gap.  A torn file can only stand right
\* behind it, and nothing is ever recorded in its place or behind it.
LogHasNoGap ==
    /\ DOMAIN events = 1 .. Cardinality(DOMAIN events)
    /\ torn \subseteq {Cardinality(DOMAIN events) + 1}

\* What stands at a destination is the whole of a completed run: its report,
\* and a manifest that accounts for every event before the last.  However
\* often the run was resumed, and from which checkpoint, each command that
\* publishes it publishes the same.
PublishedIsTheRun ==
    /\ \A d \in Published :
          /\ places[d].files = 3 /\ places[d].status = "completed"
          /\ places[d].report
          /\ places[d].manifest = Cardinality(DOMAIN events) - 1
          /\ events[places[d].manifest + 1].receipt.node = "PersistResults"
          /\ ~places[d].partial => places[d].covered = Subs
    /\ \A d, e \in Published : places[d] = places[e]

\* One run is answered by one set of sources: however the inputs on disk are
\* edited between its commands, its header admits no command that would read anything else.
OneComposition == Cardinality(answered) <= 1

\* What research commands publish is the run they name: the record of one
\* journal without a gap, answered by one set of sources, the same from every
\* command (_publish_public_output, _build_provider_profile).
PublicationSound == LogHasNoGap /\ PublishedIsTheRun /\ OneComposition
=============================================================================
