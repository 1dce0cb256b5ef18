---------------------------- MODULE ContentStore ----------------------------
(***************************************************************************)
(* The content stores that runs share: artifacts named by their hash, the  *)
(* completion cache, and the sources, parsed documents and evidence of     *)
(* LocalEvidenceStore.  All are files put if absent: under the key's lock  *)
(* a missing file is written next to its place and renamed onto it, an     *)
(* equal one is kept, a different one refuses the run that offers it.      *)
(*                                                                         *)
(* A run works through Fetch, ParseAndNormalize and StoreEvidence of one   *)
(* subquestion.  Runs may live in one process or in several; the lock of a *)
(* dead process is free.  A retrieval is known by who made it, as its      *)
(* time, usage and audit are of that one call.                             *)
(*                                                                         *)
(* A page is requested by its URL under the provider profile of the run:   *)
(* the cache keys of fetches and parses carry the profile, the names of    *)
(* sources, parsed documents and evidence do not.                          *)
(*                                                                         *)
(* Definitions named Bug... are faulty variants.                           *)
(***************************************************************************)
EXTENDS Naturals, SequencesExt

CONSTANTS
    Runs,
    Profiles,       \* provider profiles a run may be started under
    HitLists,       \* sorted sequences of URLs a search may find
    Pages,          \* where a URL may lead after its redirects
    Versions,       \* contents a page may have when it is fetched
    Questions,      \* subquestions
    TypeOf,         \* the source type a subquestion gives its sources
    MaxWriteFaults, \* writes that fail
    MaxDeaths       \* processes that die

Absent == "absent"

VARIABLES
    store,       \* key -> the whole file of that name
    at,         \* run -> idle, ready, call, write, or how it ended
    node,       \* run -> the graph node it works in
    todo,       \* run -> keys to look up, keys with a value to put
    docs,       \* run -> the raw documents it fetched
    question,   \* run -> its subquestion
    profile,    \* run -> its provider profile, for good
    paid,       \* run -> the requests it paid the provider for
    met,        \* pairs of runs that were at work at the same time
    writeFaults, deaths

work == <<todo, docs, question>>
limits == <<writeFaults, deaths>>
vars == <<store, at, node, work, profile, met, paid, limits>>

Stored == DOMAIN store
Working(r) == at[r] \in {"ready", "call", "write"}
Goto(r, l) == at' = [at EXCEPT ![r] = l]

Artifact(content) == <<"artifact", content>>
Request(r, u) == <<profile[r], u>>
FetchKey(q) == <<"fetch", q>>
ParseKey(r, d) == <<"parse", <<profile[r], d.page, d.version>>>>
SourceKey(d) == <<"source", d.page>>
ParsedKey(d) == <<"parsed", d.page>>
EvidenceKey(d, q) == <<"evidence", <<d.page, d.version, q>>>>
ParsedOf(d) == [page |-> d.page, version |-> d.version]

Init ==
    /\ store = <<>> /\ at = [r \in Runs |-> "idle"] /\ node = [r \in Runs |-> "Fetch"]
    /\ todo = [r \in Runs |-> <<>>] /\ docs = todo
    /\ question = [r \in Runs |-> Absent] /\ profile \in [Runs -> Profiles]
    /\ paid = [r \in Runs |-> {}] /\ met = {} /\ writeFaults = 0 /\ deaths = 0

Start(r) ==
    /\ at[r] = "idle" /\ Goto(r, "ready")
    /\ \E hits \in HitLists, q \in Questions :
          /\ todo' = [todo EXCEPT ![r] = [i \in DOMAIN hits |-> <<FetchKey(Request(r, hits[i]))>>]]
          /\ question' = [question EXCEPT ![r] = q]
    /\ met' = met \cup {{r, s} : s \in {s \in Runs : Working(s)}}
    /\ UNCHANGED <<store, node, docs, paid, limits>>

Job(r) == Head(todo[r])
Key(r) == Job(r)[1]
LookingUp(r) == at[r] = "ready" /\ todo[r] # <<>> /\ Len(Job(r)) = 1
Putting(r) == at[r] = "ready" /\ todo[r] # <<>> /\ Len(Job(r)) = 2

-----------------------------------------------------------------------------
(* A completion: looked up, or called for, stored as an artifact and       *)
(* published in the cache with the usage and the audit of its producer.    *)

\* The artifact of a completion is read back and compared with its name.
Readable(content) == Artifact(content) \in Stored /\ store[Artifact(content)] = content

Hit(r) ==
    /\ LookingUp(r) /\ Key(r) \in Stored
    /\ LET got == store[Key(r)].of IN
       IF Readable(got)
         THEN /\ todo' = [todo EXCEPT ![r] = Tail(@)] /\ UNCHANGED at
              /\ docs' = IF Key(r)[1] = "fetch" THEN [docs EXCEPT ![r] = Append(@, got)] ELSE docs
         ELSE Goto(r, "refused") /\ UNCHANGED <<todo, docs>>
    /\ UNCHANGED <<store, node, question, met, paid, limits>>

Miss(r) ==
    /\ LookingUp(r) /\ Key(r) \notin Stored /\ Goto(r, "call")
    /\ paid' = IF Key(r)[1] = "fetch" THEN [paid EXCEPT ![r] = @ \cup {Key(r)[2]}] ELSE paid
    /\ UNCHANGED <<store, node, work, met, limits>>

\* put_bytes: the name says what is in it.
PutArtifact(content) == <<Artifact(content), content>>
Entry(r, content) == [of |-> content, by |-> r]
Publish(r, k, content) == <<k, Entry(r, content)>>

\* _persist_provider_result, then _publish_completion_cache.
Completion(r, k, content) == <<PutArtifact(content), Publish(r, k, content)>>

Keep(r, content) ==
    todo' = [todo EXCEPT ![r] = Completion(r, Key(r), content) \o Tail(@)]

Fetched(r) ==
    /\ at[r] = "call" /\ Key(r)[1] = "fetch" /\ Goto(r, "ready")
    /\ LET q == Key(r)[2] IN
       \E p \in Pages, v \in Versions :
          LET d == [page |-> p, version |-> v, by |-> <<r, q>>] IN
          /\ docs' = [docs EXCEPT ![r] = Append(@, d)] /\ Keep(r, d)
    /\ UNCHANGED <<store, node, question, met, paid, limits>>

Parsed(r) ==
    /\ at[r] = "call" /\ Key(r)[1] = "parse" /\ Goto(r, "ready")
    /\ Keep(r, [page |-> Key(r)[2][2], version |-> Key(r)[2][3]])
    /\ UNCHANGED <<store, node, docs, question, met, paid, limits>>

-----------------------------------------------------------------------------
(* put_if_absent, put_bytes, put_source, put_parsed_document, put_evidence *)

Locked(k) == \E r \in Runs : at[r] = "write" /\ Key(r) = k

\* A parsed document needs its source, evidence the parsed document it quotes.
HasSource(k, value) ==
    LET s == <<"source", k[2]>> IN s \in Stored /\ ParsedOf(store[s].doc) = value
Quotes(value) ==
    LET p == <<"parsed", value.page>> IN p \in Stored /\ store[p] = value
Founded(k, value) ==
    /\ k[1] = "parsed" => HasSource(k, value)
    /\ k[1] = "evidence" => Quotes(value)

\* Kept if equal, refused if different or unfounded, else written.
Offer(r) ==
    /\ Putting(r)
    /\ IF Key(r) \in Stored
         THEN IF store[Key(r)] = Job(r)[2]
                THEN todo' = [todo EXCEPT ![r] = Tail(@)] /\ UNCHANGED at
                ELSE Goto(r, "refused") /\ UNCHANGED todo
         ELSE Goto(r, IF Founded(Key(r), Job(r)[2]) THEN "write" ELSE "refused") /\ UNCHANGED todo
    /\ UNCHANGED <<store, node, docs, question, met, paid, limits>>

\* Bug: the file is looked for before the lock is taken.
BugPut(r) == Offer(r)

Put(r) == Offer(r) /\ ~Locked(Key(r))

\* The other process keeps the lock for ten seconds.
LockTimeout(r) ==
    /\ Putting(r) /\ Locked(Key(r)) /\ Goto(r, "failed")
    /\ UNCHANGED <<store, node, work, met, paid, limits>>

\* The file is whole before it gets its name.
Replace(r) ==
    /\ at[r] = "write" /\ Goto(r, "ready")
    /\ store' = [k \in Stored \cup {Key(r)} |-> IF k = Key(r) THEN Job(r)[2] ELSE store[k]]
    /\ todo' = [todo EXCEPT ![r] = Tail(@)]
    /\ UNCHANGED <<node, docs, question, met, paid, limits>>

WriteFails(r) ==
    /\ at[r] = "write" /\ Goto(r, "failed")
    /\ writeFaults < MaxWriteFaults /\ writeFaults' = writeFaults + 1
    /\ UNCHANGED <<store, node, work, met, paid, deaths>>

-----------------------------------------------------------------------------
\* What StoreEvidence puts for a document, in this order.
PutSource(r, d) == <<SourceKey(d), [doc |-> d, type |-> TypeOf[question[r]]]>>
PutParsed(d) == <<ParsedKey(d), ParsedOf(d)>>
PutEvidence(r, d) == <<EvidenceKey(d, question[r]), ParsedOf(d)>>
Filing(r) ==
    FlattenSeq([i \in DOMAIN docs[r] |->
        LET d == docs[r][i] IN <<PutSource(r, d), PutParsed(d), PutEvidence(r, d)>>])

\* A node has done its keys, the next one gets its own from the documents.
Advance(r) ==
    /\ at[r] = "ready" /\ todo[r] = <<>>
    /\ \/ /\ node[r] = "Fetch" /\ node' = [node EXCEPT ![r] = "ParseAndNormalize"]
          /\ todo' = [todo EXCEPT ![r] = [i \in DOMAIN docs[r] |-> <<ParseKey(r, docs[r][i])>>]]
          /\ UNCHANGED at
       \/ /\ node[r] = "ParseAndNormalize" /\ node' = [node EXCEPT ![r] = "StoreEvidence"]
          /\ todo' = [todo EXCEPT ![r] = Filing(r)] /\ UNCHANGED at
       \/ node[r] = "StoreEvidence" /\ Goto(r, "done") /\ UNCHANGED <<node, todo>>
    /\ UNCHANGED <<store, docs, question, met, paid, limits>>

Die(r) ==
    /\ Working(r) /\ Goto(r, "dead") /\ deaths < MaxDeaths /\ deaths' = deaths + 1
    /\ UNCHANGED <<store, node, work, met, paid, writeFaults>>

Next ==
    /\ \E r \in Runs :
          \/ Start(r) \/ Hit(r) \/ Miss(r) \/ Fetched(r) \/ Parsed(r) \/ Put(r)
          \/ LockTimeout(r) \/ Replace(r) \/ WriteFails(r) \/ Advance(r) \/ Die(r)
    /\ UNCHANGED profile

Spec == Init /\ [][Next]_vars

-----------------------------------------------------------------------------
\* What is on disk rests on what is on disk: a completion on its artifact,
\* evidence on the parsed document it quotes, that on its source, and the
\* source on a fetched document, whoever died or failed on the way.
StoresRest ==
    \A k \in Stored :
        /\ k[1] \in {"fetch", "parse"} => Artifact(store[k].of) \in Stored
        /\ Founded(k, store[k])
        /\ k[1] = "source" => Artifact(store[k].doc) \in Stored

\* Two runs pay for one request, a page under one profile, only if they were
\* at work together, or if one of them ended before its own fetch was published.
Lost(r, q) == at[r] \in {"failed", "dead"} /\ \E i \in DOMAIN todo[r] : todo[r][i][1] = FetchKey(q)
FetchedAgainForCause ==
    \A r, s \in Runs : r # s => \A q \in paid[r] \cap paid[s] :
        {r, s} \in met \/ Lost(r, q) \/ Lost(s, q)

\* A store refuses a run only at a completion that a run of its profile made
\* while it was at work, or at the source of a page that was found under two
\* URLs, fetched under two profiles or filed under two types; never at an
\* artifact, a parsed document or evidence, and never at a completion of a run
\* that was over when it began.
Company(r) == {s \in Runs \ {r} : {r, s} \in met /\ profile[s] = profile[r]}
Retrieved == UNION {{docs[r][i] : i \in DOMAIN docs[r]} : r \in Runs}
Alias == \E d, e \in Retrieved : d.page = e.page /\ d.by[2] # e.by[2]
Asked == {q \in Questions : \E r \in Runs : question[r] = q}
RefusedForCause ==
    \A r \in Runs : at[r] = "refused" =>
        \/ Key(r)[1] = "fetch" /\ \E s \in Company(r) : Key(r)[2] \in paid[s]
        \/ Key(r)[1] = "parse" /\ Company(r) # {}
        \/ Key(r)[1] = "source" /\ (Alias \/ \E q, t \in Asked : TypeOf[q] # TypeOf[t])

\* The stores stay sound and refuse nobody without cause, however the runs
\* that share them overlap, fail and die (put_if_absent, put_source).
StoresSound == StoresRest /\ FetchedAgainForCause /\ RefusedForCause
-----------------------------------------------------------------------------
(* The strengthening that the proofs are by induction on.                  *)

Urls == UNION {{hits[i] : i \in DOMAIN hits} : hits \in HitLists}
PageRequests == Profiles \X Urls
Documents == [page : Pages, version : Versions, by : Runs \X PageRequests]
ParsedDocuments == [page : Pages, version : Versions]
Outputs == Documents \cup ParsedDocuments
Types == {TypeOf[q] : q \in Questions}
Keys ==
    ({"artifact"} \X Outputs) \cup ({"fetch"} \X PageRequests)
    \cup ({"parse"} \X (Profiles \X Pages \X Versions))
    \cup ({"source", "parsed"} \X Pages) \cup ({"evidence"} \X (Pages \X Versions \X Questions))
Values == Outputs \cup [of : Outputs, by : Runs] \cup [doc : Documents, type : Types]
Lookups(n) ==
    {<<k>> : k \in IF n = "Fetch" THEN {"fetch"} \X PageRequests
                                  ELSE {"parse"} \X (Profiles \X Pages \X Versions)}
Jobs == Lookups("Fetch") \cup Lookups("ParseAndNormalize") \cup (Keys \X Values)

ShelfTypeOK ==
    /\ at \in [Runs -> {"idle", "ready", "call", "write", "done", "refused", "failed", "dead"}]
    /\ node \in [Runs -> {"Fetch", "ParseAndNormalize", "StoreEvidence"}]
    /\ todo \in [Runs -> Seq(Jobs)] /\ docs \in [Runs -> Seq(Documents)]
    /\ paid \in [Runs -> SUBSET PageRequests] /\ profile \in [Runs -> Profiles]
    /\ question \in [Runs -> Questions \cup {Absent}]
    /\ Stored \subseteq Keys /\ store \in [Stored -> Values]
    /\ writeFaults \in Nat /\ deaths \in Nat

\* A document is the one its URL was published with.
Published(d) == FetchKey(d.by[2]) \in Stored /\ store[FetchKey(d.by[2])].of = d

FetchFile(k) ==
    /\ store[k].of \in Documents /\ store[k].of.by = <<store[k].by, k[2]>>
    /\ k[2] \in paid[store[k].by]
SourceFile(k) ==
    /\ store[k] \in [doc : Documents, type : Types]
    /\ store[k].doc.page = k[2] /\ Published(store[k].doc)
    /\ \E s \in Runs : /\ question[s] \in Questions /\ store[k].type = TypeOf[question[s]]
                       /\ \E i \in DOMAIN docs[s] : docs[s][i] = store[k].doc
FileInv(k) ==
    /\ k[1] = "artifact" => store[k] = k[2]
    /\ k[1] \in {"fetch", "parse"} =>
          store[k] \in [of : Outputs, by : Runs] /\ Artifact(store[k].of) \in Stored
    /\ k[1] = "fetch" => FetchFile(k)
    /\ k[1] \in {"fetch", "parse"} => k[2][1] = profile[store[k].by]
    /\ k[1] = "source" => SourceFile(k)
    /\ k[1] = "evidence" => store[k] = [page |-> k[2][1], version |-> k[2][2]]
    /\ Founded(k, store[k])

\* What is left to do: in a lookup, keys; behind a call, the artifact and the
\* entry of the result first; in the end what is not filed yet.
ResultOf(r, c) ==
    IF node[r] = "Fetch" THEN c \in Documents /\ c.by[1] = r /\ c.by[2][1] = profile[r]
                         ELSE c \in ParsedDocuments
CompletionKey(r, c) == IF node[r] = "Fetch" THEN FetchKey(c.by[2]) ELSE ParseKey(r, c)

Own(r, job) == job \in Lookups(node[r]) /\ job[1][2][1] = profile[r]
OnlyLookups(r, n) == \A i \in 1..Len(todo[r]) : i > n => Own(r, todo[r][i])
LookupPhase(r) == node[r] # "StoreEvidence" /\ OnlyLookups(r, 0)
ArtifactPhase(r, c) ==
    /\ node[r] # "StoreEvidence" /\ ResultOf(r, c) /\ Len(todo[r]) > 1
    /\ todo[r][1] = PutArtifact(c) /\ todo[r][2] = Publish(r, CompletionKey(r, c), c)
    /\ OnlyLookups(r, 2)
PublishPhase(r, c) ==
    /\ node[r] # "StoreEvidence" /\ ResultOf(r, c) /\ Len(todo[r]) > 0
    /\ todo[r][1] = Publish(r, CompletionKey(r, c), c) /\ OnlyLookups(r, 1)
Completing(r, c) == ArtifactPhase(r, c) \/ PublishPhase(r, c)

OnDisk(job) == job[1] \in Stored /\ store[job[1]] = job[2]
FilingPhase(r, m) ==
    /\ node[r] = "StoreEvidence" /\ Len(todo[r]) = Len(Filing(r)) - m
    /\ \A i \in 1..Len(todo[r]) : todo[r][i] = Filing(r)[m + i]
    /\ \A i \in 1..m : OnDisk(Filing(r)[i])

PhaseInv(r) ==
    \/ LookupPhase(r)
    \/ \E c \in Outputs : ArtifactPhase(r, c) \/ (PublishPhase(r, c) /\ Artifact(c) \in Stored)
    \/ \E m \in 0..Len(Filing(r)) : FilingPhase(r, m)

DocsInv(r) ==
    \A i \in DOMAIN docs[r] :
        Published(docs[r][i]) \/ (node[r] = "Fetch" /\ Completing(r, docs[r][i]))

StepInv(r) ==
    /\ at[r] = "idle" =>
          todo[r] = <<>> /\ docs[r] = <<>> /\ paid[r] = {} /\ node[r] = "Fetch" /\ question[r] = Absent
    /\ at[r] # "idle" => question[r] \in Questions
    /\ at[r] = "call" => todo[r] # <<>> /\ LookupPhase(r)
    /\ at[r] = "call" /\ node[r] = "Fetch" => Key(r)[2] \in paid[r]
    /\ at[r] = "write" =>
          /\ todo[r] # <<>> /\ Len(Job(r)) = 2 /\ Key(r) \notin Stored
          /\ Founded(Key(r), Job(r)[2])

\* A page that was paid for is published, or is being or was about to be.
Pending(r, q) == node[r] = "Fetch" /\ \E c \in Documents : Completing(r, c) /\ c.by[2] = q
PaidInv(r) ==
    /\ \A q \in paid[r] :
          \/ FetchKey(q) \in Stored
          \/ at[r] \in {"call", "dead"} /\ todo[r] # <<>> /\ Key(r) = FetchKey(q)
          \/ at[r] \in {"ready", "write", "failed", "dead"} /\ Pending(r, q)
    /\ \A q \in PageRequests : Pending(r, q) => q \in paid[r]

\* A key that a run is answering, and that another run answered meanwhile.
Answering(r, k) ==
    /\ Working(r)
    /\ \/ at[r] = "call" /\ Key(r) = k
       \/ \E c \in Outputs : Completing(r, c) /\ CompletionKey(r, c) = k
RaceInv(r) ==
    \A k \in Stored : Answering(r, k) => store[k].by # r /\ {r, store[k].by} \in met

ShelfRunInv(r) == PhaseInv(r) /\ DocsInv(r) /\ StepInv(r) /\ PaidInv(r) /\ RaceInv(r)

TogetherInv ==
    /\ \A r, s \in Runs : r # s /\ Working(r) /\ Working(s) => {r, s} \in met
    /\ \A r, s \in Runs : r # s /\ at[r] = "write" /\ at[s] = "write" => Key(r) # Key(s)

ShelfInv ==
    /\ ShelfTypeOK /\ TogetherInv
    /\ \A k \in Stored : FileInv(k)
    /\ \A r \in Runs : ShelfRunInv(r)
    /\ FetchedAgainForCause /\ RefusedForCause
=============================================================================
