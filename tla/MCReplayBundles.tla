-------------------------- MODULE MCReplayBundles --------------------------
(* What is put on a disk that others write to: in one scene two writers    *)
(* made with one run_id, as when a run is recorded again, and two calls of *)
(* one request; in the other two runs that share the content stores.  The  *)
(* scenes have no file in common.                                          *)
EXTENDS ReplayBundles, Sequences

CONSTANTS w1, w2, k1, k2, q1
CONSTANTS r1, r2, f1, f2, p1, p2, v1, v2
CONSTANTS Runs, Profiles, HitLists, Pages, Versions, Questions, TypeOf, MaxWriteFaults, MaxDeaths

VARIABLES scene, store, at, node, todo, docs, question, profile, paid, met, writeFaults, deaths

shelf == <<store, at, node, todo, docs, question, profile, paid, met, writeFaults, deaths>>
Shelf == INSTANCE ContentStore

\* Found URLs come in a list; a run without a subquestion has none yet.
ASSUME ShelfAssumption ==
    /\ \A hits \in HitLists : hits \in Seq(Shelf!Urls)
    /\ "absent" \notin Questions

OneRun == [w \in Writers |-> "run"]
ByTheFirst == [k \in Calls |-> w1]
Hits == {<<"u1">>, <<"u1", "u2">>}
Symmetry == UNION {Permutations(s) : s \in {{r1, r2}, {f1, f2}, {p1, p2}, {v1, v2}}}
Types == [s1 |-> "web", s2 |-> "paper"]

\* Profiles are told apart by the runs that share the stores only.
SceneInit ==
    /\ Init /\ Shelf!Init /\ scene \in {"bundles", "stores"}
    /\ scene = "bundles" => \A r, s \in Runs : profile[r] = profile[s]
SceneNext ==
    /\ UNCHANGED scene
    /\ \/ scene = "bundles" /\ Next /\ UNCHANGED shelf
       \/ scene = "stores" /\ Shelf!Next /\ UNCHANGED vars

Scenes == SceneInit /\ [][SceneNext]_<<scene, vars, shelf>>

\* ContentStore's StoresSound, of the runs that share the stores.
StoresSound == Shelf!StoresSound
=============================================================================
