---------------------------- MODULE ReplayBundles ----------------------------
(***************************************************************************)
(* Recording a run and replaying it.  A writer takes the lock of its       *)
(* destination, records every provider call in memory and seals the        *)
(* records: it writes them into a staging directory, renames that onto the *)
(* destination without replacing anything and removes its marker.  What    *)
(* fails before the rename is cleaned up under another name (a tombstone), *)
(* and abort may be repeated until nothing is left.  Each writer lives in  *)
(* a process of its own; the disk is shared.                               *)
(*                                                                         *)
(* A directory is named by the writer that made it, as the code knows it   *)
(* by device and inode.  Between two awaits a process runs alone, so calls *)
(* move only while their writer is not writing; other processes, crashes   *)
(* and failing disks come in between any two steps.                        *)
(*                                                                         *)
(* Definitions named Bug... are faulty variants.                           *)
(***************************************************************************)
EXTENDS Naturals, FiniteSets, TLC

CONSTANTS
    Writers,        \* ReplayBundleWriter objects, each in its own process
    RunOf,          \* the run_id a writer is made with
    Calls,          \* provider calls made while a run is recorded
    By,             \* the writer that records a call
    Requests,       \* request keys (operation, provider, payload, prompt)
    Results,        \* responses of a provider
    Failures,       \* provider errors
    MaxFaults,      \* failing file operations
    MaxCrashes      \* processes that die

None == "none"
Answers == Results \cup Failures
Contents == {"records", "snapshot", "manifest"}

ASSUME RecordingAssumption ==
    /\ By \in [Calls -> Writers] /\ IsFiniteSet(Writers)
    /\ Results \cap Failures = {} /\ None \notin Answers \cup Writers
    /\ Answers \cap {"idle", "asked", "late", "unrecorded", "gone"} = {}
    /\ {MaxFaults, MaxCrashes} \subseteq Nat

VARIABLES
    pc,             \* writer -> where it is
    mine,           \* writer -> the directory it took for its own
    root,           \* writer -> _staging_root: which name it knows it by
    proof,          \* writer -> it holds a stand-in for the removed marker
    book,           \* writer -> the records in memory
    lock,           \* who holds the destination's lock
    site,           \* directory -> the name it has on disk
    files,          \* directory -> the files in it
    data,           \* directory -> the records in its files
    occupied,       \* somebody else put a directory at the destination
    ask,            \* call -> its request
    seen,           \* call -> what its caller got
    loaded,         \* the records a replay loaded from the destination
    faults, crashes

disk == <<site, files, data, occupied>>
calls == <<ask, seen>>
bounds == <<faults, crashes>>
vars == <<pc, mine, root, proof, book, lock, disk, calls, loaded, bounds>>

Blank == [q \in Requests |-> None]
Unread == [valid |-> FALSE, records |-> <<>>]
Taken == occupied \/ \E d \in Writers : site[d] = "final"
Closed(w) == pc[w] = "closed"

Sound == UNCHANGED bounds
Fault == faults < MaxFaults /\ faults' = faults + 1 /\ UNCHANGED crashes
Goto(w, l) == pc' = [pc EXCEPT ![w] = l]
Unlock(w) == lock' = IF lock = w THEN None ELSE lock

Init ==
    /\ pc = [w \in Writers |-> "new"] /\ mine = [w \in Writers |-> None]
    /\ root = mine /\ proof = [w \in Writers |-> FALSE]
    /\ book = [w \in Writers |-> Blank] /\ lock = None
    /\ site = mine /\ files = [w \in Writers |-> {}] /\ data = book
    /\ occupied = FALSE /\ ask \in [Calls -> Requests]
    /\ seen = [k \in Calls |-> "idle"] /\ loaded = Unread
    /\ faults = 0 /\ crashes = 0

-----------------------------------------------------------------------------
(* create: a free destination, its lock, an exclusive staging directory,   *)
(* the marker.                                                             *)

CheckFinal(w) ==
    /\ pc[w] = "new" /\ Goto(w, IF Taken THEN "refused" ELSE "free") /\ Sound
    /\ UNCHANGED <<mine, root, proof, book, lock, disk, calls, loaded>>

TryLock(w) ==
    /\ pc[w] = "free" /\ Sound
    /\ \/ lock = None /\ lock' = w /\ Goto(w, "locked")
       \/ lock # None /\ Goto(w, "refused") /\ UNCHANGED lock
    /\ UNCHANGED <<mine, root, proof, book, disk, calls, loaded>>

StagingOf(w) == {d \in Writers : site[d] = "staging" /\ RunOf[d] = RunOf[w]}

MakeStaging(w) ==
    /\ pc[w] = "locked" /\ Sound
    /\ \/ /\ StagingOf(w) = {} /\ Goto(w, "made")
          /\ mine' = [mine EXCEPT ![w] = w] /\ root' = [root EXCEPT ![w] = "staging"]
          /\ site' = [site EXCEPT ![w] = "staging"] /\ UNCHANGED lock
       \/ /\ StagingOf(w) # {} /\ Goto(w, "refused") /\ Unlock(w)
          /\ UNCHANGED <<mine, root, site>>
    /\ UNCHANGED <<proof, book, files, data, occupied, calls, loaded>>

WriteMarker(w) ==
    /\ pc[w] = "made" /\ Goto(w, "open") /\ Sound
    /\ files' = [files EXCEPT ![mine[w]] = @ \cup {"marker"}]
    /\ UNCHANGED <<mine, root, proof, book, lock, site, data, occupied, calls, loaded>>

\* The marker cannot be written: exactly the directory just made is removed,
\* which may fail as well and leaves it behind.
CreateFails(w) ==
    /\ pc[w] = "made" /\ Fault /\ Unlock(w)
    /\ \/ site' = [site EXCEPT ![mine[w]] = None] /\ Goto(w, "refused") /\ UNCHANGED files
       \/ /\ Goto(w, "lost") /\ UNCHANGED site
          /\ \E left \in SUBSET {"marker"} : files' = [files EXCEPT ![mine[w]] = left]
    /\ mine' = [mine EXCEPT ![w] = None] /\ root' = [root EXCEPT ![w] = None]
    /\ UNCHANGED <<proof, book, data, occupied, calls, loaded>>

-----------------------------------------------------------------------------
(* Recorded calls.                                                         *)

Ask(k) ==
    /\ pc[By[k]] \in {"open", "closed"} /\ seen[k] = "idle" /\ Sound
    /\ \E s \in {"asked", "late"} : seen' = [seen EXCEPT ![k] = s]
    /\ UNCHANGED <<pc, mine, root, proof, book, lock, disk, ask, loaded>>

\* Bug: the later record of one request replaces the earlier.
BugAppendRecord(w, q, a) ==
    IF pc[w] = "open" THEN book' = [book EXCEPT ![w][q] = a] ELSE UNCHANGED book

\* append refuses a closed writer and a second record of one request.
AppendRecord(w, q, a) ==
    IF pc[w] = "open" /\ book[w][q] = None
      THEN book' = [book EXCEPT ![w][q] = a] ELSE UNCHANGED book

\* The deadline or the token is checked before a response is recorded, and
\* once more before anything recorded is handed to the caller.
Answer(k, a) ==
    LET w == By[k] q == ask[k] IN
    /\ seen[k] = "asked" /\ pc[w] \in {"open", "closed"} /\ Sound
    /\ \/ a \in Results /\ seen' = [seen EXCEPT ![k] = "late"] /\ UNCHANGED book
       \/ /\ AppendRecord(w, q, a)
          /\ \E s \in IF pc[w] = "open" /\ book[w][q] = None THEN {a, "late"}
                      ELSE {"unrecorded"} : seen' = [seen EXCEPT ![k] = s]
    /\ UNCHANGED <<pc, mine, root, proof, lock, disk, ask, loaded>>

-----------------------------------------------------------------------------
(* finalize, until the rename.                                             *)

Owned(w) == mine[w] # None /\ site[mine[w]] = root[w] /\ "marker" \in files[mine[w]]

Finalize(w) ==
    /\ pc[w] = "open" /\ Sound
    /\ Goto(w, IF Owned(w) /\ ~Taken THEN "write" ELSE "clean")
    /\ UNCHANGED <<mine, root, proof, book, lock, disk, calls, loaded>>

WriteRecords(w) ==
    /\ pc[w] = "write" /\ Sound
    /\ IF "records" \in files[mine[w]]
         THEN Goto(w, "clean") /\ UNCHANGED <<files, data>>
         ELSE /\ files' = [files EXCEPT ![mine[w]] = @ \cup {"records", "snapshot"}]
              /\ data' = [data EXCEPT ![mine[w]] = book[w]] /\ Goto(w, "list")
    /\ UNCHANGED <<mine, root, proof, book, lock, site, occupied, calls, loaded>>

WriteManifest(w) ==
    /\ pc[w] = "list" /\ Goto(w, "load") /\ Sound
    /\ files' = [files EXCEPT ![mine[w]] = @ \cup {"manifest"}]
    /\ UNCHANGED <<mine, root, proof, book, lock, site, data, occupied, calls, loaded>>

Loads(d) == Contents \subseteq files[d]

LoadStaging(w) ==
    /\ pc[w] = "load" /\ Sound
    /\ Goto(w, IF Loads(mine[w]) /\ Owned(w) /\ ~Taken THEN "rename" ELSE "clean")
    /\ UNCHANGED <<mine, root, proof, book, lock, disk, calls, loaded>>

\* Bug: the destination is replaced.
BugRename(w) ==
    /\ pc[w] = "rename" /\ Sound /\ Goto(w, "unmark")
    /\ site' = [d \in Writers |-> IF d = mine[w] THEN "final"
                                  ELSE IF site[d] = "final" THEN None ELSE site[d]]
    /\ root' = [root EXCEPT ![w] = None] /\ occupied' = FALSE
    /\ UNCHANGED <<mine, proof, book, lock, files, data, calls, loaded>>

Rename(w) ==
    /\ pc[w] = "rename" /\ Sound
    /\ \/ /\ ~Taken /\ Goto(w, "unmark")
          /\ site' = [site EXCEPT ![mine[w]] = "final"]
          /\ root' = [root EXCEPT ![w] = None]
       \/ Taken /\ Goto(w, "clean") /\ UNCHANGED <<site, root>>
    /\ UNCHANGED <<mine, proof, book, lock, files, data, occupied, calls, loaded>>

\* The files of a step may be written in part before the step fails.
SealFails(w) ==
    /\ pc[w] \in {"write", "list", "load", "rename"} /\ Goto(w, "clean") /\ Fault
    /\ \E f \in SUBSET (IF pc[w] = "write" THEN {"records", "snapshot"} ELSE {}) :
          files' = [files EXCEPT ![mine[w]] = @ \cup f]
    /\ UNCHANGED <<mine, root, proof, book, lock, site, data, occupied, calls, loaded>>

\* The published marker goes; when that fails the bundle stays, and the
\* caller hears that only its durability is in doubt.
Unmark(w) ==
    /\ pc[w] = "unmark" /\ Goto(w, "closed") /\ Unlock(w)
    /\ \/ Sound /\ files' = [files EXCEPT ![mine[w]] = @ \ {"marker"}]
       \/ Fault /\ \E f \in {{}, {"marker"}} : files' = [files EXCEPT ![mine[w]] = @ \ f]
    /\ UNCHANGED <<mine, root, proof, book, site, data, occupied, calls, loaded>>

-----------------------------------------------------------------------------
(* Cleaning up: after a failed finalize and in abort, as often as asked.   *)

Abort(w) ==
    /\ pc[w] \in {"open", "closed"} /\ root[w] # None /\ Goto(w, "clean") /\ Sound
    /\ UNCHANGED <<mine, root, proof, book, lock, disk, calls, loaded>>

\* Whatever happened to the directory, the writer is closed and lets go.
Leave(w) == Goto(w, "closed") /\ Unlock(w)

\* A tombstone without marker belongs to this writer if it is empty.
Repair(w) ==
    /\ pc[w] = "clean" /\ root[w] = "tombstone" /\ "marker" \notin files[mine[w]] /\ Sound
    /\ IF proof[w] \/ files[mine[w]] = {}
         THEN Goto(w, "bury") /\ proof' = [proof EXCEPT ![w] = TRUE] /\ UNCHANGED lock
         ELSE Leave(w) /\ UNCHANGED proof
    /\ UNCHANGED <<mine, root, book, disk, calls, loaded>>

Move(w) ==
    /\ pc[w] = "clean" /\ root[w] = "staging" /\ Owned(w) /\ Goto(w, "empty") /\ Sound
    /\ site' = [site EXCEPT ![mine[w]] = "tombstone"]
    /\ root' = [root EXCEPT ![w] = "tombstone"]
    /\ UNCHANGED <<mine, proof, book, lock, files, data, occupied, calls, loaded>>

\* Bug: the new name is only remembered once the parent is on disk.
BugMoveFails(w) ==
    /\ pc[w] = "clean" /\ root[w] = "staging" /\ Fault /\ Leave(w)
    /\ \E s \in {"staging", "tombstone"} : site' = [site EXCEPT ![mine[w]] = s]
    /\ UNCHANGED <<mine, root, proof, book, files, data, occupied, calls, loaded>>

\* The rename fails, or the flush of the parent behind it.
MoveFails(w) ==
    /\ pc[w] = "clean" /\ root[w] = "staging" /\ Fault /\ Leave(w)
    /\ \E s \in {"staging", "tombstone"} :
          site' = [site EXCEPT ![mine[w]] = s] /\ root' = [root EXCEPT ![w] = s]
    /\ UNCHANGED <<mine, proof, book, files, data, occupied, calls, loaded>>

MovedBefore(w) ==
    /\ pc[w] = "clean" /\ root[w] = "tombstone" /\ Owned(w) /\ Goto(w, "empty") /\ Sound
    /\ UNCHANGED <<mine, root, proof, book, lock, disk, calls, loaded>>

Empty(w) ==
    /\ pc[w] = "empty" /\ Goto(w, "drop") /\ Sound
    /\ files' = [files EXCEPT ![mine[w]] = @ \cap {"marker"}]
    /\ UNCHANGED <<mine, root, proof, book, lock, site, data, occupied, calls, loaded>>

\* The marker is the last to go, so that an interrupted removal is still ours.
DropMarker(w) ==
    /\ pc[w] = "drop" /\ Goto(w, "bury") /\ Sound
    /\ files' = [files EXCEPT ![mine[w]] = {}]
    /\ UNCHANGED <<mine, root, proof, book, lock, site, data, occupied, calls, loaded>>

EmptyFails(w) ==
    /\ pc[w] \in {"empty", "drop"} /\ Fault /\ Leave(w)
    /\ \E f \in SUBSET (files[mine[w]] \cap Contents) : files' = [files EXCEPT ![mine[w]] = @ \ f]
    /\ UNCHANGED <<mine, root, proof, book, site, data, occupied, calls, loaded>>

Bury(w) ==
    /\ pc[w] = "bury" /\ Leave(w) /\ Sound
    /\ site' = [site EXCEPT ![mine[w]] = None] /\ root' = [root EXCEPT ![w] = None]
    /\ proof' = [proof EXCEPT ![w] = FALSE]
    /\ UNCHANGED <<mine, book, files, data, occupied, calls, loaded>>

\* rmdir fails: a stand-in for the marker is made, if that succeeds.
BuryFails(w) ==
    /\ pc[w] = "bury" /\ Fault /\ Leave(w)
    /\ \E p \in {proof[w], TRUE} : proof' = [proof EXCEPT ![w] = p]
    /\ UNCHANGED <<mine, root, book, disk, calls, loaded>>

\* Validation or the stand-in fails and the directory stays as it is.
CleanFails(w) ==
    /\ pc[w] = "clean" /\ Leave(w)
    /\ IF Owned(w) \/ files[mine[w]] = {} THEN Fault ELSE Sound
    /\ UNCHANGED <<mine, root, proof, book, disk, calls, loaded>>

-----------------------------------------------------------------------------
\* A replay loads the destination; a lookup is answered from what it loaded.
Load ==
    /\ loaded = Unread /\ Sound
    /\ \/ \E d \in Writers : /\ site[d] = "final"
                            /\ loaded' = [valid |-> Loads(d), records |-> data[d]]
       \/ occupied /\ loaded' = [valid |-> FALSE, records |-> Blank]
    /\ UNCHANGED <<pc, mine, root, proof, book, lock, disk, calls>>

\* An answer, or the refusal of a request that was never recorded.
Lookup(records, q) == IF records[q] = None THEN "REPLAY_MISS" ELSE records[q]

\* Somebody else makes a directory of the destination's name.
Occupy ==
    /\ ~Taken /\ occupied' = TRUE /\ Fault
    /\ UNCHANGED <<pc, mine, root, proof, book, lock, site, files, data, calls, loaded>>

\* The operating system frees the lock of a dead process.
Crash(w) ==
    /\ pc[w] \notin {"new", "refused", "lost", "dead"} /\ Goto(w, "dead") /\ Unlock(w)
    /\ crashes < MaxCrashes /\ crashes' = crashes + 1
    /\ seen' = [k \in Calls |-> IF By[k] = w /\ seen[k] = "asked" THEN "gone" ELSE seen[k]]
    /\ UNCHANGED <<mine, root, proof, book, disk, ask, loaded, faults>>

Create(w) == CheckFinal(w) \/ TryLock(w) \/ MakeStaging(w) \/ WriteMarker(w) \/ CreateFails(w)
Seal(w) == WriteRecords(w) \/ WriteManifest(w) \/ LoadStaging(w) \/ Rename(w) \/ Unmark(w)
           \/ SealFails(w)
Clean(w) == Repair(w) \/ Move(w) \/ MovedBefore(w) \/ Empty(w) \/ DropMarker(w) \/ Bury(w)
            \/ MoveFails(w) \/ EmptyFails(w) \/ BuryFails(w) \/ CleanFails(w)

Next ==
    \/ \E w \in Writers : Create(w) \/ Finalize(w) \/ Seal(w) \/ Abort(w) \/ Clean(w) \/ Crash(w)
    \/ \E k \in Calls : Ask(k) \/ \E a \in Answers : Answer(k, a)
    \/ Load \/ Occupy

Spec == Init /\ [][Next]_vars

-----------------------------------------------------------------------------
\* Whatever fails or dies on the way, a bundle under its final name is
\* complete, loads, and holds the records of the writer that made it.
BundleIsWhole ==
    \A d \in Writers : site[d] = "final" =>
        Loads(d) /\ data[d] = book[d] /\ (loaded # Unread => loaded.valid /\ loaded.records = data[d])

\* A published bundle is never moved, replaced, emptied or added to, by its
\* own writer's failures and aborts as little as by other writers; nor is a
\* directory that somebody else put there first.
BundleStands ==
    [][/\ occupied => occupied'
       /\ \A d \in Writers : site[d] = "final" =>
             /\ site'[d] = "final" /\ data'[d] = data[d]
             /\ files'[d] \cap Contents = files[d] \cap Contents]_vars

\* What a caller got while the run was recorded is what a replay of the
\* bundle answers, also when calls of one request overlap or fail.
CallersSeeTheRecord ==
    \A k \in Calls : seen[k] \in Answers =>
        /\ book[By[k]][ask[k]] = seen[k]
        /\ loaded.valid /\ site[By[k]] = "final" => Lookup(loaded.records, ask[k]) = seen[k]

\* No directory is forgotten: one that is not published is known, by its
\* name, to the writer that made it, unless the process died or said at
\* create that it could not clean up.
LeftoverIsKnown ==
    \A d \in Writers : site[d] \in {"staging", "tombstone"} =>
        pc[d] \in {"dead", "lost"} \/ (mine[d] = d /\ root[d] = site[d])

\* A bundle is a whole record of what its callers saw, from the moment it
\* stands under its final name (finalize, _record_call).
BundleSound == BundleIsWhole /\ CallersSeeTheRecord
=============================================================================
