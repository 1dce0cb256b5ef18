----------------------------- MODULE Disk_proofs -----------------------------
(***************************************************************************)
(* Proofs about what is left on disk that others share: the bundles of     *)
(* ReplayBundles, by RecordingInv, and the content stores, by ShelfInv.    *)
(***************************************************************************)
EXTENDS MCReplayBundles, FiniteInduction, SequenceTheorems

-----------------------------------------------------------------------------
(* Recording: what holds at every step of the writers. *)

Places == {None, "staging", "tombstone", "final"}
PCs == {"new", "free", "locked", "made", "open", "write", "list", "load", "rename", "unmark",
        "clean", "empty", "drop", "bury", "closed", "refused", "lost", "dead"}
SeenStates == {"idle", "asked", "late", "unrecorded", "gone"} \cup Answers
Book == [Requests -> Answers \cup {None}]

RecordingTypeOK ==
    /\ pc \in [Writers -> PCs] /\ mine \in [Writers -> Writers \cup {None}]
    /\ root \in [Writers -> Places \ {"final"}] /\ proof \in [Writers -> BOOLEAN]
    /\ book \in [Writers -> Book] /\ data \in [Writers -> Book]
    /\ site \in [Writers -> Places] /\ files \in [Writers -> SUBSET (Contents \cup {"marker"})]
    /\ ask \in [Calls -> Requests] /\ seen \in [Calls -> SeenStates]
    /\ occupied \in BOOLEAN /\ faults \in Nat /\ crashes \in Nat

\* Where a writer is says which directory it has, and where that is on disk.
Began(w) == pc[w] \in {"made", "open", "write", "list", "load", "rename"}
Burying(w) == pc[w] \in {"empty", "drop", "bury"}

PlaceInv(w) ==
    /\ mine[w] \in {w, None}
    /\ pc[w] \in {"new", "free", "locked", "refused"} => site[w] = None
    /\ pc[w] \in {"unmark", "clean", "closed"} \/ Began(w) \/ Burying(w) => mine[w] = w
    /\ Began(w) => root[w] = "staging" /\ site[w] = "staging"
    /\ Burying(w) => root[w] = "tombstone" /\ site[w] = "tombstone"
    /\ pc[w] = "clean" => root[w] = site[w] /\ root[w] # None
    /\ pc[w] = "unmark" => site[w] = "final"
    /\ pc[w] = "closed" /\ site[w] # "final" => root[w] = site[w]
    /\ site[w] = "final" => pc[w] \in {"unmark", "closed", "dead"} /\ root[w] = None

\* What has been written of a bundle, and what stays in it.
ContentInv(w) ==
    /\ pc[w] \in {"list", "load", "rename"} =>
          {"records", "snapshot"} \subseteq files[w] /\ data[w] = book[w]
    /\ pc[w] = "rename" \/ site[w] = "final" => Loads(w) /\ data[w] = book[w]

\* The destination is taken once, and what a replay loaded is what is there.
DestinationInv ==
    /\ \A d, e \in Writers : site[d] = "final" /\ site[e] = "final" => d = e
    /\ occupied => \A d \in Writers : site[d] # "final"
    /\ loaded # Unread => Taken
    /\ \A d \in Writers : site[d] = "final" /\ loaded # Unread =>
          loaded.valid /\ loaded.records = data[d]
    /\ loaded.valid => \E d \in Writers : site[d] = "final"

HeardInv == \A k \in Calls : seen[k] \in Answers => book[By[k]][ask[k]] = seen[k]

RecordingInv ==
    /\ RecordingTypeOK /\ DestinationInv /\ HeardInv
    /\ \A w \in Writers : PlaceInv(w) /\ ContentInv(w)

-----------------------------------------------------------------------------
(* What a step leaves of the writers and of the destination it is not about. *)

\* A writer, and the directory it made, that nothing is done to.
Still(d) ==
    /\ pc'[d] = pc[d] /\ mine'[d] = mine[d] /\ root'[d] = root[d] /\ book'[d] = book[d]
    /\ site'[d] = site[d] /\ files'[d] = files[d] /\ data'[d] = data[d]

LEMMA StillKept ==
    ASSUME NEW d \in Writers, PlaceInv(d), ContentInv(d), Still(d)
    PROVE  PlaceInv(d)' /\ ContentInv(d)'
BY DEF Still, PlaceInv, ContentInv, Began, Burying, Loads

\* The destination keeps who is there, and what was loaded from it.
Untaken ==
    /\ UNCHANGED <<occupied, loaded>>
    /\ \A d \in Writers : (site'[d] = "final") = (site[d] = "final")
    /\ \A d \in Writers : site[d] = "final" => data'[d] = data[d]

LEMMA DestinationKept ==
    ASSUME DestinationInv, Untaken
    PROVE  DestinationInv'
BY DEF DestinationInv, Untaken, Taken

LEMMA HeardKept ==
    ASSUME HeardInv, UNCHANGED <<book, calls>>
    PROVE  HeardInv'
BY DEF HeardInv, calls

-----------------------------------------------------------------------------
(* One lemma per step of a writer: its types, the writer itself, the others, *)
(* the destination and what callers heard.                                   *)

LEMMA CheckFinalKeeps ==
    ASSUME RecordingInv, NEW w \in Writers, CheckFinal(w)
    PROVE  RecordingInv'
<1> USE RecordingAssumption
<1>1. RecordingTypeOK /\ PlaceInv(w) /\ ContentInv(w) /\ DestinationInv /\ HeardInv
  BY DEF RecordingInv
<1>2. RecordingTypeOK'
  BY <1>1 DEF RecordingTypeOK, None, CheckFinal, Goto, Sound, bounds, disk, calls, PCs, Places,
    PlaceInv, Began, Burying, Contents, Book, SeenStates
<1>3. \A d \in Writers : d # w => Still(d)
  BY <1>1 DEF Still, None, RecordingTypeOK, CheckFinal, Goto, Sound, bounds, disk, calls,
    PlaceInv, Began, Burying
<1>4. PlaceInv(w)' /\ ContentInv(w)'
  BY <1>1 DEF PlaceInv, None, ContentInv, CheckFinal, Goto, Sound, bounds, disk, calls,
    RecordingTypeOK, Began, Burying, Contents, Loads, PCs, Places
<1>5. DestinationInv'
  <2>1. Untaken
    BY <1>1 DEF Untaken, None, RecordingTypeOK, CheckFinal, Goto, Sound, bounds, disk, calls,
      PlaceInv, Began, Burying
  <2> QED BY <1>1, <2>1, DestinationKept
<1>6. HeardInv'
  BY <1>1, HeardKept DEF CheckFinal, calls, disk
<1> QED BY <1>2, <1>3, <1>4, <1>5, <1>6, StillKept DEF RecordingInv

LEMMA TryLockKeeps ==
    ASSUME RecordingInv, NEW w \in Writers, TryLock(w)
    PROVE  RecordingInv'
<1> USE RecordingAssumption
<1>1. RecordingTypeOK /\ PlaceInv(w) /\ ContentInv(w) /\ DestinationInv /\ HeardInv
  BY DEF RecordingInv
<1>2. RecordingTypeOK'
  BY <1>1 DEF RecordingTypeOK, None, TryLock, Goto, Sound, bounds, disk, calls, PCs, Places,
    PlaceInv, Began, Burying, Contents, Book, SeenStates
<1>3. \A d \in Writers : d # w => Still(d)
  BY <1>1 DEF Still, None, RecordingTypeOK, TryLock, Goto, Sound, bounds, disk, calls, PlaceInv,
    Began, Burying
<1>4. PlaceInv(w)' /\ ContentInv(w)'
  BY <1>1 DEF PlaceInv, None, ContentInv, TryLock, Goto, Sound, bounds, disk, calls,
    RecordingTypeOK, Began, Burying, Contents, Loads, PCs, Places
<1>5. DestinationInv'
  <2>1. Untaken
    BY <1>1 DEF Untaken, None, RecordingTypeOK, TryLock, Goto, Sound, bounds, disk, calls,
      PlaceInv, Began, Burying
  <2> QED BY <1>1, <2>1, DestinationKept
<1>6. HeardInv'
  BY <1>1, HeardKept DEF TryLock, calls, disk
<1> QED BY <1>2, <1>3, <1>4, <1>5, <1>6, StillKept DEF RecordingInv

LEMMA MakeStagingKeeps ==
    ASSUME RecordingInv, NEW w \in Writers, MakeStaging(w)
    PROVE  RecordingInv'
<1> USE RecordingAssumption
<1>1. RecordingTypeOK /\ PlaceInv(w) /\ ContentInv(w) /\ DestinationInv /\ HeardInv
  BY DEF RecordingInv
<1>2. RecordingTypeOK'
  <2>1. pc' \in [Writers -> PCs]
    BY <1>1 DEF RecordingTypeOK, None, MakeStaging, Goto, Sound, bounds, calls, Unlock, PCs
  <2>2. site' \in [Writers -> Places] /\ root' \in [Writers -> Places \ {"final"}]
    BY <1>1 DEF RecordingTypeOK, None, MakeStaging, Goto, Sound, bounds, calls, Unlock, Places
  <2>3. files' \in [Writers -> SUBSET (Contents \cup {"marker"})]
    BY <1>1 DEF RecordingTypeOK, None, MakeStaging, Goto, Sound, bounds, calls, Unlock, Contents
  <2>4. data' \in [Writers -> Book] /\ book' \in [Writers -> Book]
    BY <1>1 DEF RecordingTypeOK, None, MakeStaging, Goto, Sound, bounds, calls, Unlock
  <2>5. mine' \in [Writers -> Writers \cup {None}] /\ proof' \in [Writers -> BOOLEAN]
    BY <1>1 DEF RecordingTypeOK, None, MakeStaging, Goto, Sound, bounds, calls, Unlock
  <2>6. faults' \in Nat /\ crashes' \in Nat
    BY <1>1 DEF RecordingTypeOK, None, MakeStaging, Goto, Sound, bounds, calls, Unlock
  <2> QED BY <1>1, <2>1, <2>2, <2>3, <2>4, <2>5, <2>6 DEF RecordingTypeOK, MakeStaging, calls
<1>3. \A d \in Writers : d # w => Still(d)
  BY <1>1 DEF Still, None, RecordingTypeOK, MakeStaging, Goto, Sound, bounds, calls, Unlock,
    PlaceInv, Began, Burying
<1>4. PlaceInv(w)' /\ ContentInv(w)'
  BY <1>1 DEF PlaceInv, None, ContentInv, MakeStaging, Goto, Sound, bounds, calls, Unlock,
    RecordingTypeOK, Began, Burying, Contents, Loads, PCs, Places
<1>5. DestinationInv'
  <2>1. Untaken
    BY <1>1 DEF Untaken, None, RecordingTypeOK, MakeStaging, Goto, Sound, bounds, calls, Unlock,
      PlaceInv, Began, Burying
  <2> QED BY <1>1, <2>1, DestinationKept
<1>6. HeardInv'
  BY <1>1, HeardKept DEF MakeStaging, calls
<1> QED BY <1>2, <1>3, <1>4, <1>5, <1>6, StillKept DEF RecordingInv

LEMMA WriteMarkerKeeps ==
    ASSUME RecordingInv, NEW w \in Writers, WriteMarker(w)
    PROVE  RecordingInv'
<1> USE RecordingAssumption
<1>1. RecordingTypeOK /\ PlaceInv(w) /\ ContentInv(w) /\ DestinationInv /\ HeardInv
  BY DEF RecordingInv
<1>2. mine[w] = w
  BY <1>1 DEF WriteMarker, PlaceInv, Began, Burying, None
<1>3. RecordingTypeOK'
  BY <1>1, <1>2 DEF RecordingTypeOK, None, WriteMarker, Goto, Sound, bounds, calls, PCs, Places,
    PlaceInv, Began, Burying, Contents, Book, SeenStates
<1>4. \A d \in Writers : d # w => Still(d)
  BY <1>1, <1>2 DEF Still, None, RecordingTypeOK, WriteMarker, Goto, Sound, bounds, calls,
    PlaceInv, Began, Burying
<1>5. PlaceInv(w)' /\ ContentInv(w)'
  BY <1>1, <1>2 DEF PlaceInv, None, ContentInv, WriteMarker, Goto, Sound, bounds, calls,
    RecordingTypeOK, Began, Burying, Contents, Loads, PCs, Places
<1>6. DestinationInv'
  <2>1. Untaken
    BY <1>1, <1>2 DEF Untaken, None, RecordingTypeOK, WriteMarker, Goto, Sound, bounds, calls,
      PlaceInv, Began, Burying
  <2> QED BY <1>1, <2>1, DestinationKept
<1>7. HeardInv'
  BY <1>1, HeardKept DEF WriteMarker, calls
<1> QED BY <1>3, <1>4, <1>5, <1>6, <1>7, StillKept DEF RecordingInv

LEMMA CreateFailsKeeps ==
    ASSUME RecordingInv, NEW w \in Writers, CreateFails(w)
    PROVE  RecordingInv'
<1> USE RecordingAssumption
<1>1. RecordingTypeOK /\ PlaceInv(w) /\ ContentInv(w) /\ DestinationInv /\ HeardInv
  BY DEF RecordingInv
<1>2. mine[w] = w
  BY <1>1 DEF CreateFails, PlaceInv, Began, Burying, None
<1>3. RecordingTypeOK'
  <2>1. pc' \in [Writers -> PCs]
    BY <1>1 DEF RecordingTypeOK, None, CreateFails, Goto, Fault, calls, Unlock, PCs
  <2>2. site' \in [Writers -> Places] /\ root' \in [Writers -> Places \ {"final"}]
    BY <1>1, <1>2 DEF RecordingTypeOK, None, CreateFails, Goto, Fault, calls, Unlock, Places
  <2>3. files' \in [Writers -> SUBSET (Contents \cup {"marker"})]
    <3>1. PICK left \in SUBSET {"marker"} : files' = files \/ files' = [files EXCEPT ![w] = left]
      BY <1>2 DEF CreateFails
    <3>2. files \in [Writers -> SUBSET (Contents \cup {"marker"})] /\ left \subseteq Contents \cup {"marker"}
      BY <1>1 DEF RecordingTypeOK
    <3> QED BY <3>1, <3>2
  <2>4. data' \in [Writers -> Book] /\ book' \in [Writers -> Book]
    BY <1>1, <1>2 DEF RecordingTypeOK, None, CreateFails, Goto, Fault, calls, Unlock
  <2>5. mine' \in [Writers -> Writers \cup {None}] /\ proof' \in [Writers -> BOOLEAN]
    BY <1>1, <1>2 DEF RecordingTypeOK, None, CreateFails, Goto, Fault, calls, Unlock
  <2>6. faults' \in Nat /\ crashes' \in Nat
    BY <1>1 DEF RecordingTypeOK, None, CreateFails, Goto, Fault, calls, Unlock
  <2> QED BY <1>1, <2>1, <2>2, <2>3, <2>4, <2>5, <2>6 DEF RecordingTypeOK, CreateFails, calls
<1>4. \A d \in Writers : d # w => Still(d)
  BY <1>1, <1>2 DEF Still, None, RecordingTypeOK, CreateFails, Goto, Fault, calls, Unlock,
    PlaceInv, Began, Burying
<1>5. PlaceInv(w)' /\ ContentInv(w)'
  BY <1>1, <1>2 DEF PlaceInv, None, ContentInv, CreateFails, Goto, Fault, calls, Unlock,
    RecordingTypeOK, Began, Burying, Contents, Loads, PCs, Places
<1>6. DestinationInv'
  <2>1. Untaken
    BY <1>1, <1>2 DEF Untaken, None, RecordingTypeOK, CreateFails, Goto, Fault, calls, Unlock,
      PlaceInv, Began, Burying
  <2> QED BY <1>1, <2>1, DestinationKept
<1>7. HeardInv'
  BY <1>1, HeardKept DEF CreateFails, calls
<1> QED BY <1>3, <1>4, <1>5, <1>6, <1>7, StillKept DEF RecordingInv

LEMMA FinalizeKeeps ==
    ASSUME RecordingInv, NEW w \in Writers, Finalize(w)
    PROVE  RecordingInv'
<1> USE RecordingAssumption
<1>1. RecordingTypeOK /\ PlaceInv(w) /\ ContentInv(w) /\ DestinationInv /\ HeardInv
  BY DEF RecordingInv
<1>2. mine[w] = w
  BY <1>1 DEF Finalize, PlaceInv, Began, Burying, None
<1>3. RecordingTypeOK'
  BY <1>1, <1>2 DEF RecordingTypeOK, None, Finalize, Goto, Sound, bounds, disk, calls, Owned,
    PCs, Places, PlaceInv, Began, Burying, Contents, Book, SeenStates
<1>4. \A d \in Writers : d # w => Still(d)
  BY <1>1, <1>2 DEF Still, None, RecordingTypeOK, Finalize, Goto, Sound, bounds, disk, calls,
    Owned, PlaceInv, Began, Burying
<1>5. PlaceInv(w)' /\ ContentInv(w)'
  BY <1>1, <1>2 DEF PlaceInv, None, ContentInv, Finalize, Goto, Sound, bounds, disk, calls,
    Owned, RecordingTypeOK, Began, Burying, Contents, Loads, PCs, Places
<1>6. DestinationInv'
  <2>1. Untaken
    BY <1>1, <1>2 DEF Untaken, None, RecordingTypeOK, Finalize, Goto, Sound, bounds, disk,
      calls, Owned, PlaceInv, Began, Burying
  <2> QED BY <1>1, <2>1, DestinationKept
<1>7. HeardInv'
  BY <1>1, HeardKept DEF Finalize, calls, disk
<1> QED BY <1>3, <1>4, <1>5, <1>6, <1>7, StillKept DEF RecordingInv

LEMMA WriteRecordsKeeps ==
    ASSUME RecordingInv, NEW w \in Writers, WriteRecords(w)
    PROVE  RecordingInv'
<1> USE RecordingAssumption
<1>1. RecordingTypeOK /\ PlaceInv(w) /\ ContentInv(w) /\ DestinationInv /\ HeardInv
  BY DEF RecordingInv
<1>2. mine[w] = w
  BY <1>1 DEF WriteRecords, PlaceInv, Began, Burying, None
<1>3. RecordingTypeOK'
  <2>1. pc' \in [Writers -> PCs]
    BY <1>1 DEF RecordingTypeOK, None, WriteRecords, Goto, Sound, bounds, calls, PCs
  <2>2. site' \in [Writers -> Places] /\ root' \in [Writers -> Places \ {"final"}]
    BY <1>1, <1>2 DEF RecordingTypeOK, None, WriteRecords, Goto, Sound, bounds, calls, Places
  <2>3. files' \in [Writers -> SUBSET (Contents \cup {"marker"})]
    BY <1>1, <1>2 DEF RecordingTypeOK, None, WriteRecords, Goto, Sound, bounds, calls, Contents
  <2>4. data' \in [Writers -> Book] /\ book' \in [Writers -> Book]
    BY <1>1, <1>2 DEF RecordingTypeOK, None, WriteRecords, Goto, Sound, bounds, calls
  <2>5. mine' \in [Writers -> Writers \cup {None}] /\ proof' \in [Writers -> BOOLEAN]
    BY <1>1, <1>2 DEF RecordingTypeOK, None, WriteRecords, Goto, Sound, bounds, calls
  <2>6. faults' \in Nat /\ crashes' \in Nat
    BY <1>1 DEF RecordingTypeOK, None, WriteRecords, Goto, Sound, bounds, calls
  <2> QED BY <1>1, <2>1, <2>2, <2>3, <2>4, <2>5, <2>6 DEF RecordingTypeOK, WriteRecords, calls
<1>4. \A d \in Writers : d # w => Still(d)
  BY <1>1, <1>2 DEF Still, None, RecordingTypeOK, WriteRecords, Goto, Sound, bounds, calls,
    PlaceInv, Began, Burying
<1>5. PlaceInv(w)' /\ ContentInv(w)'
  BY <1>1, <1>2 DEF PlaceInv, None, ContentInv, WriteRecords, Goto, Sound, bounds, calls,
    RecordingTypeOK, Began, Burying, Contents, Loads, PCs, Places
<1>6. DestinationInv'
  <2>1. Untaken
    BY <1>1, <1>2 DEF Untaken, None, RecordingTypeOK, WriteRecords, Goto, Sound, bounds, calls,
      PlaceInv, Began, Burying
  <2> QED BY <1>1, <2>1, DestinationKept
<1>7. HeardInv'
  BY <1>1, HeardKept DEF WriteRecords, calls
<1> QED BY <1>3, <1>4, <1>5, <1>6, <1>7, StillKept DEF RecordingInv

LEMMA WriteManifestKeeps ==
    ASSUME RecordingInv, NEW w \in Writers, WriteManifest(w)
    PROVE  RecordingInv'
<1> USE RecordingAssumption
<1>1. RecordingTypeOK /\ PlaceInv(w) /\ ContentInv(w) /\ DestinationInv /\ HeardInv
  BY DEF RecordingInv
<1>2. mine[w] = w
  BY <1>1 DEF WriteManifest, PlaceInv, Began, Burying, None
<1>3. RecordingTypeOK'
  BY <1>1, <1>2 DEF RecordingTypeOK, None, WriteManifest, Goto, Sound, bounds, calls, PCs,
    Places, PlaceInv, Began, Burying, Contents, Book, SeenStates
<1>4. \A d \in Writers : d # w => Still(d)
  BY <1>1, <1>2 DEF Still, None, RecordingTypeOK, WriteManifest, Goto, Sound, bounds, calls,
    PlaceInv, Began, Burying
<1>5. PlaceInv(w)' /\ ContentInv(w)'
  BY <1>1, <1>2 DEF PlaceInv, None, ContentInv, WriteManifest, Goto, Sound, bounds, calls,
    RecordingTypeOK, Began, Burying, Contents, Loads, PCs, Places
<1>6. DestinationInv'
  <2>1. Untaken
    BY <1>1, <1>2 DEF Untaken, None, RecordingTypeOK, WriteManifest, Goto, Sound, bounds, calls,
      PlaceInv, Began, Burying
  <2> QED BY <1>1, <2>1, DestinationKept
<1>7. HeardInv'
  BY <1>1, HeardKept DEF WriteManifest, calls
<1> QED BY <1>3, <1>4, <1>5, <1>6, <1>7, StillKept DEF RecordingInv

LEMMA LoadStagingKeeps ==
    ASSUME RecordingInv, NEW w \in Writers, LoadStaging(w)
    PROVE  RecordingInv'
<1> USE RecordingAssumption
<1>1. RecordingTypeOK /\ PlaceInv(w) /\ ContentInv(w) /\ DestinationInv /\ HeardInv
  BY DEF RecordingInv
<1>2. mine[w] = w
  BY <1>1 DEF LoadStaging, PlaceInv, Began, Burying, None
<1>3. RecordingTypeOK'
  BY <1>1, <1>2 DEF RecordingTypeOK, None, LoadStaging, Goto, Sound, bounds, disk, calls, Owned,
    Loads, PCs, Places, PlaceInv, Began, Burying, Contents, Book, SeenStates
<1>4. \A d \in Writers : d # w => Still(d)
  BY <1>1, <1>2 DEF Still, None, RecordingTypeOK, LoadStaging, Goto, Sound, bounds, disk, calls,
    Owned, Loads, PlaceInv, Began, Burying
<1>5. PlaceInv(w)' /\ ContentInv(w)'
  BY <1>1, <1>2 DEF PlaceInv, None, ContentInv, LoadStaging, Goto, Sound, bounds, disk, calls,
    Owned, Loads, RecordingTypeOK, Began, Burying, Contents, PCs, Places
<1>6. DestinationInv'
  <2>1. Untaken
    BY <1>1, <1>2 DEF Untaken, None, RecordingTypeOK, LoadStaging, Goto, Sound, bounds, disk,
      calls, Owned, Loads, PlaceInv, Began, Burying
  <2> QED BY <1>1, <2>1, DestinationKept
<1>7. HeardInv'
  BY <1>1, HeardKept DEF LoadStaging, calls, disk
<1> QED BY <1>3, <1>4, <1>5, <1>6, <1>7, StillKept DEF RecordingInv

LEMMA RenameKeeps ==
    ASSUME RecordingInv, NEW w \in Writers, Rename(w)
    PROVE  RecordingInv'
<1> USE RecordingAssumption
<1>1. RecordingTypeOK /\ PlaceInv(w) /\ ContentInv(w) /\ DestinationInv /\ HeardInv
  BY DEF RecordingInv
<1>2. mine[w] = w
  BY <1>1 DEF Rename, PlaceInv, Began, Burying, None
<1>3. RecordingTypeOK'
  <2>1. pc' \in [Writers -> PCs]
    BY <1>1 DEF RecordingTypeOK, None, Rename, Goto, Sound, bounds, calls, PCs
  <2>2. site' \in [Writers -> Places] /\ root' \in [Writers -> Places \ {"final"}]
    BY <1>1, <1>2 DEF RecordingTypeOK, None, Rename, Goto, Sound, bounds, calls, Places
  <2>3. files' \in [Writers -> SUBSET (Contents \cup {"marker"})]
    BY <1>1, <1>2 DEF RecordingTypeOK, None, Rename, Goto, Sound, bounds, calls, Contents
  <2>4. data' \in [Writers -> Book] /\ book' \in [Writers -> Book]
    BY <1>1, <1>2 DEF RecordingTypeOK, None, Rename, Goto, Sound, bounds, calls
  <2>5. mine' \in [Writers -> Writers \cup {None}] /\ proof' \in [Writers -> BOOLEAN]
    BY <1>1, <1>2 DEF RecordingTypeOK, None, Rename, Goto, Sound, bounds, calls
  <2>6. faults' \in Nat /\ crashes' \in Nat
    BY <1>1 DEF RecordingTypeOK, None, Rename, Goto, Sound, bounds, calls
  <2> QED BY <1>1, <2>1, <2>2, <2>3, <2>4, <2>5, <2>6 DEF RecordingTypeOK, Rename, calls
<1>4. \A d \in Writers : d # w => Still(d)
  BY <1>1, <1>2 DEF Still, None, RecordingTypeOK, Rename, Goto, Sound, bounds, calls, PlaceInv,
    Began, Burying
<1>5. PlaceInv(w)' /\ ContentInv(w)'
  BY <1>1, <1>2 DEF PlaceInv, None, ContentInv, Rename, Goto, Sound, bounds, calls,
    RecordingTypeOK, Began, Burying, Contents, Loads, PCs, Places
<1>6. DestinationInv'
  BY <1>1, <1>2 DEF DestinationInv, None, RecordingTypeOK, Rename, Goto, Sound, bounds, calls,
    Taken, PlaceInv, ContentInv, Began
<1>7. HeardInv'
  BY <1>1, HeardKept DEF Rename, calls
<1> QED BY <1>3, <1>4, <1>5, <1>6, <1>7, StillKept DEF RecordingInv

LEMMA UnmarkKeeps ==
    ASSUME RecordingInv, NEW w \in Writers, Unmark(w)
    PROVE  RecordingInv'
<1> USE RecordingAssumption
<1>1. RecordingTypeOK /\ PlaceInv(w) /\ ContentInv(w) /\ DestinationInv /\ HeardInv
  BY DEF RecordingInv
<1>2. mine[w] = w
  BY <1>1 DEF Unmark, PlaceInv, Began, Burying, None
<1>3. RecordingTypeOK'
  <2>1. pc' \in [Writers -> PCs]
    BY <1>1 DEF RecordingTypeOK, None, Unmark, Goto, Sound, Fault, bounds, calls, Unlock, PCs
  <2>2. site' \in [Writers -> Places] /\ root' \in [Writers -> Places \ {"final"}]
    BY <1>1, <1>2 DEF RecordingTypeOK, None, Unmark, Goto, Sound, Fault, bounds, calls, Unlock,
      Places
  <2>3. files' \in [Writers -> SUBSET (Contents \cup {"marker"})]
    BY <1>1, <1>2 DEF RecordingTypeOK, None, Unmark, Goto, Sound, Fault, bounds, calls, Unlock,
      Contents
  <2>4. data' \in [Writers -> Book] /\ book' \in [Writers -> Book]
    BY <1>1, <1>2 DEF RecordingTypeOK, None, Unmark, Goto, Sound, Fault, bounds, calls, Unlock
  <2>5. mine' \in [Writers -> Writers \cup {None}] /\ proof' \in [Writers -> BOOLEAN]
    BY <1>1, <1>2 DEF RecordingTypeOK, None, Unmark, Goto, Sound, Fault, bounds, calls, Unlock
  <2>6. faults' \in Nat /\ crashes' \in Nat
    BY <1>1 DEF RecordingTypeOK, None, Unmark, Goto, Sound, Fault, bounds, calls, Unlock
  <2> QED BY <1>1, <2>1, <2>2, <2>3, <2>4, <2>5, <2>6 DEF RecordingTypeOK, Unmark, calls
<1>4. \A d \in Writers : d # w => Still(d)
  BY <1>1, <1>2 DEF Still, None, RecordingTypeOK, Unmark, Goto, Sound, Fault, bounds, calls,
    Unlock, PlaceInv, Began, Burying
<1>5. PlaceInv(w)' /\ ContentInv(w)'
  BY <1>1, <1>2 DEF PlaceInv, None, ContentInv, Unmark, Goto, Sound, Fault, bounds, calls,
    Unlock, RecordingTypeOK, Began, Burying, Contents, Loads, PCs, Places
<1>6. DestinationInv'
  <2>1. Untaken
    BY <1>1, <1>2 DEF Untaken, None, RecordingTypeOK, Unmark, Goto, Sound, Fault, bounds, calls,
      Unlock, PlaceInv, Began, Burying
  <2> QED BY <1>1, <2>1, DestinationKept
<1>7. HeardInv'
  BY <1>1, HeardKept DEF Unmark, calls
<1> QED BY <1>3, <1>4, <1>5, <1>6, <1>7, StillKept DEF RecordingInv

LEMMA SealFailsKeeps ==
    ASSUME RecordingInv, NEW w \in Writers, SealFails(w)
    PROVE  RecordingInv'
<1> USE RecordingAssumption
<1>1. RecordingTypeOK /\ PlaceInv(w) /\ ContentInv(w) /\ DestinationInv /\ HeardInv
  BY DEF RecordingInv
<1>2. mine[w] = w
  BY <1>1 DEF SealFails, PlaceInv, Began, Burying, None
<1>3. RecordingTypeOK'
  <2>1. pc' \in [Writers -> PCs]
    BY <1>1 DEF RecordingTypeOK, None, SealFails, Goto, Fault, calls, PCs
  <2>2. site' \in [Writers -> Places] /\ root' \in [Writers -> Places \ {"final"}]
    BY <1>1, <1>2 DEF RecordingTypeOK, None, SealFails, Goto, Fault, calls, Places
  <2>3. files' \in [Writers -> SUBSET (Contents \cup {"marker"})]
    <3>1. PICK f \in SUBSET Contents : files' = [files EXCEPT ![w] = files[w] \cup f]
      BY <1>1, <1>2 DEF SealFails, Contents, RecordingTypeOK
    <3>2. files[w] \cup f \in SUBSET (Contents \cup {"marker"})
      BY <1>1 DEF RecordingTypeOK
    <3> QED BY <1>1, <3>1, <3>2 DEF RecordingTypeOK
  <2>4. data' \in [Writers -> Book] /\ book' \in [Writers -> Book]
    BY <1>1, <1>2 DEF RecordingTypeOK, None, SealFails, Goto, Fault, calls
  <2>5. mine' \in [Writers -> Writers \cup {None}] /\ proof' \in [Writers -> BOOLEAN]
    BY <1>1, <1>2 DEF RecordingTypeOK, None, SealFails, Goto, Fault, calls
  <2>6. faults' \in Nat /\ crashes' \in Nat
    BY <1>1 DEF RecordingTypeOK, None, SealFails, Goto, Fault, calls
  <2> QED BY <1>1, <2>1, <2>2, <2>3, <2>4, <2>5, <2>6 DEF RecordingTypeOK, SealFails, calls
<1>4. \A d \in Writers : d # w => Still(d)
  BY <1>1, <1>2 DEF Still, None, RecordingTypeOK, SealFails, Goto, Fault, calls, PlaceInv,
    Began, Burying
<1>5. PlaceInv(w)' /\ ContentInv(w)'
  BY <1>1, <1>2 DEF PlaceInv, None, ContentInv, SealFails, Goto, Fault, calls, RecordingTypeOK,
    Began, Burying, Contents, Loads, PCs, Places
<1>6. DestinationInv'
  <2>1. Untaken
    BY <1>1, <1>2 DEF Untaken, None, RecordingTypeOK, SealFails, Goto, Fault, calls, PlaceInv,
      Began, Burying
  <2> QED BY <1>1, <2>1, DestinationKept
<1>7. HeardInv'
  BY <1>1, HeardKept DEF SealFails, calls
<1> QED BY <1>3, <1>4, <1>5, <1>6, <1>7, StillKept DEF RecordingInv

LEMMA AbortKeeps ==
    ASSUME RecordingInv, NEW w \in Writers, Abort(w)
    PROVE  RecordingInv'
<1> USE RecordingAssumption
<1>1. RecordingTypeOK /\ PlaceInv(w) /\ ContentInv(w) /\ DestinationInv /\ HeardInv
  BY DEF RecordingInv
<1>2. RecordingTypeOK'
  BY <1>1 DEF RecordingTypeOK, None, Abort, Goto, Sound, bounds, disk, calls, PCs, Places,
    PlaceInv, Began, Burying, Contents, Book, SeenStates
<1>3. \A d \in Writers : d # w => Still(d)
  BY <1>1 DEF Still, None, RecordingTypeOK, Abort, Goto, Sound, bounds, disk, calls, PlaceInv,
    Began, Burying
<1>4. PlaceInv(w)' /\ ContentInv(w)'
  BY <1>1 DEF PlaceInv, None, ContentInv, Abort, Goto, Sound, bounds, disk, calls,
    RecordingTypeOK, Began, Burying, Contents, Loads, PCs, Places
<1>5. DestinationInv'
  <2>1. Untaken
    BY <1>1 DEF Untaken, None, RecordingTypeOK, Abort, Goto, Sound, bounds, disk, calls,
      PlaceInv, Began, Burying
  <2> QED BY <1>1, <2>1, DestinationKept
<1>6. HeardInv'
  BY <1>1, HeardKept DEF Abort, calls, disk
<1> QED BY <1>2, <1>3, <1>4, <1>5, <1>6, StillKept DEF RecordingInv

LEMMA RepairKeeps ==
    ASSUME RecordingInv, NEW w \in Writers, Repair(w)
    PROVE  RecordingInv'
<1> USE RecordingAssumption
<1>1. RecordingTypeOK /\ PlaceInv(w) /\ ContentInv(w) /\ DestinationInv /\ HeardInv
  BY DEF RecordingInv
<1>2. mine[w] = w
  BY <1>1 DEF Repair, PlaceInv, Began, Burying, None
<1>3. RecordingTypeOK'
  BY <1>1, <1>2 DEF RecordingTypeOK, None, Repair, Goto, Sound, bounds, disk, calls, Leave,
    Unlock, PCs, Places, PlaceInv, Began, Burying, Contents, Book, SeenStates
<1>4. \A d \in Writers : d # w => Still(d)
  BY <1>1, <1>2 DEF Still, None, RecordingTypeOK, Repair, Goto, Sound, bounds, disk, calls,
    Leave, Unlock, PlaceInv, Began, Burying
<1>5. PlaceInv(w)' /\ ContentInv(w)'
  BY <1>1, <1>2 DEF PlaceInv, None, ContentInv, Repair, Goto, Sound, bounds, disk, calls, Leave,
    Unlock, RecordingTypeOK, Began, Burying, Contents, Loads, PCs, Places
<1>6. DestinationInv'
  <2>1. Untaken
    BY <1>1, <1>2 DEF Untaken, None, RecordingTypeOK, Repair, Goto, Sound, bounds, disk, calls,
      Leave, Unlock, PlaceInv, Began, Burying
  <2> QED BY <1>1, <2>1, DestinationKept
<1>7. HeardInv'
  BY <1>1, HeardKept DEF Repair, calls, disk
<1> QED BY <1>3, <1>4, <1>5, <1>6, <1>7, StillKept DEF RecordingInv

LEMMA MoveKeeps ==
    ASSUME RecordingInv, NEW w \in Writers, Move(w)
    PROVE  RecordingInv'
<1> USE RecordingAssumption
<1>1. RecordingTypeOK /\ PlaceInv(w) /\ ContentInv(w) /\ DestinationInv /\ HeardInv
  BY DEF RecordingInv
<1>2. mine[w] = w
  BY <1>1 DEF Move, PlaceInv, Began, Burying, None
<1>3. RecordingTypeOK'
  BY <1>1, <1>2 DEF RecordingTypeOK, None, Move, Goto, Sound, bounds, calls, Owned, PCs, Places,
    PlaceInv, Began, Burying, Contents, Book, SeenStates
<1>4. \A d \in Writers : d # w => Still(d)
  BY <1>1, <1>2 DEF Still, None, RecordingTypeOK, Move, Goto, Sound, bounds, calls, Owned,
    PlaceInv, Began, Burying
<1>5. PlaceInv(w)' /\ ContentInv(w)'
  BY <1>1, <1>2 DEF PlaceInv, None, ContentInv, Move, Goto, Sound, bounds, calls, Owned,
    RecordingTypeOK, Began, Burying, Contents, Loads, PCs, Places
<1>6. DestinationInv'
  <2>1. Untaken
    BY <1>1, <1>2 DEF Untaken, None, RecordingTypeOK, Move, Goto, Sound, bounds, calls, Owned,
      PlaceInv, Began, Burying
  <2> QED BY <1>1, <2>1, DestinationKept
<1>7. HeardInv'
  BY <1>1, HeardKept DEF Move, calls
<1> QED BY <1>3, <1>4, <1>5, <1>6, <1>7, StillKept DEF RecordingInv

LEMMA MoveFailsKeeps ==
    ASSUME RecordingInv, NEW w \in Writers, MoveFails(w)
    PROVE  RecordingInv'
<1> USE RecordingAssumption
<1>1. RecordingTypeOK /\ PlaceInv(w) /\ ContentInv(w) /\ DestinationInv /\ HeardInv
  BY DEF RecordingInv
<1>2. mine[w] = w
  BY <1>1 DEF MoveFails, PlaceInv, Began, Burying, None
<1>3. RecordingTypeOK'
  BY <1>1, <1>2 DEF RecordingTypeOK, None, MoveFails, Goto, Fault, calls, Leave, Unlock, PCs,
    Places, PlaceInv, Began, Burying, Contents, Book, SeenStates
<1>4. \A d \in Writers : d # w => Still(d)
  BY <1>1, <1>2 DEF Still, None, RecordingTypeOK, MoveFails, Goto, Fault, calls, Leave, Unlock,
    PlaceInv, Began, Burying
<1>5. PlaceInv(w)' /\ ContentInv(w)'
  BY <1>1, <1>2 DEF PlaceInv, None, ContentInv, MoveFails, Goto, Fault, calls, Leave, Unlock,
    RecordingTypeOK, Began, Burying, Contents, Loads, PCs, Places
<1>6. DestinationInv'
  <2>1. Untaken
    BY <1>1, <1>2 DEF Untaken, None, RecordingTypeOK, MoveFails, Goto, Fault, calls, Leave,
      Unlock, PlaceInv, Began, Burying
  <2> QED BY <1>1, <2>1, DestinationKept
<1>7. HeardInv'
  BY <1>1, HeardKept DEF MoveFails, calls
<1> QED BY <1>3, <1>4, <1>5, <1>6, <1>7, StillKept DEF RecordingInv

LEMMA MovedBeforeKeeps ==
    ASSUME RecordingInv, NEW w \in Writers, MovedBefore(w)
    PROVE  RecordingInv'
<1> USE RecordingAssumption
<1>1. RecordingTypeOK /\ PlaceInv(w) /\ ContentInv(w) /\ DestinationInv /\ HeardInv
  BY DEF RecordingInv
<1>2. mine[w] = w
  BY <1>1 DEF MovedBefore, PlaceInv, Began, Burying, None
<1>3. RecordingTypeOK'
  BY <1>1, <1>2 DEF RecordingTypeOK, None, MovedBefore, Goto, Sound, bounds, disk, calls, Owned,
    PCs, Places, PlaceInv, Began, Burying, Contents, Book, SeenStates
<1>4. \A d \in Writers : d # w => Still(d)
  BY <1>1, <1>2 DEF Still, None, RecordingTypeOK, MovedBefore, Goto, Sound, bounds, disk, calls,
    Owned, PlaceInv, Began, Burying
<1>5. PlaceInv(w)' /\ ContentInv(w)'
  BY <1>1, <1>2 DEF PlaceInv, None, ContentInv, MovedBefore, Goto, Sound, bounds, disk, calls,
    Owned, RecordingTypeOK, Began, Burying, Contents, Loads, PCs, Places
<1>6. DestinationInv'
  <2>1. Untaken
    BY <1>1, <1>2 DEF Untaken, None, RecordingTypeOK, MovedBefore, Goto, Sound, bounds, disk,
      calls, Owned, PlaceInv, Began, Burying
  <2> QED BY <1>1, <2>1, DestinationKept
<1>7. HeardInv'
  BY <1>1, HeardKept DEF MovedBefore, calls, disk
<1> QED BY <1>3, <1>4, <1>5, <1>6, <1>7, StillKept DEF RecordingInv

LEMMA EmptyKeeps ==
    ASSUME RecordingInv, NEW w \in Writers, Empty(w)
    PROVE  RecordingInv'
<1> USE RecordingAssumption
<1>1. RecordingTypeOK /\ PlaceInv(w) /\ ContentInv(w) /\ DestinationInv /\ HeardInv
  BY DEF RecordingInv
<1>2. mine[w] = w
  BY <1>1 DEF Empty, PlaceInv, Began, Burying, None
<1>3. RecordingTypeOK'
  BY <1>1, <1>2 DEF RecordingTypeOK, None, Empty, Goto, Sound, bounds, calls, PCs, Places,
    PlaceInv, Began, Burying, Contents, Book, SeenStates
<1>4. \A d \in Writers : d # w => Still(d)
  BY <1>1, <1>2 DEF Still, None, RecordingTypeOK, Empty, Goto, Sound, bounds, calls, PlaceInv,
    Began, Burying
<1>5. PlaceInv(w)' /\ ContentInv(w)'
  BY <1>1, <1>2 DEF PlaceInv, None, ContentInv, Empty, Goto, Sound, bounds, calls,
    RecordingTypeOK, Began, Burying, Contents, Loads, PCs, Places
<1>6. DestinationInv'
  <2>1. Untaken
    BY <1>1, <1>2 DEF Untaken, None, RecordingTypeOK, Empty, Goto, Sound, bounds, calls,
      PlaceInv, Began, Burying
  <2> QED BY <1>1, <2>1, DestinationKept
<1>7. HeardInv'
  BY <1>1, HeardKept DEF Empty, calls
<1> QED BY <1>3, <1>4, <1>5, <1>6, <1>7, StillKept DEF RecordingInv

LEMMA DropMarkerKeeps ==
    ASSUME RecordingInv, NEW w \in Writers, DropMarker(w)
    PROVE  RecordingInv'
<1> USE RecordingAssumption
<1>1. RecordingTypeOK /\ PlaceInv(w) /\ ContentInv(w) /\ DestinationInv /\ HeardInv
  BY DEF RecordingInv
<1>2. mine[w] = w
  BY <1>1 DEF DropMarker, PlaceInv, Began, Burying, None
<1>3. RecordingTypeOK'
  BY <1>1, <1>2 DEF RecordingTypeOK, None, DropMarker, Goto, Sound, bounds, calls, PCs, Places,
    PlaceInv, Began, Burying, Contents, Book, SeenStates
<1>4. \A d \in Writers : d # w => Still(d)
  BY <1>1, <1>2 DEF Still, None, RecordingTypeOK, DropMarker, Goto, Sound, bounds, calls,
    PlaceInv, Began, Burying
<1>5. PlaceInv(w)' /\ ContentInv(w)'
  BY <1>1, <1>2 DEF PlaceInv, None, ContentInv, DropMarker, Goto, Sound, bounds, calls,
    RecordingTypeOK, Began, Burying, Contents, Loads, PCs, Places
<1>6. DestinationInv'
  <2>1. Untaken
    BY <1>1, <1>2 DEF Untaken, None, RecordingTypeOK, DropMarker, Goto, Sound, bounds, calls,
      PlaceInv, Began, Burying
  <2> QED BY <1>1, <2>1, DestinationKept
<1>7. HeardInv'
  BY <1>1, HeardKept DEF DropMarker, calls
<1> QED BY <1>3, <1>4, <1>5, <1>6, <1>7, StillKept DEF RecordingInv

LEMMA EmptyFailsKeeps ==
    ASSUME RecordingInv, NEW w \in Writers, EmptyFails(w)
    PROVE  RecordingInv'
<1> USE RecordingAssumption
<1>1. RecordingTypeOK /\ PlaceInv(w) /\ ContentInv(w) /\ DestinationInv /\ HeardInv
  BY DEF RecordingInv
<1>2. mine[w] = w
  BY <1>1 DEF EmptyFails, PlaceInv, Began, Burying, None
<1>3. RecordingTypeOK'
  BY <1>1, <1>2 DEF RecordingTypeOK, None, EmptyFails, Goto, Fault, disk, calls, Leave, Unlock,
    PCs, Places, PlaceInv, Began, Burying, Contents, Book, SeenStates
<1>4. \A d \in Writers : d # w => Still(d)
  BY <1>1, <1>2 DEF Still, None, RecordingTypeOK, EmptyFails, Goto, Fault, disk, calls, Leave,
    Unlock, PlaceInv, Began, Burying
<1>5. PlaceInv(w)' /\ ContentInv(w)'
  BY <1>1, <1>2 DEF PlaceInv, None, ContentInv, EmptyFails, Goto, Fault, disk, calls, Leave,
    Unlock, RecordingTypeOK, Began, Burying, Contents, Loads, PCs, Places
<1>6. DestinationInv'
  <2>1. Untaken
    BY <1>1, <1>2 DEF Untaken, None, RecordingTypeOK, EmptyFails, Goto, Fault, disk, calls,
      Leave, Unlock, PlaceInv, Began, Burying
  <2> QED BY <1>1, <2>1, DestinationKept
<1>7. HeardInv'
  BY <1>1, HeardKept DEF EmptyFails, calls, disk
<1> QED BY <1>3, <1>4, <1>5, <1>6, <1>7, StillKept DEF RecordingInv

LEMMA BuryKeeps ==
    ASSUME RecordingInv, NEW w \in Writers, Bury(w)
    PROVE  RecordingInv'
<1> USE RecordingAssumption
<1>1. RecordingTypeOK /\ PlaceInv(w) /\ ContentInv(w) /\ DestinationInv /\ HeardInv
  BY DEF RecordingInv
<1>2. mine[w] = w
  BY <1>1 DEF Bury, PlaceInv, Began, Burying, None
<1>3. RecordingTypeOK'
  BY <1>1, <1>2 DEF RecordingTypeOK, None, Bury, Goto, Sound, bounds, calls, Leave, Unlock, PCs,
    Places, PlaceInv, Began, Burying, Contents, Book, SeenStates
<1>4. \A d \in Writers : d # w => Still(d)
  BY <1>1, <1>2 DEF Still, None, RecordingTypeOK, Bury, Goto, Sound, bounds, calls, Leave,
    Unlock, PlaceInv, Began, Burying
<1>5. PlaceInv(w)' /\ ContentInv(w)'
  BY <1>1, <1>2 DEF PlaceInv, None, ContentInv, Bury, Goto, Sound, bounds, calls, Leave, Unlock,
    RecordingTypeOK, Began, Burying, Contents, Loads, PCs, Places
<1>6. DestinationInv'
  <2>1. Untaken
    BY <1>1, <1>2 DEF Untaken, None, RecordingTypeOK, Bury, Goto, Sound, bounds, calls, Leave,
      Unlock, PlaceInv, Began, Burying
  <2> QED BY <1>1, <2>1, DestinationKept
<1>7. HeardInv'
  BY <1>1, HeardKept DEF Bury, calls
<1> QED BY <1>3, <1>4, <1>5, <1>6, <1>7, StillKept DEF RecordingInv

LEMMA BuryFailsKeeps ==
    ASSUME RecordingInv, NEW w \in Writers, BuryFails(w)
    PROVE  RecordingInv'
<1> USE RecordingAssumption
<1>1. RecordingTypeOK /\ PlaceInv(w) /\ ContentInv(w) /\ DestinationInv /\ HeardInv
  BY DEF RecordingInv
<1>2. mine[w] = w
  BY <1>1 DEF BuryFails, PlaceInv, Began, Burying, None
<1>3. RecordingTypeOK'
  <2>1. pc' \in [Writers -> PCs]
    BY <1>1 DEF RecordingTypeOK, None, BuryFails, Goto, Fault, disk, calls, Leave, Unlock, PCs
  <2>2. site' \in [Writers -> Places] /\ root' \in [Writers -> Places \ {"final"}]
    BY <1>1, <1>2 DEF RecordingTypeOK, None, BuryFails, Goto, Fault, disk, calls, Leave, Unlock,
      Places
  <2>3. files' \in [Writers -> SUBSET (Contents \cup {"marker"})]
    BY <1>1, <1>2 DEF RecordingTypeOK, None, BuryFails, Goto, Fault, disk, calls, Leave, Unlock,
      Contents
  <2>4. data' \in [Writers -> Book] /\ book' \in [Writers -> Book]
    BY <1>1, <1>2 DEF RecordingTypeOK, None, BuryFails, Goto, Fault, disk, calls, Leave, Unlock
  <2>5. mine' \in [Writers -> Writers \cup {None}] /\ proof' \in [Writers -> BOOLEAN]
    <3>1. PICK p \in {proof[w], TRUE} : proof' = [proof EXCEPT ![w] = p]
      BY DEF BuryFails
    <3>2. proof \in [Writers -> BOOLEAN]
      BY <1>1 DEF RecordingTypeOK
    <3>3. p \in BOOLEAN
      BY <3>1, <3>2, Zenon
    <3>4. proof' \in [Writers -> BOOLEAN]
      BY <3>1, <3>2, <3>3, Zenon
    <3> QED BY <1>1, <3>4 DEF RecordingTypeOK, BuryFails
  <2>6. faults' \in Nat /\ crashes' \in Nat
    BY <1>1 DEF RecordingTypeOK, None, BuryFails, Goto, Fault, disk, calls, Leave, Unlock
  <2> QED BY <1>1, <2>1, <2>2, <2>3, <2>4, <2>5, <2>6 DEF RecordingTypeOK, BuryFails, disk, calls
<1>4. \A d \in Writers : d # w => Still(d)
  BY <1>1, <1>2 DEF Still, None, RecordingTypeOK, BuryFails, Goto, Fault, disk, calls, Leave,
    Unlock, PlaceInv, Began, Burying
<1>5. PlaceInv(w)' /\ ContentInv(w)'
  BY <1>1, <1>2 DEF PlaceInv, None, ContentInv, BuryFails, Goto, Fault, disk, calls, Leave,
    Unlock, RecordingTypeOK, Began, Burying, Contents, Loads, PCs, Places
<1>6. DestinationInv'
  <2>1. Untaken
    BY <1>1, <1>2 DEF Untaken, None, RecordingTypeOK, BuryFails, Goto, Fault, disk, calls,
      Leave, Unlock, PlaceInv, Began, Burying
  <2> QED BY <1>1, <2>1, DestinationKept
<1>7. HeardInv'
  BY <1>1, HeardKept DEF BuryFails, calls, disk
<1> QED BY <1>3, <1>4, <1>5, <1>6, <1>7, StillKept DEF RecordingInv

LEMMA CleanFailsKeeps ==
    ASSUME RecordingInv, NEW w \in Writers, CleanFails(w)
    PROVE  RecordingInv'
<1> USE RecordingAssumption
<1>1. RecordingTypeOK /\ PlaceInv(w) /\ ContentInv(w) /\ DestinationInv /\ HeardInv
  BY DEF RecordingInv
<1>2. mine[w] = w
  BY <1>1 DEF CleanFails, PlaceInv, Began, Burying, None
<1>3. RecordingTypeOK'
  BY <1>1, <1>2 DEF RecordingTypeOK, None, CleanFails, Goto, Sound, Fault, bounds, disk, calls,
    Leave, Unlock, PCs, Places, PlaceInv, Began, Burying, Contents, Book, SeenStates
<1>4. \A d \in Writers : d # w => Still(d)
  BY <1>1, <1>2 DEF Still, None, RecordingTypeOK, CleanFails, Goto, Sound, Fault, bounds, disk,
    calls, Leave, Unlock, PlaceInv, Began, Burying
<1>5. PlaceInv(w)' /\ ContentInv(w)'
  BY <1>1, <1>2 DEF PlaceInv, None, ContentInv, CleanFails, Goto, Sound, Fault, bounds, disk,
    calls, Leave, Unlock, RecordingTypeOK, Began, Burying, Contents, Loads, PCs, Places
<1>6. DestinationInv'
  <2>1. Untaken
    BY <1>1, <1>2 DEF Untaken, None, RecordingTypeOK, CleanFails, Goto, Sound, Fault, bounds,
      disk, calls, Leave, Unlock, PlaceInv, Began, Burying
  <2> QED BY <1>1, <2>1, DestinationKept
<1>7. HeardInv'
  BY <1>1, HeardKept DEF CleanFails, calls, disk
<1> QED BY <1>3, <1>4, <1>5, <1>6, <1>7, StillKept DEF RecordingInv

LEMMA CrashKeeps ==
    ASSUME RecordingInv, NEW w \in Writers, Crash(w)
    PROVE  RecordingInv'
<1> USE RecordingAssumption
<1>1. RecordingTypeOK /\ PlaceInv(w) /\ ContentInv(w) /\ DestinationInv /\ HeardInv
  BY DEF RecordingInv
<1>2. RecordingTypeOK'
  BY <1>1 DEF RecordingTypeOK, None, Crash, Goto, Unlock, disk, PCs, Places, PlaceInv, Began,
    Burying, Contents, Book, SeenStates
<1>3. \A d \in Writers : d # w => Still(d)
  BY <1>1 DEF Still, None, RecordingTypeOK, Crash, Goto, Unlock, disk, PlaceInv, Began, Burying
<1>4. PlaceInv(w)' /\ ContentInv(w)'
  BY <1>1 DEF PlaceInv, None, ContentInv, Crash, Goto, Unlock, disk, RecordingTypeOK, Began,
    Burying, Contents, Loads, PCs, Places
<1>5. DestinationInv'
  <2>1. Untaken
    BY <1>1 DEF Untaken, None, RecordingTypeOK, Crash, Goto, Unlock, disk, PlaceInv, Began,
      Burying
  <2> QED BY <1>1, <2>1, DestinationKept
<1>6. HeardInv'
  BY <1>1 DEF HeardInv, RecordingTypeOK, Crash, disk
<1> QED BY <1>2, <1>3, <1>4, <1>5, <1>6, StillKept DEF RecordingInv

\* A call that is made, or comes back with an answer.
LEMMA AskKeeps ==
    ASSUME RecordingInv, NEW k \in Calls, Ask(k)
    PROVE  RecordingInv'
<1> USE RecordingAssumption
<1>1. RecordingTypeOK'
  BY DEF RecordingInv, RecordingTypeOK, Ask, Sound, bounds, disk, SeenStates
<1>2. HeardInv'
  BY DEF RecordingInv, RecordingTypeOK, HeardInv, Ask
<1>3. UNCHANGED <<pc, mine, root, book, disk, loaded>>
  BY DEF Ask
<1> QED
  BY <1>1, <1>2, <1>3, StillKept, DestinationKept DEF RecordingInv, Still, Untaken, disk

LEMMA AnswerKeeps ==
    ASSUME RecordingInv, NEW k \in Calls, NEW a \in Answers, Answer(k, a)
    PROVE  RecordingInv'
<1> USE RecordingAssumption
<1>1. By[k] \in Writers /\ ask[k] \in Requests /\ a # None
  BY DEF RecordingInv, RecordingTypeOK
<1>2. ASSUME NEW w \in Writers, NEW q \in Requests
      PROVE  /\ book'[w][q] \in Answers \cup {None}
             /\ book[w][q] # None => book'[w][q] = book[w][q]
  <2>1. book[w] \in Book /\ book[w][q] \in Answers \cup {None}
    BY DEF RecordingInv, RecordingTypeOK, Book
  <2>2. CASE UNCHANGED book
    BY <2>1, <2>2
  <2>3. CASE book' = [book EXCEPT ![By[k]][ask[k]] = a] /\ book[By[k]][ask[k]] = None
    <3>1. book'[w] = IF w = By[k] THEN [book[w] EXCEPT ![ask[k]] = a] ELSE book[w]
      BY <2>3 DEF RecordingInv, RecordingTypeOK
    <3>2. book'[w][q] = IF w = By[k] /\ q = ask[k] THEN a ELSE book[w][q]
      BY <2>1, <3>1 DEF Book
    <3> QED BY <2>1, <2>3, <3>2
  <2> QED BY <2>2, <2>3 DEF Answer, AppendRecord
<1>3. RecordingTypeOK'
  <2>1. book' \in [Writers -> Book]
    <3>1. CASE UNCHANGED book
      BY <3>1 DEF RecordingInv, RecordingTypeOK
    <3>2. CASE book' = [book EXCEPT ![By[k]][ask[k]] = a]
      BY <1>1, <3>2 DEF RecordingInv, RecordingTypeOK, Book
    <3> QED BY <3>1, <3>2 DEF Answer, AppendRecord
  <2>2. seen' \in [Calls -> SeenStates]
    BY DEF RecordingInv, RecordingTypeOK, Answer, SeenStates
  <2> QED BY <2>1, <2>2 DEF RecordingInv, RecordingTypeOK, Answer, Sound, bounds, disk
<1>4. HeardInv'
  <2> SUFFICES ASSUME NEW j \in Calls, seen'[j] \in Answers
               PROVE  book'[By[j]][ask'[j]] = seen'[j]
    BY DEF HeardInv
  <2>1. UNCHANGED ask /\ By[j] \in Writers /\ ask[j] \in Requests
    BY DEF Answer, RecordingInv, RecordingTypeOK
  <2>2. CASE seen'[j] = seen[j]
    BY <1>1, <1>2, <2>1, <2>2 DEF RecordingInv, HeardInv
  <2>3. CASE seen'[j] # seen[j]
    <3>1. j = k
      BY <2>3 DEF Answer, RecordingInv, RecordingTypeOK
    <3>2. seen'[k] = a /\ AppendRecord(By[k], ask[k], a) /\ pc[By[k]] = "open" /\ book[By[k]][ask[k]] = None
      BY <2>3, <3>1 DEF Answer, RecordingInv, RecordingTypeOK
    <3> QED BY <1>1, <2>1, <3>1, <3>2 DEF AppendRecord, RecordingInv, RecordingTypeOK, Book
  <2> QED BY <2>2, <2>3
<1>5. UNCHANGED <<pc, mine, root, disk, loaded>>
  BY DEF Answer
<1>6. \A w \in Writers : pc[w] # "open" => book'[w] = book[w]
  BY <1>1 DEF Answer, AppendRecord, RecordingInv, RecordingTypeOK
<1>7. \A w \in Writers : PlaceInv(w)' /\ ContentInv(w)'
  <2> SUFFICES ASSUME NEW w \in Writers PROVE PlaceInv(w)' /\ ContentInv(w)'
    OBVIOUS
  <2>1. PlaceInv(w) /\ ContentInv(w)
    BY DEF RecordingInv
  <2>2. PlaceInv(w)'
    BY <1>5, <2>1 DEF PlaceInv, Began, Burying, disk
  <2> QED BY <1>5, <1>6, <2>1, <2>2 DEF PlaceInv, ContentInv, Loads, disk
<1> QED
  BY <1>3, <1>4, <1>5, <1>7, DestinationKept DEF RecordingInv, Untaken, disk

LEMMA LoadKeeps ==
    ASSUME RecordingInv, Load
    PROVE  RecordingInv'
<1>1. RecordingTypeOK' /\ HeardInv' /\ \A d \in Writers : Still(d)
  BY DEF RecordingInv, RecordingTypeOK, HeardInv, Still, Load, Sound, disk, calls, bounds, Places
<1>2. DestinationInv'
  BY DEF RecordingInv, DestinationInv, ContentInv, Load, Taken, disk
<1> QED BY <1>1, <1>2, StillKept DEF RecordingInv

LEMMA OccupyKeeps ==
    ASSUME RecordingInv, Occupy
    PROVE  RecordingInv'
<1>1. RecordingTypeOK' /\ HeardInv' /\ \A d \in Writers : Still(d)
  BY RecordingAssumption
  DEF RecordingInv, RecordingTypeOK, HeardInv, Still, Occupy, Fault, calls
<1>2. DestinationInv'
  BY DEF RecordingInv, DestinationInv, Occupy, Taken
<1> QED BY <1>1, <1>2, StillKept DEF RecordingInv

LEMMA RecordingInit == Init => RecordingInv
<1> SUFFICES ASSUME Init PROVE RecordingInv
  OBVIOUS
<1> USE RecordingAssumption
<1>1. RecordingTypeOK
  BY DEF Init, RecordingTypeOK, PCs, Places, Book, Blank, SeenStates, None
<1>2. DestinationInv /\ HeardInv
  BY DEF Init, DestinationInv, HeardInv, Unread, None
<1>3. \A w \in Writers : PlaceInv(w) /\ ContentInv(w)
  BY DEF Init, PlaceInv, ContentInv, Began, Burying, None
<1> QED BY <1>1, <1>2, <1>3 DEF RecordingInv

LEMMA RecordingStep == RecordingInv /\ [Next]_vars => RecordingInv'
<1> SUFFICES ASSUME RecordingInv, [Next]_vars PROVE RecordingInv'
  OBVIOUS
<1>1. ASSUME NEW w \in Writers, Create(w) \/ Finalize(w) \/ Abort(w) PROVE RecordingInv'
  BY <1>1, CheckFinalKeeps, TryLockKeeps, MakeStagingKeeps, WriteMarkerKeeps, CreateFailsKeeps,
     FinalizeKeeps, AbortKeeps DEF Create
<1>2. ASSUME NEW w \in Writers, Seal(w) PROVE RecordingInv'
  BY <1>2, WriteRecordsKeeps, WriteManifestKeeps, LoadStagingKeeps, RenameKeeps, UnmarkKeeps,
     SealFailsKeeps DEF Seal
<1>3. ASSUME NEW w \in Writers, Clean(w) PROVE RecordingInv'
  BY <1>3, RepairKeeps, MoveKeeps, MovedBeforeKeeps, EmptyKeeps, DropMarkerKeeps, BuryKeeps,
     MoveFailsKeeps, EmptyFailsKeeps, BuryFailsKeeps, CleanFailsKeeps DEF Clean
<1>4. CASE UNCHANGED vars
  <2>1. RecordingTypeOK' /\ Untaken /\ \A d \in Writers : Still(d)
    BY <1>4 DEF RecordingInv, RecordingTypeOK, Still, Untaken, vars, disk, calls, bounds
  <2>2. HeardInv'
    BY <1>4, HeardKept DEF RecordingInv, vars
  <2> QED BY <2>1, <2>2, StillKept, DestinationKept DEF RecordingInv
<1> QED
  BY <1>1, <1>2, <1>3, <1>4, CrashKeeps, AskKeeps, AnswerKeeps, LoadKeeps, OccupyKeeps DEF Next

LEMMA RecordingInvariance == Spec => []RecordingInv
BY RecordingInit, RecordingStep, PTL DEF Spec

-----------------------------------------------------------------------------
(* What follows for bundles. *)

\* A bundle under its final name is complete, holds its writer's records and
\* answers as the recorded callers were answered (finalize, _record_call).
THEOREM BundlesAreSound == Spec => []BundleSound
<1>1. RecordingInv => BundleIsWhole
  BY DEF RecordingInv, BundleIsWhole, ContentInv, DestinationInv
<1>2. RecordingInv => CallersSeeTheRecord
  <2> SUFFICES ASSUME RecordingInv, NEW k \in Calls, seen[k] \in Answers
               PROVE  /\ book[By[k]][ask[k]] = seen[k]
                      /\ loaded.valid /\ site[By[k]] = "final" => Lookup(loaded.records, ask[k]) = seen[k]
    BY DEF CallersSeeTheRecord
  <2>1. book[By[k]][ask[k]] = seen[k] /\ By[k] \in Writers /\ seen[k] # None
    BY RecordingAssumption DEF RecordingInv, HeardInv
  <2>2. ASSUME loaded.valid, site[By[k]] = "final" PROVE loaded.records = book[By[k]]
    BY <2>1, <2>2 DEF RecordingInv, DestinationInv, ContentInv, Unread
  <2> QED BY <2>1, <2>2 DEF Lookup
<1> QED BY <1>1, <1>2, RecordingInvariance, PTL DEF BundleSound

\* No directory is forgotten: what is left over is known to a living writer
\* by the name it has (abort, _cleanup_staging).
THEOREM LeftoversAreKnown == Spec => []LeftoverIsKnown
<1>1. RecordingInv => LeftoverIsKnown
  BY DEF RecordingInv, RecordingTypeOK, LeftoverIsKnown, PlaceInv, PCs, Began, Burying, None
<1> QED BY <1>1, RecordingInvariance, PTL

\* What stands at the destination stays there unchanged (finalize, abort).
THEOREM BundlesStand == Spec => BundleStands
<1> DEFINE Stands ==
      /\ occupied => occupied'
      /\ \A d \in Writers : site[d] = "final" =>
            /\ site'[d] = "final" /\ data'[d] = data[d]
            /\ files'[d] \cap Contents = files[d] \cap Contents
<1>1. ASSUME RecordingInv, [Next]_vars PROVE Stands
  <2>1. ASSUME NEW w \in Writers, Create(w) \/ Finalize(w) \/ Abort(w) \/ Crash(w) PROVE Stands
    BY <1>1, <2>1 DEF Create, CheckFinal, TryLock, MakeStaging, WriteMarker, CreateFails,
      Finalize, Abort,
       Crash, RecordingInv, RecordingTypeOK, PlaceInv, Began, disk
  <2>2. ASSUME NEW w \in Writers, Seal(w) PROVE Stands
    BY <1>1, <2>2 DEF Seal, WriteRecords, WriteManifest, LoadStaging, Rename, Unmark, SealFails,
       RecordingInv, RecordingTypeOK, PlaceInv, Began, disk, Contents
  <2>3. ASSUME NEW w \in Writers, Clean(w) PROVE Stands
    BY <1>1, <2>3 DEF Clean, Repair, Move, MovedBefore, Empty, DropMarker, Bury, MoveFails,
      EmptyFails,
       BuryFails, CleanFails, RecordingInv, RecordingTypeOK, PlaceInv, Burying, disk
  <2>4. CASE UNCHANGED vars \/ Load \/ Occupy \/ \E k \in Calls : Ask(k) \/ \E a \in Answers : Answer(k, a)
    BY <2>4 DEF vars, disk, Load, Occupy, Ask, Answer
  <2> QED BY <1>1, <2>1, <2>2, <2>3, <2>4 DEF Next
<1>2. RecordingInv /\ [Next]_vars => [Stands]_vars
  BY <1>1
<1> QED BY <1>2, RecordingInvariance, PTL DEF Spec, BundleStands

-----------------------------------------------------------------------------
(* Filing lists for each document its source, its parsed form and its evidence. *)

\* What satisfies the recursion of FlattenSeq gives its value.
LEMMA FlattenIs ==
    ASSUME NEW seqs, NEW n \in Nat, n # 0, Len(seqs) = n, NEW h,
           \A i \in 1..n : h[i] = IF i = 1 THEN seqs[i] ELSE h[i - 1] \o seqs[i]
    PROVE  Shelf!FlattenSeq(seqs) = h[n]
<1> DEFINE Flat(f) == f = [i \in 1..n |-> IF i = 1 THEN seqs[i] ELSE f[i - 1] \o seqs[i]]
           g == CHOOSE f : Flat(f)
           Good == {i \in 0..n : i = 0 \/ g[i] = h[i]}
<1>1. Shelf!FlattenSeq(seqs) = g[n]
  BY DEF Shelf!FlattenSeq
<1>2. Flat(g)
  <2> DEFINE f == [i \in 1..n |-> h[i]]
  <2>1. \A i \in 1..n : f[i] = IF i = 1 THEN seqs[i] ELSE f[i - 1] \o seqs[i]
    <3> TAKE i \in 1..n
    <3>1. i # 1 => i - 1 \in 1..n OBVIOUS
    <3> QED BY <3>1
  <2>2. f = [i \in 1..n |-> f[i]] OBVIOUS
  <2> HIDE DEF f
  <2>3. f = [i \in 1..n |-> IF i = 1 THEN seqs[i] ELSE f[i - 1] \o seqs[i]]
    BY <2>1, <2>2, Zenon
  <2>4. Flat(f) BY <2>3, Zenon
  <2> HIDE DEF Flat
  <2> QED BY <2>4
<1>3. \A i \in 1..n : g[i] = IF i = 1 THEN seqs[i] ELSE g[i - 1] \o seqs[i]
  <2> HIDE DEF g
  <2> QED BY <1>2
<1> HIDE DEF g
<1>5. ASSUME NEW i \in 0..(n - 1), i \in Good PROVE i + 1 \in Good
  <2>1. i + 1 \in 1..n /\ (i + 1) - 1 = i OBVIOUS
  <2>2. CASE i = 0 BY <1>3, <2>1, <2>2
  <2>3. CASE i # 0
    <3>1. g[i] = h[i] /\ i + 1 # 1 BY <1>5, <2>3
    <3>2. g[i + 1] = g[i] \o seqs[i + 1] BY <1>3, <2>1, <3>1
    <3>3. h[i + 1] = h[i] \o seqs[i + 1] BY <2>1, <3>1
    <3>4. g[i + 1] = h[i + 1] BY <3>1, <3>2, <3>3
    <3> QED BY <2>1, <3>4
  <2> QED BY <2>2, <2>3
<1>6. 0 \in Good OBVIOUS
<1> HIDE DEF Good
<1>7. n \in Good BY <1>5, <1>6, IntervalInduction
<1> QED BY <1>1, <1>7 DEF Good

Three(r, d) == <<Shelf!PutSource(r, d), Shelf!PutParsed(d), Shelf!PutEvidence(r, d)>>
Place(j) == (j + 2) \div 3
\* The list of the first n documents.
Listed(r, n) ==
    [j \in 1..(3 * n) |-> Three(r, docs[r][Place(j)])[j - 3 * (Place(j) - 1)]]

\* A position in the list belongs to one document and is one of its three.
LEMMA PlaceOf ==
    ASSUME NEW j \in Nat, j > 0
    PROVE  /\ Place(j) \in Nat /\ Place(j) > 0
           /\ \/ j = 3 * (Place(j) - 1) + 1
              \/ j = 3 * (Place(j) - 1) + 2
              \/ j = 3 * (Place(j) - 1) + 3
BY DEF Place

\* The positions of a document.
LEMMA PlaceIs ==
    ASSUME NEW i \in Nat, NEW k \in 1..3
    PROVE  Place(3 * i + k) = i + 1
BY DEF Place

\* One more document is listed behind the others.
LEMMA ListedNext ==
    ASSUME NEW r, NEW i \in Nat
    PROVE  Listed(r, i + 1) = Listed(r, i) \o Three(r, docs[r][i + 1])
<1> DEFINE F(j) == Three(r, docs[r][Place(j)])[j - 3 * (Place(j) - 1)]
           S == Listed(r, i) \o Three(r, docs[r][i + 1])
<1>1. Listed(r, i) = [j \in 1..(3 * i) |-> F(j)] /\ Listed(r, i + 1) = [j \in 1..(3 * (i + 1)) |-> F(j)]
  BY DEF Listed
<1>2. \A k \in 1..3 : F(3 * i + k) = Three(r, docs[r][i + 1])[k]
  <2> TAKE k \in 1..3
  <2>1. Place(3 * i + k) = i + 1 BY PlaceIs
  <2>2. (3 * i + k) - 3 * ((i + 1) - 1) = k OBVIOUS
  <2> QED BY <2>1, <2>2
<1>3. Len(Three(r, docs[r][i + 1])) = 3 /\ DOMAIN Three(r, docs[r][i + 1]) = 1..3
  BY DEF Three
<1>4. Len(Listed(r, i)) = 3 * i
  BY <1>1
<1> HIDE DEF F
<1> DEFINE X == {F(j) : j \in 1..(3 * i)} \cup {Three(r, docs[r][i + 1])[k] : k \in 1..3}
<1>8. Listed(r, i) \in Seq(X)
  <2>1. \A j \in 1..(3 * i) : F(j) \in X OBVIOUS
  <2>2. 3 * i \in Nat OBVIOUS
  <2> HIDE DEF X
  <2> QED BY <1>1, <2>1, <2>2
<1>9. Three(r, docs[r][i + 1]) \in Seq(X)
  <2>1. \A k \in 1..3 : Three(r, docs[r][i + 1])[k] \in X OBVIOUS
  <2> HIDE DEF X
  <2> QED BY <2>1 DEF Three
<1> HIDE DEF X
<1>5. S = [j \in 1..(3 * i + 3) |->
             IF j <= 3 * i THEN Listed(r, i)[j] ELSE Three(r, docs[r][i + 1])[j - 3 * i]]
  <2>1. S \in Seq(X) /\ Len(S) = 3 * i + 3
    <3> DEFINE s == Listed(r, i)
               t == Three(r, docs[r][i + 1])
    <3> HIDE DEF s, t
    <3>1. s \in Seq(X) /\ t \in Seq(X) BY <1>8, <1>9 DEF s, t
    <3>2. s \o t \in Seq(X) /\ Len(s \o t) = Len(s) + Len(t) BY <3>1, ConcatProperties
    <3> QED BY <1>3, <1>4, <3>2 DEF s, t
  <2>2. \A j \in 1..(3 * i + 3) :
          S[j] = IF j <= 3 * i THEN Listed(r, i)[j] ELSE Three(r, docs[r][i + 1])[j - 3 * i]
    BY <1>3, <1>4, <1>8, <1>9, ConcatProperties
  <2> HIDE DEF S
  <2> QED BY <2>1, <2>2
<1>6. ASSUME NEW j \in 1..(3 * i + 3)
      PROVE  (IF j <= 3 * i THEN Listed(r, i)[j] ELSE Three(r, docs[r][i + 1])[j - 3 * i]) = F(j)
  <2>1. CASE j <= 3 * i BY <1>1, <2>1
  <2>2. CASE j > 3 * i
    <3>1. j - 3 * i \in 1..3 /\ 3 * i + (j - 3 * i) = j BY <2>2
    <3>2. F(3 * i + (j - 3 * i)) = Three(r, docs[r][i + 1])[j - 3 * i] BY <1>2, <3>1
    <3> QED BY <2>2, <3>1, <3>2
  <2> QED BY <2>1, <2>2
<1>7. 3 * (i + 1) = 3 * i + 3 OBVIOUS
<1> QED BY <1>1, <1>5, <1>6, <1>7

\* What StoreEvidence files is the list of all documents.
LEMMA FilingListed ==
    ASSUME NEW r \in Runs, docs[r] \in Seq(Shelf!Documents)
    PROVE  Shelf!Filing(r) = Listed(r, Len(docs[r]))
<1> DEFINE seqs == [i \in DOMAIN docs[r] |-> Three(r, docs[r][i])]
           n == Len(docs[r])
           h == [i \in 1..n |-> Listed(r, i)]
<1>1. Shelf!Filing(r) = Shelf!FlattenSeq(seqs)
  BY DEF Shelf!Filing, Three
<1>2. n \in Nat /\ DOMAIN docs[r] = 1..n /\ Len(seqs) = n
  OBVIOUS
<1>3. CASE n = 0
  <2>1. Shelf!FlattenSeq(seqs) = seqs
    <3> HIDE DEF seqs
    <3> QED BY <1>2, <1>3 DEF Shelf!FlattenSeq
  <2>2. seqs = <<>> /\ Listed(r, 0) = <<>>
    BY <1>2, <1>3 DEF Listed
  <2> QED BY <1>1, <1>3, <2>1, <2>2
<1>4. CASE n # 0
  <2>1. \A i \in 1..n : h[i] = IF i = 1 THEN seqs[i] ELSE h[i - 1] \o seqs[i]
    <3> TAKE i \in 1..n
    <3>1. seqs[i] = Three(r, docs[r][i]) BY <1>2
    <3>2. CASE i = 1
      <4>1. Listed(r, 1) = Listed(r, 0) \o Three(r, docs[r][1])
        <5>1. Listed(r, 0 + 1) = Listed(r, 0) \o Three(r, docs[r][0 + 1]) BY ListedNext
        <5>2. 0 + 1 = 1 OBVIOUS
        <5> HIDE DEF h, seqs, n
        <5> QED BY <5>1, <5>2, Zenon
      <4>2. Listed(r, 0) = <<>> BY DEF Listed
      <4> DEFINE t == Three(r, docs[r][1])
                 X == {t[k] : k \in 1..3}
      <4>3. t \in Seq(X) BY DEF Three
      <4>4. Listed(r, 1) = <<>> \o t BY <4>1, <4>2, Zenon
      <4> HIDE DEF t, X
      <4>5. Listed(r, 1) = t BY <4>3, <4>4, ConcatEmptySeq
      <4>6. t = Three(r, docs[r][1]) BY DEF t
      <4> QED BY <3>1, <3>2, <4>5, <4>6
    <3>3. CASE i # 1
      <4>1. i - 1 \in Nat /\ i - 1 \in 1..n /\ (i - 1) + 1 = i BY <3>3
      <4>2. Listed(r, i) = Listed(r, i - 1) \o Three(r, docs[r][i]) BY <4>1, ListedNext
      <4> QED BY <3>1, <3>3, <4>1, <4>2
    <3> QED BY <3>2, <3>3
  <2> HIDE DEF h, seqs, n
  <2>4. Shelf!FlattenSeq(seqs) = h[n]
    BY <1>2, <1>4, <2>1, FlattenIs
  <2> QED BY <1>1, <1>2, <1>4, <2>4 DEF h, n
<1> QED BY <1>3, <1>4

\* The m-th of what is filed is for d: a source, or its parsed form behind its
\* source, or evidence behind its parsed form.
Files(r, m, d) ==
    \/ Shelf!Filing(r)[m] = Shelf!PutSource(r, d)
    \/ /\ m > 1 /\ Shelf!Filing(r)[m] = Shelf!PutParsed(d)
       /\ Shelf!Filing(r)[m - 1] = Shelf!PutSource(r, d)
    \/ /\ m > 1 /\ Shelf!Filing(r)[m] = Shelf!PutEvidence(r, d)
       /\ Shelf!Filing(r)[m - 1] = Shelf!PutParsed(d)

\* Every position of the list is of the three kinds, for a document of the run.
LEMMA FilingFiles ==
    ASSUME NEW r \in Runs, docs[r] \in Seq(Shelf!Documents), NEW m \in 1..Len(Shelf!Filing(r))
    PROVE  \E i \in DOMAIN docs[r] : Files(r, m, docs[r][i])
<1> DEFINE i == Place(m)
           d == docs[r][i]
           F(j) == Three(r, docs[r][Place(j)])[j - 3 * (Place(j) - 1)]
<1>1. Len(docs[r]) \in Nat /\ DOMAIN docs[r] = 1..Len(docs[r]) OBVIOUS
<1>2. /\ Len(Shelf!Filing(r)) = 3 * Len(docs[r])
      /\ \A j \in 1..(3 * Len(docs[r])) : Shelf!Filing(r)[j] = F(j)
  <2>1. Shelf!Filing(r) = [j \in 1..(3 * Len(docs[r])) |-> F(j)] BY FilingListed DEF Listed
  <2> HIDE DEF F
  <2> QED BY <1>1, <2>1
<1>3. m \in Nat /\ m > 0 /\ m <= 3 * Len(docs[r]) BY <1>1, <1>2
<1>4. /\ i \in Nat /\ i > 0
      /\ m = 3 * (i - 1) + 1 \/ m = 3 * (i - 1) + 2 \/ m = 3 * (i - 1) + 3
  BY <1>3, PlaceOf
<1> HIDE DEF i
<1>5. i - 1 \in Nat /\ i \in DOMAIN docs[r] BY <1>1, <1>3, <1>4
<1>6. ASSUME NEW k \in 1..3, 3 * (i - 1) + k <= 3 * Len(docs[r])
      PROVE  Shelf!Filing(r)[3 * (i - 1) + k] = Three(r, d)[k]
  <2> DEFINE j == 3 * (i - 1) + k
  <2>1. Place(j) = (i - 1) + 1 BY <1>5, PlaceIs
  <2>2. j \in 1..(3 * Len(docs[r])) /\ Place(j) = i /\ j - 3 * (i - 1) = k
    BY <1>1, <1>4, <1>5, <1>6, <2>1
  <2>3. Shelf!Filing(r)[j] = F(j) BY <1>2, <2>2
  <2> HIDE DEF j
  <2>4. Shelf!Filing(r)[j] = Three(r, d)[k] BY <2>2, <2>3
  <2> QED BY <2>4 DEF j
<1>7. /\ Three(r, d)[1] = Shelf!PutSource(r, d) /\ Three(r, d)[2] = Shelf!PutParsed(d)
      /\ Three(r, d)[3] = Shelf!PutEvidence(r, d)
  BY DEF Three
<1> HIDE DEF d
<1>8. CASE m = 3 * (i - 1) + 1
  <2>1. Shelf!Filing(r)[m] = Three(r, d)[1] BY <1>3, <1>6, <1>8
  <2> QED BY <1>5, <1>7, <2>1 DEF Files, d
<1>9. CASE m = 3 * (i - 1) + 2
  <2>1. m > 1 /\ m - 1 = 3 * (i - 1) + 1 /\ 3 * (i - 1) + 1 <= 3 * Len(docs[r])
    BY <1>1, <1>3, <1>5, <1>9
  <2>2. Shelf!Filing(r)[m] = Three(r, d)[2] BY <1>3, <1>6, <1>9
  <2>3. Shelf!Filing(r)[m - 1] = Three(r, d)[1] BY <1>6, <2>1
  <2> QED BY <1>5, <1>7, <2>1, <2>2, <2>3 DEF Files, d
<1>10. CASE m = 3 * (i - 1) + 3
  <2>1. m > 1 /\ m - 1 = 3 * (i - 1) + 2 /\ 3 * (i - 1) + 2 <= 3 * Len(docs[r])
    BY <1>1, <1>3, <1>5, <1>10
  <2>2. Shelf!Filing(r)[m] = Three(r, d)[3] BY <1>3, <1>6, <1>10
  <2>3. Shelf!Filing(r)[m - 1] = Three(r, d)[2] BY <1>6, <2>1
  <2> QED BY <1>5, <1>7, <2>1, <2>2, <2>3 DEF Files, d
<1> QED BY <1>4, <1>8, <1>9, <1>10

\* Everything filed is a job of the shelf.
LEMMA FilingTyped ==
    ASSUME NEW r \in Runs, docs[r] \in Seq(Shelf!Documents), question[r] \in Questions
    PROVE  Shelf!Filing(r) \in Seq(Shelf!Jobs) /\ Len(Shelf!Filing(r)) \in Nat
<1> DEFINE F == Shelf!Filing(r)
           n == 3 * Len(docs[r])
<1>1. n \in Nat /\ F = [j \in 1..n |-> F[j]] /\ Len(F) = n
  <2>1. F = Listed(r, Len(docs[r])) /\ n \in Nat BY FilingListed
  <2> HIDE DEF F
  <2> QED BY <2>1 DEF Listed
<1>2. ASSUME NEW j \in 1..n PROVE F[j] \in Shelf!Jobs
  <2>1. PICK i \in DOMAIN docs[r] : Files(r, j, docs[r][i]) BY <1>1, FilingFiles
  <2> DEFINE d == docs[r][i]
  <2>2. d \in Shelf!Documents BY <2>1
  <2> HIDE DEF d
  <2>3. d.page \in Pages /\ d.version \in Versions BY <2>2 DEF Shelf!Documents
  <2>4. Shelf!PutSource(r, d) \in Shelf!Keys \X Shelf!Values
    BY <2>2, <2>3 DEF Shelf!PutSource, Shelf!SourceKey, Shelf!Keys, Shelf!Values, Shelf!Types
  <2>5. Shelf!ParsedOf(d) \in Shelf!Values
    BY <2>3 DEF Shelf!ParsedOf, Shelf!Values, Shelf!Outputs, Shelf!ParsedDocuments
  <2>6. Shelf!PutParsed(d) \in Shelf!Keys \X Shelf!Values
    BY <2>3, <2>5 DEF Shelf!PutParsed, Shelf!ParsedKey, Shelf!Keys
  <2>7. Shelf!PutEvidence(r, d) \in Shelf!Keys \X Shelf!Values
    BY <2>3, <2>5 DEF Shelf!PutEvidence, Shelf!EvidenceKey, Shelf!Keys
  <2>8. Files(r, j, d) BY <2>1 DEF d
  <2> QED BY <2>4, <2>6, <2>7, <2>8 DEF Files, Shelf!Jobs
<1> HIDE DEF F, n
<1>3. F \in Seq(Shelf!Jobs) /\ Len(F) \in Nat BY <1>1, <1>2
<1> QED BY <1>3 DEF F

-----------------------------------------------------------------------------
(* What a step leaves of a run's invariant. *)

SameWork(r) ==
    /\ node'[r] = node[r] /\ todo'[r] = todo[r] /\ docs'[r] = docs[r]
    /\ question'[r] = question[r] /\ profile' = profile /\ paid'[r] = paid[r]
Grows == \A k \in Shelf!Stored : k \in Shelf!Stored' /\ store'[k] = store[k]
NewFor(r) ==
    \A k \in Shelf!Stored' : k \notin Shelf!Stored =>
        /\ at[r] = "write" => k # Shelf!Key(r)
        /\ Shelf!Answering(r, k) => store'[k].by # r /\ {r, store'[k].by} \in met'

\* The list changes only with the documents and the subquestion.
LEMMA FilingSame ==
    ASSUME NEW r \in Runs, docs'[r] = docs[r], question'[r] = question[r]
    PROVE  Shelf!Filing(r)' = Shelf!Filing(r)
BY DEF Shelf!Filing, Shelf!PutSource, Shelf!PutParsed, Shelf!PutEvidence, Shelf!SourceKey,
       Shelf!ParsedKey, Shelf!EvidenceKey, Shelf!ParsedOf

\* The phase of a run is told by its node and what it has to do.
LEMMA PhasesSame ==
    ASSUME NEW r \in Runs, node'[r] = node[r], todo'[r] = todo[r], profile' = profile
    PROVE  /\ Shelf!LookupPhase(r) => Shelf!LookupPhase(r)'
           /\ \A c : Shelf!ArtifactPhase(r, c) => Shelf!ArtifactPhase(r, c)'
           /\ \A c : Shelf!PublishPhase(r, c) => Shelf!PublishPhase(r, c)'
           /\ \A c : Shelf!Completing(r, c) => Shelf!Completing(r, c)'
           /\ \A c : Shelf!Completing(r, c)' => Shelf!Completing(r, c)
           /\ \A u : Shelf!Pending(r, u) => Shelf!Pending(r, u)'
           /\ \A u : Shelf!Pending(r, u)' => Shelf!Pending(r, u)
           /\ \A c : Shelf!CompletionKey(r, c)' = Shelf!CompletionKey(r, c)
<1>1. \A c : Shelf!CompletionKey(r, c)' = Shelf!CompletionKey(r, c)
        /\ (Shelf!ResultOf(r, c) => Shelf!ResultOf(r, c)')
             /\ (Shelf!ResultOf(r, c)' => Shelf!ResultOf(r, c))
  BY DEF Shelf!CompletionKey, Shelf!ResultOf, Shelf!ParseKey
<1>2. \A n : Shelf!OnlyLookups(r, n) => Shelf!OnlyLookups(r, n)'
  BY DEF Shelf!OnlyLookups, Shelf!Own, Shelf!Lookups
<1>3. \A n : Shelf!OnlyLookups(r, n)' => Shelf!OnlyLookups(r, n)
  BY DEF Shelf!OnlyLookups, Shelf!Own, Shelf!Lookups
<1>4. Shelf!LookupPhase(r) => Shelf!LookupPhase(r)'
  BY <1>2 DEF Shelf!LookupPhase
<1>5. ASSUME NEW c
      PROVE (Shelf!ArtifactPhase(r, c) => Shelf!ArtifactPhase(r, c)')
            /\ (Shelf!ArtifactPhase(r, c)' => Shelf!ArtifactPhase(r, c))
  BY <1>1, <1>2, <1>3 DEF Shelf!ArtifactPhase
<1>6. ASSUME NEW c
      PROVE (Shelf!PublishPhase(r, c) => Shelf!PublishPhase(r, c)')
            /\ (Shelf!PublishPhase(r, c)' => Shelf!PublishPhase(r, c))
  BY <1>1, <1>2, <1>3 DEF Shelf!PublishPhase
<1>7. \A c : (Shelf!Completing(r, c) => Shelf!Completing(r, c)')
        /\ (Shelf!Completing(r, c)' => Shelf!Completing(r, c))
  BY <1>5, <1>6 DEF Shelf!Completing
<1>8. \A u : (Shelf!Pending(r, u) => Shelf!Pending(r, u)')
        /\ (Shelf!Pending(r, u)' => Shelf!Pending(r, u))
  BY <1>7 DEF Shelf!Pending
<1> QED BY <1>1, <1>4, <1>5, <1>6, <1>7, <1>8

\* A run whose work is untouched stays in its phase while files appear.
LEMMA PhaseFrame ==
    ASSUME NEW r \in Runs, SameWork(r), Grows, Shelf!PhaseInv(r)
    PROVE  Shelf!PhaseInv(r)'
<1>1. Shelf!Filing(r)' = Shelf!Filing(r) BY FilingSame DEF SameWork
<1>2. CASE Shelf!LookupPhase(r)
  BY <1>2, PhasesSame DEF SameWork, Shelf!PhaseInv
<1>3. ASSUME NEW c \in Shelf!Outputs, Shelf!ArtifactPhase(r, c) PROVE Shelf!PhaseInv(r)'
  BY <1>3, PhasesSame DEF SameWork, Shelf!PhaseInv
<1>4. ASSUME NEW c \in Shelf!Outputs, Shelf!PublishPhase(r, c), Shelf!Artifact(c) \in Shelf!Stored
      PROVE Shelf!PhaseInv(r)'
  <2>1. Shelf!Artifact(c) \in Shelf!Stored' BY <1>4 DEF Grows
  <2> QED BY <1>4, <2>1, PhasesSame DEF SameWork, Shelf!PhaseInv
<1>5. ASSUME NEW m \in 0..Len(Shelf!Filing(r)), Shelf!FilingPhase(r, m) PROVE Shelf!PhaseInv(r)'
  <2>1. Shelf!FilingPhase(r, m)' BY <1>1, <1>5 DEF Shelf!FilingPhase, SameWork, Shelf!OnDisk, Grows
  <2> QED BY <1>1, <2>1 DEF Shelf!PhaseInv
<1> QED BY <1>2, <1>3, <1>4, <1>5 DEF Shelf!PhaseInv

\* What is published stays so: no file is replaced by another.
LEMMA PublishedStays ==
    ASSUME Grows
    PROVE  \A d : Shelf!Published(d) => Shelf!Published(d)'
BY DEF Shelf!Published, Grows

\* What is founded stays so.
LEMMA FoundedStays ==
    ASSUME Grows, NEW k, NEW v, Shelf!Founded(k, v)
    PROVE  Shelf!Founded(k, v)'
BY DEF Shelf!Founded, Shelf!HasSource, Shelf!Quotes, Grows

\* The documents of a run whose work is untouched stay accounted for.
LEMMA DocsFrame ==
    ASSUME NEW r \in Runs, SameWork(r), Grows, Shelf!DocsInv(r)
    PROVE  Shelf!DocsInv(r)'
<1>1. /\ \A d : Shelf!Published(d) => Shelf!Published(d)'
      /\ \A c : Shelf!Completing(r, c) => Shelf!Completing(r, c)'
  BY PublishedStays, PhasesSame DEF SameWork
<1> QED BY <1>1 DEF Shelf!DocsInv, SameWork

\* A step that is not the run's own.
LEMMA RunFrame ==
    ASSUME NEW r \in Runs, Shelf!ShelfRunInv(r), SameWork(r), at'[r] = at[r], Grows,
           met \subseteq met', NewFor(r)
    PROVE  Shelf!ShelfRunInv(r)'
<1>1. Shelf!PhaseInv(r)' /\ Shelf!DocsInv(r)'
  BY PhaseFrame, DocsFrame DEF Shelf!ShelfRunInv
<1>2. /\ \A c : Shelf!Completing(r, c)' => Shelf!Completing(r, c)
      /\ \A u : Shelf!Pending(r, u) => Shelf!Pending(r, u)'
      /\ \A u : Shelf!Pending(r, u)' => Shelf!Pending(r, u)
      /\ \A c : Shelf!CompletionKey(r, c)' = Shelf!CompletionKey(r, c)
      /\ Shelf!LookupPhase(r) => Shelf!LookupPhase(r)'
      /\ Shelf!Key(r)' = Shelf!Key(r) /\ Shelf!Job(r)' = Shelf!Job(r)
  BY PhasesSame DEF SameWork, Shelf!Key, Shelf!Job
<1>3. Shelf!StepInv(r)'
  <2>1. Shelf!StepInv(r) BY DEF Shelf!ShelfRunInv
  <2>2. at[r] = "write" => Shelf!Key(r) \notin Shelf!Stored'
    BY <2>1 DEF NewFor, Shelf!StepInv
  <2>3. Shelf!Founded(Shelf!Key(r), Shelf!Job(r)[2]) => Shelf!Founded(Shelf!Key(r), Shelf!Job(r)[2])'
    BY <1>2 DEF Grows, Shelf!Founded, Shelf!HasSource, Shelf!Quotes, Shelf!Stored, Shelf!ParsedOf
  <2> QED BY <1>2, <2>1, <2>2, <2>3 DEF Shelf!StepInv, SameWork
<1>4. Shelf!PaidInv(r)'
  <2>1. Shelf!PaidInv(r) BY DEF Shelf!ShelfRunInv
  <2>2. \A u : Shelf!FetchKey(u) \in Shelf!Stored => Shelf!FetchKey(u) \in Shelf!Stored' BY DEF Grows
  <2> QED BY <1>2, <2>1, <2>2 DEF Shelf!PaidInv, SameWork, Shelf!FetchKey
<1>5. Shelf!RaceInv(r)'
  <2>1. \A k : Shelf!Answering(r, k)' => Shelf!Answering(r, k)
    BY <1>2 DEF Shelf!Answering, Shelf!Working
  <2>2. Shelf!RaceInv(r) BY DEF Shelf!ShelfRunInv
  <2>3. ASSUME NEW k \in Shelf!Stored', Shelf!Answering(r, k)'
        PROVE  store'[k].by # r /\ {r, store'[k].by} \in met'
    <3>1. Shelf!Answering(r, k) BY <2>1, <2>3
    <3>2. CASE k \in Shelf!Stored
      <4>1. store'[k] = store[k] BY <3>2 DEF Grows
      <4> QED BY <2>2, <3>1, <3>2, <4>1 DEF Shelf!RaceInv
    <3>3. CASE k \notin Shelf!Stored BY <2>3, <3>1, <3>3 DEF NewFor
    <3> QED BY <3>2, <3>3
  <2> QED BY <2>3 DEF Shelf!RaceInv
<1> QED BY <1>1, <1>3, <1>4, <1>5 DEF Shelf!ShelfRunInv

-----------------------------------------------------------------------------
(* The next job of a run and what is left behind it. *)

Todo(r) == r \in Runs /\ todo[r] \in Seq(Shelf!Jobs) /\ docs[r] \in Seq(Shelf!Documents)
      /\ todo[r] # <<>>

\* The first job, and what is behind it.
LEMMA FirstJob ==
    ASSUME NEW r, Todo(r)
    PROVE  /\ Shelf!Job(r) = todo[r][1] /\ Len(todo[r]) \in Nat /\ Len(todo[r]) > 0
           /\ 1 \in 1..Len(todo[r])
           /\ Tail(todo[r]) \in Seq(Shelf!Jobs) /\ Len(Tail(todo[r])) = Len(todo[r]) - 1
           /\ \A i \in 1..(Len(todo[r]) - 1) : Tail(todo[r])[i] = todo[r][i + 1]
BY DEF Todo, Shelf!Job

\* What is filed is a key with a value.
LEMMA FilingPairs ==
    ASSUME NEW r \in Runs, docs[r] \in Seq(Shelf!Documents), NEW m \in 1..Len(Shelf!Filing(r))
    PROVE  Len(Shelf!Filing(r)[m]) = 2
<1>1. PICK i \in DOMAIN docs[r] : Files(r, m, docs[r][i]) BY FilingFiles
<1>2. \A a, b : Len(<<a, b>>) = 2 OBVIOUS
<1>3. \A d : Len(Shelf!PutSource(r, d)) = 2 /\ Len(Shelf!PutParsed(d)) = 2
        /\ Len(Shelf!PutEvidence(r, d)) = 2
  BY <1>2, Zenon DEF Shelf!PutSource, Shelf!PutParsed, Shelf!PutEvidence
<1> QED BY <1>1, <1>3 DEF Files

\* Behind a filed beginning, the job is the next one that is filed.
LEMMA FilingJob ==
    ASSUME NEW r, Todo(r), NEW m \in 0..Len(Shelf!Filing(r)), Shelf!FilingPhase(r, m),
           Len(Shelf!Filing(r)) \in Nat
    PROVE  m + 1 \in 1..Len(Shelf!Filing(r)) /\ Shelf!Job(r) = Shelf!Filing(r)[m + 1]
<1>1. Shelf!Job(r) = todo[r][1] /\ Len(todo[r]) \in Nat /\ Len(todo[r]) > 0 BY FirstJob
<1>2. Len(todo[r]) = Len(Shelf!Filing(r)) - m
        /\ \A i \in 1..Len(todo[r]) : todo[r][i] = Shelf!Filing(r)[m + i]
  BY DEF Shelf!FilingPhase
<1> QED BY <1>1, <1>2

\* A run that only looks up has a key without a value.
LEMMA LookupJob ==
    ASSUME NEW r, Todo(r), Shelf!LookupPhase(r)
    PROVE  /\ Shelf!Own(r, Shelf!Job(r))
           /\ Shelf!Job(r) \in Shelf!Lookups(node[r]) /\ Len(Shelf!Job(r)) = 1
BY FirstJob DEF Shelf!LookupPhase, Shelf!OnlyLookups, Shelf!Own, Shelf!Lookups

\* And the other way round.
LEMMA SingleJob ==
    ASSUME NEW r, Todo(r), Shelf!PhaseInv(r), Len(Shelf!Job(r)) = 1, question[r] \in Questions
    PROVE  Shelf!LookupPhase(r)
<1>1. ASSUME NEW c, Shelf!ArtifactPhase(r, c) \/ Shelf!PublishPhase(r, c) PROVE FALSE
  <2>1. \A a, b : Len(<<a, b>>) = 2 OBVIOUS
  <2>2. Shelf!Job(r) = todo[r][1] BY FirstJob
  <2>3. Len(Shelf!PutArtifact(c)) = 2 /\ Len(Shelf!Publish(r, Shelf!CompletionKey(r, c), c)) = 2
    BY <2>1, Zenon DEF Shelf!PutArtifact, Shelf!Publish
  <2>4. todo[r][1] = Shelf!PutArtifact(c) \/ todo[r][1] = Shelf!Publish(r, Shelf!CompletionKey(r, c), c)
    BY <1>1 DEF Shelf!ArtifactPhase, Shelf!PublishPhase
  <2> QED BY <2>2, <2>3, <2>4
<1>2. ASSUME NEW m \in 0..Len(Shelf!Filing(r)), Shelf!FilingPhase(r, m) PROVE FALSE
  <2>1. Len(Shelf!Filing(r)) \in Nat BY FilingTyped DEF Todo
  <2>2. m + 1 \in 1..Len(Shelf!Filing(r)) /\ Shelf!Job(r) = Shelf!Filing(r)[m + 1]
    BY <1>2, <2>1, FilingJob
  <2> DEFINE k == m + 1
  <2>3. k \in 1..Len(Shelf!Filing(r)) /\ Shelf!Job(r) = Shelf!Filing(r)[k] BY <2>2
  <2> HIDE DEF k
  <2>4. Len(Shelf!Filing(r)[k]) = 2 BY <2>3, FilingPairs DEF Todo
  <2> QED BY <2>3, <2>4
<1> QED BY <1>1, <1>2 DEF Shelf!PhaseInv

\* A step has done the first job: what the run was at, and is at now.
DidJob(r) ==
    /\ Todo(r) /\ todo'[r] = Tail(todo[r]) /\ node'[r] = node[r] /\ profile' = profile

\* What the first job puts is on disk.
Done(r) == Shelf!Key(r) \in Shelf!Stored' /\ store'[Shelf!Key(r)] = Shelf!Job(r)[2]

\* Behind a lookup come lookups, behind the artifact the entry, behind the
\* entry lookups, behind a filed job the rest of the list.
LEMMA LookupTail ==
    ASSUME NEW r, DidJob(r), Shelf!LookupPhase(r)
    PROVE  Shelf!LookupPhase(r)'
<1>1. Todo(r) BY DEF DidJob
<1> QED
  BY <1>1, FirstJob DEF DidJob, Shelf!LookupPhase, Shelf!OnlyLookups, Shelf!Own, Shelf!Lookups

LEMMA ArtifactTail ==
    ASSUME NEW r, DidJob(r), NEW c, Shelf!ArtifactPhase(r, c)
    PROVE  Shelf!PublishPhase(r, c)'
<1>1. Todo(r) BY DEF DidJob
<1>2. /\ Len(todo'[r]) \in Nat /\ Len(todo'[r]) > 0 /\ Len(todo'[r]) = Len(todo[r]) - 1
      /\ \A i \in 1..Len(todo'[r]) : todo'[r][i] = todo[r][i + 1]
  BY <1>1, FirstJob DEF DidJob, Shelf!ArtifactPhase
<1>3. todo'[r][1] = todo[r][2]
  <2>1. 1 \in 1..Len(todo'[r]) /\ 1 + 1 = 2 BY <1>2
  <2> QED BY <1>2, <2>1
<1>4. Shelf!OnlyLookups(r, 1)'
  <2>1. \A i \in 1..Len(todo'[r]) : i > 1 => i + 1 \in 1..Len(todo[r]) /\ i + 1 > 2
    BY <1>1, <1>2, FirstJob
  <2> QED
    BY <1>2, <2>1 DEF Shelf!OnlyLookups, Shelf!Own, Shelf!Lookups, Shelf!ArtifactPhase, DidJob
<1>5. Shelf!ResultOf(r, c)' /\ Shelf!CompletionKey(r, c)' = Shelf!CompletionKey(r, c)
  BY DEF Shelf!ArtifactPhase, Shelf!ResultOf, Shelf!CompletionKey, Shelf!ParseKey, DidJob
<1> QED
  BY <1>2, <1>3, <1>4, <1>5
     DEF Shelf!ArtifactPhase, Shelf!PublishPhase, DidJob, Shelf!Publish, Shelf!Entry

LEMMA PublishTail ==
    ASSUME NEW r, DidJob(r), NEW c, Shelf!PublishPhase(r, c)
    PROVE  Shelf!LookupPhase(r)'
<1>1. Todo(r) BY DEF DidJob
<1>2. \A i \in 1..Len(todo'[r]) : todo'[r][i] = todo[r][i + 1] /\ i + 1 \in 1..Len(todo[r]) /\ i + 1 > 1
  BY <1>1, FirstJob DEF DidJob
<1> QED
  BY <1>2
     DEF Shelf!PublishPhase, Shelf!LookupPhase, Shelf!OnlyLookups, Shelf!Own, Shelf!Lookups, DidJob

LEMMA FilingTail ==
    ASSUME NEW r, DidJob(r), NEW m \in 0..Len(Shelf!Filing(r)), Shelf!FilingPhase(r, m),
           Len(Shelf!Filing(r)) \in Nat,
           docs'[r] = docs[r], question'[r] = question[r], Grows, Done(r)
    PROVE  m + 1 \in 0..Len(Shelf!Filing(r)') /\ Shelf!FilingPhase(r, m + 1)'
<1>1. Todo(r) /\ r \in Runs BY DEF DidJob, Todo
<1>2. m + 1 \in 1..Len(Shelf!Filing(r)) /\ Shelf!Job(r) = Shelf!Filing(r)[m + 1] BY <1>1, FilingJob
<1>3. Shelf!Filing(r)' = Shelf!Filing(r) BY <1>1, FilingSame
<1>4. /\ Len(todo'[r]) = Len(todo[r]) - 1 /\ Len(todo'[r]) \in Nat
      /\ \A i \in 1..Len(todo'[r]) : todo'[r][i] = todo[r][i + 1] /\ i + 1 \in 1..Len(todo[r])
  BY <1>1, FirstJob DEF DidJob
<1>5. Len(todo[r]) = Len(Shelf!Filing(r)) - m
        /\ \A i \in 1..Len(todo[r]) : todo[r][i] = Shelf!Filing(r)[m + i]
  BY DEF Shelf!FilingPhase
<1>6. \A i \in 1..Len(todo'[r]) : todo'[r][i] = Shelf!Filing(r)[(m + 1) + i]
  <2> TAKE i \in 1..Len(todo'[r])
  <2>1. todo'[r][i] = Shelf!Filing(r)[m + (i + 1)] BY <1>4, <1>5
  <2>2. m + (i + 1) = (m + 1) + i BY <1>4
  <2> QED BY <2>1, <2>2
<1>7. \A i \in 1..(m + 1) : Shelf!Filing(r)[i][1] \in Shelf!Stored'
        /\ store'[Shelf!Filing(r)[i][1]] = Shelf!Filing(r)[i][2]
  <2> TAKE i \in 1..(m + 1)
  <2>1. CASE i = m + 1
    BY <2>1, <1>2 DEF Done, Shelf!Key
  <2>2. CASE i # m + 1
    <3>1. i \in 1..m BY <2>2
    <3> QED BY <3>1 DEF Shelf!FilingPhase, Shelf!OnDisk, Grows
  <2> QED BY <2>1, <2>2
<1> QED BY <1>2, <1>3, <1>4, <1>5, <1>6, <1>7 DEF Shelf!FilingPhase, DidJob, Shelf!OnDisk

\* Keys stand alone in a lookup and with a value in a put.
LEMMA JobLengths ==
    /\ \A n : \A job \in Shelf!Lookups(n) : Len(job) = 1
    /\ \A c : Len(Shelf!PutArtifact(c)) = 2
    /\ \A r, k, c : Len(Shelf!Publish(r, k, c)) = 2
<1>1. (\A a : Len(<<a>>) = 1) /\ \A a, b : Len(<<a, b>>) = 2 OBVIOUS
<1>2. \A n : \A job \in Shelf!Lookups(n) : Len(job) = 1
  BY <1>1 DEF Shelf!Lookups
<1>3. \A c : Len(Shelf!PutArtifact(c)) = 2
  BY <1>1, Zenon DEF Shelf!PutArtifact
<1>4. \A r, k, c : Len(Shelf!Publish(r, k, c)) = 2
  BY <1>1, Zenon DEF Shelf!Publish
<1> QED BY <1>2, <1>3, <1>4

\* The key of an entry is no artifact's name, and an entry shows its content.
LEMMA EntryIs ==
    ASSUME NEW r, NEW s, NEW k, NEW n, NEW c, NEW e
    PROVE  /\ Shelf!Publish(r, k, c) = Shelf!Publish(s, n, e) => c = e /\ k = n
           /\ Shelf!Publish(r, k, c)[1] = k /\ Shelf!Publish(r, k, c)[2] = Shelf!Entry(r, c)
           /\ Shelf!Entry(r, c).of = c /\ Shelf!Entry(r, c).by = r
           /\ Shelf!PutArtifact(c)[1] = Shelf!Artifact(c) /\ Shelf!PutArtifact(c)[2] = c
           /\ Shelf!Artifact(c)[1] = "artifact" /\ Shelf!Artifact(c)[2] = c
           /\ Shelf!PutArtifact(c) = Shelf!PutArtifact(e) => c = e
BY DEF Shelf!Publish, Shelf!Entry, Shelf!PutArtifact, Shelf!Artifact

\* The key of a completion, by the node that makes it.
LEMMA KeyIs ==
    ASSUME NEW r, NEW c
    PROVE  /\ node[r] = "Fetch" => /\ Shelf!CompletionKey(r, c) = Shelf!FetchKey(c.by[2])
                                   /\ Shelf!CompletionKey(r, c)[1] = "fetch"
                                   /\ Shelf!CompletionKey(r, c)[2] = c.by[2]
           /\ node[r] # "Fetch" => /\ Shelf!CompletionKey(r, c) = Shelf!ParseKey(r, c)
                                   /\ Shelf!CompletionKey(r, c)[1] = "parse"
                                   /\ Shelf!CompletionKey(r, c)[2] = <<profile[r], c.page, c.version>>
           /\ Shelf!CompletionKey(r, c)[1] # "artifact"
BY DEF Shelf!CompletionKey, Shelf!FetchKey, Shelf!ParseKey

\* One phase at a time, and one content.
LEMMA OnePhase ==
    ASSUME NEW r, NEW c, Shelf!Completing(r, c)
    PROVE  /\ Len(todo[r]) \in Nat => ~Shelf!LookupPhase(r)
           /\ \A e : Shelf!ArtifactPhase(r, c) /\ Shelf!Completing(r, e) => e = c
                /\ ~Shelf!PublishPhase(r, e)
           /\ \A e : Shelf!PublishPhase(r, c) /\ Shelf!Completing(r, e) => e = c
                /\ ~Shelf!ArtifactPhase(r, e)
<1>1. Shelf!PutArtifact(c) # Shelf!Publish(r, Shelf!CompletionKey(r, c), c)
  BY EntryIs, KeyIs
<1>2. \A e : Shelf!PutArtifact(c) # Shelf!Publish(r, Shelf!CompletionKey(r, e), e)
        /\ Shelf!PutArtifact(e) # Shelf!Publish(r, Shelf!CompletionKey(r, c), c)
  BY EntryIs, KeyIs
<1>3. ASSUME Len(todo[r]) \in Nat, Shelf!LookupPhase(r) PROVE FALSE
  <2>1. Len(todo[r]) > 0 /\ Len(todo[r][1]) = 2
    BY <1>3, JobLengths DEF Shelf!Completing, Shelf!ArtifactPhase, Shelf!PublishPhase
  <2>2. 1 \in 1..Len(todo[r]) /\ 1 > 0 BY <1>3, <2>1
  <2>3. todo[r][1] \in Shelf!Lookups(node[r])
    BY <1>3, <2>2 DEF Shelf!LookupPhase, Shelf!OnlyLookups, Shelf!Own
  <2>4. Len(todo[r][1]) = 1 BY <2>3, JobLengths
  <2> QED BY <2>1, <2>4, SMTT(40)
<1>4. ASSUME NEW e, Shelf!ArtifactPhase(r, c), Shelf!Completing(r, e)
      PROVE e = c /\ ~Shelf!PublishPhase(r, e)
  BY <1>2, <1>4, EntryIs DEF Shelf!Completing, Shelf!ArtifactPhase, Shelf!PublishPhase
<1>5. ASSUME NEW e, Shelf!PublishPhase(r, c), Shelf!Completing(r, e)
      PROVE e = c /\ ~Shelf!ArtifactPhase(r, e)
  BY <1>2, <1>5, EntryIs DEF Shelf!Completing, Shelf!ArtifactPhase, Shelf!PublishPhase
<1> QED BY <1>3, <1>4, <1>5

\* The phase behind a put.
LEMMA PutPhases ==
    ASSUME NEW r, DidJob(r), Shelf!PhaseInv(r), Len(Shelf!Job(r)) = 2, question[r] \in Questions,
           docs'[r] = docs[r], question'[r] = question[r], Grows, Done(r)
    PROVE  /\ Shelf!PhaseInv(r)'
           /\ \A c : Shelf!ArtifactPhase(r, c) => Shelf!PublishPhase(r, c)'
           /\ \A c : Shelf!Completing(r, c)' => Shelf!ArtifactPhase(r, c)
<1>1. Todo(r) /\ r \in Runs /\ Shelf!Job(r) = todo[r][1] /\ Len(todo'[r]) \in Nat
        /\ Len(todo[r]) \in Nat
  <2>1. Todo(r) BY DEF DidJob
  <2> QED BY <2>1, FirstJob DEF DidJob, Todo
<1>2. \A c : Shelf!ArtifactPhase(r, c) => Shelf!PublishPhase(r, c)'
  BY ArtifactTail
<1>3. CASE Shelf!LookupPhase(r)
  <2>1. Len(Shelf!Job(r)) = 1 BY <1>1, <1>3, LookupJob
  <2>2. Len(Shelf!Job(r)) = 2 OBVIOUS
  <2>3. FALSE BY <2>1, <2>2
  <2> QED BY <2>3
<1>4. ASSUME NEW c \in Shelf!Outputs, Shelf!ArtifactPhase(r, c)
      PROVE  Shelf!PhaseInv(r)' /\ \A e : Shelf!Completing(r, e)' => Shelf!ArtifactPhase(r, e)
  <2>1. Shelf!PublishPhase(r, c)' BY <1>4, ArtifactTail
  <2>2. Shelf!Artifact(c) \in Shelf!Stored'
    BY <1>1, <1>4, EntryIs DEF Shelf!ArtifactPhase, Done, Shelf!Key
  <2>3. Shelf!PhaseInv(r)' BY <2>1, <2>2 DEF Shelf!PhaseInv
  <2>4. ASSUME NEW e, Shelf!Completing(r, e)' PROVE e = c
    <3>1. todo'[r][1] = Shelf!Publish(r, Shelf!CompletionKey(r, c)', c)
      BY <2>1 DEF Shelf!PublishPhase, Shelf!Publish, Shelf!Entry
    <3>2. todo'[r][1] = Shelf!PutArtifact(e)
            \/ todo'[r][1] = Shelf!Publish(r, Shelf!CompletionKey(r, e)', e)
      BY <2>4
         DEF Shelf!Completing, Shelf!ArtifactPhase, Shelf!PublishPhase, Shelf!Publish, Shelf!Entry,
             Shelf!PutArtifact, Shelf!Artifact
    <3>3. Shelf!CompletionKey(r, c)'[1] # "artifact"
      BY DEF Shelf!CompletionKey, Shelf!FetchKey, Shelf!ParseKey
    <3> QED BY <3>1, <3>2, <3>3, EntryIs
  <2> QED BY <1>4, <2>3, <2>4
<1>5. ASSUME NEW c \in Shelf!Outputs, Shelf!PublishPhase(r, c)
      PROVE  Shelf!PhaseInv(r)' /\ \A e : Shelf!Completing(r, e)' => Shelf!ArtifactPhase(r, e)
  <2>1. Shelf!LookupPhase(r)' BY <1>5, PublishTail
  <2>2. ASSUME NEW e, Shelf!Completing(r, e)' PROVE FALSE
    <3>1. Len(todo'[r]) > 0 /\ Len(todo'[r][1]) = 2
      <4>1. \A a, b : Len(<<a, b>>) = 2 OBVIOUS
      <4>2. \E a, b : Len(todo'[r]) > 0 /\ todo'[r][1] = <<a, b>>
        BY <1>1, <2>2
           DEF Shelf!Completing, Shelf!ArtifactPhase, Shelf!PublishPhase, Shelf!Publish,
           Shelf!PutArtifact
      <4> QED BY <4>1, <4>2
    <3>2. 1 \in 1..Len(todo'[r]) /\ 1 > 0 BY <1>1, <3>1
    <3>3. todo'[r][1] \in Shelf!Lookups(node'[r])
      BY <2>1, <3>2 DEF Shelf!LookupPhase, Shelf!OnlyLookups, Shelf!Own, Shelf!Lookups
    <3>4. Len(todo'[r][1]) = 1 BY <3>3, JobLengths
    <3>5. Len(todo'[r][1]) = 2 BY <3>1
    <3> QED BY <3>4, <3>5
  <2> QED BY <2>1, <2>2 DEF Shelf!PhaseInv
<1>6. ASSUME NEW m \in 0..Len(Shelf!Filing(r)), Shelf!FilingPhase(r, m)
      PROVE  Shelf!PhaseInv(r)' /\ \A e : Shelf!Completing(r, e)' => Shelf!ArtifactPhase(r, e)
  <2>1. Len(Shelf!Filing(r)) \in Nat BY <1>1, FilingTyped DEF Todo
  <2>2. m + 1 \in 0..Len(Shelf!Filing(r)') /\ Shelf!FilingPhase(r, m + 1)' BY <1>6, <2>1, FilingTail
  <2>3. Shelf!PhaseInv(r)' BY <2>2 DEF Shelf!PhaseInv
  <2>4. node'[r] = "StoreEvidence" BY <2>2 DEF Shelf!FilingPhase
  <2> QED BY <2>3, <2>4 DEF Shelf!Completing, Shelf!ArtifactPhase, Shelf!PublishPhase
<1> QED BY <1>2, <1>3, <1>4, <1>5, <1>6 DEF Shelf!PhaseInv

\* The run whose put is done, or was not needed, goes on.
LEMMA PutDone ==
    ASSUME NEW r, DidJob(r), Shelf!ShelfRunInv(r), Len(Shelf!Job(r)) = 2, at[r] \in {"ready", "write"},
           at'[r] = "ready", docs'[r] = docs[r], question'[r] = question[r], paid'[r] = paid[r],
           Grows, Done(r),
           \A k \in Shelf!Stored' : k \in Shelf!Stored \/ k = Shelf!Key(r), met \subseteq met'
    PROVE  Shelf!ShelfRunInv(r)'
<1>1. /\ Shelf!PhaseInv(r) /\ Shelf!DocsInv(r) /\ Shelf!StepInv(r) /\ Shelf!PaidInv(r)
      /\ Shelf!RaceInv(r)
      /\ question[r] \in Questions /\ node'[r] = node[r] /\ Shelf!Job(r) = todo[r][1]
      /\ Shelf!Key(r) = todo[r][1][1]
  <2>1. Todo(r) BY DEF DidJob
  <2> QED BY <2>1, FirstJob DEF Shelf!ShelfRunInv, Shelf!StepInv, DidJob, Shelf!Key
<1>2. /\ Shelf!PhaseInv(r)'
      /\ \A c : Shelf!ArtifactPhase(r, c) => Shelf!PublishPhase(r, c)'
      /\ \A c : Shelf!Completing(r, c)' => Shelf!ArtifactPhase(r, c)
  BY <1>1, PutPhases
<1>3. \A c : Shelf!PublishPhase(r, c) =>
        Shelf!CompletionKey(r, c) \in Shelf!Stored'
              /\ store'[Shelf!CompletionKey(r, c)] = Shelf!Entry(r, c)
  BY <1>1, EntryIs DEF Shelf!PublishPhase, Done
<1>4. \A c : Shelf!CompletionKey(r, c)' = Shelf!CompletionKey(r, c)
  BY <1>1 DEF Shelf!CompletionKey, Shelf!ParseKey, DidJob
<1>5. Shelf!DocsInv(r)'
  <2>1. ASSUME NEW i \in DOMAIN docs[r]
        PROVE  Shelf!Published(docs[r][i])' \/ (node'[r] = "Fetch" /\ Shelf!Completing(r, docs[r][i])')
    <3>0. PICK d : d = docs[r][i] /\ d = docs'[r][i] OBVIOUS
    <3>1. Shelf!Published(d) \/ (node[r] = "Fetch" /\ Shelf!Completing(r, d))
      BY <1>1, <3>0 DEF Shelf!DocsInv
    <3>2. CASE Shelf!Published(d)
      <4>1. Shelf!Published(d)' BY <3>2, PublishedStays
      <4> QED BY <3>0, <4>1 DEF Shelf!Published, Shelf!FetchKey
    <3>3. CASE node[r] = "Fetch" /\ Shelf!ArtifactPhase(r, d)
      <4>1. Shelf!PublishPhase(r, d)' BY <1>2, <3>3
      <4>2. Shelf!Completing(r, d)' BY <4>1 DEF Shelf!Completing
      <4> QED BY <1>1, <3>0, <3>3, <4>2
    <3>4. CASE node[r] = "Fetch" /\ Shelf!PublishPhase(r, d)
      <4>1. Shelf!FetchKey(d.by[2]) \in Shelf!Stored' /\ store'[Shelf!FetchKey(d.by[2])].of = d
        <5>1. Shelf!CompletionKey(r, d) = Shelf!FetchKey(d.by[2]) BY <3>4, KeyIs
        <5>2. Shelf!Entry(r, d).of = d BY EntryIs
        <5> QED BY <1>3, <3>4, <5>1, <5>2
      <4> QED BY <3>0, <4>1 DEF Shelf!Published, Shelf!FetchKey
    <3> QED BY <3>1, <3>2, <3>3, <3>4 DEF Shelf!Completing
  <2> QED BY <2>1 DEF Shelf!DocsInv
<1>6. Shelf!StepInv(r)'
  BY <1>1 DEF Shelf!StepInv
<1>7. Shelf!PaidInv(r)'
  <2>1. ASSUME NEW u \in paid[r] PROVE Shelf!FetchKey(u) \in Shelf!Stored' \/ Shelf!Pending(r, u)'
    <3>1. CASE Shelf!FetchKey(u) \in Shelf!Stored BY <3>1 DEF Grows
    <3>2. CASE Shelf!Pending(r, u)
      <4>1. PICK c \in Shelf!Documents : Shelf!Completing(r, c) /\ c.by[2] = u /\ node[r] = "Fetch"
        BY <3>2 DEF Shelf!Pending
      <4>2. CASE Shelf!ArtifactPhase(r, c)
        <5>1. Shelf!PublishPhase(r, c)' BY <1>2, <4>2
        <5>2. c.by[2] = u /\ node'[r] = "Fetch" BY <1>1, <4>1
        <5> QED BY <5>1, <5>2 DEF Shelf!Pending, Shelf!Completing, Shelf!Documents
      <4>3. CASE Shelf!PublishPhase(r, c)
        BY <1>3, <4>1, <4>3, KeyIs
      <4> QED BY <4>1, <4>2, <4>3 DEF Shelf!Completing
    <3> QED BY <1>1, <3>1, <3>2 DEF Shelf!PaidInv
  <2>2. ASSUME NEW u \in Shelf!PageRequests, Shelf!Pending(r, u)' PROVE u \in paid[r]
    <3>1. PICK c \in Shelf!Documents : Shelf!Completing(r, c)' /\ c.by[2] = u /\ node'[r] = "Fetch"
      BY <2>2 DEF Shelf!Pending, Shelf!Documents
    <3>2. Shelf!ArtifactPhase(r, c) BY <1>2, <3>1
    <3>3. Shelf!Pending(r, u) BY <1>1, <3>1, <3>2 DEF Shelf!Pending, Shelf!Completing
    <3> QED BY <1>1, <3>3 DEF Shelf!PaidInv
  <2> QED BY <2>1, <2>2 DEF Shelf!PaidInv, Shelf!FetchKey, Shelf!PageRequests
<1>8. Shelf!RaceInv(r)'
  <2>1. ASSUME NEW k \in Shelf!Stored', Shelf!Answering(r, k)'
        PROVE  store'[k].by # r /\ {r, store'[k].by} \in met'
    <3>1. PICK c \in Shelf!Outputs : Shelf!Completing(r, c)' /\ Shelf!CompletionKey(r, c)' = k
      BY <2>1 DEF Shelf!Answering, Shelf!Outputs, Shelf!ParsedDocuments, Shelf!Documents
    <3>2. Shelf!ArtifactPhase(r, c) /\ Shelf!CompletionKey(r, c) = k BY <1>2, <1>4, <3>1
    <3>3. Shelf!Answering(r, k) BY <3>2 DEF Shelf!Answering, Shelf!Completing, Shelf!Working
    <3>4. Shelf!Key(r) = Shelf!Artifact(c) BY <1>1, <3>2, EntryIs DEF Shelf!ArtifactPhase
    <3>5. k # Shelf!Key(r) BY <3>2, <3>4, KeyIs, EntryIs
    <3>6. k \in Shelf!Stored /\ store'[k] = store[k] BY <3>5 DEF Grows
    <3> QED BY <1>1, <3>3, <3>6 DEF Shelf!RaceInv
  <2> QED BY <2>1 DEF Shelf!RaceInv
<1> QED BY <1>2, <1>5, <1>6, <1>7, <1>8 DEF Shelf!ShelfRunInv

-----------------------------------------------------------------------------
(* What a step of one run does to the others, and to what they share. *)

Others(r) == \A s \in Runs : s # r => at'[s] = at[s] /\ SameWork(s)
Acts(r) == r \in Runs /\ at[r] \in {"idle", "ready", "call", "write"}
\* Nothing is taken back.
Gathers ==
    /\ Grows /\ met \subseteq met' /\ profile' = profile
    /\ \A s \in Runs :
          /\ paid[s] \subseteq paid'[s]
          /\ \A i \in DOMAIN docs[s] : i \in DOMAIN docs'[s] /\ docs'[s][i] = docs[s][i]
          /\ question[s] \in Questions => question'[s] = question[s]

\* A file that is there stays as it was and as sound as it was.
LEMMA FileStays ==
    ASSUME Gathers, NEW k \in Shelf!Stored, Shelf!FileInv(k)
    PROVE  Shelf!FileInv(k)'
<1>1. store'[k] = store[k] /\ k \in Shelf!Stored' /\ Grows /\ profile' = profile BY DEF Gathers, Grows
<1>3. Shelf!Founded(k, store[k])'
  BY <1>1
     DEF Shelf!FileInv, Shelf!Founded, Shelf!HasSource, Shelf!Quotes, Grows, Shelf!ParsedOf,
         Shelf!Stored
<1>4. Shelf!FetchFile(k) /\ store[k].by \in Runs => Shelf!FetchFile(k)'
  BY <1>1 DEF Shelf!FetchFile, Gathers, Shelf!Documents, Shelf!PageRequests
<1>5. Shelf!SourceFile(k) => Shelf!SourceFile(k)'
  <2> SUFFICES ASSUME Shelf!SourceFile(k) PROVE Shelf!SourceFile(k)'
    OBVIOUS
  <2>1. Shelf!Published(store[k].doc)'
    BY <1>1 DEF Shelf!SourceFile, Shelf!Published, Grows, Shelf!FetchKey
  <2>2. PICK s \in Runs : /\ question[s] \in Questions /\ store[k].type = TypeOf[question[s]]
                          /\ \E i \in DOMAIN docs[s] : docs[s][i] = store[k].doc
    BY DEF Shelf!SourceFile
  <2>3. question'[s] = question[s] /\ \E i \in DOMAIN docs'[s] : docs'[s][i] = store[k].doc
    BY <2>2 DEF Gathers
  <2> QED
    BY <1>1, <2>1, <2>2, <2>3
       DEF Shelf!SourceFile, Shelf!Published, Shelf!FetchKey, Shelf!Documents, Shelf!PageRequests
<1>6. k[1] \in {"fetch", "parse"} => Shelf!Artifact(store[k].of) \in Shelf!Stored'
  BY DEF Shelf!FileInv, Gathers, Grows
<1> QED BY <1>1, <1>3, <1>4, <1>5, <1>6
    DEF Shelf!FileInv, Shelf!Outputs, Shelf!Documents, Shelf!ParsedDocuments, Shelf!PageRequests, Shelf!Artifact

\* What the store may refuse a run for.
Cause(r) ==
    \/ Shelf!Key(r)[1] = "fetch" /\ \E s \in Shelf!Company(r) : Shelf!Key(r)[2] \in paid[s]
    \/ Shelf!Key(r)[1] = "parse" /\ Shelf!Company(r) # {}
    \/ Shelf!Key(r)[1] = "source" /\ (Shelf!Alias \/ \E q, t \in Shelf!Asked : TypeOf[q] # TypeOf[t])

\* A cause to refuse stays one.
LEMMA CauseStays ==
    ASSUME Gathers, NEW r \in Runs, todo'[r] = todo[r], Cause(r)
    PROVE  Cause(r)'
<1>1. Shelf!Key(r)' = Shelf!Key(r) BY DEF Shelf!Key, Shelf!Job
<1>2. \A s \in Shelf!Company(r) : s \in Shelf!Company(r)' /\ s \in Runs BY DEF Shelf!Company, Gathers
<1>3. Shelf!Alias => Shelf!Alias'
  <2>1. \A d \in Shelf!Retrieved : d \in Shelf!Retrieved' BY DEF Shelf!Retrieved, Gathers
  <2> QED BY <2>1 DEF Shelf!Alias
<1>4. \A q \in Shelf!Asked : q \in Shelf!Asked' BY DEF Shelf!Asked, Gathers
<1>5. CASE Shelf!Key(r)[1] = "fetch" /\ \E s \in Shelf!Company(r) : Shelf!Key(r)[2] \in paid[s]
  BY <1>1, <1>2, <1>5 DEF Cause, Gathers
<1>6. CASE Shelf!Key(r)[1] = "parse" /\ Shelf!Company(r) # {}
  BY <1>1, <1>2, <1>6 DEF Cause
<1>7. CASE Shelf!Key(r)[1] = "source"
        /\ (Shelf!Alias \/ \E q, t \in Shelf!Asked : TypeOf[q] # TypeOf[t])
  BY <1>1, <1>3, <1>4, <1>7 DEF Cause
<1> QED BY <1>5, <1>6, <1>7 DEF Cause

\* What is left to show of a step of one run.
Step(r) ==
    /\ Acts(r) /\ Others(r) /\ Gathers
    /\ \A k \in Shelf!Stored' : k \notin Shelf!Stored => Shelf!FileInv(k)'
    /\ \A s \in Runs : s # r => NewFor(s)
    /\ \A s \in Runs : s # r /\ Shelf!Working(r)' /\ Shelf!Working(s) => {r, s} \in met'
    /\ \A s \in Runs : s # r /\ at'[r] = "write" /\ at[s] = "write" => Shelf!Key(r)' # Shelf!Key(s)
    /\ \A s \in Runs : s # r => \A u \in paid[s] :
          u \in paid'[r] /\ u \notin paid[r] => {r, s} \in met' \/ Shelf!Lost(s, u)
    /\ at'[r] = "refused" => Cause(r)'

\* A step of one run, with what it leaves the others, keeps the invariant.
LEMMA Assemble ==
    ASSUME Shelf!ShelfInv, NEW r \in Runs, Step(r), Shelf!ShelfTypeOK', Shelf!ShelfRunInv(r)'
    PROVE  Shelf!ShelfInv'
<1>1. /\ Acts(r) /\ Others(r) /\ Gathers /\ Grows /\ met \subseteq met'
      /\ \A s \in Runs : s # r => at'[s] = at[s] /\ SameWork(s)
  BY DEF Step, Others, Gathers
<1>2. \A k \in Shelf!Stored' : Shelf!FileInv(k)'
  <2> TAKE k \in Shelf!Stored'
  <2>1. CASE k \in Shelf!Stored
    BY <1>1, <2>1, FileStays DEF Shelf!ShelfInv
  <2> QED BY <2>1 DEF Step
<1>3. \A s \in Runs : Shelf!ShelfRunInv(s)'
  <2> TAKE s \in Runs
  <2>1. CASE s # r
    BY <1>1, <2>1, RunFrame DEF Shelf!ShelfInv, Step
  <2> QED BY <2>1
<1>4. Shelf!TogetherInv'
  <2>1. ASSUME NEW s \in Runs, NEW t \in Runs, s # t, Shelf!Working(s)', Shelf!Working(t)'
        PROVE {s, t} \in met'
    <3>1. CASE s # r /\ t # r
      BY <1>1, <2>1, <3>1 DEF Shelf!ShelfInv, Shelf!TogetherInv, Shelf!Working
    <3>2. ASSUME NEW o \in Runs, o # r, Shelf!Working(r)', Shelf!Working(o)'
          PROVE {r, o} \in met' /\ {o, r} \in met'
      <4>1. Shelf!Working(o) BY <1>1, <3>2 DEF Shelf!Working
      <4>2. {o, r} = {r, o} OBVIOUS
      <4> QED BY <3>2, <4>1, <4>2 DEF Step
    <3> QED BY <2>1, <3>1, <3>2
  <2>2. ASSUME NEW s \in Runs, NEW t \in Runs, s # t, at'[s] = "write", at'[t] = "write"
        PROVE  Shelf!Key(s)' # Shelf!Key(t)'
    <3>1. \A o \in Runs : o # r => Shelf!Key(o)' = Shelf!Key(o) /\ at'[o] = at[o]
      BY <1>1 DEF SameWork, Shelf!Key, Shelf!Job
    <3>2. CASE s # r /\ t # r
      BY <2>2, <3>1, <3>2 DEF Shelf!ShelfInv, Shelf!TogetherInv
    <3>3. CASE s = r
      BY <2>2, <3>1, <3>3 DEF Step
    <3>4. CASE t = r
      BY <2>2, <3>1, <3>4 DEF Step
    <3> QED BY <3>2, <3>3, <3>4
  <2> QED BY <2>1, <2>2 DEF Shelf!TogetherInv
<1>5. Shelf!FetchedAgainForCause'
  <2>1. \A s \in Runs : \A u : Shelf!Lost(s, u) => Shelf!Lost(s, u)'
    BY <1>1 DEF Shelf!Lost, Acts, SameWork, Shelf!FetchKey
  <2>2. ASSUME NEW s \in Runs, NEW t \in Runs, s # t, NEW u \in paid[s] \cap paid[t]
        PROVE  {s, t} \in met' \/ Shelf!Lost(s, u)' \/ Shelf!Lost(t, u)'
    BY <1>1, <2>1, <2>2 DEF Shelf!ShelfInv, Shelf!FetchedAgainForCause
  <2>3. ASSUME NEW s \in Runs, s # r, NEW u \in paid'[r], u \in paid'[s]
        PROVE  ({r, s} \in met' /\ {s, r} \in met') \/ Shelf!Lost(s, u)' \/ Shelf!Lost(r, u)'
    <3>1. u \in paid[s] /\ {s, r} = {r, s} BY <1>1, <2>3 DEF SameWork
    <3>2. CASE u \in paid[r] BY <2>2, <2>3, <3>1, <3>2
    <3>3. CASE u \notin paid[r]
      <4>1. {r, s} \in met' \/ Shelf!Lost(s, u) BY <2>3, <3>1, <3>3 DEF Step
      <4> QED BY <2>1, <3>1, <4>1
    <3> QED BY <3>2, <3>3
  <2>4. ASSUME NEW s \in Runs, NEW t \in Runs, s # t, NEW u, u \in paid'[s], u \in paid'[t]
        PROVE  {s, t} \in met' \/ Shelf!Lost(s, u)' \/ Shelf!Lost(t, u)'
    <3>1. CASE s = r BY <2>3, <2>4, <3>1
    <3>2. CASE t = r BY <2>3, <2>4, <3>2
    <3>3. CASE s # r /\ t # r
      <4>1. u \in paid[s] /\ u \in paid[t] BY <1>1, <2>4, <3>3 DEF SameWork
      <4> QED BY <2>2, <2>4, <4>1
    <3> QED BY <3>1, <3>2, <3>3
  <2>5. \A s, t \in Runs : s # t => \A u \in paid'[s] \cap paid'[t] :
            {s, t} \in met' \/ Shelf!Lost(s, u)' \/ Shelf!Lost(t, u)'
    BY <2>4
  <2> QED BY <2>5 DEF Shelf!FetchedAgainForCause, Shelf!Lost, Shelf!FetchKey
<1>6. Shelf!RefusedForCause'
  <2>1. ASSUME NEW s \in Runs, at'[s] = "refused" PROVE Cause(s)'
    <3>1. CASE s = r BY <2>1, <3>1 DEF Step
    <3>2. CASE s # r
      <4>1. at[s] = "refused" /\ todo'[s] = todo[s] BY <1>1, <2>1, <3>2 DEF SameWork
      <4>2. Cause(s) BY <4>1 DEF Shelf!ShelfInv, Shelf!RefusedForCause, Cause
      <4> QED BY <1>1, <4>1, <4>2, CauseStays
    <3> QED BY <3>1, <3>2
  <2> QED
    BY <2>1
       DEF Shelf!RefusedForCause, Cause, Shelf!Key, Shelf!Job, Shelf!Company, Shelf!Alias,
           Shelf!Retrieved, Shelf!Asked
<1> QED BY <1>2, <1>3, <1>4, <1>5, <1>6 DEF Shelf!ShelfInv

-----------------------------------------------------------------------------
(* Puts: what a run offers, what may be there already, and what is written. *)

\* The job of a run that files d, and what it has filed for it.
Filed(r, d) ==
    \/ Shelf!Job(r) = Shelf!PutSource(r, d)
    \/ Shelf!Job(r) = Shelf!PutParsed(d) /\ Shelf!OnDisk(Shelf!PutSource(r, d))
    \/ Shelf!Job(r) = Shelf!PutEvidence(r, d) /\ Shelf!OnDisk(Shelf!PutParsed(d))

\* A put is of an artifact, of the entry behind it, or of a file of a document.
LEMMA PairJob ==
    ASSUME NEW r, Todo(r), Shelf!PhaseInv(r), Len(Shelf!Job(r)) = 2, question[r] \in Questions
    PROVE  \/ \E c \in Shelf!Outputs : Shelf!ArtifactPhase(r, c) /\ Shelf!Job(r) = Shelf!PutArtifact(c)
           \/ \E c \in Shelf!Outputs : /\ Shelf!PublishPhase(r, c) /\ Shelf!Artifact(c) \in Shelf!Stored
                                  /\ Shelf!Job(r) = Shelf!Publish(r, Shelf!CompletionKey(r, c), c)
           \/ node[r] = "StoreEvidence" /\ \E i \in DOMAIN docs[r] : Filed(r, docs[r][i])
<1>1. Shelf!Job(r) = todo[r][1] /\ r \in Runs /\ docs[r] \in Seq(Shelf!Documents) BY FirstJob DEF Todo
<1>2. CASE Shelf!LookupPhase(r)
  <2>1. Len(Shelf!Job(r)) = 1 BY <1>2, LookupJob
  <2>2. Len(Shelf!Job(r)) = 2 OBVIOUS
  <2>3. FALSE BY <2>1, <2>2
  <2> QED BY <2>3
<1>3. ASSUME NEW c \in Shelf!Outputs, Shelf!ArtifactPhase(r, c)
      PROVE Shelf!Job(r) = Shelf!PutArtifact(c)
  BY <1>1, <1>3 DEF Shelf!ArtifactPhase
<1>4. ASSUME NEW c \in Shelf!Outputs, Shelf!PublishPhase(r, c)
      PROVE Shelf!Job(r) = Shelf!Publish(r, Shelf!CompletionKey(r, c), c)
  BY <1>1, <1>4 DEF Shelf!PublishPhase
<1>5. ASSUME NEW m \in 0..Len(Shelf!Filing(r)), Shelf!FilingPhase(r, m)
      PROVE  node[r] = "StoreEvidence" /\ \E i \in DOMAIN docs[r] : Filed(r, docs[r][i])
  <2>1. Len(Shelf!Filing(r)) \in Nat BY <1>1, FilingTyped
  <2>2. m + 1 \in 1..Len(Shelf!Filing(r)) /\ Shelf!Job(r) = Shelf!Filing(r)[m + 1]
    BY <1>5, <2>1, FilingJob
  <2> DEFINE n == m + 1
  <2>3. n \in 1..Len(Shelf!Filing(r)) /\ Shelf!Job(r) = Shelf!Filing(r)[n] /\ (n > 1 => n - 1 \in 1..m)
    BY <2>2
  <2> HIDE DEF n
  <2>4. PICK i \in DOMAIN docs[r] : Files(r, n, docs[r][i]) BY <1>1, <2>3, FilingFiles
  <2>5. n > 1 => Shelf!OnDisk(Shelf!Filing(r)[n - 1]) BY <1>5, <2>3 DEF Shelf!FilingPhase
  <2>6. Filed(r, docs[r][i]) BY <2>3, <2>4, <2>5 DEF Files, Filed
  <2> QED BY <1>5, <2>6 DEF Shelf!FilingPhase
<1> QED BY <1>2, <1>3, <1>4, <1>5 DEF Shelf!PhaseInv

\* What is left of a run's invariant, by name.
LEMMA RunFacts ==
    ASSUME Shelf!ShelfInv, NEW r \in Runs
    PROVE  /\ Shelf!ShelfRunInv(r) /\ Shelf!PhaseInv(r) /\ Shelf!DocsInv(r) /\ Shelf!StepInv(r)
           /\ Shelf!PaidInv(r) /\ Shelf!RaceInv(r)
           /\ todo[r] \in Seq(Shelf!Jobs) /\ docs[r] \in Seq(Shelf!Documents)
           /\ paid[r] \in SUBSET Shelf!PageRequests /\ profile[r] \in Profiles
           /\ todo[r] # <<>> => Todo(r)
           /\ at[r] # "idle" => question[r] \in Questions
BY DEF Shelf!ShelfInv, Shelf!ShelfRunInv, Shelf!ShelfTypeOK, Todo, Shelf!StepInv

\* A document that is filed, and a different source of its page.
LEMMA OtherSource ==
    ASSUME Shelf!ShelfInv, NEW r \in Runs, at[r] # "idle", node[r] = "StoreEvidence",
           NEW i \in DOMAIN docs[r],
           Shelf!Key(r) = Shelf!SourceKey(docs[r][i]), Shelf!Key(r) \in Shelf!Stored,
           store[Shelf!Key(r)] # Shelf!PutSource(r, docs[r][i])[2]
    PROVE  Cause(r)
<1> DEFINE d == docs[r][i]
           e == store[Shelf!Key(r)].doc
<1>1. Shelf!Key(r)[1] = "source" /\ Shelf!Key(r)[2] = d.page
  BY DEF Shelf!SourceKey
<1>2. Shelf!FileInv(Shelf!Key(r)) BY DEF Shelf!ShelfInv
<1>3. Shelf!SourceFile(Shelf!Key(r)) BY <1>1, <1>2 DEF Shelf!FileInv
<1>4. PICK s \in Runs : /\ question[s] \in Questions /\ store[Shelf!Key(r)].type = TypeOf[question[s]]
                        /\ \E j \in DOMAIN docs[s] : docs[s][j] = e
  BY <1>3 DEF Shelf!SourceFile
<1>5. e \in Shelf!Documents /\ e.page = d.page /\ Shelf!Published(e) BY <1>1, <1>3 DEF Shelf!SourceFile
<1>6. Shelf!Published(d)
  BY RunFacts DEF Shelf!DocsInv
<1>7. question[r] \in Shelf!Asked /\ question[s] \in Shelf!Asked BY <1>4, RunFacts DEF Shelf!Asked
<1>8. d \in Shelf!Retrieved /\ e \in Shelf!Retrieved BY <1>4 DEF Shelf!Retrieved
<1>9. store[Shelf!Key(r)] \in [doc : Shelf!Documents, type : Shelf!Types] BY <1>3 DEF Shelf!SourceFile
<1>10. CASE e # d
  <2>1. e.by[2] # d.by[2] BY <1>5, <1>6, <1>10 DEF Shelf!Published
  <2>2. Shelf!Alias BY <1>5, <1>8, <2>1 DEF Shelf!Alias
  <2> QED BY <1>1, <2>2 DEF Cause
<1>11. CASE e = d
  <2>1. store[Shelf!Key(r)].type # TypeOf[question[r]]
    <3>1. store[Shelf!Key(r)] = [doc |-> e, type |-> store[Shelf!Key(r)].type] BY <1>9
    <3> QED BY <1>11, <3>1 DEF Shelf!PutSource
  <2> QED BY <1>1, <1>4, <1>7, <2>1 DEF Cause
<1> QED BY <1>10, <1>11

\* What is at the place of a put is what is put, or there is a cause to refuse;
\* and what is put where nothing is rests on what is on disk.
LEMMA PutMeets ==
    ASSUME Shelf!ShelfInv, NEW r \in Runs, Shelf!Working(r), at[r] # "call", todo[r] # <<>>,
           Len(Shelf!Job(r)) = 2
    PROVE  /\ Shelf!Key(r) \in Shelf!Stored => store[Shelf!Key(r)] = Shelf!Job(r)[2] \/ Cause(r)
           /\ Shelf!Key(r) \notin Shelf!Stored => Shelf!Founded(Shelf!Key(r), Shelf!Job(r)[2])
<1>1. /\ Todo(r) /\ Shelf!PhaseInv(r) /\ question[r] \in Questions /\ Shelf!RaceInv(r) /\ at[r] # "idle"
      /\ Shelf!Key(r) = Shelf!Job(r)[1]
      /\ \A k \in Shelf!Stored : Shelf!FileInv(k)
  BY RunFacts DEF Shelf!ShelfInv, Shelf!Working, Shelf!Key
<1>2. ASSUME NEW c \in Shelf!Outputs, Shelf!ArtifactPhase(r, c), Shelf!Job(r) = Shelf!PutArtifact(c)
      PROVE  /\ Shelf!Key(r) \in Shelf!Stored => store[Shelf!Key(r)] = Shelf!Job(r)[2]
             /\ Shelf!Founded(Shelf!Key(r), Shelf!Job(r)[2])
  <2>1. Shelf!Key(r)[1] = "artifact" /\ Shelf!Key(r)[2] = c /\ Shelf!Job(r)[2] = c
    BY <1>1, <1>2, EntryIs
  <2> QED BY <1>1, <2>1 DEF Shelf!FileInv, Shelf!Founded
<1>3. ASSUME NEW c \in Shelf!Outputs, Shelf!PublishPhase(r, c),
             Shelf!Job(r) = Shelf!Publish(r, Shelf!CompletionKey(r, c), c)
      PROVE  /\ Shelf!Key(r) \in Shelf!Stored => Cause(r)
             /\ Shelf!Founded(Shelf!Key(r), Shelf!Job(r)[2])
  <2>1. Shelf!Key(r) = Shelf!CompletionKey(r, c) BY <1>1, <1>3, EntryIs
  <2>2. Shelf!Key(r)[1] \in {"fetch", "parse"} /\ Shelf!Key(r)[2][1] = profile[r]
    BY <1>3, <2>1, KeyIs DEF Shelf!PublishPhase, Shelf!ResultOf
  <2>3. ASSUME Shelf!Key(r) \in Shelf!Stored PROVE Cause(r)
    <3> DEFINE s == store[Shelf!Key(r)].by
    <3>1. Shelf!Answering(r, Shelf!Key(r)) BY <1>3, <2>1 DEF Shelf!Answering, Shelf!Completing
    <3>2. s # r /\ {r, s} \in met BY <1>1, <2>3, <3>1 DEF Shelf!RaceInv
    <3>3. /\ s \in Runs /\ profile[s] = profile[r]
          /\ Shelf!Key(r)[1] = "fetch" => Shelf!Key(r)[2] \in paid[s]
      BY <1>1, <2>2, <2>3 DEF Shelf!FileInv, Shelf!FetchFile
    <3>4. s \in Shelf!Company(r) BY <3>2, <3>3 DEF Shelf!Company
    <3> QED BY <2>2, <3>3, <3>4 DEF Cause
  <2> QED BY <2>2, <2>3 DEF Shelf!Founded
<1>4. ASSUME node[r] = "StoreEvidence", NEW i \in DOMAIN docs[r], Filed(r, docs[r][i])
      PROVE  /\ Shelf!Key(r) \in Shelf!Stored => store[Shelf!Key(r)] = Shelf!Job(r)[2] \/ Cause(r)
             /\ Shelf!Key(r) \notin Shelf!Stored => Shelf!Founded(Shelf!Key(r), Shelf!Job(r)[2])
  <2>0. PICK d : d = docs[r][i] OBVIOUS
  <2>1. CASE Shelf!Job(r) = Shelf!PutSource(r, d)
    <3>1. Shelf!Key(r) = Shelf!SourceKey(d) /\ Shelf!Key(r)[1] = "source"
      BY <1>1, <2>1 DEF Shelf!PutSource, Shelf!SourceKey
    <3>2. Shelf!Key(r) \in Shelf!Stored /\ store[Shelf!Key(r)] # Shelf!Job(r)[2] => Cause(r)
      BY <1>1, <1>4, <2>0, <2>1, <3>1, OtherSource
    <3> QED BY <3>1, <3>2 DEF Shelf!Founded
  <2>2. CASE Shelf!Job(r) = Shelf!PutParsed(d) /\ Shelf!OnDisk(Shelf!PutSource(r, d))
    <3>1. Shelf!Key(r)[1] = "parsed" /\ Shelf!Key(r)[2] = d.page /\ Shelf!Job(r)[2] = Shelf!ParsedOf(d)
      BY <1>1, <2>2 DEF Shelf!PutParsed, Shelf!ParsedKey
    <3>2. <<"source", d.page>> \in Shelf!Stored /\ store[<<"source", d.page>>].doc = d
      BY <2>2 DEF Shelf!OnDisk, Shelf!PutSource, Shelf!SourceKey
    <3>3. Shelf!Founded(Shelf!Key(r), Shelf!Job(r)[2])
      BY <3>1, <3>2 DEF Shelf!Founded, Shelf!HasSource
    <3>4. Shelf!Key(r) \in Shelf!Stored => store[Shelf!Key(r)] = Shelf!ParsedOf(d)
      <4> SUFFICES ASSUME Shelf!Key(r) \in Shelf!Stored PROVE store[Shelf!Key(r)] = Shelf!ParsedOf(d)
        OBVIOUS
      <4>1. Shelf!HasSource(Shelf!Key(r), store[Shelf!Key(r)])
        BY <1>1, <3>1 DEF Shelf!FileInv, Shelf!Founded
      <4> QED BY <3>1, <3>2, <4>1 DEF Shelf!HasSource
    <3> QED BY <3>1, <3>3, <3>4
  <2>3. CASE Shelf!Job(r) = Shelf!PutEvidence(r, d) /\ Shelf!OnDisk(Shelf!PutParsed(d))
    <3>1. /\ Shelf!Key(r)[1] = "evidence" /\ Shelf!Key(r)[2] = <<d.page, d.version, question[r]>>
          /\ Shelf!Job(r)[2] = Shelf!ParsedOf(d)
      BY <1>1, <2>3 DEF Shelf!PutEvidence, Shelf!EvidenceKey
    <3>2. <<"parsed", d.page>> \in Shelf!Stored /\ store[<<"parsed", d.page>>] = Shelf!ParsedOf(d)
      BY <2>3 DEF Shelf!OnDisk, Shelf!PutParsed, Shelf!ParsedKey
    <3>3. Shelf!Founded(Shelf!Key(r), Shelf!Job(r)[2])
      BY <3>1, <3>2 DEF Shelf!Founded, Shelf!Quotes, Shelf!ParsedOf
    <3>4. Shelf!Key(r) \in Shelf!Stored => store[Shelf!Key(r)] = Shelf!ParsedOf(d)
      BY <1>1, <3>1 DEF Shelf!FileInv, Shelf!ParsedOf
    <3> QED BY <3>1, <3>3, <3>4
  <2> QED BY <1>4, <2>0, <2>1, <2>2, <2>3 DEF Filed
<1> QED BY <1>1, <1>2, <1>3, <1>4, PairJob

-----------------------------------------------------------------------------
(* The steps of a run. *)

\* What a run may write does not depend on what it is at.
LEMMA Founds ==
    ASSUME NEW r \in Runs, todo'[r] = todo[r], store' = store,
           Shelf!Founded(Shelf!Key(r), Shelf!Job(r)[2])
    PROVE  Shelf!Founded(Shelf!Key(r), Shelf!Job(r)[2])'
BY DEF Shelf!Founded, Shelf!HasSource, Shelf!Quotes, Shelf!Key, Shelf!Job, Shelf!Stored, Shelf!ParsedOf

PaidAt(r, l) ==
    \A u \in paid[r] :
        \/ Shelf!FetchKey(u) \in Shelf!Stored
        \/ l = "dead" /\ todo[r] # <<>> /\ Shelf!Key(r) = Shelf!FetchKey(u)
        \/ l # "refused" /\ Shelf!Pending(r, u)
MayWrite(r) ==
    /\ todo[r] # <<>> /\ Len(Shelf!Job(r)) = 2 /\ Shelf!Key(r) \notin Shelf!Stored
    /\ Shelf!Founded(Shelf!Key(r), Shelf!Job(r)[2])
    /\ \A s \in Runs : s # r /\ at[s] = "write" => Shelf!Key(s) # Shelf!Key(r)

\* A step that changes nothing but what the run is at.
LEMMA AtStep ==
    ASSUME Shelf!ShelfInv, NEW r \in Runs, Shelf!Working(r), NEW l, at' = [at EXCEPT ![r] = l],
           l \in {"write", "refused", "failed", "dead"},
           UNCHANGED <<store, node, todo, docs, question, profile, paid, met>>,
           writeFaults' \in Nat, deaths' \in Nat,
           l = "write" => MayWrite(r),
           l = "refused" => Cause(r),
           PaidAt(r, l)
    PROVE  Shelf!ShelfInv'
<1>1. at \in [Runs -> {"idle", "ready", "call", "write", "done", "refused", "failed", "dead"}]
  BY DEF Shelf!ShelfInv, Shelf!ShelfTypeOK
<1>2. at'[r] = l /\ \A s \in Runs : s # r => at'[s] = at[s]
  BY <1>1
<1>3. /\ SameWork(r) /\ Grows /\ Gathers /\ Others(r) /\ Acts(r)
  BY <1>2 DEF SameWork, Grows, Gathers, Others, Acts, Shelf!Working, Shelf!Stored
<1>4. Shelf!ShelfTypeOK'
  BY <1>1 DEF Shelf!ShelfInv, Shelf!ShelfTypeOK, Shelf!Stored
<1>5. Shelf!ShelfRunInv(r) /\ Shelf!PhaseInv(r) /\ Shelf!DocsInv(r) /\ Shelf!StepInv(r)
        /\ Shelf!PaidInv(r) /\ Shelf!RaceInv(r)
  BY RunFacts
<1>6. /\ \A c : Shelf!Completing(r, c)' => Shelf!Completing(r, c)
      /\ \A u : Shelf!Pending(r, u) => Shelf!Pending(r, u)'
      /\ \A u : Shelf!Pending(r, u)' => Shelf!Pending(r, u)
      /\ \A c : Shelf!CompletionKey(r, c)' = Shelf!CompletionKey(r, c)
      /\ Shelf!Key(r)' = Shelf!Key(r) /\ Shelf!Job(r)' = Shelf!Job(r)
  BY PhasesSame DEF Shelf!Key, Shelf!Job
<1>7. Shelf!PhaseInv(r)' /\ Shelf!DocsInv(r)'
  BY <1>3, <1>5, PhaseFrame, DocsFrame
<1>8. Shelf!StepInv(r)'
  <2>1. question[r] \in Questions BY <1>5 DEF Shelf!StepInv, Shelf!Working
  <2>2. l = "write" => Shelf!Founded(Shelf!Key(r), Shelf!Job(r)[2])' BY Founds DEF MayWrite
  <2> QED BY <1>2, <1>6, <2>1, <2>2 DEF Shelf!StepInv, Shelf!Stored, MayWrite
<1>9. Shelf!PaidInv(r)'
  <2>1. \A u \in paid[r] :
              \/ Shelf!FetchKey(u) \in Shelf!Stored'
              \/ l = "dead" /\ todo[r] # <<>> /\ Shelf!Key(r)' = Shelf!FetchKey(u)
              \/ l # "refused" /\ Shelf!Pending(r, u)'
    BY <1>6 DEF Shelf!Stored, PaidAt
  <2>2. \A u \in Shelf!PageRequests : Shelf!Pending(r, u)' => u \in paid[r]
    BY <1>5, <1>6 DEF Shelf!PaidInv
  <2> QED BY <1>2, <2>1, <2>2 DEF Shelf!PaidInv, Shelf!FetchKey, Shelf!PageRequests
<1>10. Shelf!RaceInv(r)'
  <2>1. ASSUME NEW k \in Shelf!Stored, Shelf!Answering(r, k)' PROVE Shelf!Answering(r, k)
    <3>1. \E c \in Shelf!Outputs : Shelf!Completing(r, c)' /\ Shelf!CompletionKey(r, c)' = k
      BY <1>2, <2>1
         DEF Shelf!Answering, Shelf!Outputs, Shelf!Documents, Shelf!ParsedDocuments, Shelf!PageRequests
    <3> QED BY <1>6, <3>1 DEF Shelf!Answering
  <2> QED BY <1>5, <2>1 DEF Shelf!RaceInv, Shelf!Stored
<1>11. Step(r)
  <2>1. \A s \in Runs : s # r => NewFor(s) BY DEF NewFor, Shelf!Stored
  <2>2. \A k \in Shelf!Stored' : k \in Shelf!Stored BY DEF Shelf!Stored
  <2>3. \A s \in Runs : s # r /\ Shelf!Working(s) => {r, s} \in met'
    BY DEF Shelf!ShelfInv, Shelf!TogetherInv
  <2>4. l = "refused" => Cause(r)' BY <1>3, CauseStays
  <2>5. \A s \in Runs : s # r /\ at'[r] = "write" /\ at[s] = "write" => Shelf!Key(r)' # Shelf!Key(s)
    BY <1>2, <1>6 DEF MayWrite
  <2> QED BY <1>2, <1>3, <2>1, <2>2, <2>3, <2>4, <2>5 DEF Step
<1> QED BY <1>4, <1>5, <1>7, <1>8, <1>9, <1>10, <1>11, Assemble DEF Shelf!ShelfRunInv

\* A lock timeout, a failed write and a death end a run where it is.
LEMMA EndStep ==
    ASSUME Shelf!ShelfInv, NEW r \in Runs, profile' = profile,
           Shelf!LockTimeout(r) \/ Shelf!WriteFails(r) \/ Shelf!Die(r)
    PROVE  Shelf!ShelfInv'
<1>1. /\ writeFaults \in Nat /\ deaths \in Nat /\ Shelf!PaidInv(r)
  BY RunFacts DEF Shelf!ShelfInv, Shelf!ShelfTypeOK
<1>2. /\ Shelf!Working(r) /\ UNCHANGED <<store, node, todo, docs, question, profile, paid, met>>
      /\ writeFaults' \in Nat /\ deaths' \in Nat
  BY <1>1
     DEF Shelf!LockTimeout, Shelf!WriteFails, Shelf!Die, Shelf!Working, Shelf!Putting, Shelf!work,
         Shelf!limits
<1>3. CASE Shelf!LockTimeout(r) \/ Shelf!WriteFails(r)
  <2>1. at' = [at EXCEPT ![r] = "failed"] /\ at[r] \in {"ready", "write"}
    BY <1>3 DEF Shelf!LockTimeout, Shelf!WriteFails, Shelf!Goto, Shelf!Putting
  <2>2. PaidAt(r, "failed") BY <1>1, <2>1 DEF Shelf!PaidInv, PaidAt
  <2> QED BY <1>2, <2>1, <2>2, AtStep
<1>4. CASE Shelf!Die(r)
  <2>1. at' = [at EXCEPT ![r] = "dead"] BY <1>4 DEF Shelf!Die, Shelf!Goto
  <2>2. PaidAt(r, "dead") BY <1>1, <1>2 DEF Shelf!PaidInv, PaidAt
  <2> QED BY <1>2, <2>1, <2>2, AtStep
<1> QED BY <1>3, <1>4

\* A put: kept, refused or written.
LEMMA PutStep ==
    ASSUME Shelf!ShelfInv, NEW r \in Runs, Shelf!Put(r), profile' = profile
    PROVE  Shelf!ShelfInv'
<1>1. /\ Shelf!Working(r) /\ at[r] = "ready" /\ todo[r] # <<>> /\ Len(Shelf!Job(r)) = 2
      /\ UNCHANGED <<store, node, docs, question, profile, paid, met, writeFaults, deaths>>
      /\ ~Shelf!Locked(Shelf!Key(r))
  BY DEF Shelf!Put, Shelf!Offer, Shelf!Putting, Shelf!Working, Shelf!limits
<1>2. /\ Shelf!ShelfRunInv(r) /\ Shelf!PaidInv(r) /\ Shelf!PhaseInv(r) /\ Todo(r)
      /\ question[r] \in Questions
      /\ writeFaults \in Nat /\ deaths \in Nat /\ todo[r] \in Seq(Shelf!Jobs)
  BY <1>1, RunFacts DEF Shelf!ShelfInv, Shelf!ShelfTypeOK
<1>3. /\ Shelf!Key(r) \in Shelf!Stored => store[Shelf!Key(r)] = Shelf!Job(r)[2] \/ Cause(r)
      /\ Shelf!Key(r) \notin Shelf!Stored => Shelf!Founded(Shelf!Key(r), Shelf!Job(r)[2])
  BY <1>1, PutMeets
<1>4. CASE Shelf!Key(r) \in Shelf!Stored /\ store[Shelf!Key(r)] = Shelf!Job(r)[2]
  <2>1. /\ todo' = [todo EXCEPT ![r] = Tail(todo[r])] /\ at' = at
    BY <1>4 DEF Shelf!Put, Shelf!Offer
  <2>2. todo'[r] = Tail(todo[r]) /\ \A s \in Runs : s # r => todo'[s] = todo[s]
    BY <2>1 DEF Shelf!ShelfInv, Shelf!ShelfTypeOK
  <2>3. Shelf!ShelfTypeOK'
    <3>1. Tail(todo[r]) \in Seq(Shelf!Jobs) BY <1>2, FirstJob
    <3>2. todo' \in [Runs -> Seq(Shelf!Jobs)] BY <2>1, <3>1 DEF Shelf!ShelfInv, Shelf!ShelfTypeOK
    <3> QED BY <1>1, <2>1, <3>2 DEF Shelf!ShelfInv, Shelf!ShelfTypeOK, Shelf!Stored
  <2>4. DidJob(r) /\ Grows /\ Done(r) /\ met \subseteq met' /\ Shelf!Stored' = Shelf!Stored
    BY <1>1, <1>2, <1>4, <2>2 DEF DidJob, Grows, Done, Shelf!Stored
  <2>5. Shelf!ShelfRunInv(r)'
    BY <1>1, <1>2, <2>1, <2>4, PutDone
  <2>6. Step(r)
    <3>1. Acts(r) /\ Others(r) /\ Gathers
      BY <1>1, <2>1, <2>2, <2>4 DEF Acts, Others, SameWork, Gathers
    <3>2. \A s \in Runs : s # r => NewFor(s) BY <2>4 DEF NewFor
    <3>3. \A s \in Runs : s # r /\ Shelf!Working(s) => {r, s} \in met'
      BY <1>1 DEF Shelf!ShelfInv, Shelf!TogetherInv
    <3> QED BY <1>1, <2>1, <2>4, <3>1, <3>2, <3>3 DEF Step
  <2> QED BY <2>3, <2>5, <2>6, Assemble
<1>5. CASE Shelf!Key(r) \in Shelf!Stored /\ store[Shelf!Key(r)] # Shelf!Job(r)[2]
  <2>1. at' = [at EXCEPT ![r] = "refused"] /\ todo' = todo
    BY <1>5 DEF Shelf!Put, Shelf!Offer, Shelf!Goto
  <2>2. Cause(r) BY <1>3, <1>5
  <2>3. ASSUME NEW u \in paid[r], Shelf!Pending(r, u) PROVE Shelf!FetchKey(u) \in Shelf!Stored
    <3>1. PICK c \in Shelf!Documents : Shelf!Completing(r, c) /\ c.by[2] = u /\ node[r] = "Fetch"
      BY <2>3 DEF Shelf!Pending
    <3>2. Shelf!Job(r) = todo[r][1] /\ Shelf!Key(r) = todo[r][1][1] BY <1>2, FirstJob DEF Shelf!Key
    <3>3. CASE Shelf!ArtifactPhase(r, c)
      <4>1. Shelf!Key(r)[1] = "artifact" /\ Shelf!Key(r)[2] = c /\ Shelf!Job(r)[2] = c
        BY <3>2, <3>3, EntryIs DEF Shelf!ArtifactPhase
      <4>2. store[Shelf!Key(r)] = c BY <1>5, <4>1 DEF Shelf!ShelfInv, Shelf!FileInv
      <4> QED BY <1>5, <4>1, <4>2
    <3>4. CASE Shelf!PublishPhase(r, c)
      <4>1. Shelf!Key(r) = Shelf!CompletionKey(r, c) BY <3>2, <3>4, EntryIs DEF Shelf!PublishPhase
      <4> QED BY <1>5, <3>1, <4>1, KeyIs
    <3> QED BY <3>1, <3>3, <3>4 DEF Shelf!Completing
  <2>4. \A u \in paid[r] : Shelf!FetchKey(u) \in Shelf!Stored
    BY <1>1, <1>2, <2>3 DEF Shelf!PaidInv
  <2>5. PaidAt(r, "refused") BY <2>4 DEF PaidAt
  <2> QED BY <1>1, <1>2, <2>1, <2>2, <2>5, AtStep
<1>6. CASE Shelf!Key(r) \notin Shelf!Stored
  <2>1. at' = [at EXCEPT ![r] = "write"] /\ todo' = todo
    BY <1>3, <1>6 DEF Shelf!Put, Shelf!Offer, Shelf!Goto
  <2>2. \A s \in Runs : s # r /\ at[s] = "write" => Shelf!Key(s) # Shelf!Key(r) BY <1>1 DEF Shelf!Locked
  <2>3. PaidAt(r, "write") BY <1>1, <1>2 DEF Shelf!PaidInv, PaidAt
  <2>4. MayWrite(r) BY <1>1, <1>3, <1>6, <2>2 DEF MayWrite
  <2> QED BY <1>1, <1>2, <2>1, <2>3, <2>4, AtStep
<1> QED BY <1>3, <1>4, <1>5, <1>6

\* A file that gets its name.
LEMMA NewFile ==
    ASSUME Shelf!ShelfInv, NEW r \in Runs, at[r] = "write", Shelf!Replace(r), Gathers, Grows,
           NEW k, k = Shelf!Key(r), store'[k] = Shelf!Job(r)[2], k \in Shelf!Stored'
    PROVE  /\ Shelf!FileInv(k)'
           /\ k[1] \in {"fetch", "parse"} => store'[k].by = r
<1>1. /\ Todo(r) /\ Shelf!PhaseInv(r) /\ question[r] \in Questions /\ Shelf!DocsInv(r)
      /\ Shelf!PaidInv(r)
      /\ Len(Shelf!Job(r)) = 2 /\ Shelf!Founded(k, Shelf!Job(r)[2]) /\ k = Shelf!Job(r)[1]
      /\ docs' = docs /\ paid' = paid /\ question' = question /\ profile' = profile
  BY RunFacts DEF Shelf!StepInv, Shelf!Replace, Shelf!Key, Gathers
<1>3. Shelf!Founded(k, store[k])'
  BY <1>1 DEF Shelf!Founded, Shelf!HasSource, Shelf!Quotes, Grows, Shelf!ParsedOf
<1>4. ASSUME NEW c \in Shelf!Outputs, Shelf!Job(r) = Shelf!PutArtifact(c)
      PROVE Shelf!FileInv(k)' /\ k[1] = "artifact"
  <2>1. k[1] = "artifact" /\ k[2] = c /\ store'[k] = c BY <1>1, <1>4, EntryIs
  <2> QED BY <1>3, <2>1 DEF Shelf!FileInv
<1>5. ASSUME NEW c \in Shelf!Outputs, Shelf!PublishPhase(r, c), Shelf!Artifact(c) \in Shelf!Stored,
             Shelf!Job(r) = Shelf!Publish(r, Shelf!CompletionKey(r, c), c)
      PROVE  Shelf!FileInv(k)' /\ store'[k].by = r
  <2>1. k = Shelf!CompletionKey(r, c) /\ store'[k] = Shelf!Entry(r, c) /\ store'[k].of = c
          /\ store'[k].by = r
    BY <1>1, <1>5, EntryIs
  <2>2. store'[k] \in [of : Shelf!Outputs, by : Runs] BY <2>1 DEF Shelf!Entry
  <2>3. Shelf!Artifact(c) \in Shelf!Stored' BY <1>5 DEF Grows
  <2>4. CASE node[r] = "Fetch"
    <3>1. c \in Shelf!Documents /\ c.by[1] = r /\ c.by[2][1] = profile[r]
      BY <1>5, <2>4 DEF Shelf!PublishPhase, Shelf!ResultOf
    <3>2. k[1] = "fetch" /\ k[2] = c.by[2] BY <2>1, <2>4, KeyIs
    <3>3. c.by = <<r, k[2]>> /\ c.by[2] \in Shelf!PageRequests BY <3>1, <3>2 DEF Shelf!Documents
    <3>4. Shelf!Pending(r, c.by[2]) BY <1>5, <2>4, <3>1 DEF Shelf!Pending, Shelf!Completing
    <3>5. k[2] \in paid'[r] BY <1>1, <3>2, <3>3, <3>4 DEF Shelf!PaidInv
    <3>6. Shelf!FetchFile(k)' BY <2>1, <3>1, <3>3, <3>5 DEF Shelf!FetchFile, Shelf!Documents, Shelf!PageRequests
    <3>7. Shelf!Artifact(store'[k].of) \in Shelf!Stored' BY <2>1, <2>3
    <3>8. k[2][1] = profile'[store'[k].by] BY <1>1, <2>1, <3>1, <3>2
    <3> QED BY <1>3, <2>1, <2>2, <3>2, <3>6, <3>7, <3>8
          DEF Shelf!FileInv, Shelf!Outputs, Shelf!Documents, Shelf!ParsedDocuments, Shelf!PageRequests,
              Shelf!Artifact
  <2>5. CASE node[r] # "Fetch"
    <3>1. c \in Shelf!ParsedDocuments BY <1>5, <2>5 DEF Shelf!PublishPhase, Shelf!ResultOf
    <3>2. k[1] = "parse" /\ k[2] = <<profile[r], c.page, c.version>> BY <2>1, <2>5, KeyIs
    <3>3. Shelf!Artifact(store'[k].of) \in Shelf!Stored' BY <2>1, <2>3
    <3>4. k[2][1] = profile'[store'[k].by] BY <1>1, <2>1, <3>2
    <3> QED BY <1>3, <2>1, <2>2, <3>2, <3>3, <3>4
          DEF Shelf!FileInv, Shelf!Outputs, Shelf!Documents, Shelf!ParsedDocuments, Shelf!PageRequests,
              Shelf!Artifact
  <2> QED BY <2>1, <2>4, <2>5
<1>6. ASSUME node[r] = "StoreEvidence", NEW i \in DOMAIN docs[r], Filed(r, docs[r][i])
      PROVE  Shelf!FileInv(k)' /\ k[1] \notin {"fetch", "parse"}
  <2>1. PICK d : d = docs[r][i] OBVIOUS
  <2>2. d \in Shelf!Documents BY <1>1, <2>1 DEF Todo
  <2>3. CASE Shelf!Job(r) = Shelf!PutSource(r, d)
    <3>1. /\ k[1] = "source" /\ k[2] = d.page /\ store'[k].doc = d
          /\ store'[k] = [doc |-> d, type |-> TypeOf[question[r]]]
      BY <1>1, <2>3 DEF Shelf!PutSource, Shelf!SourceKey
    <3>2. store'[k] \in [doc : Shelf!Documents, type : Shelf!Types] BY <1>1, <2>2, <3>1 DEF Shelf!Types
    <3>3. Shelf!Published(d)' BY <1>6, <1>1, <2>1, PublishedStays DEF Shelf!DocsInv
    <3>4. /\ question'[r] \in Questions /\ store'[k].type = TypeOf[question'[r]]
          /\ \E j \in DOMAIN docs'[r] : docs'[r][j] = store'[k].doc
      BY <1>1, <2>1, <3>1
    <3>5. Shelf!SourceFile(k)'
      BY <3>1, <3>2, <3>3, <3>4
         DEF Shelf!SourceFile, Shelf!Published, Shelf!FetchKey, Shelf!Documents, Shelf!Types, Shelf!PageRequests
    <3> QED BY <1>3, <3>1, <3>5 DEF Shelf!FileInv
  <2>4. CASE Shelf!Job(r) = Shelf!PutParsed(d)
    <3>1. k[1] = "parsed" BY <1>1, <2>4 DEF Shelf!PutParsed, Shelf!ParsedKey
    <3> QED BY <1>3, <3>1 DEF Shelf!FileInv
  <2>5. CASE Shelf!Job(r) = Shelf!PutEvidence(r, d)
    <3>1. k[1] = "evidence" /\ k[2] = <<d.page, d.version, question[r]>>
            /\ store'[k] = Shelf!ParsedOf(d)
      BY <1>1, <2>5 DEF Shelf!PutEvidence, Shelf!EvidenceKey
    <3>2. store'[k] = [page |-> k[2][1], version |-> k[2][2]] BY <3>1 DEF Shelf!ParsedOf
    <3> QED BY <1>3, <3>1, <3>2 DEF Shelf!FileInv
  <2> QED BY <1>6, <2>1, <2>3, <2>4, <2>5 DEF Filed
<1> QED BY <1>1, <1>4, <1>5, <1>6, PairJob

\* A job with a value is a key of the stores and one of their values.
LEMMA PairTyped ==
    ASSUME NEW job \in Shelf!Jobs, Len(job) = 2
    PROVE  job[1] \in Shelf!Keys /\ job[2] \in Shelf!Values
<1>1. \A a : Len(<<a>>) = 1 OBVIOUS
<1>2. job \notin Shelf!Lookups("Fetch") /\ job \notin Shelf!Lookups("ParseAndNormalize")
  BY JobLengths
<1> QED BY <1>2 DEF Shelf!Jobs

\* The file gets its name.
LEMMA ReplaceStep ==
    ASSUME Shelf!ShelfInv, NEW r \in Runs, Shelf!Replace(r), profile' = profile
    PROVE  Shelf!ShelfInv'
<1>1. /\ at[r] = "write" /\ at' = [at EXCEPT ![r] = "ready"]
      /\ todo' = [todo EXCEPT ![r] = Tail(todo[r])]
      /\ store' = [k \in Shelf!Stored \cup {Shelf!Key(r)} |->
                     IF k = Shelf!Key(r) THEN Shelf!Job(r)[2] ELSE store[k]]
      /\ UNCHANGED <<node, docs, question, profile, paid, met, writeFaults, deaths>>
  BY DEF Shelf!Replace, Shelf!Goto, Shelf!limits
<1>2. /\ Shelf!ShelfRunInv(r) /\ Shelf!PhaseInv(r) /\ Todo(r) /\ question[r] \in Questions
      /\ todo[r] \in Seq(Shelf!Jobs) /\ Len(Shelf!Job(r)) = 2 /\ Shelf!Key(r) \notin Shelf!Stored
  BY <1>1, RunFacts DEF Shelf!StepInv
<1>3. Shelf!Job(r) = todo[r][1] /\ Shelf!Key(r) = Shelf!Job(r)[1]
        /\ Tail(todo[r]) \in Seq(Shelf!Jobs) /\ 1 \in 1..Len(todo[r])
  BY <1>2, FirstJob DEF Shelf!Key
<1>4. Shelf!Stored' = Shelf!Stored \cup {Shelf!Key(r)} /\ Grows /\ Done(r)
        /\ store'[Shelf!Key(r)] = Shelf!Job(r)[2]
  BY <1>1, <1>2 DEF Shelf!Stored, Grows, Done
<1>5. /\ at'[r] = "ready" /\ todo'[r] = Tail(todo[r])
      /\ \A s \in Runs : s # r => todo'[s] = todo[s] /\ at'[s] = at[s]
  BY <1>1 DEF Shelf!ShelfInv, Shelf!ShelfTypeOK
<1>6. Shelf!ShelfTypeOK'
  <2>1. Shelf!Key(r) \in Shelf!Keys /\ Shelf!Job(r)[2] \in Shelf!Values
    <3>1. Shelf!Job(r) \in Shelf!Jobs BY <1>2, <1>3
    <3> QED BY <1>2, <1>3, <3>1, PairTyped
  <2>2. Shelf!Stored' \subseteq Shelf!Keys BY <1>4, <2>1 DEF Shelf!ShelfInv, Shelf!ShelfTypeOK
  <2>3. store' \in [Shelf!Stored' -> Shelf!Values]
    BY <1>1, <1>4, <2>1 DEF Shelf!ShelfInv, Shelf!ShelfTypeOK
  <2>4. todo' \in [Runs -> Seq(Shelf!Jobs)] BY <1>1, <1>3 DEF Shelf!ShelfInv, Shelf!ShelfTypeOK
  <2> QED BY <1>1, <2>2, <2>3, <2>4 DEF Shelf!ShelfInv, Shelf!ShelfTypeOK
<1>7. DidJob(r) /\ met \subseteq met' BY <1>1, <1>2, <1>5 DEF DidJob
<1>8. Shelf!ShelfRunInv(r)' BY <1>1, <1>2, <1>4, <1>5, <1>7, PutDone
<1>9. Acts(r) /\ Others(r) /\ Gathers
  BY <1>1, <1>4, <1>5 DEF Acts, Others, SameWork, Gathers
<1>10. PICK k : k = Shelf!Key(r) OBVIOUS
<1>11. /\ Shelf!FileInv(k)'
       /\ k[1] \in {"fetch", "parse"} => store'[k].by = r
  BY <1>1, <1>4, <1>9, <1>10, NewFile
<1>12. \A s \in Runs : s # r /\ Shelf!Working(s) => {r, s} \in met' /\ {s, r} \in met'
  BY <1>1 DEF Shelf!ShelfInv, Shelf!TogetherInv, Shelf!Working
<1>13. ASSUME NEW s \in Runs, s # r PROVE NewFor(s)
  <2>1. at[s] = "write" => k # Shelf!Key(s)
    BY <1>1, <1>10, <1>13 DEF Shelf!ShelfInv, Shelf!TogetherInv
  <2>2. Shelf!Answering(s, k) => store'[k].by # s /\ {s, store'[k].by} \in met'
    <3> SUFFICES ASSUME Shelf!Answering(s, k) PROVE store'[k].by # s /\ {s, store'[k].by} \in met'
      OBVIOUS
    <3>1. Shelf!Working(s) BY DEF Shelf!Answering
    <3>2. k[1] \in {"fetch", "parse"}
      <4>1. CASE at[s] = "call" /\ Shelf!Key(s) = k
        <5>1. Todo(s) /\ Shelf!LookupPhase(s) BY <4>1, RunFacts DEF Shelf!StepInv
        <5>2. Shelf!Job(s) \in Shelf!Lookups(node[s]) BY <5>1, LookupJob
        <5> QED BY <4>1, <5>2 DEF Shelf!Lookups, Shelf!Key
      <4>2. CASE \E c \in Shelf!Outputs : Shelf!Completing(s, c) /\ Shelf!CompletionKey(s, c) = k
        BY <4>2, KeyIs
      <4> QED BY <4>1, <4>2 DEF Shelf!Answering
    <3> QED BY <1>11, <1>12, <1>13, <3>1, <3>2
  <2> QED BY <1>4, <1>10, <2>1, <2>2 DEF NewFor
<1>14. Step(r)
  BY <1>1, <1>4, <1>5, <1>9, <1>10, <1>11, <1>12, <1>13 DEF Step
<1> QED BY <1>6, <1>8, <1>14, Assemble

\* Behind lookups alone, no result is in hand; behind a result, no other one.
LEMMA NextPhase ==
    ASSUME NEW r, Len(todo'[r]) \in Nat, Shelf!LookupPhase(r)'
    PROVE  \A c : ~Shelf!Completing(r, c)'
<1> SUFFICES ASSUME NEW c, Shelf!Completing(r, c)' PROVE FALSE
  OBVIOUS
<1>1. Len(todo'[r]) > 0 /\ Len(todo'[r][1]) = 2
  <2>1. \A a, b : Len(<<a, b>>) = 2 OBVIOUS
  <2>2. \E a, b : Len(todo'[r]) > 0 /\ todo'[r][1] = <<a, b>>
    BY DEF Shelf!Completing, Shelf!ArtifactPhase, Shelf!PublishPhase, Shelf!Publish, Shelf!PutArtifact
  <2> QED BY <2>1, <2>2
<1>2. 1 \in 1..Len(todo'[r]) /\ 1 > 0 BY <1>1
<1>3. todo'[r][1] \in Shelf!Lookups(node'[r])
  BY <1>2 DEF Shelf!LookupPhase, Shelf!OnlyLookups, Shelf!Own, Shelf!Lookups
<1>4. Len(todo'[r][1]) = 1 BY <1>3, JobLengths
<1>5. Len(todo'[r][1]) = 2 BY <1>1
<1> QED BY <1>4, <1>5

\* A run that has only keys to look up.
LEMMA LookupRun ==
    ASSUME NEW r \in Runs, Len(todo'[r]) \in Nat, Shelf!LookupPhase(r)', at'[r] \in {"ready", "call"},
           question'[r] \in Questions,
           at'[r] = "call" =>
              /\ todo'[r] # <<>> /\ Shelf!Key(r)' \notin Shelf!Stored'
              /\ node'[r] = "Fetch" => Shelf!Key(r)'[2] \in paid'[r],
           \A i \in DOMAIN docs'[r] : Shelf!Published(docs[r][i])',
           \A u \in paid'[r] : \/ Shelf!FetchKey(u) \in Shelf!Stored'
                               \/ at'[r] = "call" /\ Shelf!Key(r)' = Shelf!FetchKey(u)
    PROVE  Shelf!ShelfRunInv(r)'
<1>1. \A c : ~Shelf!Completing(r, c)' BY NextPhase
<1>2. Shelf!PhaseInv(r)' BY DEF Shelf!PhaseInv
<1>3. Shelf!DocsInv(r)' BY DEF Shelf!DocsInv
<1>4. Shelf!StepInv(r)' BY DEF Shelf!StepInv
<1>5. Shelf!PaidInv(r)'
  <2>1. \A u : ~Shelf!Pending(r, u)' BY <1>1 DEF Shelf!Pending, Shelf!Documents, Shelf!PageRequests
  <2> QED BY <2>1 DEF Shelf!PaidInv, Shelf!FetchKey
<1>6. Shelf!RaceInv(r)'
  BY <1>1 DEF Shelf!RaceInv, Shelf!Answering
<1> QED BY <1>2, <1>3, <1>4, <1>5, <1>6 DEF Shelf!ShelfRunInv

\* A run at its lookups: its job, and that its documents and payments are in
\* the cache.
LEMMA LookupFacts ==
    ASSUME Shelf!ShelfInv, NEW r \in Runs, at[r] \in {"ready", "call"}, todo[r] # <<>>,
           Len(Shelf!Job(r)) = 1
    PROVE  /\ Shelf!LookupPhase(r) /\ Todo(r) /\ question[r] \in Questions
           /\ node[r] = "Fetch" => Shelf!Key(r)[1] = "fetch" /\ Shelf!Key(r)[2] \in Shelf!PageRequests
                /\ Shelf!Key(r) = Shelf!FetchKey(Shelf!Key(r)[2])
           /\ node[r] # "Fetch" => Shelf!Key(r)[1] = "parse"
                /\ Shelf!Key(r) \in {"parse"} \X (Profiles \X Pages \X Versions)
           /\ Shelf!Key(r)[2][1] = profile[r]
           /\ \A c : ~Shelf!Completing(r, c)
           /\ \A i \in DOMAIN docs[r] : Shelf!Published(docs[r][i])
           /\ \A u \in paid[r] : \/ Shelf!FetchKey(u) \in Shelf!Stored
                                 \/ at[r] = "call" /\ Shelf!Key(r) = Shelf!FetchKey(u)
<1>1. /\ Todo(r) /\ question[r] \in Questions /\ Shelf!PhaseInv(r) /\ Shelf!DocsInv(r)
      /\ Shelf!PaidInv(r)
  BY RunFacts
<1>2. Shelf!LookupPhase(r) /\ Shelf!Own(r, Shelf!Job(r)) /\ Shelf!Job(r) \in Shelf!Lookups(node[r])
  BY <1>1, SingleJob, LookupJob
<1>3. \A c : ~Shelf!Completing(r, c)
  BY <1>1, <1>2, FirstJob, OnePhase
<1>4. /\ node[r] = "Fetch" => Shelf!Key(r)[1] = "fetch" /\ Shelf!Key(r)[2] \in Shelf!PageRequests
           /\ Shelf!Key(r) = <<"fetch", Shelf!Key(r)[2]>>
      /\ node[r] # "Fetch" => Shelf!Key(r)[1] = "parse"
           /\ Shelf!Key(r) \in {"parse"} \X (Profiles \X Pages \X Versions)
  BY <1>2 DEF Shelf!Lookups, Shelf!Key
<1>5. Shelf!Key(r)[2][1] = profile[r] BY <1>2 DEF Shelf!Own, Shelf!Key
<1> QED
  BY <1>1, <1>2, <1>3, <1>4, <1>5 DEF Shelf!DocsInv, Shelf!PaidInv, Shelf!Pending, Shelf!FetchKey

\* A run begins with the keys of its hits.
LEMMA StartStep ==
    ASSUME Shelf!ShelfInv, NEW r \in Runs, Shelf!Start(r), profile' = profile
    PROVE  Shelf!ShelfInv'
<1>1. PICK hits \in HitLists, q \in Questions :
        /\ todo' = [todo EXCEPT ![r] = [i \in DOMAIN hits |-> <<Shelf!FetchKey(Shelf!Request(r, hits[i]))>>]]
        /\ question' = [question EXCEPT ![r] = q]
  BY DEF Shelf!Start
<1>2. /\ at[r] = "idle" /\ at' = [at EXCEPT ![r] = "ready"]
      /\ met' = met \cup {{r, s} : s \in {s \in Runs : Shelf!Working(s)}}
      /\ UNCHANGED <<store, node, docs, profile, paid, writeFaults, deaths>>
  BY DEF Shelf!Start, Shelf!Goto, Shelf!limits
<1>3. Shelf!StepInv(r) BY RunFacts
<1>4. docs[r] = <<>> /\ paid[r] = {} /\ node[r] = "Fetch" /\ question[r] = Shelf!Absent
  BY <1>2, <1>3 DEF Shelf!StepInv
<1>5. /\ at'[r] = "ready" /\ todo'[r] = [i \in DOMAIN hits |-> <<Shelf!FetchKey(Shelf!Request(r, hits[i]))>>]
      /\ question'[r] = q
      /\ \A s \in Runs : s # r => todo'[s] = todo[s] /\ at'[s] = at[s] /\ question'[s] = question[s]
  BY <1>1, <1>2 DEF Shelf!ShelfInv, Shelf!ShelfTypeOK
<1>6. /\ hits \in Seq(Shelf!Urls) /\ Len(todo'[r]) = Len(hits) /\ Len(todo'[r]) \in Nat
      /\ \A i \in 1..Len(todo'[r]) : Shelf!Own(r, todo'[r][i])
      /\ todo'[r] \in Seq(Shelf!Jobs)
  <2>1. hits \in Seq(Shelf!Urls) BY ShelfAssumption
  <2>2. ASSUME NEW i \in DOMAIN hits
        PROVE  /\ Shelf!Own(r, <<Shelf!FetchKey(Shelf!Request(r, hits[i]))>>)
               /\ <<Shelf!FetchKey(Shelf!Request(r, hits[i]))>> \in Shelf!Lookups("Fetch")
    <3>1. hits[i] \in Shelf!Urls /\ profile[r] \in Profiles BY <2>1, RunFacts
    <3>2. PICK k : k = Shelf!FetchKey(Shelf!Request(r, hits[i])) OBVIOUS
    <3>3. k \in {"fetch"} \X Shelf!PageRequests /\ k[2][1] = profile[r]
      BY <3>1, <3>2 DEF Shelf!FetchKey, Shelf!Request, Shelf!PageRequests
    <3>4. <<k>> \in Shelf!Lookups("Fetch") BY <3>3 DEF Shelf!Lookups
    <3> QED BY <1>4, <3>2, <3>3, <3>4 DEF Shelf!Own
  <2>3. \A i \in DOMAIN hits : <<Shelf!FetchKey(Shelf!Request(r, hits[i]))>> \in Shelf!Jobs
    BY <2>2 DEF Shelf!Jobs
  <2>4. DOMAIN hits = 1..Len(hits) /\ Len(hits) \in Nat BY <2>1
  <2>5. todo'[r] \in Seq(Shelf!Jobs) /\ Len(todo'[r]) = Len(hits)
    BY <1>5, <2>3, <2>4
  <2> QED BY <1>5, <2>1, <2>2, <2>4, <2>5
<1>7. Shelf!ShelfTypeOK'
  <2>1. todo' \in [Runs -> Seq(Shelf!Jobs)] BY <1>5, <1>6, <1>1 DEF Shelf!ShelfInv, Shelf!ShelfTypeOK
  <2>2. question' \in [Runs -> Questions \cup {Shelf!Absent}]
    BY <1>1 DEF Shelf!ShelfInv, Shelf!ShelfTypeOK
  <2> QED BY <1>2, <2>1, <2>2 DEF Shelf!ShelfInv, Shelf!ShelfTypeOK, Shelf!Stored
<1>8. Shelf!LookupPhase(r)'
  BY <1>2, <1>4, <1>6 DEF Shelf!LookupPhase, Shelf!OnlyLookups, Shelf!Own, Shelf!Lookups
<1>9. Shelf!ShelfRunInv(r)'
  BY <1>2, <1>4, <1>5, <1>6, <1>8, LookupRun
<1>10. question[r] \notin Questions BY <1>4, ShelfAssumption DEF Shelf!Absent
<1>11. Acts(r) /\ Others(r) /\ Gathers
  BY <1>2, <1>5, <1>10 DEF Acts, Others, SameWork, Gathers, Grows, Shelf!Stored
<1>12. Step(r)
  <2>1. \A s \in Runs : s # r => NewFor(s) BY <1>2 DEF NewFor, Shelf!Stored
  <2>2. \A s \in Runs : Shelf!Working(s) => {r, s} \in met' BY <1>2
  <2> QED BY <1>2, <1>5, <1>11, <2>1, <2>2 DEF Step, Shelf!Stored
<1> QED BY <1>7, <1>9, <1>12, Assemble

\* A lookup is answered from the cache.
LEMMA HitStep ==
    ASSUME Shelf!ShelfInv, NEW r \in Runs, Shelf!Hit(r), profile' = profile
    PROVE  Shelf!ShelfInv'
<1>1. /\ at[r] = "ready" /\ todo[r] # <<>> /\ Len(Shelf!Job(r)) = 1 /\ Shelf!Key(r) \in Shelf!Stored
      /\ UNCHANGED <<store, node, question, profile, met, paid, writeFaults, deaths>>
  BY DEF Shelf!Hit, Shelf!LookingUp, Shelf!limits
<1> DEFINE got == store[Shelf!Key(r)].of
<1>2. /\ Shelf!LookupPhase(r) /\ Todo(r) /\ question[r] \in Questions
      /\ node[r] = "Fetch" => Shelf!Key(r)[1] = "fetch" /\ Shelf!Key(r)[2] \in Shelf!PageRequests
           /\ Shelf!Key(r) = Shelf!FetchKey(Shelf!Key(r)[2])
      /\ node[r] # "Fetch" => Shelf!Key(r)[1] = "parse"
      /\ \A i \in DOMAIN docs[r] : Shelf!Published(docs[r][i])
      /\ \A u \in paid[r] : Shelf!FetchKey(u) \in Shelf!Stored
  BY <1>1, LookupFacts
<1>3. Shelf!FileInv(Shelf!Key(r)) /\ Shelf!Artifact(got) \in Shelf!Stored
  BY <1>1, <1>2 DEF Shelf!ShelfInv, Shelf!FileInv
<1>4. Shelf!Readable(got)
  <2>1. Shelf!FileInv(Shelf!Artifact(got)) BY <1>3 DEF Shelf!ShelfInv
  <2> QED BY <1>3, <2>1 DEF Shelf!FileInv, Shelf!Readable, Shelf!Artifact
<1>5. /\ todo' = [todo EXCEPT ![r] = Tail(todo[r])] /\ at' = at
      /\ docs' = IF Shelf!Key(r)[1] = "fetch" THEN [docs EXCEPT ![r] = Append(docs[r], got)] ELSE docs
  BY <1>4 DEF Shelf!Hit
<1>6. Shelf!Key(r)[1] = "fetch" => got \in Shelf!Documents /\ Shelf!Published(got)
  <2> SUFFICES ASSUME Shelf!Key(r)[1] = "fetch" PROVE got \in Shelf!Documents /\ Shelf!Published(got)
    OBVIOUS
  <2>1. Shelf!FetchFile(Shelf!Key(r)) BY <1>3 DEF Shelf!FileInv
  <2>2. Shelf!Key(r) = Shelf!FetchKey(Shelf!Key(r)[2]) BY <1>2
  <2>3. got \in Shelf!Documents /\ got.by[2] = Shelf!Key(r)[2] BY <2>1 DEF Shelf!FetchFile
  <2> QED BY <1>1, <2>2, <2>3 DEF Shelf!Published
<1>7. /\ docs[r] \in Seq(Shelf!Documents)
      /\ docs'[r] = IF Shelf!Key(r)[1] = "fetch" THEN Append(docs[r], got) ELSE docs[r]
      /\ docs'[r] \in Seq(Shelf!Documents) /\ docs' \in [Runs -> Seq(Shelf!Documents)]
      /\ \A s \in Runs : s # r => docs'[s] = docs[s]
  BY <1>5, <1>6 DEF Shelf!ShelfInv, Shelf!ShelfTypeOK
<1>8. /\ \A i \in DOMAIN docs[r] : i \in DOMAIN docs'[r] /\ docs'[r][i] = docs[r][i]
      /\ \A i \in DOMAIN docs'[r] : i \in DOMAIN docs[r] \/ (Shelf!Key(r)[1] = "fetch"
           /\ docs'[r][i] = got)
  BY <1>7
<1>9. /\ Tail(todo[r]) \in Seq(Shelf!Jobs) /\ Len(Tail(todo[r])) \in Nat BY <1>2, FirstJob
<1>10. todo'[r] = Tail(todo[r]) /\ \A s \in Runs : s # r => todo'[s] = todo[s]
  BY <1>5 DEF Shelf!ShelfInv, Shelf!ShelfTypeOK
<1>11. Shelf!ShelfTypeOK'
  <2>1. todo' \in [Runs -> Seq(Shelf!Jobs)] BY <1>5, <1>9 DEF Shelf!ShelfInv, Shelf!ShelfTypeOK
  <2> QED BY <1>1, <1>5, <1>7, <2>1 DEF Shelf!ShelfInv, Shelf!ShelfTypeOK, Shelf!Stored
<1>12. Shelf!LookupPhase(r)'
  <2>1. DidJob(r) BY <1>1, <1>2, <1>10 DEF DidJob
  <2> QED BY <1>2, <2>1, LookupTail
<1>13. \A i \in DOMAIN docs'[r] : Shelf!Published(docs[r][i])'
  <2> TAKE i \in DOMAIN docs'[r]
  <2>1. PICK d : d = docs'[r][i] OBVIOUS
  <2>2. Shelf!Published(d)
    BY <1>2, <1>6, <1>8, <2>1
  <2>3. Shelf!Published(d)' BY <1>1, <2>2 DEF Shelf!Published, Shelf!Stored
  <2> QED BY <2>1, <2>3 DEF Shelf!Published, Shelf!FetchKey
<1>14. Shelf!ShelfRunInv(r)'
  BY <1>1, <1>2, <1>5, <1>9, <1>10, <1>12, <1>13, LookupRun DEF Shelf!Stored
<1>15. Acts(r) /\ Others(r) /\ Gathers
  BY <1>1, <1>5, <1>7, <1>8, <1>10 DEF Acts, Others, SameWork, Gathers, Grows, Shelf!Stored
<1>16. Step(r)
  <2>1. \A s \in Runs : s # r => NewFor(s) BY <1>1 DEF NewFor, Shelf!Stored
  <2>2. \A s \in Runs : s # r /\ Shelf!Working(s) => {r, s} \in met'
    BY <1>1 DEF Shelf!ShelfInv, Shelf!TogetherInv, Shelf!Working
  <2> QED BY <1>1, <1>5, <1>15, <2>1, <2>2 DEF Step, Shelf!Stored
<1> QED BY <1>11, <1>14, <1>16, Assemble

\* A lookup finds nothing and the provider is called: who paid before is
\* at work now, or ended before its result was published.
LEMMA MissStep ==
    ASSUME Shelf!ShelfInv, NEW r \in Runs, Shelf!Miss(r), profile' = profile
    PROVE  Shelf!ShelfInv'
<1>1. /\ at[r] = "ready" /\ todo[r] # <<>> /\ Len(Shelf!Job(r)) = 1 /\ Shelf!Key(r) \notin Shelf!Stored
      /\ at' = [at EXCEPT ![r] = "call"]
      /\ paid' = IF Shelf!Key(r)[1] = "fetch" THEN [paid EXCEPT ![r] = paid[r] \cup {Shelf!Key(r)[2]}] ELSE paid
      /\ UNCHANGED <<store, node, todo, docs, question, profile, met, writeFaults, deaths>>
  BY DEF Shelf!Miss, Shelf!LookingUp, Shelf!limits, Shelf!work, Shelf!Goto
<1>2. /\ Shelf!LookupPhase(r) /\ Todo(r) /\ question[r] \in Questions
      /\ node[r] = "Fetch" => Shelf!Key(r)[1] = "fetch" /\ Shelf!Key(r)[2] \in Shelf!PageRequests
           /\ Shelf!Key(r) = Shelf!FetchKey(Shelf!Key(r)[2])
      /\ node[r] # "Fetch" => Shelf!Key(r)[1] = "parse"
      /\ \A i \in DOMAIN docs[r] : Shelf!Published(docs[r][i])
      /\ \A u \in paid[r] : Shelf!FetchKey(u) \in Shelf!Stored
  BY <1>1, LookupFacts
<1>3. node[r] = "Fetch" <=> Shelf!Key(r)[1] = "fetch" BY <1>2
<1>4. /\ at'[r] = "call" /\ \A s \in Runs : s # r => at'[s] = at[s] /\ paid'[s] = paid[s]
      /\ paid'[r] = IF Shelf!Key(r)[1] = "fetch" THEN paid[r] \cup {Shelf!Key(r)[2]} ELSE paid[r]
      /\ Shelf!Key(r)' = Shelf!Key(r) /\ Len(todo'[r]) \in Nat
  BY <1>1, <1>2, FirstJob DEF Shelf!ShelfInv, Shelf!ShelfTypeOK, Shelf!Key, Shelf!Job
<1>5. Shelf!ShelfTypeOK'
  <2>1. paid' \in [Runs -> SUBSET Shelf!PageRequests] BY <1>1, <1>2, <1>3 DEF Shelf!ShelfInv, Shelf!ShelfTypeOK
  <2> QED BY <1>1, <2>1 DEF Shelf!ShelfInv, Shelf!ShelfTypeOK, Shelf!Stored
<1>6. Shelf!LookupPhase(r)' BY <1>1, <1>2, PhasesSame
<1>7. \A u \in paid'[r] : u \in paid[r] \/ (Shelf!Key(r)[1] = "fetch" /\ u = Shelf!Key(r)[2]
        /\ Shelf!Key(r) = Shelf!FetchKey(u))
  BY <1>2, <1>3, <1>4
<1>8. Shelf!ShelfRunInv(r)'
  <2>1. Shelf!Key(r)' \notin Shelf!Stored' /\ (node'[r] = "Fetch" => Shelf!Key(r)'[2] \in paid'[r])
    BY <1>1, <1>3, <1>4 DEF Shelf!Stored
  <2>2. \A u \in paid'[r] : Shelf!FetchKey(u) \in Shelf!Stored' \/ Shelf!Key(r)' = Shelf!FetchKey(u)
    BY <1>1, <1>2, <1>4, <1>7 DEF Shelf!Stored
  <2>3. \A i \in DOMAIN docs'[r] : Shelf!Published(docs[r][i])'
    BY <1>1, <1>2 DEF Shelf!Published, Shelf!FetchKey, Shelf!Stored
  <2> QED BY <1>1, <1>2, <1>4, <1>6, <2>1, <2>2, <2>3, LookupRun
<1>9. Acts(r) /\ Others(r) /\ Gathers
  BY <1>1, <1>4 DEF Acts, Others, SameWork, Gathers, Grows, Shelf!Stored
<1>10. ASSUME NEW s \in Runs, s # r, NEW u \in paid[s], u \in paid'[r], u \notin paid[r]
       PROVE  {r, s} \in met' \/ Shelf!Lost(s, u)
  <2>1. Shelf!Key(r) = Shelf!FetchKey(u) /\ Shelf!FetchKey(u) \notin Shelf!Stored BY <1>1, <1>7, <1>10
  <2>2. Shelf!PaidInv(s) /\ todo[s] \in Seq(Shelf!Jobs) BY RunFacts
  <2>3. Shelf!Working(s) => {r, s} \in met'
    BY <1>1, <1>10 DEF Shelf!ShelfInv, Shelf!TogetherInv, Shelf!Working
  <2>4. CASE at[s] \in {"call", "dead"} /\ todo[s] # <<>> /\ Shelf!Key(s) = Shelf!FetchKey(u)
    <3>1. 1 \in DOMAIN todo[s] /\ todo[s][1][1] = Shelf!FetchKey(u)
      BY <2>2, <2>4 DEF Shelf!Key, Shelf!Job
    <3> QED BY <2>3, <2>4, <3>1 DEF Shelf!Lost, Shelf!Working
  <2>5. CASE at[s] \in {"ready", "write", "failed", "dead"} /\ Shelf!Pending(s, u)
    <3>1. PICK c \in Shelf!Documents : Shelf!Completing(s, c) /\ c.by[2] = u /\ node[s] = "Fetch"
      BY <2>5 DEF Shelf!Pending
    <3>2. Shelf!CompletionKey(s, c) = Shelf!FetchKey(u) BY <3>1, KeyIs
    <3>3. Shelf!Publish(s, Shelf!CompletionKey(s, c), c)[1] = Shelf!FetchKey(u) BY <3>2, EntryIs
    <3>4. \E i \in DOMAIN todo[s] : todo[s][i][1] = Shelf!FetchKey(u)
      <4>1. CASE Shelf!ArtifactPhase(s, c)
        <5>1. 2 \in DOMAIN todo[s] /\ todo[s][2][1] = Shelf!FetchKey(u)
          BY <2>2, <3>3, <4>1 DEF Shelf!ArtifactPhase
        <5> QED BY <5>1
      <4>2. CASE Shelf!PublishPhase(s, c)
        <5>1. 1 \in DOMAIN todo[s] /\ todo[s][1][1] = Shelf!FetchKey(u)
          BY <2>2, <3>3, <4>2 DEF Shelf!PublishPhase
        <5> QED BY <5>1
      <4> QED BY <3>1, <4>1, <4>2 DEF Shelf!Completing
    <3> QED BY <2>3, <2>5, <3>4 DEF Shelf!Lost, Shelf!Working
  <2> QED BY <2>1, <2>2, <2>4, <2>5 DEF Shelf!PaidInv
<1>11. Step(r)
  <2>1. \A s \in Runs : s # r => NewFor(s) BY <1>1 DEF NewFor, Shelf!Stored
  <2>2. \A s \in Runs : s # r /\ Shelf!Working(s) => {r, s} \in met'
    BY <1>1 DEF Shelf!ShelfInv, Shelf!TogetherInv, Shelf!Working
  <2> QED BY <1>1, <1>4, <1>9, <1>10, <2>1, <2>2 DEF Step, Shelf!Stored
<1> QED BY <1>5, <1>8, <1>11, Assemble

\* What the answer of a call is kept as is of the stores.
LEMMA CompletionTyped ==
    ASSUME Shelf!ShelfInv, NEW r \in Runs, NEW c \in Shelf!Outputs, Shelf!ResultOf(r, c),
           Shelf!CompletionKey(r, c) = Shelf!Key(r)
    PROVE  Shelf!PutArtifact(c) \in Shelf!Jobs /\ Shelf!Publish(r, Shelf!Key(r), c) \in Shelf!Jobs
<1>1. Shelf!PutArtifact(c) \in Shelf!Keys \X Shelf!Values
  BY DEF Shelf!PutArtifact, Shelf!Artifact, Shelf!Keys, Shelf!Values
<1>2. Shelf!Key(r) \in Shelf!Keys
  <2>1. CASE node[r] = "Fetch"
    <3>1. c \in Shelf!Documents BY <2>1 DEF Shelf!ResultOf
    <3>2. c.by[2] \in Shelf!PageRequests BY <3>1 DEF Shelf!Documents
    <3>3. Shelf!Key(r) = Shelf!FetchKey(c.by[2]) BY <2>1, KeyIs
    <3> QED BY <3>2, <3>3 DEF Shelf!FetchKey, Shelf!Keys
  <2>2. CASE node[r] # "Fetch"
    <3>1. c \in Shelf!ParsedDocuments BY <2>2 DEF Shelf!ResultOf
    <3>2. <<profile[r], c.page, c.version>> \in Profiles \X Pages \X Versions
      BY <3>1, RunFacts DEF Shelf!ParsedDocuments
    <3>3. Shelf!Key(r) = Shelf!ParseKey(r, c) BY <2>2, KeyIs
    <3> QED BY <3>2, <3>3 DEF Shelf!ParseKey, Shelf!Keys
  <2> QED BY <2>1, <2>2
<1>3. Shelf!Entry(r, c) \in Shelf!Values BY DEF Shelf!Entry, Shelf!Values
<1>4. Shelf!Publish(r, Shelf!Key(r), c) \in Shelf!Keys \X Shelf!Values BY <1>2, <1>3 DEF Shelf!Publish
<1> QED BY <1>1, <1>4 DEF Shelf!Jobs

\* The run whose call is answered puts the artifact first, then the entry.
LEMMA AnsweredTodo ==
    ASSUME Shelf!ShelfInv, NEW r \in Runs, Todo(r), NEW c \in Shelf!Outputs, Shelf!ResultOf(r, c),
           Shelf!CompletionKey(r, c) = Shelf!Key(r),
           todo'[r] = Shelf!Completion(r, Shelf!Key(r), c) \o Tail(todo[r])
    PROVE  /\ todo'[r] \in Seq(Shelf!Jobs) /\ Len(todo'[r]) = Len(todo[r]) + 1 /\ Len(todo[r]) \in Nat
           /\ Len(todo[r]) > 0
           /\ todo'[r][1] = Shelf!PutArtifact(c) /\ todo'[r][2] = Shelf!Publish(r, Shelf!Key(r), c)
           /\ \A i \in 1..Len(todo'[r]) : i > 2 => todo'[r][i] = todo[r][i - 1]
                /\ i - 1 \in 1..Len(todo[r])
<1> DEFINE a == Shelf!PutArtifact(c)
           b == Shelf!Publish(r, Shelf!Key(r), c)
           s == <<a, b>>
           t == Tail(todo[r])
<1>1. a \in Shelf!Jobs /\ b \in Shelf!Jobs BY CompletionTyped
<1>2. /\ t \in Seq(Shelf!Jobs) /\ Len(t) = Len(todo[r]) - 1 /\ Len(todo[r]) \in Nat /\ Len(todo[r]) > 0
      /\ \A i \in 1..(Len(todo[r]) - 1) : t[i] = todo[r][i + 1]
  BY FirstJob
<1>3. todo'[r] = s \o t BY DEF Shelf!Completion
<1> HIDE DEF a, b, t
<1>4. s \in Seq(Shelf!Jobs) /\ Len(s) = 2 /\ s[1] = a /\ s[2] = b BY <1>1
<1> HIDE DEF s
<1>5. /\ s \o t \in Seq(Shelf!Jobs) /\ Len(s \o t) = Len(s) + Len(t)
      /\ \A i \in 1..(Len(s) + Len(t)) : (s \o t)[i] = IF i <= Len(s) THEN s[i] ELSE t[i - Len(s)]
  BY <1>2, <1>4, ConcatProperties
<1>6. /\ todo'[r] \in Seq(Shelf!Jobs) /\ Len(todo'[r]) = Len(todo[r]) + 1
      /\ todo'[r][1] = a /\ todo'[r][2] = b
  <2>1. Len(s) + Len(t) = Len(todo[r]) + 1 /\ Len(s) + Len(t) \in Nat BY <1>2, <1>4
  <2>2. 1 \in 1..(Len(s) + Len(t)) /\ 2 \in 1..(Len(s) + Len(t)) BY <1>2, <2>1
  <2>3. (s \o t)[1] = s[1] /\ (s \o t)[2] = s[2] BY <1>4, <1>5, <2>2
  <2> QED BY <1>3, <1>4, <1>5, <2>1, <2>3
<1>7. \A i \in 1..Len(todo'[r]) : i > 2 => todo'[r][i] = todo[r][i - 1] /\ i - 1 \in 1..Len(todo[r])
  <2> SUFFICES ASSUME NEW i \in 1..Len(todo'[r]), i > 2
               PROVE  todo'[r][i] = todo[r][i - 1] /\ i - 1 \in 1..Len(todo[r])
    OBVIOUS
  <2>1. i - 2 \in 1..(Len(todo[r]) - 1) /\ i - 1 \in 1..Len(todo[r]) /\ (i - 2) + 1 = i - 1
    <3> DEFINE n == Len(todo[r])
    <3>1. i \in 1..(n + 1) /\ n \in Nat BY <1>2, <1>6
    <3> HIDE DEF n
    <3>2. i - 2 \in 1..(n - 1) /\ i - 1 \in 1..n /\ (i - 2) + 1 = i - 1 BY <3>1
    <3> QED BY <3>2 DEF n
  <2>2. todo'[r][i] = t[i - 2]
    <3>1. i \in 1..(Len(s) + Len(t)) /\ ~(i <= Len(s)) BY <1>2, <1>4, <1>6
    <3>2. (s \o t)[i] = t[i - Len(s)] BY <1>5, <3>1
    <3> QED BY <1>3, <1>4, <3>2
  <2> QED BY <1>2, <2>1, <2>2
<1> QED BY <1>2, <1>6, <1>7 DEF a, b

\* Then this result is in hand, and no other.
LEMMA AnsweredPhase ==
    ASSUME Shelf!ShelfInv, NEW r \in Runs, Todo(r), Shelf!LookupPhase(r), NEW c \in Shelf!Outputs,
           Shelf!ResultOf(r, c),
           Shelf!CompletionKey(r, c) = Shelf!Key(r),
           todo'[r] = Shelf!Completion(r, Shelf!Key(r), c) \o Tail(todo[r]),
           node'[r] = node[r], profile' = profile
    PROVE  /\ Shelf!ArtifactPhase(r, c)'
           /\ \A e : Shelf!Completing(r, e)' => e = c
           /\ Shelf!CompletionKey(r, c)' = Shelf!Key(r)
<1>1. /\ Len(todo'[r]) = Len(todo[r]) + 1 /\ Len(todo[r]) \in Nat /\ Len(todo[r]) > 0
      /\ todo'[r][1] = Shelf!PutArtifact(c) /\ todo'[r][2] = Shelf!Publish(r, Shelf!Key(r), c)
      /\ \A i \in 1..Len(todo'[r]) : i > 2 => todo'[r][i] = todo[r][i - 1] /\ i - 1 \in 1..Len(todo[r])
  BY AnsweredTodo
<1>2. Shelf!CompletionKey(r, c)' = Shelf!CompletionKey(r, c)
  BY DEF Shelf!CompletionKey, Shelf!ParseKey
<1>3. Shelf!ResultOf(r, c)' BY DEF Shelf!ResultOf
<1>4. Shelf!OnlyLookups(r, 2)'
  <2>1. \A i \in 1..Len(todo[r]) : i > 0 => Shelf!Own(r, todo[r][i])
    BY DEF Shelf!LookupPhase, Shelf!OnlyLookups
  <2>2. \A i \in 1..Len(todo'[r]) : i > 2 => Shelf!Own(r, todo'[r][i])
    <3> SUFFICES ASSUME NEW i \in 1..Len(todo'[r]), i > 2 PROVE Shelf!Own(r, todo'[r][i])
      OBVIOUS
    <3>1. todo'[r][i] = todo[r][i - 1] /\ i - 1 \in 1..Len(todo[r]) /\ i - 1 > 0 BY <1>1
    <3> DEFINE j == i - 1
    <3>2. j \in 1..Len(todo[r]) /\ j > 0 /\ todo'[r][i] = todo[r][j] BY <3>1
    <3> HIDE DEF j
    <3> QED BY <2>1, <3>2
  <2> QED BY <2>2 DEF Shelf!OnlyLookups, Shelf!Own, Shelf!Lookups
<1>5. Shelf!ArtifactPhase(r, c)'
  BY <1>1, <1>2, <1>3, <1>4
     DEF Shelf!ArtifactPhase, Shelf!LookupPhase, Shelf!PutArtifact, Shelf!Artifact, Shelf!Publish,
         Shelf!Entry
<1>6. ASSUME NEW e, Shelf!Completing(r, e)' PROVE e = c
  <2>1. todo'[r][1] = Shelf!PutArtifact(e)
          \/ todo'[r][1] = Shelf!Publish(r, Shelf!CompletionKey(r, e)', e)
    BY <1>6
       DEF Shelf!Completing, Shelf!ArtifactPhase, Shelf!PublishPhase, Shelf!Publish, Shelf!Entry,
           Shelf!PutArtifact, Shelf!Artifact
  <2>2. Shelf!CompletionKey(r, e)'[1] # "artifact"
    BY DEF Shelf!CompletionKey, Shelf!FetchKey, Shelf!ParseKey
  <2>3. CASE todo'[r][1] = Shelf!PutArtifact(e)
    <3>1. Shelf!PutArtifact(c) = Shelf!PutArtifact(e) BY <1>1, <2>3
    <3> QED BY <3>1, EntryIs
  <2>4. CASE todo'[r][1] = Shelf!Publish(r, Shelf!CompletionKey(r, e)', e)
    <3>1. Shelf!PutArtifact(c)[1] = Shelf!Publish(r, Shelf!CompletionKey(r, e)', e)[1] BY <1>1, <2>4
    <3>2. Shelf!PutArtifact(c)[1][1] = "artifact" BY DEF Shelf!PutArtifact, Shelf!Artifact
    <3>3. Shelf!Publish(r, Shelf!CompletionKey(r, e)', e)[1] = Shelf!CompletionKey(r, e)'
      BY DEF Shelf!Publish
    <3> QED BY <2>2, <3>1, <3>2, <3>3
  <2> QED BY <2>1, <2>3, <2>4
<1> QED BY <1>2, <1>5, <1>6

\* The run stays sound when its call is answered.
LEMMA AnsweredRun ==
    ASSUME Shelf!ShelfInv, NEW r \in Runs, at[r] = "call", NEW c \in Shelf!Outputs,
           Shelf!ResultOf(r, c),
           Shelf!CompletionKey(r, c) = Shelf!Key(r),
           todo'[r] = Shelf!Completion(r, Shelf!Key(r), c) \o Tail(todo[r]),
           at'[r] = "ready", node'[r] = node[r], question'[r] = question[r], profile' = profile,
           paid'[r] = paid[r], store' = store, met' = met,
           \A i \in DOMAIN docs'[r] :
              \/ i \in DOMAIN docs[r] /\ docs'[r][i] = docs[r][i]
              \/ node[r] = "Fetch" /\ docs'[r][i] = c
    PROVE  Shelf!ShelfRunInv(r)'
<1>1. /\ Todo(r) /\ Shelf!LookupPhase(r) /\ Shelf!PaidInv(r) /\ Shelf!RaceInv(r)
      /\ question[r] \in Questions
      /\ node[r] = "Fetch" => Shelf!Key(r)[2] \in paid[r]
      /\ \A i \in DOMAIN docs[r] : Shelf!Published(docs[r][i])
  <2>1. Todo(r) /\ Shelf!LookupPhase(r) BY RunFacts DEF Shelf!StepInv
  <2>2. Len(Shelf!Job(r)) = 1 BY <2>1, LookupJob
  <2>3. todo[r] # <<>> BY <2>1 DEF Todo
  <2> QED BY <2>1, <2>2, <2>3, RunFacts, LookupFacts DEF Shelf!StepInv
<1>2. /\ Shelf!ArtifactPhase(r, c)'
      /\ \A e : Shelf!Completing(r, e)' => e = c
      /\ Shelf!CompletionKey(r, c)' = Shelf!Key(r)
  BY <1>1, AnsweredPhase
<1>3. Shelf!PhaseInv(r)'
  <2>1. c \in Shelf!Outputs' BY DEF Shelf!Outputs, Shelf!Documents, Shelf!ParsedDocuments, Shelf!PageRequests
  <2> QED BY <1>2, <2>1 DEF Shelf!PhaseInv
<1>4. Shelf!Completing(r, c)' BY <1>2 DEF Shelf!Completing
<1>5. Shelf!DocsInv(r)'
  <2>1. ASSUME NEW i \in DOMAIN docs'[r]
        PROVE  Shelf!Published(docs[r][i])' \/ (node'[r] = "Fetch" /\ Shelf!Completing(r, docs[r][i])')
    <3>1. PICK d : d = docs'[r][i] OBVIOUS
    <3>2. CASE i \in DOMAIN docs[r] /\ docs'[r][i] = docs[r][i]
      <4>1. Shelf!Published(d) BY <1>1, <3>1, <3>2
      <4>2. Shelf!Published(d)' BY <4>1 DEF Shelf!Published, Shelf!Stored
      <4> QED BY <3>1, <4>2 DEF Shelf!Published, Shelf!FetchKey
    <3>3. CASE node[r] = "Fetch" /\ docs'[r][i] = c
      <4>1. PICK e : e = c OBVIOUS
      <4>2. Shelf!Completing(r, e)' BY <1>4, <4>1
      <4>3. docs'[r][i] = e BY <3>3, <4>1
      <4> QED BY <3>3, <4>2, <4>3
    <3> QED BY <3>2, <3>3
  <2> QED BY <2>1 DEF Shelf!DocsInv
<1>6. Shelf!StepInv(r)' BY <1>1 DEF Shelf!StepInv
<1>7. Shelf!PaidInv(r)'
  <2>1. ASSUME NEW u \in paid[r] PROVE Shelf!FetchKey(u) \in Shelf!Stored' \/ Shelf!Pending(r, u)'
    <3>1. ~Shelf!Pending(r, u)
      <4>1. \A d : ~Shelf!Completing(r, d) BY <1>1, OnePhase, FirstJob
      <4> QED BY <4>1 DEF Shelf!Pending
    <3>2. CASE Shelf!FetchKey(u) \in Shelf!Stored BY <3>2 DEF Shelf!Stored
    <3>3. CASE Shelf!Key(r) = Shelf!FetchKey(u)
      <4>1. node[r] = "Fetch"
        <5>1. Shelf!CompletionKey(r, c)[1] = "fetch" BY <3>3 DEF Shelf!FetchKey
        <5> QED BY <5>1, KeyIs
      <4>2. c \in Shelf!Documents BY <4>1 DEF Shelf!ResultOf
      <4>3. c.by[2] = u BY <3>3, <4>1, KeyIs DEF Shelf!FetchKey
      <4> QED BY <1>4, <4>1, <4>2, <4>3 DEF Shelf!Pending, Shelf!Documents, Shelf!PageRequests
    <3> QED BY <1>1, <3>1, <3>2, <3>3 DEF Shelf!PaidInv
  <2>2. ASSUME NEW u \in Shelf!PageRequests, Shelf!Pending(r, u)' PROVE u \in paid[r]
    <3>1. node[r] = "Fetch" /\ c.by[2] = u
      BY <1>2, <2>2 DEF Shelf!Pending
    <3>2. Shelf!Key(r)[2] = u BY <3>1, KeyIs
    <3> QED BY <1>1, <3>1, <3>2
  <2> QED BY <2>1, <2>2 DEF Shelf!PaidInv, Shelf!FetchKey, Shelf!PageRequests
<1>8. Shelf!RaceInv(r)'
  <2>1. ASSUME NEW k \in Shelf!Stored, Shelf!Answering(r, k)' PROVE k = Shelf!Key(r)
    BY <1>2, <2>1 DEF Shelf!Answering
  <2>2. Shelf!Answering(r, Shelf!Key(r)) BY DEF Shelf!Answering, Shelf!Working
  <2> QED BY <1>1, <2>1, <2>2 DEF Shelf!RaceInv, Shelf!Stored
<1> QED BY <1>3, <1>5, <1>6, <1>7, <1>8 DEF Shelf!ShelfRunInv

\* What is left of a step that ends a call.
LEMMA AnsweredStep ==
    ASSUME Shelf!ShelfInv, NEW r \in Runs, at[r] = "call", at' = [at EXCEPT ![r] = "ready"],
           NEW c \in Shelf!Outputs, Shelf!ResultOf(r, c), Shelf!CompletionKey(r, c) = Shelf!Key(r),
           todo' = [todo EXCEPT ![r] = Shelf!Completion(r, Shelf!Key(r), c) \o Tail(todo[r])],
           UNCHANGED <<store, node, question, profile, paid, met, writeFaults, deaths>>,
           docs' = docs \/ (node[r] = "Fetch" /\ docs' = [docs EXCEPT ![r] = Append(docs[r], c)])
    PROVE  Shelf!ShelfInv'
<1>1. /\ todo \in [Runs -> Seq(Shelf!Jobs)] /\ docs \in [Runs -> Seq(Shelf!Documents)]
      /\ docs[r] \in Seq(Shelf!Documents)
      /\ at \in [Runs -> {"idle", "ready", "call", "write", "done", "refused", "failed", "dead"}]
  BY DEF Shelf!ShelfInv, Shelf!ShelfTypeOK
<1>2. /\ todo'[r] = Shelf!Completion(r, Shelf!Key(r), c) \o Tail(todo[r]) /\ at'[r] = "ready"
      /\ \A s \in Runs : s # r => todo'[s] = todo[s] /\ at'[s] = at[s]
  BY <1>1
<1>3. Todo(r) BY RunFacts DEF Shelf!StepInv
<1>4. todo'[r] \in Seq(Shelf!Jobs) BY <1>2, <1>3, AnsweredTodo
<1>5. /\ docs'[r] = docs[r] \/ (node[r] = "Fetch" /\ docs'[r] = Append(docs[r], c))
      /\ \A s \in Runs : s # r => docs'[s] = docs[s]
  BY <1>1
<1>6. node[r] = "Fetch" => c \in Shelf!Documents BY DEF Shelf!ResultOf
<1>7. /\ docs' \in [Runs -> Seq(Shelf!Documents)]
      /\ \A i \in DOMAIN docs[r] : i \in DOMAIN docs'[r] /\ docs'[r][i] = docs[r][i]
      /\ \A i \in DOMAIN docs'[r] : \/ i \in DOMAIN docs[r] /\ docs'[r][i] = docs[r][i]
                                    \/ node[r] = "Fetch" /\ docs'[r][i] = c
  <2>1. CASE docs' = docs BY <1>1, <2>1
  <2>2. CASE node[r] = "Fetch" /\ docs' = [docs EXCEPT ![r] = Append(docs[r], c)]
    <3>1. docs'[r] = Append(docs[r], c) BY <1>1, <2>2
    <3>2. Append(docs[r], c) \in Seq(Shelf!Documents) BY <1>1, <1>6, <2>2
    <3>3. docs' \in [Runs -> Seq(Shelf!Documents)] BY <1>1, <2>2, <3>2
    <3>4. /\ \A i \in DOMAIN docs[r] : i \in DOMAIN Append(docs[r], c)
               /\ Append(docs[r], c)[i] = docs[r][i]
          /\ \A i \in DOMAIN Append(docs[r], c) :
                \/ i \in DOMAIN docs[r] /\ Append(docs[r], c)[i] = docs[r][i]
                \/ Append(docs[r], c)[i] = c
      BY <1>1, <1>6, <2>2
    <3> QED BY <2>2, <3>1, <3>3, <3>4
  <2> QED BY <2>1, <2>2
<1>8. Shelf!ShelfTypeOK'
  <2>1. todo' \in [Runs -> Seq(Shelf!Jobs)] BY <1>1, <1>2, <1>4
  <2>2. at' \in [Runs -> {"idle", "ready", "call", "write", "done", "refused", "failed", "dead"}]
    BY <1>1
  <2> QED
    BY <1>7, <2>1, <2>2
       DEF Shelf!ShelfInv, Shelf!ShelfTypeOK, Shelf!Stored, Shelf!Jobs, Shelf!Documents, Shelf!PageRequests,
           Shelf!Keys, Shelf!Values,
        Shelf!Outputs, Shelf!ParsedDocuments, Shelf!Lookups, Shelf!Types
<1>9. Shelf!ShelfRunInv(r)'
  BY <1>2, <1>7, AnsweredRun
<1>10. Acts(r) /\ Others(r) /\ Gathers
  BY <1>2, <1>5, <1>7 DEF Acts, Others, SameWork, Gathers, Grows, Shelf!Stored
<1>11. Step(r)
  <2>1. \A s \in Runs : s # r => NewFor(s) BY DEF NewFor, Shelf!Stored
  <2>2. \A s \in Runs : s # r /\ Shelf!Working(s) => {r, s} \in met'
    BY DEF Shelf!ShelfInv, Shelf!TogetherInv, Shelf!Working
  <2> QED BY <1>2, <1>10, <2>1, <2>2 DEF Step, Shelf!Stored
<1> QED BY <1>8, <1>9, <1>11, Assemble

\* The two calls: a page, a parsed document.
LEMMA FetchedStep ==
    ASSUME Shelf!ShelfInv, NEW r \in Runs, Shelf!Fetched(r), profile' = profile
    PROVE  Shelf!ShelfInv'
<1> DEFINE u == Shelf!Key(r)[2]
<1>1. /\ at[r] = "call" /\ Shelf!Key(r)[1] = "fetch" /\ at' = [at EXCEPT ![r] = "ready"]
      /\ UNCHANGED <<store, node, question, profile, met, paid, writeFaults, deaths>>
  BY DEF Shelf!Fetched, Shelf!Goto, Shelf!limits
<1>2. PICK p \in Pages, v \in Versions :
        LET d == [page |-> p, version |-> v, by |-> <<r, u>>]
        IN  docs' = [docs EXCEPT ![r] = Append(docs[r], d)] /\ Shelf!Keep(r, d)
  BY DEF Shelf!Fetched
<1>3. PICK d : d = [page |-> p, version |-> v, by |-> <<r, u>>] OBVIOUS
<1>4. /\ docs' = [docs EXCEPT ![r] = Append(docs[r], d)]
      /\ todo' = [todo EXCEPT ![r] = Shelf!Completion(r, Shelf!Key(r), d) \o Tail(todo[r])]
  BY <1>2, <1>3 DEF Shelf!Keep
<1>5. todo[r] # <<>> /\ Len(Shelf!Job(r)) = 1
  <2>1. Todo(r) /\ Shelf!LookupPhase(r) BY <1>1, RunFacts DEF Shelf!StepInv
  <2> QED BY <2>1, LookupJob DEF Todo
<1>6. node[r] = "Fetch" /\ u \in Shelf!PageRequests /\ u[1] = profile[r] /\ Shelf!Key(r) = Shelf!FetchKey(u)
  BY <1>1, <1>5, LookupFacts
<1>7. d \in Shelf!Documents /\ d.by[1] = r /\ d.by[2] = u /\ d.by[2][1] = profile[r]
  BY <1>3, <1>6 DEF Shelf!Documents
<1>8. d \in Shelf!Outputs /\ Shelf!ResultOf(r, d) BY <1>6, <1>7 DEF Shelf!ResultOf, Shelf!Outputs
<1>9. Shelf!CompletionKey(r, d) = Shelf!Key(r) BY <1>6, <1>7, KeyIs
<1> QED BY <1>1, <1>4, <1>6, <1>8, <1>9, AnsweredStep

LEMMA ParsedStep ==
    ASSUME Shelf!ShelfInv, NEW r \in Runs, Shelf!Parsed(r), profile' = profile
    PROVE  Shelf!ShelfInv'
<1>1. /\ at[r] = "call" /\ Shelf!Key(r)[1] = "parse" /\ at' = [at EXCEPT ![r] = "ready"]
      /\ UNCHANGED <<store, node, docs, question, profile, met, paid, writeFaults, deaths>>
  BY DEF Shelf!Parsed, Shelf!Goto, Shelf!limits
<1>2. PICK c : c = [page |-> Shelf!Key(r)[2][2], version |-> Shelf!Key(r)[2][3]] OBVIOUS
<1>3. todo' = [todo EXCEPT ![r] = Shelf!Completion(r, Shelf!Key(r), c) \o Tail(todo[r])]
  BY <1>2 DEF Shelf!Parsed, Shelf!Keep
<1>4. todo[r] # <<>> /\ Len(Shelf!Job(r)) = 1
  <2>1. Todo(r) /\ Shelf!LookupPhase(r) BY <1>1, RunFacts DEF Shelf!StepInv
  <2> QED BY <2>1, LookupJob DEF Todo
<1>5. /\ node[r] # "Fetch" /\ Shelf!Key(r) \in {"parse"} \X (Profiles \X Pages \X Versions)
      /\ Shelf!Key(r)[2][1] = profile[r]
  <2>1. node[r] = "Fetch" => Shelf!Key(r)[1] = "fetch" BY <1>1, <1>4, LookupFacts
  <2> QED BY <1>1, <1>4, <2>1, LookupFacts
<1>6. /\ c \in Shelf!ParsedDocuments /\ Shelf!Key(r) = <<"parse", <<profile[r], c.page, c.version>>>>
  BY <1>2, <1>5 DEF Shelf!ParsedDocuments
<1>7. c \in Shelf!Outputs /\ Shelf!ResultOf(r, c) BY <1>5, <1>6 DEF Shelf!ResultOf, Shelf!Outputs
<1>8. Shelf!CompletionKey(r, c) = Shelf!Key(r) BY <1>5, <1>6, KeyIs DEF Shelf!ParseKey
<1> QED BY <1>1, <1>3, <1>7, <1>8, AnsweredStep

\* A run with nothing left to do: all it has is in the cache.
LEMMA IdleFacts ==
    ASSUME Shelf!ShelfInv, NEW r \in Runs, at[r] = "ready", todo[r] = <<>>
    PROVE  /\ \A c : ~Shelf!Completing(r, c)
           /\ \A i \in DOMAIN docs[r] : Shelf!Published(docs[r][i])
           /\ \A u \in paid[r] : Shelf!FetchKey(u) \in Shelf!Stored
           /\ Shelf!ShelfRunInv(r) /\ Shelf!PhaseInv(r) /\ Shelf!DocsInv(r) /\ question[r] \in Questions
           /\ docs[r] \in Seq(Shelf!Documents)
<1>1. /\ Shelf!ShelfRunInv(r) /\ Shelf!PhaseInv(r) /\ Shelf!DocsInv(r) /\ Shelf!PaidInv(r)
      /\ question[r] \in Questions
      /\ docs[r] \in Seq(Shelf!Documents)
  BY RunFacts
<1>2. Len(todo[r]) = 0 BY Zenon, \A x : Len(<<>>) = 0
<1>3. \A c : ~Shelf!Completing(r, c)
  BY <1>2 DEF Shelf!Completing, Shelf!ArtifactPhase, Shelf!PublishPhase
<1>4. \A u : ~Shelf!Pending(r, u) BY <1>3 DEF Shelf!Pending
<1> QED BY <1>1, <1>3, <1>4 DEF Shelf!DocsInv, Shelf!PaidInv

\* What the next nodes have to do.
LEMMA ParsesTyped ==
    ASSUME NEW r \in Runs, docs[r] \in Seq(Shelf!Documents), profile[r] \in Profiles,
           NEW t, t = [i \in DOMAIN docs[r] |-> <<Shelf!ParseKey(r, docs[r][i])>>]
    PROVE  /\ t \in Seq(Shelf!Jobs) /\ Len(t) \in Nat
           /\ \A i \in 1..Len(t) :
                 t[i] \in Shelf!Lookups("ParseAndNormalize") /\ t[i][1][2][1] = profile[r]
<1>1. DOMAIN docs[r] = 1..Len(docs[r]) /\ Len(docs[r]) \in Nat OBVIOUS
<1>2. ASSUME NEW i \in DOMAIN docs[r]
      PROVE  /\ <<Shelf!ParseKey(r, docs[r][i])>> \in Shelf!Lookups("ParseAndNormalize")
             /\ <<Shelf!ParseKey(r, docs[r][i])>>[1][2][1] = profile[r]
  <2>1. PICK d \in Shelf!Documents : d = docs[r][i] OBVIOUS
  <2>2. <<profile[r], d.page, d.version>> \in Profiles \X Pages \X Versions
    BY <2>1 DEF Shelf!Documents
  <2>3. PICK k : k = Shelf!ParseKey(r, d) OBVIOUS
  <2>4. k \in {"parse"} \X (Profiles \X Pages \X Versions) /\ k[2][1] = profile[r]
    BY <2>2, <2>3 DEF Shelf!ParseKey
  <2>5. <<k>> \in Shelf!Lookups("ParseAndNormalize") BY <2>4 DEF Shelf!Lookups
  <2> QED BY <2>1, <2>3, <2>4, <2>5
<1>3. \A i \in DOMAIN docs[r] : <<Shelf!ParseKey(r, docs[r][i])>> \in Shelf!Jobs BY <1>2 DEF Shelf!Jobs
<1>4. \A i \in 1..Len(docs[r]) :
        /\ t[i] \in Shelf!Jobs /\ t[i] \in Shelf!Lookups("ParseAndNormalize")
        /\ t[i][1][2][1] = profile[r]
  BY <1>1, <1>2, <1>3
<1>5. t = [i \in 1..Len(docs[r]) |-> t[i]]
  <2> DEFINE n == Len(docs[r])
             F(i) == <<Shelf!ParseKey(r, docs[r][i])>>
  <2>1. t = [i \in 1..n |-> F(i)] BY <1>1, Zenon
  <2> HIDE DEF n, F
  <2>2. t = [i \in 1..n |-> t[i]] BY <2>1
  <2> QED BY <2>2, Zenon DEF n
<1>6. t \in Seq(Shelf!Jobs) /\ Len(t) = Len(docs[r])
  <2> DEFINE n == Len(docs[r])
  <2>1. n \in Nat /\ t = [i \in 1..n |-> t[i]] /\ \A i \in 1..n : t[i] \in Shelf!Jobs
    BY <1>1, <1>4, <1>5
  <2> HIDE DEF n
  <2>2. t \in [1..n -> Shelf!Jobs] BY <2>1
  <2>3. t \in Seq(Shelf!Jobs) /\ Len(t) = n BY <2>1, <2>2
  <2> QED BY <2>3 DEF n
<1> QED BY <1>1, <1>4, <1>6

\* A node is done and hands over to the next.
LEMMA AdvanceStep ==
    ASSUME Shelf!ShelfInv, NEW r \in Runs, Shelf!Advance(r), profile' = profile
    PROVE  Shelf!ShelfInv'
<1>1. /\ at[r] = "ready" /\ todo[r] = <<>>
      /\ UNCHANGED <<store, docs, question, profile, met, paid, writeFaults, deaths>>
  BY DEF Shelf!Advance, Shelf!limits
<1>2. /\ \A c : ~Shelf!Completing(r, c)
      /\ \A i \in DOMAIN docs[r] : Shelf!Published(docs[r][i])
      /\ \A u \in paid[r] : Shelf!FetchKey(u) \in Shelf!Stored
      /\ Shelf!ShelfRunInv(r) /\ Shelf!PhaseInv(r) /\ Shelf!DocsInv(r) /\ question[r] \in Questions
      /\ docs[r] \in Seq(Shelf!Documents)
  BY <1>1, IdleFacts
<1>3. /\ todo \in [Runs -> Seq(Shelf!Jobs)]
      /\ node \in [Runs -> {"Fetch", "ParseAndNormalize", "StoreEvidence"}]
      /\ at \in [Runs -> {"idle", "ready", "call", "write", "done", "refused", "failed", "dead"}]
  BY DEF Shelf!ShelfInv, Shelf!ShelfTypeOK
<1>4. \A i \in DOMAIN docs'[r] : Shelf!Published(docs[r][i])'
  <2> TAKE i \in DOMAIN docs'[r]
  <2>1. PICK d : d = docs'[r][i] OBVIOUS
  <2>2. Shelf!Published(d) BY <1>1, <1>2, <2>1
  <2>3. Shelf!Published(d)' BY <1>1, <2>2 DEF Shelf!Published, Shelf!Stored
  <2> QED BY <2>1, <2>3 DEF Shelf!Published, Shelf!FetchKey
<1>5. ASSUME todo'[r] \in Seq(Shelf!Jobs), at'[r] \in {"ready", "done"}, Shelf!ShelfRunInv(r)',
             \A s \in Runs : s # r => todo'[s] = todo[s] /\ node'[s] = node[s] /\ at'[s] = at[s],
             Shelf!ShelfTypeOK'
      PROVE  Shelf!ShelfInv'
  <2>1. Acts(r) /\ Others(r) /\ Gathers
    BY <1>1, <1>5 DEF Acts, Others, SameWork, Gathers, Grows, Shelf!Stored
  <2>2. \A s \in Runs : s # r => NewFor(s) BY <1>1 DEF NewFor, Shelf!Stored
  <2>3. \A s \in Runs : s # r /\ Shelf!Working(s) => {r, s} \in met'
    BY <1>1 DEF Shelf!ShelfInv, Shelf!TogetherInv, Shelf!Working
  <2>4. Step(r) BY <1>1, <1>5, <2>1, <2>2, <2>3 DEF Step, Shelf!Stored
  <2> QED BY <1>5, <2>4, Assemble
<1>6. CASE /\ node' = [node EXCEPT ![r] = "ParseAndNormalize"] /\ at' = at
           /\ todo' = [todo EXCEPT ![r] = [i \in DOMAIN docs[r] |-> <<Shelf!ParseKey(r, docs[r][i])>>]]
  <2> DEFINE t == [i \in DOMAIN docs[r] |-> <<Shelf!ParseKey(r, docs[r][i])>>]
  <2>1. /\ t \in Seq(Shelf!Jobs) /\ Len(t) \in Nat
        /\ \A i \in 1..Len(t) :
              t[i] \in Shelf!Lookups("ParseAndNormalize") /\ t[i][1][2][1] = profile[r]
    <3>1. PICK x : x = t OBVIOUS
    <3>2. x = [i \in DOMAIN docs[r] |-> <<Shelf!ParseKey(r, docs[r][i])>>] BY <3>1
    <3> HIDE DEF t
    <3>3. /\ x \in Seq(Shelf!Jobs) /\ Len(x) \in Nat
          /\ \A i \in 1..Len(x) :
                x[i] \in Shelf!Lookups("ParseAndNormalize") /\ x[i][1][2][1] = profile[r]
      BY <1>2, <3>2, ParsesTyped, RunFacts
    <3> QED BY <3>1, <3>3
  <2>2. todo' = [todo EXCEPT ![r] = t] BY <1>6
  <2> HIDE DEF t
  <2>3. /\ todo'[r] = t /\ node'[r] = "ParseAndNormalize" /\ at'[r] = "ready"
        /\ \A s \in Runs : s # r => todo'[s] = todo[s] /\ node'[s] = node[s] /\ at'[s] = at[s]
    BY <1>1, <1>3, <1>6, <2>2
  <2>4. Shelf!ShelfTypeOK'
    <3>1. todo' \in [Runs -> Seq(Shelf!Jobs)] BY <1>3, <2>1, <2>2
    <3>2. node' \in [Runs -> {"Fetch", "ParseAndNormalize", "StoreEvidence"}] BY <1>3, <1>6
    <3> QED BY <1>1, <1>6, <3>1, <3>2 DEF Shelf!ShelfInv, Shelf!ShelfTypeOK, Shelf!Stored
  <2>5. Shelf!LookupPhase(r)'
    BY <1>1, <2>1, <2>3 DEF Shelf!LookupPhase, Shelf!OnlyLookups, Shelf!Own, Shelf!Lookups
  <2>6. Shelf!ShelfRunInv(r)'
    <3>1. \A u \in paid'[r] : Shelf!FetchKey(u) \in Shelf!Stored' BY <1>1, <1>2 DEF Shelf!Stored
    <3> QED BY <1>1, <1>2, <1>4, <2>1, <2>3, <2>5, <3>1, LookupRun
  <2> QED BY <1>5, <2>1, <2>3, <2>4, <2>6
<1>7. CASE /\ node' = [node EXCEPT ![r] = "StoreEvidence"] /\ at' = at
           /\ todo' = [todo EXCEPT ![r] = Shelf!Filing(r)]
  <2>1. /\ todo'[r] = Shelf!Filing(r) /\ node'[r] = "StoreEvidence" /\ at'[r] = "ready"
        /\ \A s \in Runs : s # r => todo'[s] = todo[s] /\ node'[s] = node[s] /\ at'[s] = at[s]
    BY <1>1, <1>3, <1>7
  <2>2. Shelf!Filing(r) \in Seq(Shelf!Jobs) /\ Len(Shelf!Filing(r)) \in Nat BY <1>2, FilingTyped
  <2>3. Shelf!Filing(r)' = Shelf!Filing(r) BY <1>1, FilingSame
  <2>4. Shelf!ShelfTypeOK'
    <3>1. todo' \in [Runs -> Seq(Shelf!Jobs)] BY <1>3, <1>7, <2>2
    <3>2. node' \in [Runs -> {"Fetch", "ParseAndNormalize", "StoreEvidence"}] BY <1>3, <1>7
    <3> QED BY <1>1, <1>7, <3>1, <3>2 DEF Shelf!ShelfInv, Shelf!ShelfTypeOK, Shelf!Stored
  <2>5. Shelf!FilingPhase(r, 0)'
    <3>1. \A i \in 1..0 : FALSE OBVIOUS
    <3>2. \A i \in 1..Len(todo'[r]) : 0 + i = i OBVIOUS
    <3>3. Len(todo'[r]) = Len(Shelf!Filing(r)) - 0 BY <2>1, <2>2
    <3> QED BY <2>1, <2>3, <3>1, <3>2, <3>3 DEF Shelf!FilingPhase
  <2>6. Shelf!PhaseInv(r)'
    <3>1. 0 \in 0..Len(Shelf!Filing(r)') BY <2>2, <2>3
    <3> QED BY <2>5, <3>1 DEF Shelf!PhaseInv
  <2>7. \A c : ~Shelf!Completing(r, c)'
    BY <2>1 DEF Shelf!Completing, Shelf!ArtifactPhase, Shelf!PublishPhase
  <2>8. Shelf!DocsInv(r)' BY <1>4 DEF Shelf!DocsInv
  <2>9. Shelf!StepInv(r)' BY <1>1, <1>2, <2>1 DEF Shelf!StepInv
  <2>10. Shelf!PaidInv(r)'
    <3>1. \A u : ~Shelf!Pending(r, u)' BY <2>1 DEF Shelf!Pending
    <3>2. \A u \in paid'[r] : Shelf!FetchKey(u) \in Shelf!Stored' BY <1>1, <1>2 DEF Shelf!Stored
    <3> QED BY <3>1, <3>2 DEF Shelf!PaidInv, Shelf!FetchKey
  <2>11. Shelf!RaceInv(r)' BY <2>1, <2>7 DEF Shelf!RaceInv, Shelf!Answering
  <2>12. Shelf!ShelfRunInv(r)' BY <2>6, <2>8, <2>9, <2>10, <2>11 DEF Shelf!ShelfRunInv
  <2> QED BY <1>5, <2>1, <2>2, <2>4, <2>12
<1>8. CASE at' = [at EXCEPT ![r] = "done"] /\ node' = node /\ todo' = todo
  <2>1. /\ at'[r] = "done"
        /\ \A s \in Runs : s # r => todo'[s] = todo[s] /\ node'[s] = node[s] /\ at'[s] = at[s]
    BY <1>3, <1>8
  <2>2. Shelf!ShelfTypeOK'
    BY <1>1, <1>3, <1>8 DEF Shelf!ShelfInv, Shelf!ShelfTypeOK, Shelf!Stored
  <2>3. SameWork(r) /\ Grows BY <1>1, <1>8 DEF SameWork, Grows, Shelf!Stored
  <2>4. Shelf!PhaseInv(r)' /\ Shelf!DocsInv(r)' BY <1>2, <2>3, PhaseFrame, DocsFrame
  <2>5. Shelf!StepInv(r)' BY <1>1, <1>2, <2>1 DEF Shelf!StepInv
  <2>6. Shelf!PaidInv(r)'
    <3>1. \A u : Shelf!Pending(r, u)' => Shelf!Pending(r, u) BY <1>8, PhasesSame
    <3>2. \A u : ~Shelf!Pending(r, u) BY <1>2 DEF Shelf!Pending
    <3>3. \A u \in paid'[r] : Shelf!FetchKey(u) \in Shelf!Stored' BY <1>1, <1>2 DEF Shelf!Stored
    <3> QED BY <3>1, <3>2, <3>3 DEF Shelf!PaidInv, Shelf!FetchKey
  <2>7. Shelf!RaceInv(r)' BY <2>1 DEF Shelf!RaceInv, Shelf!Answering, Shelf!Working
  <2>8. Shelf!ShelfRunInv(r)' BY <2>4, <2>5, <2>6, <2>7 DEF Shelf!ShelfRunInv
  <2> QED BY <1>1, <1>3, <1>5, <1>8, <2>1, <2>2, <2>8
<1> QED BY <1>6, <1>7, <1>8 DEF Shelf!Advance, Shelf!Goto

-----------------------------------------------------------------------------
\* The stores begin empty, the runs idle.
LEMMA ShelfInit == Shelf!Init => Shelf!ShelfInv
<1> SUFFICES ASSUME Shelf!Init PROVE Shelf!ShelfInv
  OBVIOUS
<1>1. /\ store = <<>> /\ at = [r \in Runs |-> "idle"] /\ node = [r \in Runs |-> "Fetch"]
      /\ todo = [r \in Runs |-> <<>>] /\ docs = todo
      /\ question = [r \in Runs |-> Shelf!Absent] /\ profile \in [Runs -> Profiles]
      /\ paid = [r \in Runs |-> {}] /\ met = {} /\ writeFaults = 0 /\ deaths = 0
  BY DEF Shelf!Init
<1>2. Shelf!Stored = {}
  <2>1. DOMAIN <<>> = {} OBVIOUS
  <2> QED BY <1>1, <2>1 DEF Shelf!Stored
<1>3. Shelf!ShelfTypeOK
  <2>1. store \in [Shelf!Stored -> Shelf!Values]
    <3>1. <<>> \in [{} -> Shelf!Values] OBVIOUS
    <3> QED BY <1>1, <1>2, <3>1
  <2>2. \A S : <<>> \in Seq(S) OBVIOUS
  <2>3. todo \in [Runs -> Seq(Shelf!Jobs)] /\ docs \in [Runs -> Seq(Shelf!Documents)] BY <1>1, <2>2
  <2> QED BY <1>1, <1>2, <2>1, <2>3 DEF Shelf!ShelfTypeOK
<1>4. ASSUME NEW r \in Runs PROVE Shelf!ShelfRunInv(r)
  <2>1. /\ at[r] = "idle" /\ node[r] = "Fetch" /\ todo[r] = <<>> /\ docs[r] = <<>>
        /\ question[r] = Shelf!Absent /\ paid[r] = {}
    BY <1>1
  <2>2. Len(todo[r]) = 0 /\ DOMAIN docs[r] = {}
    <3>1. Len(<<>>) = 0 /\ DOMAIN <<>> = {} OBVIOUS
    <3> QED BY <2>1, <3>1
  <2>3. Shelf!LookupPhase(r) BY <2>1, <2>2 DEF Shelf!LookupPhase, Shelf!OnlyLookups
  <2>4. \A c : ~Shelf!Completing(r, c)
    BY <2>2 DEF Shelf!Completing, Shelf!ArtifactPhase, Shelf!PublishPhase
  <2>5. Shelf!PhaseInv(r) BY <2>3 DEF Shelf!PhaseInv
  <2>6. Shelf!DocsInv(r) BY <2>2 DEF Shelf!DocsInv
  <2>7. Shelf!StepInv(r) BY <2>1 DEF Shelf!StepInv
  <2>8. Shelf!PaidInv(r) BY <2>1, <2>4 DEF Shelf!PaidInv, Shelf!Pending
  <2>9. Shelf!RaceInv(r) BY <1>2 DEF Shelf!RaceInv
  <2> QED BY <2>5, <2>6, <2>7, <2>8, <2>9 DEF Shelf!ShelfRunInv
<1>5. Shelf!TogetherInv BY <1>1 DEF Shelf!TogetherInv, Shelf!Working
<1>6. Shelf!FetchedAgainForCause /\ Shelf!RefusedForCause
  BY <1>1 DEF Shelf!FetchedAgainForCause, Shelf!RefusedForCause
<1> QED BY <1>2, <1>3, <1>4, <1>5, <1>6 DEF Shelf!ShelfInv

\* A step of others changes nothing here.
LEMMA ShelfStutter == Shelf!ShelfInv /\ UNCHANGED Shelf!vars => Shelf!ShelfInv'
<1> SUFFICES ASSUME Shelf!ShelfInv, UNCHANGED Shelf!vars PROVE Shelf!ShelfInv'
  OBVIOUS
<1>1. UNCHANGED <<store, at, node, todo, docs, question, profile, paid, met, writeFaults, deaths>>
  BY DEF Shelf!vars, Shelf!work, Shelf!limits
<1>2. Shelf!Stored' = Shelf!Stored BY <1>1 DEF Shelf!Stored
<1>3. Shelf!ShelfTypeOK' BY <1>1, <1>2 DEF Shelf!ShelfInv, Shelf!ShelfTypeOK
<1>4. Shelf!TogetherInv'
  BY <1>1 DEF Shelf!ShelfInv, Shelf!TogetherInv, Shelf!Working, Shelf!Key, Shelf!Job
<1>5. Gathers /\ Grows BY <1>1, <1>2 DEF Gathers, Grows
<1>6. \A k \in Shelf!Stored' : Shelf!FileInv(k)'
  BY <1>2, <1>5, FileStays DEF Shelf!ShelfInv
<1>7. \A r \in Runs : Shelf!ShelfRunInv(r)'
  <2> TAKE r \in Runs
  <2>1. SameWork(r) /\ at'[r] = at[r] /\ met \subseteq met' /\ NewFor(r)
    BY <1>1, <1>2 DEF SameWork, NewFor
  <2> QED BY <1>5, <2>1, RunFrame DEF Shelf!ShelfInv
<1>8. Shelf!FetchedAgainForCause'
  <2>1. \A s \in Runs : \A u : Shelf!Lost(s, u) => Shelf!Lost(s, u)'
    BY <1>1 DEF Shelf!Lost, Shelf!FetchKey
  <2>2. ASSUME NEW s \in Runs, NEW t \in Runs, s # t, NEW u \in paid[s] \cap paid[t]
        PROVE  {s, t} \in met \/ Shelf!Lost(s, u)' \/ Shelf!Lost(t, u)'
    BY <2>1, <2>2 DEF Shelf!ShelfInv, Shelf!FetchedAgainForCause
  <2>3. paid' = paid /\ met' = met BY <1>1
  <2> QED BY SMTT(40), <2>2, <2>3 DEF Shelf!FetchedAgainForCause, Shelf!Lost, Shelf!FetchKey
<1>9. Shelf!RefusedForCause'
  <2>1. ASSUME NEW s \in Runs, at'[s] = "refused" PROVE Cause(s)'
    <3>1. at[s] = "refused" /\ todo'[s] = todo[s] BY <1>1, <2>1
    <3>2. Cause(s) BY <3>1 DEF Shelf!ShelfInv, Shelf!RefusedForCause, Cause
    <3> QED BY <1>5, <3>1, <3>2, CauseStays
  <2> QED
    BY <2>1
       DEF Shelf!RefusedForCause, Cause, Shelf!Key, Shelf!Job, Shelf!Company, Shelf!Alias,
           Shelf!Retrieved, Shelf!Asked
<1> QED BY <1>3, <1>4, <1>6, <1>7, <1>8, <1>9 DEF Shelf!ShelfInv

\* The invariant holds throughout.
LEMMA ShelfInvariance == Shelf!Spec => []Shelf!ShelfInv
<1>1. Shelf!ShelfInv /\ [Shelf!Next]_(Shelf!vars) => Shelf!ShelfInv'
  <2> SUFFICES ASSUME Shelf!ShelfInv, [Shelf!Next]_(Shelf!vars) PROVE Shelf!ShelfInv'
    OBVIOUS
  <2>1. CASE UNCHANGED Shelf!vars BY <2>1, ShelfStutter
  <2>2. CASE Shelf!Next
    <3>1. PICK r \in Runs :
            \/ Shelf!Start(r) \/ Shelf!Hit(r) \/ Shelf!Miss(r) \/ Shelf!Fetched(r)
            \/ Shelf!Parsed(r) \/ Shelf!Put(r)
            \/ Shelf!LockTimeout(r) \/ Shelf!Replace(r) \/ Shelf!WriteFails(r) \/ Shelf!Advance(r)
            \/ Shelf!Die(r)
      BY <2>2 DEF Shelf!Next
    <3>2. profile' = profile BY <2>2 DEF Shelf!Next
    <3> QED BY <3>1, <3>2, StartStep, HitStep, MissStep, FetchedStep, ParsedStep, PutStep, EndStep,
               ReplaceStep, AdvanceStep
  <2> QED BY <2>1, <2>2
<1> QED BY <1>1, ShelfInit, PTL DEF Shelf!Spec

\* The stores stay sound whatever the runs that share them do and wherever they
\* fail or die: what is on disk rests on what is on disk, a page is paid for
\* again under one provider profile and a run refused only for the causes named (put_if_absent, put_bytes,
\* put_source, put_parsed_document, put_evidence, _publish_completion_cache).
THEOREM StoresAreSound == Shelf!Spec => []StoresSound
<1>1. Shelf!ShelfInv => StoresSound
  <2> SUFFICES ASSUME Shelf!ShelfInv PROVE StoresSound
    OBVIOUS
  <2>1. ASSUME NEW k \in Shelf!Stored
        PROVE  /\ k[1] \in {"fetch", "parse"} => Shelf!Artifact(store[k].of) \in Shelf!Stored
               /\ Shelf!Founded(k, store[k])
               /\ k[1] = "source" => Shelf!Artifact(store[k].doc) \in Shelf!Stored
    <3>1. Shelf!FileInv(k) BY DEF Shelf!ShelfInv
    <3>2. ASSUME k[1] = "source" PROVE Shelf!Artifact(store[k].doc) \in Shelf!Stored
      <4>1. PICK d : d = store[k].doc OBVIOUS
      <4>2. Shelf!Published(d) BY <3>1, <3>2, <4>1 DEF Shelf!FileInv, Shelf!SourceFile
      <4>3. PICK f : f = Shelf!FetchKey(d.by[2]) OBVIOUS
      <4>4. f \in Shelf!Stored /\ store[f].of = d /\ f[1] = "fetch"
        BY <4>2, <4>3 DEF Shelf!Published, Shelf!FetchKey
      <4>5. Shelf!FileInv(f) BY <4>4 DEF Shelf!ShelfInv
      <4> QED BY <4>1, <4>4, <4>5 DEF Shelf!FileInv
    <3> QED BY <3>1, <3>2 DEF Shelf!FileInv
  <2>2. Shelf!StoresRest BY <2>1 DEF Shelf!StoresRest
  <2> QED BY <2>2 DEF Shelf!ShelfInv, StoresSound, Shelf!StoresSound
<1> QED BY <1>1, ShelfInvariance, PTL
=============================================================================
