-------------------------- MODULE StateFilesProofs --------------------------
(***************************************************************************)
(* Proofs about StateFiles, for any jobs, groups, payloads and number of   *)
(* goroutines that merge.                                                  *)
(***************************************************************************)
EXTENDS StateFiles, TLAPS

\* Who has callbacks to call holds the lock, and the store has his entry.
HolderCalls(c) ==
  calls[c] # {} =>
    /\ lock = c
    /\ job[c] \in Jobs
    /\ entry[c] \in Entry
    /\ store[job[c]] = entry[c]

\* A job whose file is about to change is not taken to be synced.
PendingUnsynced(c) ==
  calls[c] \cap {"state", "write"} # {} => job[c] \notin synced

\* Only an active entry has a file written for it, and once.
WritesActive(c) ==
  "write" \in calls[c] => entry[c].status = "Active" /\ "state" \notin calls[c]

\* The group last written is in the file, or in the .bak file alone.
KeptOnDisk(j) ==
  kept[j] # NoGroup => \/ file[j] = kept[j]
                       \/ file[j] = NoFile /\ bak[j] = kept[j]

FilesInv ==
  /\ TypeOK
  /\ \A c \in Callers : HolderCalls(c) /\ PendingUnsynced(c) /\ WritesActive(c)
  /\ FilesMatchStore
  /\ \A j \in Jobs : KeptOnDisk(j)

LEMMA PayloadType == Payloads \subseteq EntryMap
  BY StateFilesAssumption DEF Payloads, EntryMap

\* An entry's status tells whether it has a group.
LEMMA EntryKinds ==
  ASSUME NEW e \in Entry
  PROVE  /\ e.status = "Active" => e.group \in Groups
         /\ e.status # "Active" => e.status = "Inactive" /\ e.group = NoGroup
         /\ e # Absent
  BY DEF Entry, ActiveEntry, Tombstone, Absent

\* A step that touches neither the disk, nor the store, nor what is known
\* about them, and calls at most fewer callbacks.
LEMMA QuietSteps ==
  ASSUME FilesInv, UNCHANGED <<store, job, entry, disk, history>>,
         rest' \in [Callers -> EntryMap], lock' \in Callers \cup {Free},
         up' \in BOOLEAN, dryRun' \in BOOLEAN, callbacks' \in SUBSET Callbacks,
         calls' \in [Callers -> SUBSET Calls],
         \A c \in Callers : calls'[c] \subseteq calls[c],
         \A c \in Callers : calls'[c] # {} => lock' = lock
  PROVE  FilesInv'
<1>1. TypeOK'
  BY DEF FilesInv, TypeOK, disk, history
<1>2. ASSUME NEW c \in Callers
      PROVE  (HolderCalls(c) /\ PendingUnsynced(c) /\ WritesActive(c))'
  <2>1. HolderCalls(c) /\ PendingUnsynced(c) /\ WritesActive(c)
    BY DEF FilesInv
  <2>2. calls'[c] \subseteq calls[c] /\ (calls'[c] # {} => lock' = lock)
    OBVIOUS
  <2>3. HolderCalls(c)'
    BY <2>1, <2>2 DEF HolderCalls
  <2>4. PendingUnsynced(c)'
    BY <2>1, <2>2 DEF PendingUnsynced, history
  <2>5. WritesActive(c)'
    BY <2>1, <2>2 DEF WritesActive
  <2> QED BY <2>3, <2>4, <2>5
<1>3. FilesMatchStore' /\ \A j \in Jobs : KeptOnDisk(j)'
  BY DEF FilesInv, FilesMatchStore, Matches, KeptOnDisk, disk, history
<1> QED BY <1>1, <1>2, <1>3 DEF FilesInv

\* What the caller does to its own job's files leaves all others alone.
LEMMA DiskSteps ==
  ASSUME FilesInv, NEW c \in Callers, calls[c] # {},
         UNCHANGED <<process, store, merging>>,
         file' \in [Jobs -> File], bak' \in [Jobs -> File],
         synced' \in SUBSET Jobs, kept' \in [Jobs -> Groups \cup {NoGroup}],
         calls' = [calls EXCEPT ![c] = calls'[c]],
         calls'[c] \in SUBSET Calls,
         \A j \in Jobs \ {job[c]} : /\ file'[j] = file[j] /\ bak'[j] = bak[j]
                                    /\ kept'[j] = kept[j]
                                    /\ j \in synced' => j \in synced,
         (job[c] \in synced' => Matches(job[c])') /\ KeptOnDisk(job[c])',
         "write" \in calls'[c] => /\ file'[job[c]] = Cut
                                  /\ entry[c].status = "Active"
                                  /\ "state" \notin calls'[c],
         calls'[c] \cap {"state", "write"} # {} => job[c] \notin synced'
  PROVE  FilesInv'
<1>1. lock = c /\ job[c] \in Jobs
  BY DEF FilesInv, HolderCalls
<1>2. ASSUME NEW d \in Callers, d # c
      PROVE  calls[d] = {} /\ calls'[d] = {}
  BY <1>1, <1>2 DEF FilesInv, HolderCalls, TypeOK
<1>3. calls' \in [Callers -> SUBSET Calls]
  BY DEF FilesInv, TypeOK
<1>4. TypeOK'
  BY <1>2, <1>3 DEF FilesInv, TypeOK, process, merging
<1>5. ASSUME NEW d \in Callers
      PROVE  (HolderCalls(d) /\ PendingUnsynced(d) /\ WritesActive(d))'
  BY <1>2
  DEF FilesInv, HolderCalls, PendingUnsynced, WritesActive, merging
<1>6. job' = job /\ store' = store
  BY DEF merging
<1>7. FilesMatchStore'
  <2> SUFFICES ASSUME NEW j \in synced'
               PROVE  Matches(j)'
    BY DEF FilesMatchStore
  <2>1. CASE j = job[c]
    BY <1>6, <2>1
  <2>2. CASE j # job[c]
    <3>1. j \in synced /\ file'[j] = file[j]
      BY <2>2
    <3>2. Matches(j)
      BY <3>1 DEF FilesInv, FilesMatchStore
    <3> QED BY <1>6, <3>1, <3>2 DEF Matches
  <2> QED BY <2>1, <2>2
<1>8. ASSUME NEW j \in Jobs
      PROVE  KeptOnDisk(j)'
  <2>1. CASE j = job[c]
    BY <1>6, <2>1
  <2>2. CASE j # job[c]
    BY <2>2 DEF FilesInv, KeptOnDisk
  <2> QED BY <2>1, <2>2
<1> QED BY <1>4, <1>5, <1>7, <1>8 DEF FilesInv

\* An accepted entry: its job is synced when the callbacks are through.
LEMMA StoresKeeps ==
  ASSUME FilesInv, NEW c \in Callers, NEW j \in Jobs, Accepts(c, j)
  PROVE  FilesInv'
<1> USE DEF Accepts, Stores, Decoded
<1>1. rest[c] \in EntryMap /\ rest[c][j] \in Entry /\ lock = c
  BY DEF FilesInv, TypeOK, EntryMap
<1>2. ASSUME NEW d \in Callers, d # c
      PROVE  calls[d] = {} /\ calls'[d] = {}
  BY <1>1, <1>2 DEF FilesInv, HolderCalls, TypeOK
<1>3. calls'[c] = callbacks /\ "write" \notin callbacks
  <2>1. callbacks \subseteq Callbacks /\ calls \in [Callers -> SUBSET Calls]
    BY DEF FilesInv, TypeOK
  <2>2. calls' = [calls EXCEPT ![c] = callbacks]
    OBVIOUS
  <2> QED BY <2>1, <2>2 DEF Callbacks
<1>4. /\ rest' \in [Callers -> EntryMap]
      /\ store' \in EntryMap
  <2>1. rest \in [Callers -> EntryMap] /\ store \in EntryMap
    BY DEF FilesInv, TypeOK
  <2>2. [rest[c] EXCEPT ![j] = Absent] \in EntryMap
    BY <1>1 DEF EntryMap
  <2>3. rest' = [rest EXCEPT ![c] = [rest[c] EXCEPT ![j] = Absent]]
    OBVIOUS
  <2>4. rest' \in [Callers -> EntryMap]
    BY <2>1, <2>2, <2>3
  <2>5. store' \in EntryMap
    BY <1>1, <2>1 DEF EntryMap
  <2> QED BY <2>4, <2>5
<1>5. TypeOK'
  <2>1. calls' \in [Callers -> SUBSET Calls]
    BY DEF FilesInv, TypeOK, Calls
  <2>2. \A d \in Callers : "write" \notin calls'[d]
    BY <1>2, <1>3
  <2> QED BY <1>1, <1>4, <2>1, <2>2 DEF FilesInv, TypeOK, process, disk
<1>6. ASSUME NEW d \in Callers
      PROVE  (HolderCalls(d) /\ PendingUnsynced(d) /\ WritesActive(d))'
  <2>1. CASE d # c
    BY <1>2, <2>1 DEF HolderCalls, PendingUnsynced, WritesActive
  <2>2. CASE d = c
    <3>1. /\ lock' = c /\ job'[c] = j /\ entry'[c] = rest[c][j]
          /\ store'[j] = rest[c][j]
      BY <1>1 DEF FilesInv, TypeOK, EntryMap
    <3> QED BY <1>1, <1>3, <2>2, <3>1
            DEF HolderCalls, PendingUnsynced, WritesActive
  <2> QED BY <2>1, <2>2
<1>7. FilesMatchStore'
  BY DEF FilesInv, TypeOK, EntryMap, FilesMatchStore, Matches, disk
<1>8. \A i \in Jobs : KeptOnDisk(i)'
  BY DEF FilesInv, KeptOnDisk, disk
<1> QED BY <1>5, <1>6, <1>7, <1>8 DEF FilesInv

\* The empty memory of a new or a dead process.
LEMMA NothingInMemory ==
  ASSUME up \in BOOLEAN, dryRun \in BOOLEAN, callbacks = {}, store = NoEntries,
         lock = Free, rest = [c \in Callers |-> NoEntries],
         job = [c \in Callers |-> NoJob], entry = [c \in Callers |-> Absent],
         calls = [c \in Callers |-> {}],
         file \in [Jobs -> File], bak \in [Jobs -> File],
         synced = {}, kept = [j \in Jobs |-> NoGroup]
  PROVE  FilesInv
<1>1. TypeOK
  BY DEF TypeOK, NoEntries, EntryMap
<1> QED BY <1>1 DEF FilesInv, HolderCalls, PendingUnsynced, WritesActive,
                    FilesMatchStore, KeptOnDisk

\* The inductive invariant: merges exclude each other, the newest entry of a
\* job is on the disk once its callbacks are through, and what was written
\* last is still there.
THEOREM FilesConsistent == Spec => []FilesInv
<1>1. Init => FilesInv
  BY NothingInMemory DEF Init, File
<1>2. FilesInv /\ [Next]_vars => FilesInv'
  <2> SUFFICES ASSUME FilesInv, [Next]_vars
               PROVE  FilesInv'
    OBVIOUS
  <2>1. CASE UNCHANGED vars
    BY <2>1, QuietSteps DEF vars, process, merging, FilesInv, TypeOK
  <2>2. CASE Starts
    BY <2>2, QuietSteps DEF Starts, merging, FilesInv, TypeOK
  <2>3. ASSUME NEW cb \in Callbacks, AddCallback(cb)
        PROVE  FilesInv'
    BY <2>3, QuietSteps DEF AddCallback, merging, FilesInv, TypeOK
  <2>4. CASE Crash
    <3>1. file' \in [Jobs -> File] /\ bak' \in [Jobs -> File]
      BY <2>4 DEF Crash, disk, FilesInv, TypeOK
    <3>2. FilesInv'
      BY <2>4, <3>1
      DEF Crash, FilesInv, TypeOK, NoEntries, EntryMap, HolderCalls,
          PendingUnsynced, WritesActive, FilesMatchStore, KeptOnDisk
    <3> QED BY <3>2
  <2>5. ASSUME NEW c \in Callers, NEW payload \in Payloads,
               MergeBegins(c, payload)
        PROVE  FilesInv'
    <3>1. \A d \in Callers : calls[d] = {}
      BY <2>5, StateFilesAssumption
      DEF MergeBegins, FilesInv, HolderCalls
    <3>2. rest' \in [Callers -> EntryMap]
      BY <2>5, PayloadType DEF MergeBegins, FilesInv, TypeOK
    <3> QED BY <2>5, <3>1, <3>2, QuietSteps
            DEF MergeBegins, process, FilesInv, TypeOK
  <2>6. ASSUME NEW c \in Callers, NEW j \in Jobs, Accepts(c, j)
        PROVE  FilesInv'
    BY <2>6, StoresKeeps
  <2>7. ASSUME NEW c \in Callers, NEW j \in Jobs, Refuses(c, j)
        PROVE  FilesInv'
    <3>1. rest' \in [Callers -> EntryMap]
      BY <2>7 DEF Refuses, Decoded, FilesInv, TypeOK, EntryMap
    <3> QED BY <2>7, <3>1, QuietSteps
            DEF Refuses, Decoded, process, disk, history, FilesInv, TypeOK
  <2>8. ASSUME NEW c \in Callers, MergeEnds(c)
        PROVE  FilesInv'
    <3>1. \A d \in Callers : calls[d] = {}
      BY <2>8 DEF MergeEnds, FilesInv, HolderCalls
    <3>2. TypeOK'
      BY <2>8, <3>1
      DEF MergeEnds, process, disk, history, FilesInv, TypeOK
    <3> QED BY <2>8, <3>1, <3>2
            DEF MergeEnds, process, disk, history, FilesInv, HolderCalls,
                PendingUnsynced, WritesActive, FilesMatchStore, Matches,
                KeptOnDisk
  <2>9. ASSUME NEW c \in Callers, Coordinates(c)
        PROVE  FilesInv'
    BY <2>9, QuietSteps
    DEF Coordinates, Called, process, merging, FilesInv, TypeOK
  <2>10. ASSUME NEW c \in Callers, CoordinatePanics(c)
         PROVE  FilesInv'
    BY <2>4, <2>10 DEF CoordinatePanics
  <2>11. ASSUME NEW c \in Callers,
                Opens(c) \/ Writes(c) \/ Renames(c) \/ FileFails(c)
         PROVE  FilesInv'
    <3>1. /\ calls[c] # {} /\ job[c] \in Jobs /\ entry[c] \in Entry
          /\ store[job[c]] = entry[c]
          /\ job[c] \notin synced
          /\ WritesActive(c)
      BY <2>11 DEF Opens, Writes, Renames, FileFails, Calling, FilesInv,
                   HolderCalls, PendingUnsynced
    <3>2. /\ entry[c].status = "Active" => entry[c].group \in Groups
          /\ entry[c].status # "Active" => entry[c].status = "Inactive"
      BY <3>1, EntryKinds
    <3> DEFINE j == job[c]
    <3>3. /\ file \in [Jobs -> File] /\ bak \in [Jobs -> File]
          /\ kept \in [Jobs -> Groups \cup {NoGroup}]
          /\ synced \in SUBSET Jobs
          /\ calls \in [Callers -> SUBSET Calls]
          /\ "write" \in calls[c] => file[j] = Cut
          /\ KeptOnDisk(j)
      BY <3>1 DEF FilesInv, TypeOK
    <3>4. CASE Opens(c)
      <4>1. /\ UNCHANGED <<process, store, merging, bak, synced>>
            /\ file' = [file EXCEPT ![j] = Cut]
            /\ kept' = [kept EXCEPT ![j] = NoGroup]
            /\ calls' = [calls EXCEPT ![c] = (calls[c] \ {"state"}) \cup {"write"}]
            /\ entry[c].status = "Active" /\ "state" \notin calls'[c]
        BY <3>3, <3>4 DEF Opens, Damages, Truncated
      <4>2. file' \in [Jobs -> File] /\ kept' \in [Jobs -> Groups \cup {NoGroup}]
        BY <3>3, <4>1 DEF File
      <4>3. calls' = [calls EXCEPT ![c] = calls'[c]] /\ calls'[c] \in SUBSET Calls
        BY <3>3, <4>1 DEF Calls
      <4>4. \A i \in Jobs \ {j} : file'[i] = file[i] /\ kept'[i] = kept[i]
        BY <3>3, <4>1
      <4>5. file'[j] = Cut /\ kept'[j] = NoGroup
        BY <3>1, <3>3, <4>1
      <4>6. j \notin synced' /\ KeptOnDisk(j)'
        BY <3>1, <4>1, <4>5 DEF KeptOnDisk, merging
      <4> QED BY <3>1, <3>3, <4>1, <4>2, <4>3, <4>4, <4>5, <4>6, DiskSteps
    <3>5. CASE Writes(c)
      <4>1. /\ UNCHANGED <<process, store, merging, bak>>
            /\ file' = [file EXCEPT ![j] = entry[c].group]
            /\ kept' = [kept EXCEPT ![j] = entry[c].group]
            /\ synced' = synced \cup {j}
            /\ calls' = [calls EXCEPT ![c] = calls[c] \ {"write"}]
            /\ "write" \in calls[c]
        BY <3>5 DEF Writes, Calling, Called
      <4>2. entry[c].status = "Active" /\ entry[c].group \in Groups
        BY <3>1, <3>2, <4>1 DEF WritesActive
      <4>3. /\ file' \in [Jobs -> File] /\ kept' \in [Jobs -> Groups \cup {NoGroup}]
            /\ synced' \in SUBSET Jobs
        BY <3>1, <3>3, <4>1, <4>2 DEF File
      <4>4. /\ calls' = [calls EXCEPT ![c] = calls'[c]] /\ calls'[c] \in SUBSET Calls
            /\ "write" \notin calls'[c]
        BY <3>3, <4>1
      <4>5. \A i \in Jobs \ {j} : /\ file'[i] = file[i] /\ kept'[i] = kept[i]
                                 /\ i \in synced' => i \in synced
        BY <3>3, <4>1
      <4>6. Matches(j)' /\ KeptOnDisk(j)'
        BY <3>1, <3>3, <4>1, <4>2 DEF Matches, KeptOnDisk, merging
      <4>7. calls'[c] \cap {"state", "write"} = {}
        BY <3>1, <3>3, <4>1 DEF WritesActive
      <4> QED BY <3>1, <3>3, <4>1, <4>3, <4>4, <4>5, <4>6, <4>7, DiskSteps
    <3>6. CASE Renames(c)
      <4>1. /\ UNCHANGED <<process, store, merging, kept>>
            /\ bak' = [bak EXCEPT ![j] = BackedUp(j)]
            /\ file' = [file EXCEPT ![j] = NoFile]
            /\ synced' = synced \cup {j}
            /\ calls' = [calls EXCEPT ![c] = calls[c] \ {"state"}]
            /\ "write" \notin calls[c]
            /\ entry[c].status # "Active"
        BY <3>6 DEF Renames, Calling, Called
      <4>2. BackedUp(j) \in File
        BY <3>1, <3>3 DEF BackedUp
      <4>3. /\ file' \in [Jobs -> File] /\ bak' \in [Jobs -> File]
            /\ synced' \in SUBSET Jobs
        BY <3>1, <3>3, <4>1, <4>2 DEF File
      <4>4. /\ calls' = [calls EXCEPT ![c] = calls'[c]] /\ calls'[c] \in SUBSET Calls
            /\ calls'[c] \cap {"state", "write"} = {}
        BY <3>3, <4>1
      <4>5. \A i \in Jobs \ {j} : /\ file'[i] = file[i] /\ bak'[i] = bak[i]
                                 /\ i \in synced' => i \in synced
        BY <3>3, <4>1
      <4>6. Matches(j)'
        BY <3>1, <3>3, <4>1 DEF Matches, merging
      <4>7. KeptOnDisk(j)'
        BY <3>1, <3>3, <4>1 DEF BackedUp, KeptOnDisk, merging
      <4> QED BY <3>1, <3>3, <4>1, <4>3, <4>4, <4>5, <4>6, <4>7, DiskSteps
    <3>7. CASE FileFails(c)
      <4>1. PICK call \in {"state", "write"} :
              /\ "write" \in calls[c] => call = "write"
              /\ calls' = [calls EXCEPT ![c] = calls[c] \ {call}]
        BY <3>7 DEF FileFails, Calling, Called
      <4>2. /\ UNCHANGED <<process, store, merging, file, bak, synced>>
            /\ kept' = [kept EXCEPT ![j] = NoGroup]
        BY <3>7 DEF FileFails, Damages, disk
      <4>3. kept' \in [Jobs -> Groups \cup {NoGroup}]
        BY <3>3, <4>2
      <4>4. /\ calls' = [calls EXCEPT ![c] = calls'[c]] /\ calls'[c] \in SUBSET Calls
            /\ "write" \notin calls'[c]
        BY <3>3, <4>1
      <4>5. \A i \in Jobs \ {j} : kept'[i] = kept[i]
        BY <3>3, <4>2
      <4>6. j \notin synced' /\ KeptOnDisk(j)'
        BY <3>1, <3>3, <4>2 DEF KeptOnDisk, merging
      <4> QED BY <3>1, <3>3, <4>2, <4>3, <4>4, <4>5, <4>6, DiskSteps
    <3> QED BY <2>11, <3>4, <3>5, <3>6, <3>7
  <2> QED BY <2>1, <2>2, <2>3, <2>4, <2>5, <2>6, <2>7, <2>8, <2>9, <2>10,
             <2>11 DEF Next
<1> QED BY <1>1, <1>2, PTL DEF Spec

\* The file of a synced job says what the store says.
THEOREM FilesCorrect == Spec => []FilesMatchStore
<1>1. FilesInv => FilesMatchStore
  BY DEF FilesInv
<1> QED BY <1>1, FilesConsistent, PTL

\* The group of a deleted job is in its .bak file unless something failed.
THEOREM BackupsKept == Spec => []BackupKept
<1>1. FilesInv => BackupKept
  <2> SUFFICES ASSUME FilesInv, NEW j \in synced, store[j].status = "Inactive",
                      kept[j] # NoGroup
               PROVE  bak[j] = kept[j]
    BY DEF BackupKept
  <2>1. j \in Jobs /\ kept[j] \in Groups
    BY DEF FilesInv, TypeOK
  <2>2. file[j] = NoFile
    BY DEF FilesInv, FilesMatchStore, Matches
  <2> QED BY <2>1, <2>2, StateFilesAssumption DEF FilesInv, KeptOnDisk
<1> QED BY <1>1, FilesConsistent, PTL

\* Type correctness: above all, whoever is about to write a state file has
\* truncated it and nobody has written it since (Generator.update).
THEOREM TypeCorrect == Spec => []TypeOK
<1>1. FilesInv => TypeOK
  BY DEF FilesInv
<1> QED BY <1>1, FilesConsistent, PTL

-----------------------------------------------------------------------------
(* Merges are atomic.                                                      *)

\* What is left of a payload is merged in the end, whatever part of it, in
\* whatever order, has been merged before.
LEMMA RestMerged ==
  ASSUME TypeOK, NEW c \in Callers, NEW j \in Jobs,
         Accepts(c, j) \/ Refuses(c, j)
  PROVE  Merge(store', rest'[c]) = Merge(store, rest[c])
<1>1. /\ rest[c] \in EntryMap /\ store \in EntryMap
      /\ rest'[c] = [rest[c] EXCEPT ![j] = Absent]
      /\ rest[c][j] # Absent
  BY DEF Accepts, Stores, Refuses, Decoded, TypeOK
<1>2. CASE Accepts(c, j)
  <2>1. store' = [store EXCEPT ![j] = rest[c][j]] /\ j \in Accepted(store, rest[c])
    BY <1>2 DEF Accepts, Stores
  <2>2. ASSUME NEW i \in Jobs, i # j
        PROVE  i \in Accepted(store', rest'[c]) <=> i \in Accepted(store, rest[c])
    BY <1>1, <2>1, <2>2 DEF Accepted, EntryMap
  <2>3. j \notin Accepted(store', rest'[c])
    BY <1>1 DEF Accepted, EntryMap
  <2> QED BY <1>1, <2>1, <2>2, <2>3 DEF Merge, EntryMap
<1>3. CASE Refuses(c, j)
  <2>1. store' = store /\ j \notin Accepted(store, rest[c])
    BY <1>3 DEF Refuses
  <2>2. ASSUME NEW i \in Jobs, i # j
        PROVE  i \in Accepted(store', rest'[c]) <=> i \in Accepted(store, rest[c])
    BY <1>1, <2>1, <2>2 DEF Accepted, EntryMap
  <2>3. j \notin Accepted(store', rest'[c])
    BY <1>1 DEF Accepted, EntryMap
  <2> QED BY <1>1, <2>1, <2>2, <2>3 DEF Merge, EntryMap
<1> QED BY <1>2, <1>3

\* A payload of which nothing is left to merge, or that has nothing in it.
LEMMA NothingMerged ==
  ASSUME NEW entries \in EntryMap
  PROVE  Merge(entries, NoEntries) = entries
BY DEF Merge, Accepted, NoEntries, EntryMap

\* Every step of the process is one of the atomic store or leaves it as it is:
\* a merge takes place when it gets the lock.
LEMMA AtomicSteps ==
  ASSUME TypeOK, [Next]_vars
  PROVE  \/ \E payload \in Payloads : Finished' = Merge(Finished, payload)
         \/ Finished' = NoEntries
         \/ Finished' = Finished
<1> DEFINE Goal == \/ \E payload \in Payloads : Finished' = Merge(Finished, payload)
                   \/ Finished' = NoEntries
                   \/ Finished' = Finished
<1>0. lock \in Callers \cup {Free} /\ Free \notin Callers
  BY StateFilesAssumption DEF TypeOK
<1>1. CASE UNCHANGED <<store, lock, rest>>
  BY <1>1 DEF Finished, Merge, Accepted
<1>2. CASE Crash
  BY <1>2 DEF Crash, Finished
<1>3. ASSUME NEW c \in Callers, NEW payload \in Payloads, MergeBegins(c, payload)
      PROVE  Goal
  <2>1. Finished = store
    BY <1>3 DEF MergeBegins, Finished
  <2>2. lock' = c /\ store' = store /\ rest'[c] = payload
    BY <1>3 DEF MergeBegins, TypeOK
  <2>3. Finished' = Merge(store, payload)
    BY <1>0, <2>2 DEF Finished, Merge, Accepted
  <2> QED BY <2>1, <2>3
<1>4. ASSUME NEW c \in Callers, NEW j \in Jobs, Accepts(c, j) \/ Refuses(c, j)
      PROVE  Goal
  <2>1. lock = c /\ lock' = c
    BY <1>4 DEF Accepts, Stores, Refuses, Decoded
  <2>2. Merge(store', rest'[c]) = Merge(store, rest[c])
    BY <1>4, RestMerged
  <2>3. Finished = Merge(store, rest[c])
    BY <1>0, <2>1 DEF Finished
  <2>4. Finished' = Merge(store', rest'[c])
    BY <1>0, <2>1 DEF Finished, Merge, Accepted
  <2> QED BY <2>2, <2>3, <2>4
<1>5. ASSUME NEW c \in Callers, MergeEnds(c)
      PROVE  Goal
  <2>1. lock = c /\ rest[c] = NoEntries /\ store' = store /\ lock' = Free
    BY <1>5 DEF MergeEnds
  <2>2. Finished = store
    BY <1>0, <2>1, NothingMerged DEF Finished, TypeOK
  <2> QED BY <2>1, <2>2 DEF Finished
<1>6. ASSUME NEW c \in Callers, CoordinatePanics(c)
      PROVE  Goal
  BY <1>2, <1>6 DEF CoordinatePanics
<1>7. ASSUME \/ Starts
             \/ \E cb \in Callbacks : AddCallback(cb)
             \/ \E c \in Callers : \/ Coordinates(c) \/ Opens(c) \/ Writes(c)
                                  \/ Renames(c) \/ FileFails(c)
             \/ UNCHANGED vars
      PROVE  Goal
  <2>1. UNCHANGED <<store, lock, rest>>
    BY <1>7 DEF Starts, AddCallback, Coordinates, Opens, Writes, Renames,
                FileFails, vars, merging
  <2> QED BY <1>1, <2>1
<1> QED BY <1>2, <1>3, <1>4, <1>5, <1>6, <1>7 DEF Next

\* Store.Merge looks atomic to whoever takes the lock to read: StateFiles, with
\* its callbacks and files, implements AtomicStore.
THEOREM MergesAreAtomic == Spec => ImplementsAtomicStore
<1>1. Init => Finished = NoEntries
  BY DEF Init, Finished
<1>2. TypeOK /\ [Next]_vars => [Atomic!TakeWhole \/ Atomic!LoseAll]_Finished
  BY AtomicSteps
  DEF Atomic!TakeWhole, Atomic!LoseAll, Atomic!Merge, Atomic!Accepted,
      Atomic!NoEntries, Atomic!Absent, Merge, Accepted, NoEntries, Absent
<1>3. Init => Atomic!StoreInit
  BY <1>1 DEF Atomic!StoreInit, Atomic!NoEntries, Atomic!Absent, NoEntries, Absent
<1> QED
  BY <1>2, <1>3, TypeCorrect, PTL
  DEF Spec, ImplementsAtomicStore, Atomic!StoreSpec

=============================================================================
