----------------------------- MODULE StateFiles -----------------------------
(***************************************************************************)
(* The state files (state/state.go): one file per job, rewritten for every *)
(* active entry the store accepts and renamed to .bak for every tombstone. *)
(* The generator is a callback of the store like the collector, and the    *)
(* store calls them back, in any order, while it holds its lock.  The      *)
(* directory outlives the process; the store does not, and nothing reads   *)
(* the files when the process starts again.                                *)
(***************************************************************************)
EXTENDS MeshEntry

CONSTANTS
  Callers,  \* goroutines that merge: connections and push/pull exchanges
  Free,     \* the lock is not held
  NoJob,
  NoFile,   \* no file of that name
  Cut,      \* a file that was truncated and not, or not all, written
  Written   \* <<job, entry>> pairs other processes may send

ASSUME StateFilesAssumption ==
  /\ Free \notin Callers
  /\ NoJob \notin Jobs
  /\ {NoFile, Cut} \cap Groups = {}
  /\ NoFile # Cut
  /\ Written \subseteq Jobs \X Entry

VARIABLES
  up,         \* does the process run?
  dryRun,     \* tasks.dry_run: no collector callback
  callbacks,  \* Store.callbacks
  store,      \* Store.entries
  lock,       \* who holds Store.mtx
  rest,       \* what each caller has still to decode
  job,        \* the name of the entry it has decoded last
  entry,      \* that entry
  calls,      \* the callbacks it has still to call for it
  file,       \* <job>.yml, by job
  bak,        \* <job>.yml.bak, by job
  synced,     \* jobs whose accepted entry got to the disk (history)
  kept        \* the group last written and not damaged since (history)

process == <<up, dryRun, callbacks>>
merging == <<lock, rest, job, entry>>
disk == <<file, bak>>
history == <<synced, kept>>
vars == <<process, store, merging, calls, disk, history>>

\* The callbacks launch.go registers, in this order, and the second half of
\* the generator's, the file being open.
Callbacks == {"collector", "state"}
Calls == Callbacks \cup {"write"}

File == Groups \cup {NoFile, Cut}

TypeOK ==
  /\ up \in BOOLEAN
  /\ dryRun \in BOOLEAN
  /\ callbacks \in SUBSET Callbacks
  /\ store \in EntryMap
  /\ lock \in Callers \cup {Free}
  /\ rest \in [Callers -> EntryMap]
  /\ job \in [Callers -> Jobs \cup {NoJob}]
  /\ entry \in [Callers -> Entry \cup {Absent}]
  /\ calls \in [Callers -> SUBSET Calls]
  /\ \A c \in Callers : "write" \in calls[c] => file[job[c]] = Cut
  /\ file \in [Jobs -> File]
  /\ bak \in [Jobs -> File]
  /\ synced \in SUBSET Jobs
  /\ kept \in [Jobs -> Groups \cup {NoGroup}]

Init ==
  /\ up = FALSE
  /\ dryRun = FALSE
  /\ callbacks = {}
  /\ store = NoEntries
  /\ lock = Free
  /\ rest = [c \in Callers |-> NoEntries]
  /\ job = [c \in Callers |-> NoJob]
  /\ entry = [c \in Callers |-> Absent]
  /\ calls = [c \in Callers |-> {}]
  /\ file = [j \in Jobs |-> NoFile]
  /\ bak = [j \in Jobs |-> NoFile]
  /\ synced = {}
  /\ kept = [j \in Jobs |-> NoGroup]

-----------------------------------------------------------------------------
(* The process.                                                            *)

\* AddState: from here on peers are answered and their states merged.  The
\* configuration may have been edited between two processes.
Starts ==
  /\ ~ up
  /\ up' = TRUE
  /\ dryRun' \in BOOLEAN
  /\ UNCHANGED <<callbacks, store, merging, calls, disk, history>>

\* launch registers the collector, if at all, before the generator.
AddCallback(cb) ==
  /\ up
  /\ lock = Free
  /\ \/ cb = "collector" /\ callbacks = {} /\ ~ dryRun
     \/ cb = "state" /\ callbacks = (IF dryRun THEN {} ELSE {"collector"})
  /\ callbacks' = callbacks \cup {cb}
  /\ UNCHANGED <<up, dryRun, store, merging, calls, disk, history>>

\* A kill or a panic, anywhere: a file that was being written stays cut.
Crash ==
  /\ up
  /\ up' = FALSE
  /\ dryRun' = FALSE
  /\ callbacks' = {}
  /\ store' = NoEntries
  /\ lock' = Free
  /\ rest' = [c \in Callers |-> NoEntries]
  /\ job' = [c \in Callers |-> NoJob]
  /\ entry' = [c \in Callers |-> Absent]
  /\ calls' = [c \in Callers |-> {}]
  /\ synced' = {}
  /\ kept' = [j \in Jobs |-> NoGroup]
  /\ UNCHANGED disk

-----------------------------------------------------------------------------
(* Store.Merge.                                                            *)

Payloads ==
  {p \in [Jobs -> {w[2] : w \in Written} \cup {Absent}] :
     \A j \in Jobs : p[j] # Absent => <<j, p[j]>> \in Written}

MergeBegins(c, payload) ==
  /\ up
  /\ lock = Free
  /\ lock' = c
  /\ rest' = [rest EXCEPT ![c] = payload]
  /\ UNCHANGED <<process, store, job, entry, calls, disk, history>>

\* Decode the next entry, in the order the sender's map was walked in.
Decoded(c, j) ==
  /\ lock = c /\ calls[c] = {}
  /\ rest[c][j] # Absent
  /\ rest' = [rest EXCEPT ![c][j] = Absent]
  /\ UNCHANGED <<process, disk, kept>>

Stores(c, j) ==
  /\ Decoded(c, j)
  /\ j \in Accepted(store, rest[c])
  /\ store' = [store EXCEPT ![j] = rest[c][j]]
  /\ job' = [job EXCEPT ![c] = j]
  /\ entry' = [entry EXCEPT ![c] = rest[c][j]]
  /\ calls' = [calls EXCEPT ![c] = callbacks]
  /\ synced' = synced \ {j}

AcceptsUnlocking(c, j) == Stores(c, j) /\ lock' = Free

\* The callbacks come before the lock is released.
Accepts(c, j) == Stores(c, j) /\ UNCHANGED lock

\* The stored entry is newer.
Refuses(c, j) ==
  /\ Decoded(c, j)
  /\ j \notin Accepted(store, rest[c])
  /\ UNCHANGED <<store, lock, job, entry, calls, synced>>

MergeEnds(c) ==
  /\ lock = c /\ calls[c] = {}
  /\ rest[c] = NoEntries
  /\ lock' = Free
  /\ job' = [job EXCEPT ![c] = NoJob]
  /\ entry' = [entry EXCEPT ![c] = Absent]
  /\ UNCHANGED <<process, store, rest, calls, disk, history>>

-----------------------------------------------------------------------------
(* The callbacks, one after the other: a file that is open comes first.    *)

Calling(c, call) ==
  /\ call \in calls[c]
  /\ "write" \in calls[c] => call = "write"

Called(c, call) == calls' = [calls EXCEPT ![c] = @ \ {call}]

\* Collector.Coordinate: module Collector has what it does with a group.
Coordinates(c) ==
  /\ Calling(c, "collector")
  /\ entry[c].group # NoGroup
  /\ Called(c, "collector")
  /\ UNCHANGED <<process, store, merging, disk, history>>

\* It panics over a tombstone, before or after the file was renamed.
CoordinatePanics(c) ==
  /\ Calling(c, "collector")
  /\ entry[c].group = NoGroup
  /\ Crash

\* The file is not what the entry says, and maybe not what it was.
Damages(c) ==
  /\ kept' = [kept EXCEPT ![job[c]] = NoGroup]
  /\ UNCHANGED synced

TruncatedNot(j) == IF file[j] = NoFile THEN Cut ELSE file[j]

\* os.OpenFile with O_TRUNC.
Truncated(j) == Cut

\* update, up to the encoder.
Opens(c) ==
  /\ Calling(c, "state")
  /\ entry[c].status = "Active"
  /\ file' = [file EXCEPT ![job[c]] = Truncated(job[c])]
  /\ calls' = [calls EXCEPT ![c] = (@ \ {"state"}) \cup {"write"}]
  /\ Damages(c)
  /\ UNCHANGED <<process, store, merging, bak>>

Writes(c) ==
  /\ Calling(c, "write")
  /\ file' = [file EXCEPT ![job[c]] = entry[c].group]
  /\ Called(c, "write")
  /\ synced' = synced \cup {job[c]}
  /\ kept' = [kept EXCEPT ![job[c]] = entry[c].group]
  /\ UNCHANGED <<process, store, merging, bak>>

BackedUpAnyway(j) == file[j]

\* os.Rename, atomic, replaces an older .bak file; without a file there is
\* nothing to rename, an error that is only logged.
BackedUp(j) == IF file[j] = NoFile THEN bak[j] ELSE file[j]

\* backup.
Renames(c) ==
  /\ Calling(c, "state")
  /\ entry[c].status # "Active"
  /\ bak' = [bak EXCEPT ![job[c]] = BackedUp(job[c])]
  /\ file' = [file EXCEPT ![job[c]] = NoFile]
  /\ Called(c, "state")
  /\ synced' = synced \cup {job[c]}
  /\ UNCHANGED <<process, store, merging, kept>>

\* Opening (the encoder is then given a nil file), writing or renaming fails:
\* logged, and on to the next callback.
FileFails(c) ==
  /\ \E call \in {"state", "write"} : Calling(c, call) /\ Called(c, call)
  /\ Damages(c)
  /\ UNCHANGED <<process, store, merging, disk>>

-----------------------------------------------------------------------------

Next ==
  \/ Starts
  \/ \E cb \in Callbacks : AddCallback(cb)
  \/ Crash
  \/ \E c \in Callers, payload \in Payloads : MergeBegins(c, payload)
  \/ \E c \in Callers, j \in Jobs : Accepts(c, j)
  \/ \E c \in Callers, j \in Jobs : Refuses(c, j)
  \/ \E c \in Callers : MergeEnds(c)
  \/ \E c \in Callers : Coordinates(c)
  \/ \E c \in Callers : CoordinatePanics(c)
  \/ \E c \in Callers : Opens(c)
  \/ \E c \in Callers : Writes(c)
  \/ \E c \in Callers : Renames(c)
  \/ \E c \in Callers : FileFails(c)

Spec == Init /\ [][Next]_vars

(***************************************************************************)
(* Fairness.  launch goes on to its callbacks, a merge goes on to its end; *)
(* push/pull brings every written entry again and again; the file system   *)
(* does not fail for ever.                                                 *)
(***************************************************************************)
Proceeds(c) ==
  \/ \E j \in Jobs : Accepts(c, j) \/ Refuses(c, j)
  \/ Coordinates(c) \/ CoordinatePanics(c)
  \/ Opens(c) \/ Writes(c) \/ Renames(c) \/ FileFails(c)
  \/ MergeEnds(c)

Fairness ==
  /\ SF_vars(\E cb \in Callbacks : AddCallback(cb))
  /\ \A c \in Callers : WF_vars(Proceeds(c))
  /\ \A w \in Written :
       SF_vars(\E c \in Callers : MergeBegins(c, Single(w[1], w[2])))
  /\ \A j \in Jobs :
       /\ SF_vars(\E c \in Callers : job[c] = j /\ Opens(c))
       /\ SF_vars(\E c \in Callers : job[c] = j /\ (Writes(c) \/ Renames(c)))

FairSpec == Spec /\ Fairness

-----------------------------------------------------------------------------
(* Properties.                                                             *)

\* The file of a job says what its entry in the store says.
Matches(j) ==
  file[j] = (IF store[j].status = "Active" THEN store[j].group ELSE NoFile)

\* When the generator got through for the newest entry of a job, its file is
\* that entry's, whatever other buffers are merged meanwhile: the callbacks
\* run under the lock the store was changed under (Store.Merge, OnUpdate).
FilesMatchStore == \A j \in synced : Matches(j)

\* "rename it to XXXX.yml.bak, so we restore it from state file" (backup): as
\* long as nothing fails, the .bak file of a deleted job has the group it had,
\* although the same tombstone is accepted again at every push/pull.
BackupKept ==
  \A j \in synced :
    store[j].status = "Inactive" /\ kept[j] # NoGroup => bak[j] = kept[j]

\* A process that runs for good gets the files of its jobs right again and
\* again: entries that were merged before the callback was registered, files
\* that a crash left cut, failed writes and stale files of an earlier process.
FilesCatchUp ==
  \A j \in Jobs :
    <>[](up /\ store[j] # Absent) => []<>Matches(j)

\* The store as it will be when the merge under way is through: what the next
\* reader sees, who has to wait for the lock until then.
Finished == IF lock = Free THEN store ELSE Merge(store, rest[lock])

Atomic == INSTANCE AtomicStore WITH content <- Finished, Buffers <- Payloads

\* Readers see whole payloads, in the order the lock was taken in: no entry of
\* one is merged before, after or without the others, unless the process ends
\* (Store.Merge holds the lock over its loop and its callbacks).
ImplementsAtomicStore == Atomic!StoreSpec

=============================================================================
