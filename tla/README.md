# A verification of gossiping in TLA+

gossiping is a daemon that pings targets. Every daemon of a mesh holds the same
list of jobs; a job is a group of targets that is posted to any daemon's HTTP
API, spread by gossip (hashicorp/memberlist) and kept in memory only. This
directory models the daemon's own logic, checks it with TLC on small instances
and proves the most important facts for all instances with TLAPS.

```
tlc -workers 2 -config mesh_safety.cfg MCMesh.tla     one run
tlapm MeshProofs.tla                                  one module of proofs
```

`PROJECT.json` lists the runs, the lines of code behind every definition, the
hazards, the findings and, for every property, a mutation of the code's model
that violates it.

## 1. Inventory

Paths are below `src/`.

| component | state | operations | right when |
|---|---|---|---|
| job store (`tasks/store.go`) | `entries`: name to `MeshEntry` (status, timestamp, target group), `callbacks` | `Merge` (last writer wins, calls back under the lock), `MarshalBinary`, `AddCallback`; `Snapshot`, `Jobs` read | never rolls an entry back, never mixes entries up |
| mesh replication (`cluster/channel.go`, `cluster/delegate.go`, the broadcast closure in `cmd/gossiping/serve/launch.go`) | `msgc` (200 messages), one sender goroutine and its wait group, memberlist's connections | `Broadcast`, `handleOverSizedMessages`, `NotifyMsg`, `LocalState`, `MergeRemoteState`, `AddState` | what one daemon stores reaches the others, although broadcasts are best effort |
| peer bookkeeping (`cluster/cluster.go`) | `peers` by address, `failedPeers`, `changes` (16 tokens) | `setInitialFailed`, `peerJoin`, `peerLeave`, `Join`, `Leave`, `reconnect`, `refresh`, `removeFailedPeers` | the two structures agree, nobody is forgotten, configured peers come back |
| collector and tasks (`tasks/manager.go`, `tasks/task.go`) | `tasks`: job to id to task; per task the flag `stopped` and the pinger | `Coordinate`, `TaskID`, `Task.Start`, `Task.Stop` | the goroutines that ping are those of the stored targets |
| job updater (`launch.go:211-271`) | none but the change tokens it consumes | `updateGossipingJob` when a token or a 30 minute tick comes and the daemon is first by name | the `__gossiping` job ends up listing the members |
| state files (`state/state.go`) | one YAML file and one `.bak` file per job | `OnUpdate`: rewrite or rename | a file says what the store says |
| HTTP API (`launch.go:92-155`) | a variable `err` shared by handlers, updater and shutdown | GET, POST, DELETE | the status answers the request it was sent for |
| start-up and shutdown (`launch.go`, `pkg/signals`) | phases of the process, the errgroup's context, `stopc` | Create, AddState, AddCallback, Join, serve, signal, Shutdown, Leave | no window in which an entry is lost for good; a process that is told to end ends, and leaves after its handlers |
| locks | `Store.mtx`, `Collector.mtx`, `Peer.peerLock`, memberlist's node lock | taken by all of the above, some inside others | nobody waits in a circle |
| address resolution (`resolvePeers`, `retry`, `removeMyAddr`), advertise address (`cluster/advertise.go`) | none | pure but for the retry loop | a daemon starts with the peers it was told |
| Settle, Ready, WaitReady | `readyc` | poll until the member count is stable | nobody in the repository calls them |
| delegate's gossip queue `bcast` | memberlist's queue | `GetBroadcasts`, `handleQueueDepth` | it is never fed: `Broadcast` does not use `send`, against what a test expects (section 6) |
| command line client, configuration, logging, metrics, generated protobuf code | none | I/O | - |

How they interact. A POST or DELETE builds a `MeshEntry` stamped with
`time.Now()` and hands it to `Channel.Broadcast`; the local store is not
touched. The sender goroutine takes one message at a time, opens a connection
to every member, the daemon itself included, and waits for all of them. At each
receiver memberlist calls `NotifyMsg`, which merges the entry into the store.
Independently memberlist exchanges complete states (push/pull) when a member
joins and every 60 seconds with a random one: `LocalState` at both ends, then
`MergeRemoteState`. `Store.Merge` calls the collector and the state files back,
under the store's lock, for every entry it accepts. memberlist's join and leave
events go to `peerJoin` and `peerLeave`, which leave a token for the updater.

What is hard: goroutine per connection (no order between messages), the race of
broadcasts with push/pull, daemons that restart empty, an entry merged before
its callback is registered, a queue that drops after the API said 200, periodic
tasks that work off a stale snapshot, processes that restart at an old address
under a new name, stopping a goroutine that may be anywhere in its loop, a
variable that several goroutines assign, callbacks under locks, and clients or
peers that stall in the middle of a shutdown.

## 2. Modules

| module | models | composes |
|---|---|---|
| `MeshEntry` | entries, payloads and the merge rule | - |
| `ReplicatedMap` | abstract: the map every daemon holds a replica of | `MeshEntry` |
| `Mesh` | the mesh: API, broadcast, push/pull, stores, process life cycle | `MeshEntry`; refines `ReplicatedMap` |
| `MeshProofs` | proofs about `Mesh` | `Mesh` |
| `PeerList` | one daemon's peer bookkeeping | `Resolve` |
| `PeerListProofs` | proofs about `PeerList` | `PeerList` |
| `Resolve` | the outcomes of looking up the configured peers | used by `PeerList` |
| `TaskId` | the identity of a task: what `TaskID` feeds to the FNV hash | - |
| `TaskIdProofs` | proof that what is hashed determines the target | `TaskId` |
| `Collector` | store, collector and task goroutines of one process | `MeshEntry`, `TaskId` |
| `CollectorProofs` | proofs about `Collector` | `Collector`, `TaskIdProofs` |
| `GossipingJob` | the updaters of all processes, their views, tokens and files | - |
| `GossipingJobProofs` | proofs about `GossipingJob` | `GossipingJob` |
| `AtomicStore` | abstract: a store that takes over whole payloads in one step | `MeshEntry` |
| `StateFiles` | merging goroutines, the callbacks of the store, the state files on disk | `MeshEntry`; refines `AtomicStore` |
| `StateFilesProofs` | proofs about `StateFiles` | `StateFiles` |
| `Serving` | one daemon's handlers, HTTP server, updater, signal, shutdown and sender | - |
| `ServingProofs` | proofs about `Serving` | `Serving` |
| `RWLocks` | goroutines that run programs over Go's read-write locks | - |
| `DaemonLocks` | the programs of the daemon | `RWLocks` |
| `DaemonLocksProofs` | proofs: balanced programs exclude each other and ordered ones do not deadlock; those of the daemon are both | `DaemonLocks` |
| `MCMesh`, `MCPeerList`, `MCCollector`, `MCStateFiles` | instances for TLC | the module after MC |

An operator that no definition uses and whose name differs from the one below it
by a suffix (`AcceptedAnyStamp`, `ReconnectAndForgets`, `KnownNever`, ...) is a
mutant: the neighbouring definition with a plausible bug. `PROJECT.json` says
which property finds it.

### MeshEntry and Mesh

Go's maps from names to entries are total functions with `Absent`, the zero
entry, for a missing name: its timestamp 0 is older than every real one, so
"no previous entry" and "previous entry not newer" are one condition.
`Accepted` is the set of names `Store.merge` returns true for; `Merge` applies
it to all entries of a buffer at once, which is what `Store.Merge` does while
it holds the lock. Time is a small set of stamps. Writers may use them in any
order (clocks of different daemons are skewed); two writes carry different
stamps unless `SharedStamps` is set.

| code | action |
|---|---|
| `cluster.Create`; `AddState`; `AddCallback`, `Join`, serving | `Start`, `AddState`, `Serve` |
| POST and DELETE, `updateGossipingJob`, then `Channel.Broadcast` | `BroadcastQueued`, `BroadcastDropped` |
| `handleOverSizedMessages` and its goroutines | `Dequeue`, `Send`, `SendFails` |
| `NotifyMsg` | `NotifyMsg` |
| memberlist push/pull with `LocalState`, `MergeRemoteState` | `StartExchange`, `HandlePush`, `HandlePull`, `ExchangeFails` |
| nil group in `Coordinate` | the third disjunct of `Receive` |
| kill, panic elsewhere; `Peer.Leave`; end of the process | `Crash`, `Leave`, `Exit` |

`phase` is "booting" from `Create` to `AddState`, when memberlist already
answers peers but the key is unknown and payloads are ignored, and "registered"
until the callbacks are there. `net` holds what was written and not yet read;
since it is a set, messages overtake each other. A message lost after it was
written is `SendFails`. The receivers of a broadcast are any set of nodes that
contains the sender: the membership view may be wrong in either direction, and
`Members()` leaves the local node out only after it has left. One push/pull per
initiator is open at a time. `issued` is a history variable: what the API has
said 200 for.

Handlers that outlive `http.Server.Shutdown`'s three seconds are in `Serving`,
where a process may broadcast while it is leaving.

### PeerList

`peers` and `failedPeers` are indexed by address as in the code; the list is a
bag (entries per address), because its order matters to nobody and an address
may be on it several times. `Names` are processes: each has a ULID of its own, a
daemon that is restarted is another process at the same address. `member` is
memberlist's view. It changes only with the events memberlist documents: join
for a node that was not alive, leave once for one that was, both under its node
lock, so that the event and the change of the view are one step. The view may be
late (`NotifyJoin` of a process that is gone) and wrong (`NotifyLeave` of one
that is up). `reconnect` and `refresh` first take their snapshot, then work it
off one connection at a time; all else may happen in between. `periodic` holds
the goroutines of `runPeriodicTask` that `Join` started. `Leave` closes `stopc`,
and each of them returns when its select finds that between two calls of its
function (`TaskReturns`); a call that is under way is worked off first, and a
tick that is due as well may win the select. Time is not modelled:
`removeFailedPeers` drops any part of the list, which includes the part the
clock would choose. `timedOut` remembers what it dropped. Addresses may be
textual ("host:port" as configured); memberlist only knows literal ones, and
`Dial` says which one a connection reaches. `peerUpdate` is not modelled:
memberlist calls it only for changed metadata, and `NodeMeta` is constant.

The configured peers are looked up before memberlist is created and again at
every `refresh`. `Resolve` has the set of outcomes of such a lookup: the
resolver is external and may answer differently each time (`Answers`), a lookup
that fails leaves the configured string, an empty answer is asked again, this
daemon's own address is stripped only then, and at start-up the loop ends only
with an address. A lookup that fails inside that loop makes `resolvePeers` fail
as a whole, so a tick of `refresh` does nothing (`RefreshUnresolved`) and a
daemon does not start. `refresh` passes `p.advertiseAddr`, which is never set:
hence `NoAddr`. The waiting itself and malformed addresses are not modelled.

### Collector

A process that starts with an empty store, gets its callback, and then merges
the entries others send, again and again, as push/pull does. `Coordinate` runs
under the store's lock and its own, so a merge and its call are one step; which
name lookups of `newTask` fail is chosen at each call. `tasks` is the code's
map: by job and id, the task object, so a new task under an id that is there
would take its place. `routine` holds the goroutines by task object, each at a
place of `Task.Start` (`at`). A panic in `Run` is recovered by `Start`
(`Recovers`): that goroutine is over, stopped or not, and its task stays in the
map without one. `Stop`'s two assignments are one step: between them the
goroutine could only see the flag without the closed pinger, in which case it
ends too. go-ping is external: `Run` blocks until its `done` channel is closed
or it fails, and returns nil at once when `done` was closed before; a run that
fails while pinging closes `done` itself.

A task's id is computed by `TaskId` from the target's address and the group's
labels under the external ones. Strings are sequences of bytes and the hash value
is the sequence of bytes it was fed, in the code's order (sorted names, value,
separators, the address under `__addr__`), so that a missing separator shows
as two targets with one id; the 64 bit arithmetic of `fnv.go` is left out, the
hash is taken to be injective on those bytes. No labels, no address: that
exception is the code's. The names are sorted, as the code sorts them, and the
hash is built up label by label with a recursive function.

### GossipingJob

All processes of a mesh, each with a view of its own that changes together with
the token `peerJoin` or `peerLeave` leaves. `Tick` and `TakeChange` are the two
cases of the updater's select; `Position`, `Stamp`, `Peers` and `WriteFile` are
the four places where `updateGossipingJob` and `generatePromConfig` read the
world, and everything may change between two of them. The file fails in two ways:
it cannot be opened, is not truncated and keeps the list it had (`OpenFails`), or
it was truncated and cannot be written (`WriteFileFails`); the history variable
`failed` says whose last attempt failed. A view may be late or
wrong: a process may come first in its own view while another one does in its.
The stores of all processes are one register, the newest list any of them
holds (`Mesh` has how an entry spreads), and a list that was not merged when a
newer one was is refused for good. Timestamps are the order in which
`time.Now()` was read, so clocks are taken to agree here; `Mesh` has them
disagree. When a process ends, the register may fall back to anything: the
stores that are left may hold an older list or none.

### StateFiles

One process after the other over one directory. The generator is a callback of
the store, called under its lock, after or before the collector (the callbacks
are in a map). Opening with `O_TRUNC` and writing are two system calls, a crash
may come between any two of them, and each may fail, which is only logged. A
tombstone makes the collector panic, before or after the file was renamed,
unless the process runs dry; whether it does may change from one process to the
next, which is how a file can exist when a tombstone comes. Nothing reads the
files back. `synced` (the generator is through with the newest entry of this
job) and `kept` (what it wrote last, while nothing went wrong since) are history
variables.

A payload is merged entry by entry here, with callbacks in between, where `Mesh`,
`Collector` and `AtomicStore` merge it in one step. `Finished`, the store as it will
be when the merge under way is through, maps the one to the other: nobody but
the goroutine with the lock sees what is between.

### Serving

`launch` from the moment the mesh is joined. Each request is a POST, a POST with
a malformed body or a DELETE; its handler stands at one of `Steps` or has given
one of `Answers`. The variable `err` of `launch` is shared: every assignment and
every test of it is a step of its own, so another handler, the updater
(`UpdaterAssigns`) or the deferred Leave may come between. Go leaves a torn
interface value to the race, too; that outcome is left out. What Join left in
`err` is in the initial state. `server`, `updater` and `main` are the goroutine
with `ListenAndServe` and `Shutdown`, the one with `updateGossipingJob`, and
`launch` in `group.Wait`, in Leave and at its end. `Takes`, `Sent`, `SendFails`
and `SenderReturns` are the channel's goroutine: `sending` is its wait group.
`met` (requests with whose `err` somebody interfered) and `broadcast` are history
variables. GET handlers keep nothing; they only let `Shutdown` time out.

### RWLocks and DaemonLocks

`sync.RWMutex` is external and modelled by its contract: a writer that waits for
readers lets no new reader in, which is why a goroutine that read-locks twice may
deadlock. An operation is a program, a sequence of locks and unlocks;
`DaemonLocks` has that of every operation of the daemon, callbacks and what
memberlist calls included (a member's join or leave is announced under
memberlist's node lock and takes `peerLock` inside; a push/pull lists the members
and encodes the store first, then announces, then merges). Sends, lookups and
files under a lock end by themselves and are left out; `Store.Snapshot` encodes
into the HTTP response under the lock, and nothing ends that but the client.
`Peer.mtx`, which only readers take, is left out.

## 3. Runs

| run | instance | shows |
|---|---|---|
| `mesh_safety` | 2 daemons, one dry run; 2 jobs, 2 stamps, posts and deletes; queue 1; 1 fault | types and capacities; `OnlyIssued`, `ImplementsReplicatedMap`; `StampsNeverFall`; `NoTombstoneLearned` |
| `mesh_converge` | 2 daemons in dry run, one job, 2 stamps, 1 fault | `MergesCommute`; `Spreads` and `Converge`, also across a crash, a shutdown or a broken exchange |
| `mesh_delete` | 1 collecting daemon, 2 jobs, 3 stamps (two posts and a deletion), no fault | finding: `DeleteByName` fails |
| `peers` | this daemon, two successive processes at a configured address, which is also what a configured name resolves to, when it does | `FailedListMatches`, `FailedAreRetried`, `MembersAreKnown`; `ConfiguredPeersRejoin`, `FailedPeersRejoin` |
| `peers_gauge` | the same | finding: `GaugeCountsFailed` fails |
| `collector` | a job with three groups that replace each other, with a kept, a new and a repeated target, two targets in the last one and labels that differ by where a letter stands, a tombstone; another job with the same target | `NoLeak`, `GoneTargetsStopped`; `StoppedTasksEnd`, `TasksFollowStore` |
| `gossiping_job` | 2 processes, one with a Prometheus file; 1 token, 2 entries on their way | `NoLostWakeup`, `FileListsMembers`; `FileCatchesUp`, `JobFollowsMembers` |
| `state_files` | 2 merging goroutines; a job posted twice and deleted, another one deleted | `FilesMatchStore`, `BackupKept`, `ImplementsAtomicStore`; `FilesCatchUp` |
| `collector_nolabels` | no labels at all | finding: `GoneTargetsStopped` fails |
| `serving` | 2 requests, a member that cannot be reached, queue 1 | `NoHandlerAtLeave`, `QuietRequestsAnswered`; `EndsWhenCancelled`, `QueuedAreTried` |
| `serving_race` | the same | finding: `PostsAddJobs` fails |
| `locks` | a handler, a goroutine of memberlist, one of the timers; all operations | `NoDeadlock`, `SectionsExclude`; `OperationsEnd` |

Bounds. `MaxStamp`: two stamps suffice to overtake and to roll back, as every
comparison is between two entries; a third lets a group be posted again after it
was replaced. `QueueCap` 1 makes both the queued and the dropped broadcast
happen and leaves room for a message in the sender beside one in the queue.
`MaxFaults` bounds crashes, shutdowns and broken exchanges together: one kills a
daemon while its messages are under way or breaks the exchange a new one would
learn by. Liveness after several faults needs no more of them: it speaks of the
daemons that run for good, and a fault leaves a state in which a daemon is
empty, or an exchange is over, as it may also be without one. Two daemons are
enough for each of the messages to overtake another, and the safety properties
are proved for any number. Panics over tombstones are not counted.
`SharedStamps` is off in the runs of `Mesh`; all its theorems but the two that
name it cover both cases; equal stamps that replace each other occur in those of
`Collector` and `StateFiles`, whose entries come again and again. `ChangesCap` 1
is the smallest full channel. `MaxEntries` 2 lets a list that was stamped first
arrive last; at that bound a new list is not held up, one that was broadcast is
lost first (`Room`), so that the bound stops no updater. Two processes are
enough for both to come first, and for one to end while the other updates; two
merging goroutines for one to want the lock while the other calls back.
`MaxRoutines` 2 lets a target be started again while its stopped goroutine still
sleeps. Two successive processes at one address are what a restart needs.
Deadlock is checked except where the system may stop: in `mesh_delete` (a lone
daemon that has written all it can), `peers` (a daemon that has left and whose
tasks have returned), the runs of `Collector` (a process that panicked),
`gossiping_job` (all processes have ended) and those of `Serving` (the process
has exited). In `serving` two requests are enough for one to change the `err` of
the other, one unreachable member for a send to fail beside one that succeeds,
and queue 1 for a message to be dropped. In `locks` each kind of goroutine is
there once; more of them, in any operation, are covered by the theorems.

Fairness. Push/pull picks a random member every 60 seconds and `refresh` joins
the configured peers that are not members every 15, so each daemon exchanges
states with each other one again and again as long as both run: strong fairness
of `StartExchange`, weak fairness of finishing an exchange. No broadcast is
assumed to arrive and no process to start. For `PeerList`: while the daemon is
joined the ticker of `reconnect` goes off; an address that `reconnect` or
`refresh` has begun with is done with, after Leave too; connecting to a process
that keeps running does not fail for ever; and memberlist's failure detector
declares a process dead that is gone. Nothing is assumed of the resolver, and
nothing of the periodic tasks once Leave was called. `ConfiguredPeersRejoin` has
the assumption about the resolver as a premise of its own: if the name of *this*
peer gets an answer again and again in a tick of `refresh` that does not fail as
a whole, the peer comes back. `FailedPeersRejoin` is what remains without that
premise: when every refresh fails, `reconnect` still brings back each address
that is in the bookkeeping and was not given up. For `GossipingJob`: a process
goes on from Join to its updater, the updater goes on, its ticker goes off, and
of the lists broadcast again and again some reach a store, as one copy of each
goes to the process itself. That an attempt at the file succeeds again and again
is a premise of `FileCatchesUp`, not an assumption. For `StateFiles`: a merge
goes on to its end, every written entry comes again by push/pull, and opening,
writing and renaming do not fail for ever. For `Collector`: goroutines are
scheduled but a ping may run for ever; every written entry comes again by
push/pull, and for each single target the lookup succeeds at some of the merges
that need it. That all lookups of one `Coordinate` succeed together is not
assumed, and the last group has two targets, so one of them may fail each time
the other one succeeds. For `Serving`: `Shutdown` and Leave have time limits and
a send has memberlist's TCP timeout; goroutines that can go on do, and a select
that is tried again and again picks the done context in the end (strong fairness
of `UpdaterReturns`; Go picks at random). Nothing is assumed of handlers, which
may wait for their clients for ever. For `locks`: a goroutine that can go on
does, and one that waits for a lock that is free again and again gets it (strong
fairness; Unlock lets waiting readers in, and writers queue for a mutex with a
starvation mode). Nothing makes a client read.

## 4. Findings

- A deletion kills every collecting daemon that learns of it
  (`tasks/manager.go:56` reads the group a DELETE leaves nil), and with the
  process go the jobs nobody deleted: in the trace two jobs are posted and
  stored, one is deleted, and the other one is gone. Daemons in dry run and
  daemons that were just starting keep the tombstone and pass it on to the others at each
  push/pull. `NoTombstoneLearned` states what the code does; `mesh_delete` shows
  what it does to "delete job by name".
- `gossiping_cluster_failed_peers` counts a live member when its address was
  taken over from a process whose death memberlist announces late.
- Without labels `TaskID` ignores the address: one task for all targets of a
  job, and the task of a target that was replaced goes on.
- The handlers of POST and DELETE share one `err` with each other, the updater
  and the deferred Leave (`launch.go:121`, `145`, `165`, `228`). A good POST may
  be answered 400 without being broadcast, a malformed one be broadcast, a
  DELETE be answered 503 although it was broadcast, and a handler panic over a
  nil error. `QuietRequestsAnswered` says, and proves, that nothing of the
  kind happens to a request nobody interfered with; `serving_race` shows the
  other case.

## 5. Proofs

`MeshProofs` assumes only that `DryRun` is a set of nodes, that `Requests`
holds API statuses, and the types of the bounds; nodes, jobs, groups and all
bounds are arbitrary.

- `TypeCorrect`: the type invariant is inductive. Its lemmas on `Merge`
  (`MergeType`, `MergeDominates`, `MergeChooses`) are what the rest uses.
- `StampsMonotonic`: `StoreSteps` reduces every step to three effects on the
  stores (none, a merge into one, a process that ends); a merge dominates both
  sides.
- `TombstonesNotLearned`: from `StoreSteps` too; a merge that does not panic
  takes over no nil group.
- `Provenance`: `OnlyIssued` is inductive relative to the type invariant once
  it speaks of everything an entry can be in (stores, queues, senders,
  connections); about the stores alone it would not be.
- `Refinement`: the initial state maps to the initial state of `ReplicatedMap`,
  and each step to `Issue`, `Learn`, `Forget` or a stutter, using `Provenance`
  for "issued" and `MergeDominates` for "not older".
- `OrderIrrelevant`: payloads that can meet in a store leave the same there in
  either order. `MergeCommutative` and `MergeAnyOrder` are that for payloads whose
  entries of one timestamp are the same (`Consistent`); `MergeAgain` says that a
  repeated payload changes nothing. That all payloads of the mesh are such comes
  from `Provenance` and `StampsUnique`, which is about `issued`: no two different
  writes to one job have the same timestamp. Both theorems assume
  `~SharedStamps`. The code does not enforce that (two daemons may read the
  same nanosecond); without it the entry merged last stays, as `Store.merge`
  accepts equal timestamps, and two daemons may differ until one is replaced.

`PeerListProofs` proves its four invariants together (`Bookkeeping`). They need
each other: that a join leaves no entry behind on the list when the status was
not failed is `FailedListMatches` itself; that a leave is never ignored is
`MembersAreKnown`. `peerJoin` and `peerLeave` have a lemma each, which the
actions that lead to them cite.

`ResolutionType` and `OccurrencesCount` give the initial state its type: what
`resolvePeers` returns are addresses, and one is on the list as often as
configured peers resolve to it, so at least once when it is marked failed.

`GossipingJobProofs` rests on `TokenInv`. `NoLostWakeup` and `FileListsMembers`
speak of a waiting updater only; the latter excuses a process only while its
last attempt at the file is a failed one, whichever way it failed. The invariant
also covers the step between the update and the file (`ListedView`), where a
view that changed has left a token, and says why the initial update need not
write the file: the token of the process's own join is there until the loop has
begun (`TokenOfJoin`). `TypeCorrect` adds the lists on their way
(`OneListUnderWay`): a process has at most one that is stamped and not
broadcast, and only while its updater is between the two, which is why taking
that one out is all there is to do when the process ends. `WithoutOne` and
`RoomLeft` say that a list that is lost, at the bound too, leaves that as it
was.

`StateFilesProofs` rests on `FilesInv`: whoever has a callback to call holds the
lock and works on the entry the store has (`HolderCalls`), a job whose file is
about to change is not `synced` (`PendingUnsynced`), a file is only written for
an active entry (`WritesActive`), and the group last written is in the file or,
once that was renamed, in the .bak file alone (`KeptOnDisk`). Without the first
part the properties about files are not inductive: another goroutine could be
about to write an older entry.

`MergesAreAtomic` is the refinement of `AtomicStore`: a payload is taken over at
the moment the lock is taken (`Finished` changes there, by the whole payload), and
every later step of that merge is a stutter: what is stored and what is still to
be decoded merge to the same (`RestMerged`), and an entry that is refused
would change nothing (`NothingMerged`). It says nothing of a payload that
cannot be decoded, which ends `Store.Merge` half way: only the same code's
encodings are decoded here.

`CollectorProofs` rests on `TasksConsistent`: every goroutine that nobody
stopped has its object in the map, every id in the map is one the stored group
asks for, and there is none before the callback. The converse of the first part
is not claimed: a recovered panic leaves a task without a goroutine.
`AddedTargets` says that `Coordinate` adds targets of the group whose ids are
missing, so that no object in the map is replaced, `CoordinateCorrect` that the
parts survive it. The second part is about ids, as the code is; that a task is
one of its group's *targets* needs that different targets have different ids.
`TaskIdInjective` proves that they do, for any number of labels: from the bytes
that were fed to the hash the address is read back, then the labels from the
last one on, each field from the end to the separator before it. That every set
of names can be sorted (`Sortable`) and that the loop's function has a value at
every turn (`SumsDefined`) are inductions of their own, done with the least
counterexample, as the library's induction theorem cannot be used.
`GoneTargetsAreStopped` has the premise `TargetsLabelled`: every group has
labels, and no string contains the byte 255, which UTF-8 text never does. The
premise fails without labels, which is the finding. The 64 bit hash value is
taken to be injective on the bytes, which no proof could show.

`ServingProofs` rests on `ServingInv`: what the value of `err` is for a handler
that is between its assignment and its test and was not interfered with, and
how far the goroutines are when Leave begins. Requests, members and the queue's
capacity are arbitrary.

`DaemonLocksProofs` begins with any threads, locks and programs. `HeldAsWritten`:
the locks a thread holds are those its program has taken and not released.
`OrderedNoDeadlock`: in a set of threads each of which waits for one of the set,
take one that waits for a lock of highest rank; whoever is in its way has taken
that lock, so waits for one of higher rank, or is a writer that waits for the
readers of that very lock, who in turn wait for one of higher rank. The ranks
are bounded, which an infinite set of threads needs. `MutualExclusion`: the lock
itself lets a writer in alone, but `Unlock` of a lock another thread holds would
free it; so the invariant `Sections` (who is in a section has the lock) is only
inductive for programs that release what they hold (`UnlocksHeld`).
The second half shows that the daemon's programs are of that kind (`Rank`:
`Store.mtx` and the node lock before `Collector.mtx` and `peerLock`): `CleanConcat`
and `CleanAround` say that sequences and nested locks are, `CleanDaemon` puts the
programs together. `DaemonSectionsExclude` is what `Mesh` and `Collector` rest on
when they take a section under a lock for one step.

Only model-checked: everything about liveness (`Spreads`, `Converge`,
`ConfiguredPeersRejoin`, `FailedPeersRejoin`, `StoppedTasksEnd`,
`TasksFollowStore`, `JobFollowsMembers`, `FileCatchesUp`, `FilesCatchUp`,
`EndsWhenCancelled`, `QueuedAreTried`, `OperationsEnd`), which the prover cannot
do under fairness. Every safety property of the passing runs is proved.

## 6. Not modelled

- `Settle`, `Ready`, `WaitReady`: nothing in the repository calls them, so no
  step of the daemon depends on them. `WaitReady` would wait for ever and
  `Status` says "settling" for good.
- The advertise address (`cluster/advertise.go`): chosen once from the network
  interfaces, without state; `GossipingJob` and `PeerList` have addresses as
  constants.
- The gossip queue `bcast`, `GetBroadcasts` and the path for small messages in
  `Channel`: nothing is ever put on the queue, as `Broadcast` has the branch that
  calls `send` for small messages commented out (`cluster/channel.go:141-151`).
  `TestNormalMessagesGossiped` (`cluster/channel_test.go:28-43`) was written for
  that branch: it broadcasts an empty message and fails with "small message not
  sent" unless `send` was called, which cannot happen any more. `Mesh` and `Serving`
  follow the code: every message, however small, goes through `msgc` to the sender
  goroutine. No property covers the test's expectation: `send` is in no model, since
  nothing reaches it, and a run would only restate that.
- What happens to a target whose goroutine ended with a recovered panic, or whose
  pinger is closed after a failed run: neither is repaired before its task is
  removed. Both are steps of `Collector`; that every task pings is claimed nowhere,
  and `TasksFollowStore` speaks of tasks.
- Messages still queued when `Leave` closes `stopc`: the sender drops them (in
  `Serving`); `QueuedAreTried` is about a daemon that stays.
- `peerUpdate`: memberlist calls it for changed metadata, and `NodeMeta` is
  constant.
- `LocalState` and `MergeRemoteState` over several states: one key, "tg", is
  ever added. Errors of decoding: only the same code's encodings are decoded.
- A torn interface value of the shared `err`, and the unlocked write to
  `delegate.states` at start-up: both are data races whose other outcomes are a
  crash, which `Mesh` has at any time.
- The command line client: requests without state and tables; several commands
  are empty. Configuration, logging, metrics, generated protobuf code (a message
  is the record it encodes), packages without code.
