----------------------------- MODULE Collector -----------------------------
(***************************************************************************)
(* What a collecting process does with the entries its store accepts: the  *)
(* collector callback (tasks/manager.go) starts and stops one task per     *)
(* target, and every task pings in a goroutine of its own (tasks/task.go). *)
(* The store calls back while it holds its lock, so merges and Coordinate  *)
(* are one step; the goroutines run beside them.                           *)
(*                                                                         *)
(* Groups is a set of records here: the targets of a target group, in      *)
(* order, and its labels, a function from names to values.  The pinger     *)
(* (go-ping) is external: Run blocks until it fails or Stop has closed its *)
(* done channel, for good.                                                 *)
(***************************************************************************)
EXTENDS MeshEntry, TaskId, SequencesExt

CONSTANTS
  ExternalLabels,  \* global.external_labels of the configuration
  Written,         \* <<job, entry>> pairs other processes may send
  MaxRoutines      \* bound on task objects of one target there are at a time

ASSUME CollectorAssumption ==
  /\ Written \subseteq Jobs \X Entry
  /\ MaxRoutines \in Nat \ {0}
  /\ \A group \in Groups : DOMAIN group.targets \subseteq Nat \ {0}

VARIABLES
  phase,   \* "registered" (no callback yet), "running" or "dead"
  store,   \* Store.entries
  tasks,   \* Collector.tasks: by job and id, the task objects
  routine  \* the goroutines running Task.Start, by task object

vars == <<phase, store, tasks, routine>>

Targets(group) == IF group = NoGroup THEN {} ELSE ToSet(group.targets)

\* The labels of a group with the external ones laid over them.
Labels(group) == ExternalLabels @@ group.labels

Addrs == UNION {Targets(group) : group \in Groups}

LabelSets == {Labels(group) : group \in Groups}

\* A task object; "no" tells objects of the same target apart.
Task == [job : Jobs, addr : Addrs, labels : LabelSets, no : 1 .. MaxRoutines]

\* The ids of all targets there can be, computed once.
Ids == [addr \in Addrs |-> [labels \in LabelSets |-> TaskID(addr, labels)]]

Id(addr, labels) == Ids[addr][labels]

IdOf(k) == Id(k.addr, k.labels)

Routine == [at : {"loop", "running", "failed", "returned", "sleeping"},
            stopped : BOOLEAN, done : BOOLEAN]

\* The ids and the object of every task fit.
TypeOK ==
  /\ phase \in {"registered", "running", "dead"}
  /\ store \in EntryMap
  /\ DOMAIN tasks = Jobs
  /\ \A j \in Jobs : \A id \in DOMAIN tasks[j] :
       LET k == tasks[j][id] IN k \in Task /\ k.job = j /\ IdOf(k) = id
  /\ DOMAIN routine \in SUBSET Task
  /\ routine \in [DOMAIN routine -> Routine]

Init ==
  /\ phase = "registered"
  /\ store = NoEntries
  /\ tasks = [j \in Jobs |-> <<>>]
  /\ routine = <<>>

-----------------------------------------------------------------------------
(* Coordinate.                                                             *)

\* The objects in the map.
Objects == UNION {Range(tasks[j]) : j \in Jobs}

IdForOwnLabels(addr, group) == TaskID(addr, group.labels)

\* The id Coordinate computes for a target of a group.
IdFor(addr, group) == Id(addr, Labels(group))

\* Those of all its targets (idCache).
Wanted(group) == {IdFor(a, group) : a \in Targets(group)}

KnownNever(j, id) == FALSE

Known(j, id) == id \in DOMAIN tasks[j]

\* The targets that get a new task: the first one with an id that is not in
\* the map and for which newTask (a name lookup) does not fail.
Added(j, group, unresolved) ==
  LET id(i) == IdFor(group.targets[i], group)
      usable(i) == /\ group.targets[i] \notin unresolved
                   /\ ~ Known(j, id(i))
  IN {group.targets[i] : i \in {i \in DOMAIN group.targets :
        usable(i) /\ \A h \in 1 .. i - 1 : usable(h) => id(h) # id(i)}}

\* Task objects for new targets.
Fresh(j, group, addr) ==
  [job : {j}, addr : {addr}, labels : {Labels(group)}, no : 1 .. MaxRoutines]
    \ (DOMAIN routine \cup Objects)

StopFlagOnly(r) == [r EXCEPT !.stopped = TRUE]

\* Task.Stop: the flag first, then the pinger.
Stop(r) == [r EXCEPT !.stopped = TRUE, !.done = TRUE]

\* "remote none exist": the ids of the job that are not wanted.
Gone(j, group) == DOMAIN tasks[j] \ Wanted(group)

\* "unresolved" are the targets whose name lookup fails this time.
Coordinate(j, group, unresolved) ==
  LET added == Added(j, group, unresolved)
      object(a) == CHOOSE k \in Fresh(j, group, a) : TRUE
      new == [id \in {IdFor(a, group) : a \in added} |->
                object(CHOOSE a \in added : IdFor(a, group) = id)]
      gone == Gone(j, group)
  IN /\ \A a \in added : Fresh(j, group, a) # {}
     /\ tasks' = [tasks EXCEPT ![j] =
          [id \in (DOMAIN @ \ gone) \cup DOMAIN new |->
             IF id \in DOMAIN new THEN new[id] ELSE @[id]]]
     /\ routine' = [k \in DOMAIN routine \cup Range(new) |->
          IF k \in Range(new)
          THEN [at |-> "loop", stopped |-> FALSE, done |-> FALSE]
          ELSE IF \E id \in gone : tasks[j][id] = k THEN Stop(routine[k])
          ELSE routine[k]]

-----------------------------------------------------------------------------
(* The store.                                                              *)

\* AddCallback: what was merged before it is not coordinated.
AddCallback ==
  /\ phase = "registered"
  /\ phase' = "running"
  /\ UNCHANGED <<store, tasks, routine>>

\* Store.Merge of one entry: a broadcast, or part of a push/pull state, so
\* the same entry comes again and again.
MergeUncollected(j, e) ==
  /\ phase = "registered"
  /\ store' = Merge(store, Single(j, e))
  /\ UNCHANGED <<phase, tasks, routine>>

MergeCollected(j, e, unresolved) ==
  /\ phase = "running"
  /\ j \in Accepted(store, Single(j, e))
  /\ e.group # NoGroup
  /\ store' = Merge(store, Single(j, e))
  /\ Coordinate(j, e.group, unresolved)
  /\ UNCHANGED phase

\* The stored entry is newer: no callback.
MergeRefused(j, e) ==
  /\ phase = "running"
  /\ j \notin Accepted(store, Single(j, e))
  /\ UNCHANGED vars

\* me.Targetgroup.Targets of a tombstone: the process and all it did is gone.
MergePanics(j, e) ==
  /\ phase = "running"
  /\ j \in Accepted(store, Single(j, e))
  /\ e.group = NoGroup
  /\ phase' = "dead"
  /\ store' = NoEntries
  /\ tasks' = [i \in Jobs |-> <<>>]
  /\ routine' = <<>>

-----------------------------------------------------------------------------
(* Task.Start, one goroutine per task object.                              *)

At(k, here) == k \in DOMAIN routine /\ routine[k].at = here

Goto(k, there) ==
  /\ routine' = [routine EXCEPT ![k].at = there]
  /\ UNCHANGED <<phase, store, tasks>>

Runs(k) == At(k, "loop") /\ ~ routine[k].done /\ Goto(k, "running")

\* Run returns nil, right away when done was closed before.
RunStops(k) ==
  /\ At(k, "loop") \/ At(k, "running")
  /\ routine[k].done
  /\ Goto(k, "returned")

\* Run returns an error, having closed done itself if it was pinging.
RunFails(k) ==
  /\ At(k, "loop") \/ At(k, "running")
  /\ \E closed \in {routine[k].done, TRUE} :
       routine' = [routine EXCEPT ![k].at = "failed", ![k].done = closed]
  /\ UNCHANGED <<phase, store, tasks>>

Exits(k) ==
  /\ routine' = [r \in DOMAIN routine \ {k} |-> routine[r]]
  /\ UNCHANGED <<phase, store, tasks>>

Ends(k) ==
  /\ At(k, "failed") \/ At(k, "returned")
  /\ routine[k].stopped
  /\ Exits(k)

\* Run panics and Start recovers: the goroutine is over, stopped or not, and
\* its task stays in the map, where nothing starts it again.
Recovers(k) == (At(k, "loop") \/ At(k, "running")) /\ Exits(k)

Repeats(k) == At(k, "returned") /\ ~ routine[k].stopped /\ Goto(k, "loop")

Sleeps(k) == At(k, "failed") /\ ~ routine[k].stopped /\ Goto(k, "sleeping")

Wakes(k) == At(k, "sleeping") /\ Goto(k, "loop")

Step(k) == Runs(k) \/ RunStops(k) \/ Ends(k) \/ Repeats(k) \/ Sleeps(k) \/ Wakes(k)

-----------------------------------------------------------------------------

Next ==
  \/ AddCallback
  \/ \E w \in Written : MergeUncollected(w[1], w[2])
  \/ \E w \in Written : \E unresolved \in SUBSET Targets(w[2].group) :
       MergeCollected(w[1], w[2], unresolved)
  \/ \E w \in Written : MergeRefused(w[1], w[2])
  \/ \E w \in Written : MergePanics(w[1], w[2])
  \/ \E k \in DOMAIN routine : Runs(k)
  \/ \E k \in DOMAIN routine : RunStops(k)
  \/ \E k \in DOMAIN routine : RunFails(k)
  \/ \E k \in DOMAIN routine : Ends(k)
  \/ \E k \in DOMAIN routine : Recovers(k)
  \/ \E k \in DOMAIN routine : Repeats(k)
  \/ \E k \in DOMAIN routine : Sleeps(k)
  \/ \E k \in DOMAIN routine : Wakes(k)

Spec == Init /\ [][Next]_vars

(***************************************************************************)
(* Fairness.  launch.go goes on to AddCallback; goroutines are scheduled,  *)
(* but a ping that works never has to return.  Push/pull brings every      *)
(* written entry again and again, and no target's name lookup fails every  *)
(* time it is needed; that all lookups of one Coordinate succeed together  *)
(* is not assumed.                                                         *)
(***************************************************************************)
Needed(j, e, a) == store[j] # e \/ ~ Known(j, IdFor(a, e.group))

MergeResolving(j, e, a) ==
  /\ Needed(j, e, a)
  /\ \E unresolved \in SUBSET (Targets(e.group) \ {a}) :
       MergeCollected(j, e, unresolved)

Fairness ==
  /\ WF_vars(AddCallback)
  /\ \A k \in Task : WF_vars(Step(k))
  /\ \A w \in Written : \A a \in Targets(w[2].group) :
       SF_vars(MergeResolving(w[1], w[2], a))

FairSpec == Spec /\ Fairness

-----------------------------------------------------------------------------
(* Properties.                                                             *)

\* A goroutine that has not been told to stop belongs to a task in
\* Collector.tasks: no target is pinged by a goroutine that nobody can stop
\* any more.  (The converse fails: a recovered panic leaves a task without.)
NoLeak == \A k \in DOMAIN routine : ~ routine[k].stopped => k \in Objects

\* "remote none exist" (manager.go): no task is left for a target that is
\* not in the group the store holds for its job, or that has other labels
\* there.
GoneTargetsStopped ==
  \A j \in Jobs : \A k \in Range(tasks[j]) :
    k.addr \in Targets(store[j].group) /\ k.labels = Labels(store[j].group)

\* The goroutines of stopped tasks end: Stop reaches each whether it has not
\* yet called Run, pings, or sleeps after an error, and once no new entry is
\* written none is left that still has to end.
StoppedTasksEnd == <>[] (\A k \in DOMAIN routine : ~ routine[k].stopped)

\* In the end the tasks a process keeps are those of the targets of the
\* entries in its store, with their labels, and no others, although entries
\* may be merged before the callback is there and newTask may fail for some
\* target every time Coordinate runs: equal timestamps are accepted, so the
\* next push/pull coordinates the same entry again.  (Whether a task still
\* pings is its goroutine's business: one whose pinger is closed, or whose
\* panic was recovered, does not.)
TasksFollowStore ==
  <>[] (phase = "running" => \A j \in Jobs :
          {<<k.addr, k.labels>> : k \in Range(tasks[j])}
            = {<<a, Labels(store[j].group)>> : a \in Targets(store[j].group)})

=============================================================================
