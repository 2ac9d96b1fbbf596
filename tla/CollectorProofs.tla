-------------------------- MODULE CollectorProofs --------------------------
(***************************************************************************)
(* Theorems about Collector, for any jobs, groups, labels and entries, and *)
(* any number of goroutines.  Task ids are opaque here but for the last    *)
(* theorem, which rests on TaskIdProofs.                                   *)
(***************************************************************************)
EXTENDS Collector, TaskIdProofs

\* The id of every task is one Coordinate computed for the stored group.
TasksWanted ==
  \A j \in Jobs : DOMAIN tasks[j] \subseteq Wanted(store[j].group)

\* Nothing is coordinated before the callback is registered.
NoTasksYet == phase = "registered" => \A j \in Jobs : DOMAIN tasks[j] = {}

IInv ==
  /\ TypeOK
  /\ NoLeak
  /\ TasksWanted
  /\ NoTasksYet

\* Targets that get a task are of the group and have no task yet.
LEMMA AddedTargets ==
  ASSUME NEW j, NEW group \in Groups, NEW unresolved
  PROVE  \A a \in Added(j, group, unresolved) :
           /\ a \in Targets(group)
           /\ IdFor(a, group) \notin DOMAIN tasks[j]
<1>1. Targets(group) = {group.targets[i] : i \in DOMAIN group.targets}
  BY MeshEntryAssumption DEF Targets, ToSet
<1>. QED  BY <1>1 DEF Added, Known

\* The objects that are in the map afterwards are those of the job's tasks and
\* of the other jobs.
LEMMA ObjectsOf ==
  ASSUME NEW k
  PROVE  k \in Objects <=> \E j \in Jobs : \E id \in DOMAIN tasks[j] : tasks[j][id] = k
BY DEF Objects, Range

\* Coordinate leaves the tasks and the goroutines well typed and matched, and
\* for its job ids of the group it was called with alone; other jobs keep
\* theirs.
LEMMA CoordinateCorrect ==
  ASSUME IInv, NEW j \in Jobs, NEW group \in Groups, NEW unresolved,
         Coordinate(j, group, unresolved)
  PROVE  /\ DOMAIN tasks' = Jobs
         /\ \A i \in Jobs : i # j => tasks'[i] = tasks[i]
         /\ \A id \in DOMAIN tasks'[j] :
              LET k == tasks'[j][id] IN k \in Task /\ k.job = j /\ IdOf(k) = id
         /\ DOMAIN tasks'[j] \subseteq Wanted(group)
         /\ DOMAIN routine' \subseteq Task
         /\ routine' \in [DOMAIN routine' -> Routine]
         /\ NoLeak'
<1> DEFINE added == Added(j, group, unresolved)
           object(a) == CHOOSE k \in Fresh(j, group, a) : TRUE
           ids == {IdFor(a, group) : a \in added}
           target(id) == CHOOSE a \in added : IdFor(a, group) = id
           new == [id \in ids |-> object(target(id))]
           gone == Gone(j, group)
<1>0. TypeOK /\ NoLeak
  BY DEF IInv
<1>1. /\ \A a \in added : Fresh(j, group, a) # {}
      /\ tasks' = [tasks EXCEPT ![j] =
           [id \in (DOMAIN @ \ gone) \cup DOMAIN new |->
              IF id \in DOMAIN new THEN new[id] ELSE @[id]]]
      /\ routine' = [k \in DOMAIN routine \cup Range(new) |->
           IF k \in Range(new)
           THEN [at |-> "loop", stopped |-> FALSE, done |-> FALSE]
           ELSE IF \E id \in gone : tasks[j][id] = k THEN Stop(routine[k])
           ELSE routine[k]]
  BY DEF Coordinate
<1>2. \A id \in ids : target(id) \in added /\ IdFor(target(id), group) = id
  OBVIOUS
<1>3. \A a \in added : object(a) \in Fresh(j, group, a)
  BY <1>1
<1>4. DOMAIN new = ids /\ \A id \in ids : new[id] \in Fresh(j, group, target(id))
  BY <1>2, <1>3
<1> HIDE DEF object, target, new, gone, added
<1>5. \A id \in ids : /\ target(id) \in Targets(group)
                      /\ id \in Wanted(group)
                      /\ id \notin DOMAIN tasks[j]
  BY <1>2, AddedTargets DEF added, Wanted
<1>6. \A id \in ids : /\ new[id] \in Task /\ new[id].job = j
                      /\ IdOf(new[id]) = id
                      /\ new[id] \notin DOMAIN routine /\ new[id] \notin Objects
  <2> TAKE id \in ids
  <2>1. new[id] \in [job : {j}, addr : {target(id)}, labels : {Labels(group)},
                     no : 1 .. MaxRoutines]
        /\ new[id] \notin DOMAIN routine /\ new[id] \notin Objects
    BY <1>4 DEF Fresh
  <2>2. target(id) \in Addrs /\ Labels(group) \in LabelSets
    BY <1>5 DEF Addrs, LabelSets
  <2>3. IdFor(target(id), group) = id
    BY <1>2
  <2>. QED  BY <2>1, <2>2, <2>3 DEF Task, IdOf, IdFor
<1>7. gone = DOMAIN tasks[j] \ Wanted(group)
  BY DEF gone, Gone
<1>8. /\ DOMAIN tasks' = Jobs
      /\ \A i \in Jobs : i # j => tasks'[i] = tasks[i]
      /\ tasks'[j] = [id \in (DOMAIN tasks[j] \ gone) \cup ids |->
                       IF id \in ids THEN new[id] ELSE tasks[j][id]]
  BY <1>0, <1>1, <1>4 DEF TypeOK
<1>9. \A id \in DOMAIN tasks'[j] :
        LET k == tasks'[j][id] IN k \in Task /\ k.job = j /\ IdOf(k) = id
  BY <1>0, <1>6, <1>8 DEF TypeOK
<1>10. DOMAIN tasks'[j] \subseteq Wanted(group)
  BY <1>5, <1>7, <1>8
<1>11. Range(new) = {new[id] : id \in ids}
  BY <1>4 DEF Range
<1>12. DOMAIN routine' = (DOMAIN routine) \cup Range(new)
  BY <1>1
<1>13. DOMAIN routine' \subseteq Task
  BY <1>0, <1>6, <1>11, <1>12 DEF TypeOK
<1>14. routine' \in [DOMAIN routine' -> Routine]
  <2> SUFFICES ASSUME NEW k \in DOMAIN routine' PROVE routine'[k] \in Routine
    BY <1>1, <1>12
  <2>1. CASE k \in Range(new)
    BY <1>1, <1>12, <2>1 DEF Routine
  <2>2. CASE k \notin Range(new)
    <3>1. routine[k] \in Routine
      BY <1>0, <1>12, <2>2 DEF TypeOK
    <3>2. Stop(routine[k]) \in Routine
      BY <3>1 DEF Stop, Routine
    <3>. QED  BY <1>1, <1>12, <2>2, <3>1, <3>2
  <2>. QED  BY <2>1, <2>2
<1>15. NoLeak'
  <2> SUFFICES ASSUME NEW k \in DOMAIN routine', ~ routine'[k].stopped
               PROVE  \E i \in Jobs : \E id \in DOMAIN tasks'[i] : tasks'[i][id] = k
    BY DEF NoLeak, Objects, Range
  <2>1. CASE k \in Range(new)
    BY <1>8, <1>11, <2>1
  <2>2. CASE k \notin Range(new)
    <3>1. k \in DOMAIN routine /\ routine[k] \in Routine
      BY <1>0, <1>12, <2>2 DEF TypeOK
    <3>2. ~ \E id \in gone : tasks[j][id] = k
      <4>1. SUFFICES ASSUME \E id \in gone : tasks[j][id] = k PROVE FALSE
        OBVIOUS
      <4>2. routine'[k] = Stop(routine[k])
        BY <1>1, <1>12, <2>2, <4>1
      <4>. QED  BY <3>1, <4>2 DEF Stop, Routine
    <3>3. routine'[k] = routine[k]
      BY <1>1, <1>12, <2>2, <3>2
    <3>3a. PICK i \in Jobs : \E id \in DOMAIN tasks[i] : tasks[i][id] = k
      BY <1>0, <3>1, <3>3, ObjectsOf DEF NoLeak
    <3>4. PICK id \in DOMAIN tasks[i] : tasks[i][id] = k
      BY <3>3a
    <3>5. CASE i = j
      <4>1. id \notin gone
        BY <3>2, <3>4, <3>5
      <4>2. id \notin ids
        BY <1>5, <3>4, <3>5
      <4>. QED  BY <1>8, <3>4, <3>5, <4>1, <4>2
    <3>6. CASE i # j
      BY <1>8, <3>4, <3>6
    <3>. QED  BY <3>5, <3>6
  <2>. QED  BY <2>1, <2>2
<1>. QED  BY <1>8, <1>9, <1>10, <1>13, <1>14, <1>15

\* What Store.Merge keeps of the store when it takes one entry.
LEMMA MergeOne ==
  ASSUME store \in EntryMap, NEW j \in Jobs, NEW e \in Entry,
         j \in Accepted(store, Single(j, e))
  PROVE  /\ Merge(store, Single(j, e)) = [store EXCEPT ![j] = e]
         /\ Merge(store, Single(j, e)) \in EntryMap
<1>1. Accepted(store, Single(j, e)) = {j}
  BY DEF Accepted, Single
<1>. QED  BY <1>1 DEF Merge, Single, EntryMap

LEMMA MergeTyped ==
  ASSUME store \in EntryMap, NEW j \in Jobs, NEW e \in Entry
  PROVE  Merge(store, Single(j, e)) \in EntryMap
BY DEF Merge, Single, EntryMap

\* Steps of the goroutine of one task change where it is and may close its
\* done channel, or end it, whether it was told to stop or panicked.
LEMMA GoroutineStep ==
  ASSUME IInv, NEW k \in DOMAIN routine, UNCHANGED <<phase, store, tasks>>,
         \/ \E r \in Routine :
              /\ r.stopped = routine[k].stopped
              /\ routine' = [routine EXCEPT ![k] = r]
         \/ routine' = [r \in DOMAIN routine \ {k} |-> routine[r]]
  PROVE  IInv'
<1>1. Objects' = Objects
  BY DEF Objects
<1>. USE DEF IInv
<1>2. TypeOK' /\ TasksWanted'
  BY DEF TypeOK, TasksWanted
<1>2a. NoTasksYet'
  BY DEF NoTasksYet
<1>3. NoLeak'
  <2>1. CASE routine' = [r \in DOMAIN routine \ {k} |-> routine[r]]
    BY <1>1, <2>1 DEF NoLeak
  <2>2. CASE \E r \in Routine : /\ r.stopped = routine[k].stopped
                                /\ routine' = [routine EXCEPT ![k] = r]
    <3>1. PICK r \in Routine : /\ r.stopped = routine[k].stopped
                               /\ routine' = [routine EXCEPT ![k] = r]
      BY <2>2
    <3>2. DOMAIN routine' = DOMAIN routine
      BY <3>1
    <3>3. \A l \in DOMAIN routine : routine'[l].stopped = routine[l].stopped
      BY <3>1 DEF TypeOK
    <3>. QED  BY <1>1, <3>2, <3>3 DEF NoLeak
  <2>. QED  BY <2>1, <2>2
<1>. QED  BY <1>2, <1>2a, <1>3

\* The inductive invariant: every goroutine that was not told to stop belongs
\* to a task, and the ids are those of their tasks and of the stored group.
THEOREM TasksConsistent == Spec => []IInv
<1>1. Init => IInv
  <2>. SUFFICES ASSUME Init PROVE IInv
    OBVIOUS
  <2>1. DOMAIN routine = {}
    BY DEF Init
  <2>2. store \in EntryMap
    BY DEF Init, NoEntries, EntryMap
  <2>3. DOMAIN tasks = Jobs /\ \A j \in Jobs : DOMAIN tasks[j] = {}
    BY DEF Init
  <2>. QED  BY <2>1, <2>2, <2>3 DEF Init, IInv, TypeOK, NoLeak,
            TasksWanted, NoTasksYet
<1>2. IInv /\ [Next]_vars => IInv'
  <2>. SUFFICES ASSUME IInv, [Next]_vars PROVE IInv'
    OBVIOUS
  <2>0. TypeOK /\ NoLeak /\ TasksWanted /\ NoTasksYet
    BY DEF IInv
  <2>w. \A w \in Written : w[1] \in Jobs /\ w[2] \in Entry
    BY CollectorAssumption
  <2>1. CASE AddCallback
    <3>1. Objects' = Objects
      BY <2>1 DEF AddCallback, Objects
    <3>. QED  BY <2>0, <2>1, <3>1 DEF AddCallback, IInv, TypeOK, NoLeak,
            TasksWanted, NoTasksYet
  <2>2. ASSUME NEW w \in Written, MergeUncollected(w[1], w[2])
        PROVE  IInv'
    <3>1. store' \in EntryMap
      BY <2>0, <2>2, <2>w, MergeTyped DEF MergeUncollected, TypeOK
    <3>2. UNCHANGED <<phase, tasks, routine>>
      BY <2>2 DEF MergeUncollected
    <3>3. Objects' = Objects
      BY <3>2 DEF Objects
    <3>4. phase = "registered"
      BY <2>2 DEF MergeUncollected
    <3>. QED  BY <2>0, <3>1, <3>2, <3>3, <3>4
              DEF IInv, TypeOK, NoLeak, TasksWanted, NoTasksYet
  <2>3. ASSUME NEW w \in Written, NEW unresolved,
               MergeCollected(w[1], w[2], unresolved)
        PROVE  IInv'
    <3> DEFINE j == w[1]
               e == w[2]
    <3>1. j \in Jobs /\ e \in Entry
      BY <2>w
    <3>2. e.group \in Groups
      BY <2>3, <3>1 DEF MergeCollected, Entry, ActiveEntry, Tombstone
    <3>3. store' = [store EXCEPT ![j] = e] /\ store' \in EntryMap
      BY <2>0, <2>3, <3>1, MergeOne DEF MergeCollected, TypeOK
    <3>4. Coordinate(j, e.group, unresolved) /\ UNCHANGED phase /\ phase = "running"
      BY <2>3 DEF MergeCollected
    <3> HIDE DEF j, e
    <3>5. /\ DOMAIN tasks' = Jobs
          /\ \A i \in Jobs : i # j => tasks'[i] = tasks[i]
          /\ \A id \in DOMAIN tasks'[j] :
               LET k == tasks'[j][id] IN k \in Task /\ k.job = j /\ IdOf(k) = id
          /\ DOMAIN tasks'[j] \subseteq Wanted(e.group)
          /\ DOMAIN routine' \subseteq Task
          /\ routine' \in [DOMAIN routine' -> Routine]
          /\ NoLeak'
      BY <3>1, <3>2, <3>4, CoordinateCorrect
    <3>6. TasksWanted'
      <4> SUFFICES ASSUME NEW i \in Jobs
                   PROVE  DOMAIN tasks'[i] \subseteq Wanted(store'[i].group)
        BY DEF TasksWanted
      <4>1. CASE i = j
        BY <2>0, <3>1, <3>3, <3>5, <4>1 DEF TypeOK, EntryMap
      <4>2. CASE i # j
        <5>1. store'[i] = store[i]
          BY <2>0, <3>3, <4>2 DEF TypeOK, EntryMap
        <5>. QED  BY <2>0, <3>5, <4>2, <5>1 DEF TasksWanted
      <4>. QED  BY <4>1, <4>2
    <3>7. TypeOK'
      BY <2>0, <3>3, <3>4, <3>5 DEF TypeOK
    <3>. QED  BY <3>4, <3>5, <3>6, <3>7 DEF IInv, NoTasksYet
  <2>4. ASSUME UNCHANGED vars
        PROVE  IInv'
    <3>1. Objects' = Objects
      BY <2>4 DEF vars, Objects
    <3>. QED  BY <2>0, <2>4, <3>1 DEF vars, IInv, TypeOK, NoLeak, TasksWanted,
              NoTasksYet
  <2>5. ASSUME NEW w \in Written, MergePanics(w[1], w[2])
        PROVE  IInv'
    <3>1. /\ tasks' = [i \in Jobs |-> <<>>] /\ routine' = <<>>
          /\ phase' = "dead" /\ store' = NoEntries
      BY <2>5 DEF MergePanics
    <3>2. DOMAIN routine' = {} /\ store' \in EntryMap
      BY <3>1 DEF NoEntries, EntryMap
    <3>3. DOMAIN tasks' = Jobs /\ \A i \in Jobs : DOMAIN tasks'[i] = {}
      BY <3>1
    <3>. QED  BY <3>1, <3>2, <3>3 DEF IInv, TypeOK, NoLeak, TasksWanted, NoTasksYet
  <2>6. ASSUME NEW k \in DOMAIN routine,
               \/ Runs(k) \/ RunStops(k) \/ RunFails(k)
               \/ Repeats(k) \/ Sleeps(k) \/ Wakes(k)
        PROVE  IInv'
    <3>1. routine[k] \in Routine /\ UNCHANGED <<phase, store, tasks>>
      BY <2>0, <2>6 DEF TypeOK, Runs, RunStops, RunFails, Repeats, Sleeps, Wakes, Goto
    <3>2. PICK there \in {"loop", "running", "failed", "returned", "sleeping"},
               closed \in BOOLEAN :
            routine' = [routine EXCEPT ![k].at = there, ![k].done = closed]
      BY <2>0, <2>6, <3>1 DEF TypeOK, Runs, RunStops, RunFails, Repeats, Sleeps, Wakes,
         Goto, Routine
    <3> DEFINE r == [routine[k] EXCEPT !.at = there, !.done = closed]
    <3>3. r \in Routine /\ r.stopped = routine[k].stopped
      BY <3>1 DEF Routine
    <3>4. routine' = [routine EXCEPT ![k] = r]
      BY <2>0, <3>1, <3>2 DEF TypeOK, Routine
    <3>. QED  BY <3>1, <3>3, <3>4, GoroutineStep
  <2>7. ASSUME NEW k \in DOMAIN routine, Ends(k) \/ Recovers(k)
        PROVE  IInv'
    BY <2>7, GoroutineStep DEF Ends, Recovers, Exits
  <2>. QED  BY <2>1, <2>2, <2>3, <2>4, <2>5, <2>6, <2>7 DEF Next, MergeRefused
<1>. QED  BY <1>1, <1>2, PTL DEF Spec

\* Type correctness; above all, every task is in the map of its job under the
\* id of its address and its labels, so that Coordinate finds it again.
THEOREM TypeCorrect == Spec => []TypeOK
BY TasksConsistent, PTL DEF IInv

\* No goroutine goes on pinging without a task through which it can be stopped.
THEOREM NoGoroutineLeaks == Spec => []NoLeak
BY TasksConsistent, PTL DEF IInv

\* Every group has labels, its own or external ones, and nothing in it holds
\* the separator.
TargetsLabelled == Addrs \subseteq Text /\ LabelSets \subseteq LabelSet

\* Ids of different targets, or of a target with different labels, differ.
\* Without labels they do not (see the run collector_nolabels).
LEMMA IdsDistinct ==
  ASSUME TargetsLabelled, NEW a \in Addrs, NEW b \in Addrs,
         NEW l \in LabelSets, NEW m \in LabelSets, Id(a, l) = Id(b, m)
  PROVE  a = b /\ l = m
<1>1. TaskID(a, l) = TaskID(b, m)
  BY DEF Id, Ids
<1>2. a \in Text /\ b \in Text /\ l \in LabelSet /\ m \in LabelSet
  BY DEF TargetsLabelled
<1>. QED  BY <1>1, <1>2, TaskIdInjective

\* If targets have labels, "remote none exist" (manager.go) removes the task
\* of every target that left the group or got other labels.
THEOREM GoneTargetsAreStopped ==
  ASSUME TargetsLabelled
  PROVE  Spec => []GoneTargetsStopped
<1>1. IInv => GoneTargetsStopped
  <2>. SUFFICES ASSUME IInv, NEW j \in Jobs, NEW id \in DOMAIN tasks[j]
               PROVE  LET group == store[j].group
                          k == tasks[j][id]
                      IN k.addr \in Targets(group) /\ k.labels = Labels(group)
    BY DEF GoneTargetsStopped, Range
  <2> DEFINE group == store[j].group
             k == tasks[j][id]
  <2>1. k \in Task /\ IdOf(k) = id /\ id \in Wanted(group)
    BY DEF IInv, TypeOK, TasksWanted
  <2>2. group \in Groups \cup {NoGroup}
    BY DEF IInv, TypeOK, EntryMap, Entry, ActiveEntry, Tombstone, Absent
  <2> HIDE DEF group, k
  <2>3. PICK a \in Targets(group) : Id(k.addr, k.labels) = Id(a, Labels(group))
    BY <2>1 DEF Wanted, IdOf, IdFor
  <2>4. group \in Groups
    BY <2>2, <2>3 DEF Targets
  <2>5. a \in Addrs /\ Labels(group) \in LabelSets /\ k.addr \in Addrs
        /\ k.labels \in LabelSets
    BY <2>1, <2>3, <2>4 DEF Addrs, LabelSets, Task
  <2>6. k.addr = a /\ k.labels = Labels(group)
    <3>1. Id(k.addr, k.labels) = Id(a, Labels(group))
      BY <2>3
    <3>. QED  BY <2>5, <3>1, IdsDistinct
  <2>. QED  BY <2>3, <2>6 DEF group, k
<1>. QED  BY <1>1, TasksConsistent, PTL

=============================================================================
