----------------------------- MODULE MeshProofs -----------------------------
(***************************************************************************)
(* Proofs about Mesh, for any set of nodes, jobs and groups, any bound on  *)
(* timestamps, queues and faults, and any mix of dry-run and collecting    *)
(* processes.                                                              *)
(***************************************************************************)
EXTENDS Mesh, SequenceTheorems, TLAPS

-----------------------------------------------------------------------------
(* The data: entries and the merge rule of Store.merge.                    *)

\* Every name of a store maps to an entry or to Absent, with a timestamp.
LEMMA StampIsNat ==
  ASSUME NEW entries \in EntryMap, NEW j \in Jobs
  PROVE  /\ entries[j] \in Entry \cup {Absent}
         /\ entries[j].updated \in Nat
  BY MeshEntryAssumption
  DEF EntryMap, Entry, ActiveEntry, Tombstone, Absent, Stamps

LEMMA NoEntriesType == NoEntries \in EntryMap
  BY DEF NoEntries, EntryMap

LEMMA SingleType ==
  ASSUME NEW j \in Jobs, NEW e \in Entry
  PROVE  Single(j, e) \in EntryMap
  BY DEF Single, EntryMap

LEMMA MergeType ==
  ASSUME NEW entries \in EntryMap, NEW payload \in EntryMap
  PROVE  Merge(entries, payload) \in EntryMap
  BY DEF Merge, EntryMap

\* Merging never lowers a timestamp and takes over what is at least as new:
\* the result dominates both sides.
LEMMA MergeDominates ==
  ASSUME NEW entries \in EntryMap, NEW payload \in EntryMap, NEW j \in Jobs
  PROVE  /\ Merge(entries, payload)[j].updated >= entries[j].updated
         /\ Merge(entries, payload)[j].updated >= payload[j].updated
<1>1. /\ entries[j].updated \in Nat
      /\ payload[j].updated \in Nat
  BY StampIsNat
<1>2. CASE j \in Accepted(entries, payload)
  <2>1. Merge(entries, payload)[j] = payload[j]
    BY <1>2 DEF Merge
  <2>2. ~ (entries[j].updated > payload[j].updated)
    BY <1>2 DEF Accepted
  <2> QED BY <1>1, <2>1, <2>2
<1>3. CASE j \notin Accepted(entries, payload)
  <2>1. Merge(entries, payload)[j] = entries[j]
    BY <1>3 DEF Merge
  <2>2. payload[j] = Absent \/ entries[j].updated > payload[j].updated
    BY <1>3 DEF Accepted
  <2> QED BY <1>1, <2>1, <2>2 DEF Absent
<1> QED BY <1>2, <1>3

\* What is in a merged store was in one of the two sides.
LEMMA MergeChooses ==
  ASSUME NEW entries, NEW payload, NEW j \in Jobs
  PROVE  \/ Merge(entries, payload)[j] = entries[j]
         \/ Merge(entries, payload)[j] = payload[j]
  BY DEF Merge

-----------------------------------------------------------------------------
(* Type correctness.                                                       *)

LEMMA GoneType ==
  ASSUME TypeOK, NEW n \in Nodes, NEW pending \in SUBSET Message,
         Gone(n, pending), UNCHANGED issued, faults' \in 0 .. MaxFaults
  PROVE  TypeOK'
<1> USE DEF TypeOK
<1>1. phase' \in [Nodes -> Phases]
  BY DEF Gone, Phases
<1>2. store' \in [Nodes -> EntryMap]
  BY NoEntriesType DEF Gone
<1>3. /\ msgc' \in [Nodes -> Seq(EntryMap)]
      /\ \A m \in Nodes : Len(msgc'[m]) <= QueueCap
  BY MeshAssumption DEF Gone
<1>4. sending' \in [Nodes -> [payload : EntryMap, peers : SUBSET Nodes]]
  BY NoEntriesType DEF Gone, Idle
<1>5. net' \in SUBSET Message
  BY DEF Gone
<1> QED BY <1>1, <1>2, <1>3, <1>4, <1>5

LEMMA ReceiveType ==
  ASSUME TypeOK, NEW n \in Nodes, NEW payload \in EntryMap,
         NEW pending \in SUBSET Message, Receive(n, payload, pending),
         UNCHANGED <<issued, faults>>
  PROVE  TypeOK'
<1>1. CASE phase[n] = "booting" /\ net' = pending
           /\ UNCHANGED <<phase, store, msgc, sending>>
  BY <1>1 DEF TypeOK
<1>2. CASE store' = [store EXCEPT ![n] = Merge(@, payload)] /\ net' = pending
           /\ UNCHANGED <<phase, msgc, sending>>
  <2>1. Merge(store[n], payload) \in EntryMap
    BY MergeType DEF TypeOK
  <2> QED BY <1>2, <2>1 DEF TypeOK
<1>3. CASE Gone(n, pending)
  BY <1>3, GoneType DEF TypeOK
<1> QED BY <1>1, <1>2, <1>3 DEF Receive

\* Every variable keeps its type and msgc never exceeds its capacity
\* (Channel.Broadcast drops instead of blocking).
THEOREM TypeCorrect == Spec => []TypeOK
<1>1. Init => TypeOK
  BY NoEntriesType, MeshAssumption DEF Init, TypeOK, Idle, Phases
<1>2. TypeOK /\ [Next]_vars => TypeOK'
  <2> SUFFICES ASSUME TypeOK, [Next]_vars
               PROVE  TypeOK'
    OBVIOUS
  <2>1. CASE UNCHANGED vars
    BY <2>1 DEF TypeOK, vars
  <2>2. ASSUME NEW n \in Nodes, Start(n) \/ AddState(n) \/ Serve(n) \/ Leave(n)
        PROVE  TypeOK'
    <3>1. phase' \in [Nodes -> Phases]
      BY <2>2 DEF TypeOK, Phases, Start, AddState, Serve, Leave
    <3>2. faults' \in 0 .. MaxFaults
      BY <2>2, MeshAssumption DEF TypeOK, Start, AddState, Serve, Leave, Fault
    <3> QED BY <2>2, <3>1, <3>2 DEF TypeOK, Start, AddState, Serve, Leave
  <2>3. ASSUME NEW n \in Nodes, Crash(n) \/ Exit(n)
        PROVE  TypeOK'
    <3>1. faults' \in 0 .. MaxFaults /\ UNCHANGED issued
      BY <2>3, MeshAssumption DEF TypeOK, Crash, Exit, Fault
    <3>2. Gone(n, net)
      BY <2>3 DEF Crash, Exit
    <3>3. net \in SUBSET Message
      BY DEF TypeOK
    <3> QED BY <3>1, <3>2, <3>3, GoneType
  <2>4. ASSUME NEW n \in Nodes, NEW j \in Jobs, NEW e \in Entry,
               BroadcastQueued(n, j, e)
        PROVE  TypeOK'
    <3>1. Single(j, e) \in EntryMap
      BY SingleType
    <3>2. /\ msgc[n] \in Seq(EntryMap)
          /\ Len(msgc[n]) < QueueCap
          /\ Len(msgc[n]) \in Nat
      BY <2>4, LenProperties DEF BroadcastQueued, TypeOK
    <3>3. /\ Append(msgc[n], Single(j, e)) \in Seq(EntryMap)
          /\ Len(Append(msgc[n], Single(j, e))) <= QueueCap
      BY <3>1, <3>2, AppendProperties, MeshAssumption
    <3>4. msgc' = [msgc EXCEPT ![n] = Append(msgc[n], Single(j, e))]
      BY <2>4 DEF BroadcastQueued
    <3>5. /\ msgc' \in [Nodes -> Seq(EntryMap)]
          /\ \A p \in Nodes : Len(msgc'[p]) <= QueueCap
      BY <3>3, <3>4 DEF TypeOK
    <3> QED BY <2>4, <3>5 DEF BroadcastQueued, TypeOK
  <2>5. ASSUME NEW n \in Nodes, NEW j \in Jobs, NEW e \in Entry,
               BroadcastDropped(n, j, e)
        PROVE  TypeOK'
    BY <2>5 DEF BroadcastDropped, TypeOK
  <2>6. ASSUME NEW n \in Nodes, Dequeue(n)
        PROVE  TypeOK'
    <3>1. /\ msgc[n] \in Seq(EntryMap)
          /\ msgc[n] # <<>>
      BY <2>6 DEF Dequeue, TypeOK
    <3>2. /\ Head(msgc[n]) \in EntryMap
          /\ Tail(msgc[n]) \in Seq(EntryMap)
          /\ Len(Tail(msgc[n])) = Len(msgc[n]) - 1
          /\ Len(msgc[n]) \in Nat
      BY <3>1, HeadTailProperties, LenProperties
    <3>3. msgc' = [msgc EXCEPT ![n] = Tail(msgc[n])]
      BY <2>6 DEF Dequeue
    <3>4. Len(Tail(msgc[n])) <= QueueCap
      BY <3>2, MeshAssumption DEF TypeOK
    <3>5. /\ msgc' \in [Nodes -> Seq(EntryMap)]
          /\ \A p \in Nodes : Len(msgc'[p]) <= QueueCap
      BY <3>2, <3>3, <3>4 DEF TypeOK
    <3>6. sending' \in [Nodes -> [payload : EntryMap, peers : SUBSET Nodes]]
      BY <2>6, <3>2, NoEntriesType DEF Dequeue, TypeOK, Views, Idle
    <3> QED BY <2>6, <3>5, <3>6 DEF Dequeue, TypeOK
  <2>7. ASSUME NEW n \in Nodes, NEW p \in Nodes, Send(n, p) \/ SendFails(n, p)
        PROVE  TypeOK'
    <3>1. sending' \in [Nodes -> [payload : EntryMap, peers : SUBSET Nodes]]
      <4> DEFINE out == [payload : EntryMap, peers : SUBSET Nodes]
                 left == [payload |-> sending[n].payload,
                          peers |-> sending[n].peers \ {p}]
                 rest == IF sending[n].peers \ {p} = {} THEN Idle ELSE left
      <4>1. sending' = [sending EXCEPT ![n] = rest]
        BY <2>7 DEF Send, SendFails, SenderDone
      <4>2. sending[n] \in out
        BY DEF TypeOK
      <4>3. Idle \in out
        BY NoEntriesType DEF Idle
      <4>4. left \in out
        BY <4>2
      <4>5. rest \in out
        BY <4>3, <4>4
      <4> HIDE DEF rest
      <4> QED BY <4>1, <4>5 DEF TypeOK
    <3>2. net' \in SUBSET Message
      BY <2>7 DEF Send, SendFails, TypeOK, Message
    <3> QED BY <2>7, <3>1, <3>2 DEF Send, SendFails, TypeOK
  <2>8. ASSUME NEW n \in Nodes, NEW p \in Nodes, StartExchange(n, p)
        PROVE  TypeOK'
    BY <2>8 DEF StartExchange, TypeOK, Message
  <2>9. ASSUME NEW n \in Nodes, ExchangeFails(n)
        PROVE  TypeOK'
    BY <2>9, MeshAssumption DEF ExchangeFails, TypeOK, Fault
  <2>10. ASSUME NEW m \in net, NotifyMsg(m) \/ HandlePull(m)
         PROVE  TypeOK'
    <3>1. m \in Message /\ m.to \in Nodes /\ m.payload \in EntryMap
      BY DEF TypeOK, Message
    <3>2. net \ {m} \in SUBSET Message
      BY DEF TypeOK
    <3> QED BY <2>10, <3>1, <3>2, ReceiveType DEF NotifyMsg, HandlePull
  <2>11. ASSUME NEW m \in net, HandlePush(m)
         PROVE  TypeOK'
    <3> DEFINE answer == [kind |-> "pull", from |-> m.to, to |-> m.from,
                          payload |-> store[m.to]]
    <3>1. /\ m \in Message
          /\ m.to \in Nodes
          /\ m.from \in Nodes
          /\ m.payload \in EntryMap
      BY DEF TypeOK, Message
    <3>2. answer \in Message
      BY <3>1 DEF TypeOK, Message
    <3>3. (net \ {m}) \cup {answer} \in SUBSET Message
      BY <3>2 DEF TypeOK
    <3>4. Receive(m.to, m.payload, (net \ {m}) \cup {answer})
      BY <2>11 DEF HandlePush
    <3>5. UNCHANGED <<issued, faults>>
      BY <2>11 DEF HandlePush
    <3> HIDE DEF answer
    <3> QED BY <3>1, <3>3, <3>4, <3>5, ReceiveType
  <2> QED BY <2>1, <2>2, <2>3, <2>4, <2>5, <2>6, <2>7, <2>8, <2>9, <2>10,
             <2>11 DEF Next
<1> QED BY <1>1, <1>2, PTL DEF Spec

-----------------------------------------------------------------------------
(* One replica at a time: what a step may do to the stores.                *)

\* A step leaves all stores alone, or ends one process, or merges into one
\* store a payload that was on the network.
LEMMA StoreSteps ==
  ASSUME TypeOK, [Next]_vars
  PROVE  \/ UNCHANGED store
         \/ \E n \in Nodes : /\ phase' = [phase EXCEPT ![n] = "down"]
                             /\ store' = [store EXCEPT ![n] = NoEntries]
         \/ \E m \in net :
              /\ UNCHANGED phase
              /\ ~ Panics(m.to, m.payload)
              /\ store' = [store EXCEPT ![m.to] =
                             Merge(store[m.to], m.payload)]
<1>1. CASE UNCHANGED vars
  BY <1>1 DEF vars
<1>2. ASSUME NEW n \in Nodes, Crash(n) \/ Exit(n)
      PROVE  /\ phase' = [phase EXCEPT ![n] = "down"]
             /\ store' = [store EXCEPT ![n] = NoEntries]
  BY <1>2 DEF Crash, Exit, Gone
<1>3. ASSUME NEW m \in net, NotifyMsg(m) \/ HandlePush(m) \/ HandlePull(m)
      PROVE  \/ UNCHANGED store
             \/ /\ phase' = [phase EXCEPT ![m.to] = "down"]
                /\ store' = [store EXCEPT ![m.to] = NoEntries]
             \/ /\ UNCHANGED phase
                /\ ~ Panics(m.to, m.payload)
                /\ store' = [store EXCEPT ![m.to] =
                               Merge(store[m.to], m.payload)]
  BY <1>3 DEF NotifyMsg, HandlePush, HandlePull, Receive, Gone
<1>4. \A m \in net : m.to \in Nodes
  BY DEF TypeOK, Message
<1>5. ASSUME Next, \A n \in Nodes : ~ (Crash(n) \/ Exit(n)),
             \A m \in net : ~ (NotifyMsg(m) \/ HandlePush(m) \/ HandlePull(m))
      PROVE  UNCHANGED store
  BY <1>5
  DEF Next, Start, AddState, Serve, Leave, BroadcastQueued, BroadcastDropped,
      Dequeue, Send, SendFails, StartExchange, ExchangeFails
<1> QED BY <1>1, <1>2, <1>3, <1>4, <1>5

\* StampsNeverFall holds in every mesh: the timestamp of a job in the store
\* of a process that keeps running never falls (Store.merge).
THEOREM StampsMonotonic == Spec => StampsNeverFall
<1>1. ASSUME TypeOK, [Next]_vars, NEW n \in Nodes, phase'[n] # "down",
             NEW j \in Jobs
      PROVE  store'[n][j].updated >= store[n][j].updated
  <2>1. store[n] \in EntryMap /\ store[n][j].updated \in Nat
    BY <1>1, StampIsNat DEF TypeOK
  <2>2. CASE UNCHANGED store
    BY <2>1, <2>2
  <2>3. CASE \E p \in Nodes : /\ phase' = [phase EXCEPT ![p] = "down"]
                              /\ store' = [store EXCEPT ![p] = NoEntries]
    <3>1. PICK p \in Nodes : /\ phase' = [phase EXCEPT ![p] = "down"]
                             /\ store' = [store EXCEPT ![p] = NoEntries]
      BY <2>3
    <3>2. p # n
      BY <1>1, <3>1 DEF TypeOK
    <3>3. store'[n] = store[n]
      BY <1>1, <3>1, <3>2 DEF TypeOK
    <3> QED BY <2>1, <3>3
  <2>4. ASSUME NEW m \in net,
               store' = [store EXCEPT ![m.to] = Merge(store[m.to], m.payload)]
        PROVE  store'[n][j].updated >= store[n][j].updated
    <3>1. m.to \in Nodes /\ m.payload \in EntryMap
      BY <1>1 DEF TypeOK, Message
    <3>2. CASE m.to = n
      <4>1. store'[n] = Merge(store[n], m.payload)
        BY <1>1, <2>4, <3>2 DEF TypeOK
      <4> QED BY <2>1, <3>1, <4>1, MergeDominates
    <3>3. CASE m.to # n
      <4>1. store'[n] = store[n]
        BY <1>1, <2>4, <3>3 DEF TypeOK
      <4> QED BY <2>1, <4>1
    <3> QED BY <3>2, <3>3
  <2> QED BY <1>1, <2>2, <2>3, <2>4, StoreSteps
<1>2. TypeOK /\ [Next]_vars =>
        [\A n \in Nodes : phase'[n] # "down" =>
           \A j \in Jobs : store'[n][j].updated >= store[n][j].updated]_vars
  BY <1>1
<1> QED BY <1>2, TypeCorrect, PTL DEF Spec, StampsNeverFall

\* NoTombstoneLearned holds in every mesh: Coordinate lets no process that
\* collects survive the merge of a tombstone.
THEOREM TombstonesNotLearned == Spec => NoTombstoneLearned
<1>1. ASSUME TypeOK, [Next]_vars, NEW n \in Nodes, NEW j \in Jobs,
             HasCallback(n), store'[n][j] \in Tombstone
      PROVE  store'[n][j] = store[n][j]
  <2>1. CASE UNCHANGED store
    BY <2>1
  <2>2. CASE \E p \in Nodes : store' = [store EXCEPT ![p] = NoEntries]
    <3>1. Absent \notin Tombstone
      BY DEF Absent, Tombstone
    <3> QED BY <1>1, <2>2, <3>1 DEF TypeOK, NoEntries
  <2>3. ASSUME NEW m \in net, ~ Panics(m.to, m.payload),
               store' = [store EXCEPT ![m.to] = Merge(store[m.to], m.payload)]
        PROVE  store'[n][j] = store[n][j]
    <3>1. CASE m.to # n
      BY <1>1, <2>3, <3>1 DEF TypeOK
    <3>2. CASE m.to = n
      <4>1. store'[n][j] = Merge(store[n], m.payload)[j]
        BY <1>1, <2>3, <3>2 DEF TypeOK
      <4>2. CASE j \in Accepted(store[n], m.payload)
        <5>1. m.payload[j].group # NoGroup
          BY <1>1, <2>3, <3>2, <4>2 DEF Panics
        <5>2. m.payload[j] \in Tombstone
          BY <1>1, <4>1, <4>2 DEF Merge
        <5> QED BY <5>1, <5>2 DEF Tombstone
      <4>3. CASE j \notin Accepted(store[n], m.payload)
        BY <4>1, <4>3 DEF Merge
      <4> QED BY <4>2, <4>3
    <3> QED BY <3>1, <3>2
  <2> QED BY <1>1, <2>1, <2>2, <2>3, StoreSteps
<1>2. TypeOK /\ [Next]_vars =>
        [\A n \in Nodes, j \in Jobs :
           HasCallback(n) /\ store'[n][j] \in Tombstone
             => store'[n][j] = store[n][j]]_vars
  BY <1>1
<1> QED BY <1>2, TypeCorrect, PTL DEF Spec, NoTombstoneLearned

-----------------------------------------------------------------------------
(* Where entries come from, and the refinement of ReplicatedMap.           *)

\* A set of payloads that were all written stays so when more is written.
LEMMA WrittenStays ==
  ASSUME NEW payload, Written(payload), issued \subseteq issued'
  PROVE  \A j \in Jobs : payload[j] # Absent => <<j, payload[j]>> \in issued'
  BY DEF Written

LEMMA WrittenMerge ==
  ASSUME NEW entries, NEW payload, Written(entries), Written(payload)
  PROVE  Written(Merge(entries, payload))
  BY MergeChooses DEF Written

LEMMA WrittenNothing == Written(NoEntries)
  BY DEF Written, NoEntries

\* What a step leaves of the stores, the queues, the senders and the network
\* was there before, is empty, or was written in that step.
LEMMA GoneWritten ==
  ASSUME TypeOK, OnlyIssued, NEW n \in Nodes, NEW pending,
         \A m \in pending : Written(m.payload),
         Gone(n, pending), UNCHANGED issued
  PROVE  OnlyIssued'
<1>1. \A p \in Nodes : store'[p] = store[p] \/ store'[p] = NoEntries
  BY DEF Gone, TypeOK
<1>2. \A p \in Nodes : msgc'[p] = msgc[p] \/ msgc'[p] = <<>>
  BY DEF Gone, TypeOK
<1>3. \A p \in Nodes : \/ sending'[p] = sending[p]
                       \/ sending'[p].payload = NoEntries
  BY DEF Gone, TypeOK, Idle
<1>4. net' \subseteq pending
  BY DEF Gone
<1>5. \A p \in Nodes : Written(store[p])'
  BY <1>1, WrittenNothing DEF OnlyIssued, Written
<1>6. \A p \in Nodes : \A i \in 1 .. Len(msgc'[p]) : Written(msgc[p][i])'
  <2> SUFFICES ASSUME NEW p \in Nodes, NEW i \in 1 .. Len(msgc'[p])
               PROVE  Written(msgc[p][i])'
    OBVIOUS
  <2>1. msgc'[p] = msgc[p]
    BY <1>2, EmptySeq
  <2> QED BY <2>1 DEF OnlyIssued, Written
<1>7. \A p \in Nodes : Written(sending[p].payload)'
  BY <1>3, WrittenNothing DEF OnlyIssued, Written
<1>8. \A m \in net' : Written(m.payload)'
  BY <1>4 DEF Written
<1> QED BY <1>5, <1>6, <1>7, <1>8 DEF OnlyIssued

LEMMA ReceiveWritten ==
  ASSUME TypeOK, OnlyIssued, NEW n \in Nodes, NEW payload, Written(payload),
         NEW pending, \A m \in pending : Written(m.payload),
         Receive(n, payload, pending), UNCHANGED issued
  PROVE  OnlyIssued'
<1>1. CASE net' = pending /\ UNCHANGED <<phase, store, msgc, sending>>
  BY <1>1 DEF OnlyIssued, Written
<1>2. CASE store' = [store EXCEPT ![n] = Merge(@, payload)] /\ net' = pending
           /\ UNCHANGED <<phase, msgc, sending>>
  <2>1. \A p \in Nodes : \/ store'[p] = store[p]
                         \/ p = n /\ store'[p] = Merge(store[n], payload)
    BY <1>2 DEF TypeOK
  <2>2. Written(Merge(store[n], payload))
    BY WrittenMerge DEF OnlyIssued
  <2>3. \A p \in Nodes : Written(store[p])'
    BY <2>1, <2>2 DEF OnlyIssued, Written
  <2> QED BY <1>2, <2>3 DEF OnlyIssued, Written
<1>3. CASE Gone(n, pending)
  BY <1>3, GoneWritten
<1> QED BY <1>1, <1>2, <1>3 DEF Receive

\* OnlyIssued holds in every mesh: no handler, queue, connection or merge
\* makes up an entry or files it under another job.
THEOREM Provenance == Spec => []OnlyIssued
<1>1. Init => OnlyIssued
  <2> SUFFICES ASSUME Init
               PROVE  OnlyIssued
    OBVIOUS
  <2>1. \A n \in Nodes : Len(msgc[n]) = 0
    BY EmptySeq DEF Init
  <2> QED BY <2>1, WrittenNothing DEF Init, OnlyIssued, Idle
<1>2. TypeOK /\ OnlyIssued /\ [Next]_vars => OnlyIssued'
  <2> SUFFICES ASSUME TypeOK, OnlyIssued, [Next]_vars
               PROVE  OnlyIssued'
    OBVIOUS
  <2>1. CASE UNCHANGED vars
    BY <2>1 DEF OnlyIssued, Written, vars
  <2>2. ASSUME NEW n \in Nodes, Start(n) \/ AddState(n) \/ Serve(n) \/ Leave(n)
        PROVE  OnlyIssued'
    BY <2>2 DEF Start, AddState, Serve, Leave, OnlyIssued, Written
  <2>3. ASSUME NEW n \in Nodes, Crash(n) \/ Exit(n)
        PROVE  OnlyIssued'
    <3>1. Gone(n, net) /\ UNCHANGED issued
      BY <2>3 DEF Crash, Exit
    <3>2. \A m \in net : Written(m.payload)
      BY DEF OnlyIssued
    <3> QED BY <3>1, <3>2, GoneWritten
  <2>4. ASSUME NEW n \in Nodes, NEW j \in Jobs, NEW e \in Entry,
               BroadcastQueued(n, j, e)
        PROVE  OnlyIssued'
    <3>1. /\ issued' = issued \cup {<<j, e>>}
          /\ msgc' = [msgc EXCEPT ![n] = Append(msgc[n], Single(j, e))]
          /\ UNCHANGED <<store, sending, net>>
      BY <2>4 DEF BroadcastQueued
    <3>2. \A i \in Jobs : Single(j, e)[i] # Absent =>
                          <<i, Single(j, e)[i]>> \in issued'
      BY <3>1 DEF Single
    <3>3. \A p \in Nodes : \A i \in 1 .. Len(msgc'[p]) : Written(msgc[p][i])'
      <4> SUFFICES ASSUME NEW p \in Nodes, NEW i \in 1 .. Len(msgc'[p])
                   PROVE  Written(msgc[p][i])'
        OBVIOUS
      <4>1. CASE p # n
        <5>1. msgc'[p] = msgc[p]
          BY <3>1, <4>1 DEF TypeOK
        <5>2. Written(msgc[p][i])
          BY <5>1 DEF OnlyIssued
        <5>3. issued \subseteq issued' /\ msgc'[p][i] = msgc[p][i]
          BY <3>1, <5>1
        <5> QED BY <5>2, <5>3 DEF Written
      <4>2. CASE p = n
        <5>1. msgc'[p] = Append(msgc[p], Single(j, e))
          BY <3>1, <4>2 DEF TypeOK
        <5>2. msgc[p] \in Seq(EntryMap) /\ Single(j, e) \in EntryMap
          BY SingleType DEF TypeOK
        <5>3. \/ i \in 1 .. Len(msgc[p]) /\ msgc'[p][i] = msgc[p][i]
              \/ msgc'[p][i] = Single(j, e)
          BY <5>1, <5>2, AppendProperties, LenProperties
        <5> QED BY <3>1, <3>2, <5>3 DEF OnlyIssued, Written
      <4> QED BY <4>1, <4>2
    <3> QED BY <3>1, <3>3 DEF OnlyIssued, Written
  <2>5. ASSUME NEW n \in Nodes, NEW j \in Jobs, NEW e \in Entry,
               BroadcastDropped(n, j, e)
        PROVE  OnlyIssued'
    BY <2>5 DEF BroadcastDropped, OnlyIssued, Written
  <2>6. ASSUME NEW n \in Nodes, Dequeue(n)
        PROVE  OnlyIssued'
    <3>1. /\ msgc[n] \in Seq(EntryMap)
          /\ msgc[n] # <<>>
          /\ msgc' = [msgc EXCEPT ![n] = Tail(msgc[n])]
          /\ UNCHANGED <<store, net, issued>>
      BY <2>6 DEF Dequeue, TypeOK
    <3>2. /\ Len(msgc[n]) \in Nat
          /\ Len(msgc[n]) # 0
          /\ Head(msgc[n]) = msgc[n][1]
          /\ Len(Tail(msgc[n])) = Len(msgc[n]) - 1
          /\ \A i \in 1 .. Len(Tail(msgc[n])) : Tail(msgc[n])[i] = msgc[n][i + 1]
      BY <3>1, HeadTailProperties, LenProperties, EmptySeq
    <3>3. Written(Head(msgc[n]))
      BY <3>2 DEF OnlyIssued
    <3>4. \A p \in Nodes : \/ sending'[p] = sending[p]
                           \/ sending'[p].payload = NoEntries
                           \/ sending'[p].payload = Head(msgc[n])
      BY <2>6 DEF Dequeue, TypeOK, Idle
    <3>5. \A p \in Nodes : Written(sending[p].payload)'
      BY <3>1, <3>3, <3>4, WrittenNothing DEF OnlyIssued, Written
    <3>6. \A p \in Nodes : \A i \in 1 .. Len(msgc'[p]) : Written(msgc[p][i])'
      <4> SUFFICES ASSUME NEW p \in Nodes, NEW i \in 1 .. Len(msgc'[p])
                   PROVE  Written(msgc[p][i])'
        OBVIOUS
      <4>1. CASE p # n
        <5>1. msgc'[p] = msgc[p]
          BY <3>1, <4>1 DEF TypeOK
        <5> QED BY <3>1, <5>1 DEF OnlyIssued, Written
      <4>2. CASE p = n
        <5>1. msgc'[p] = Tail(msgc[p])
          BY <3>1, <4>2 DEF TypeOK
        <5>2. i + 1 \in 1 .. Len(msgc[p]) /\ msgc'[p][i] = msgc[p][i + 1]
          BY <3>2, <4>2, <5>1
        <5> QED BY <3>1, <5>2 DEF OnlyIssued, Written
      <4> QED BY <4>1, <4>2
    <3> QED BY <3>1, <3>5, <3>6 DEF OnlyIssued, Written
  <2>7. ASSUME NEW n \in Nodes, NEW p \in Nodes, Send(n, p) \/ SendFails(n, p)
        PROVE  OnlyIssued'
    <3>1. \A q \in Nodes : \/ sending'[q].payload = sending[q].payload
                           \/ sending'[q].payload = NoEntries
      <4> DEFINE left == sending[n].peers \ {p}
                 rest == IF left = {} THEN Idle
                         ELSE [payload |-> sending[n].payload, peers |-> left]
      <4>1. sending' = [sending EXCEPT ![n] = rest]
        BY <2>7 DEF Send, SendFails, SenderDone, TypeOK
      <4>2. rest.payload \in {sending[n].payload, NoEntries}
        BY DEF Idle
      <4> HIDE DEF rest
      <4> QED BY <4>1, <4>2 DEF TypeOK
    <3>2. \A q \in Nodes : Written(sending[q].payload)'
      BY <2>7, <3>1, WrittenNothing
      DEF Send, SendFails, OnlyIssued, Written
    <3>3. \A m \in net' : m \in net \/ m.payload = sending[n].payload
      BY <2>7 DEF Send, SendFails
    <3>4. \A m \in net' : Written(m.payload)'
      BY <2>7, <3>3 DEF Send, SendFails, OnlyIssued, Written
    <3> QED BY <2>7, <3>2, <3>4 DEF Send, SendFails, OnlyIssued, Written
  <2>8. ASSUME NEW n \in Nodes, NEW p \in Nodes, StartExchange(n, p)
        PROVE  OnlyIssued'
    BY <2>8 DEF StartExchange, OnlyIssued, Written
  <2>9. ASSUME NEW n \in Nodes, ExchangeFails(n)
        PROVE  OnlyIssued'
    BY <2>9 DEF ExchangeFails, OnlyIssued, Written
  <2>10. ASSUME NEW m \in net, NotifyMsg(m) \/ HandlePull(m)
         PROVE  OnlyIssued'
    <3>1. m.to \in Nodes /\ Written(m.payload)
      BY DEF TypeOK, Message, OnlyIssued
    <3>2. \A w \in net \ {m} : Written(w.payload)
      BY DEF OnlyIssued
    <3>3. Receive(m.to, m.payload, net \ {m}) /\ UNCHANGED issued
      BY <2>10 DEF NotifyMsg, HandlePull
    <3> QED BY <3>1, <3>2, <3>3, ReceiveWritten
  <2>11. ASSUME NEW m \in net, HandlePush(m)
         PROVE  OnlyIssued'
    <3> DEFINE answer == [kind |-> "pull", from |-> m.to, to |-> m.from,
                          payload |-> store[m.to]]
               pending == (net \ {m}) \cup {answer}
    <3>1. m.to \in Nodes /\ Written(m.payload)
      BY DEF TypeOK, Message, OnlyIssued
    <3>2. \A w \in pending : Written(w.payload)
      BY <3>1 DEF OnlyIssued
    <3>3. Receive(m.to, m.payload, pending) /\ UNCHANGED issued
      BY <2>11 DEF HandlePush
    <3> HIDE DEF pending
    <3> QED BY <3>1, <3>2, <3>3, ReceiveWritten
  <2> QED BY <2>1, <2>2, <2>3, <2>4, <2>5, <2>6, <2>7, <2>8, <2>9, <2>10,
             <2>11 DEF Next
<1> QED BY <1>1, <1>2, TypeCorrect, PTL DEF Spec

\* Only the API's broadcasts write, one entry each, and they touch no store.
LEMMA IssueSteps ==
  ASSUME TypeOK, [Next]_vars
  PROVE  \/ UNCHANGED issued
         \/ \E j \in Jobs, e \in Entry : /\ NewEntry(j, e)
                                        /\ issued' = issued \cup {<<j, e>>}
                                        /\ UNCHANGED store
  BY DEF Next, vars, Start, AddState, Serve, Crash, Leave, Exit, Gone,
         BroadcastQueued, BroadcastDropped, Dequeue, Send, SendFails,
         StartExchange, ExchangeFails, NotifyMsg, HandlePush, HandlePull

\* The mesh implements the replicated map for any number of processes: every
\* step of a queue, a connection or a process is a step of one replica (it
\* learns written entries, or forgets all of them), a write, or invisible.
THEOREM Refinement == Spec => ImplementsReplicatedMap
<1>0. /\ Replica!NoEntries = NoEntries
      /\ Replica!Entry = Entry
      /\ Replica!EntryMap = EntryMap
  BY DEF NoEntries, Replica!NoEntries, Absent, Replica!Absent,
         EntryMap, Replica!EntryMap, Entry, Replica!Entry,
         ActiveEntry, Replica!ActiveEntry, Tombstone, Replica!Tombstone,
         Stamps, Replica!Stamps
<1>1. Init => Replica!MapInit
  BY <1>0 DEF Init, Replica!MapInit
<1>2. TypeOK /\ TypeOK' /\ OnlyIssued /\ [Next]_vars =>
        [Replica!MapNext]_(Replica!mapVars)
  <2> SUFFICES ASSUME TypeOK, TypeOK', OnlyIssued, [Next]_vars
               PROVE  Replica!MapNext \/ UNCHANGED Replica!mapVars
    OBVIOUS
  <2>1. CASE UNCHANGED store /\ UNCHANGED issued
    BY <2>1 DEF Replica!mapVars
  <2>2. CASE UNCHANGED store /\ \E j \in Jobs, e \in Entry :
                                  issued' = issued \cup {<<j, e>>}
    BY <1>0, <2>2 DEF Replica!MapNext, Replica!Issue
  <2>3. ASSUME UNCHANGED issued, NEW n \in Nodes,
               store' = [store EXCEPT ![n] = NoEntries]
        PROVE  Replica!MapNext
    BY <1>0, <2>3 DEF Replica!MapNext, Replica!Forget
  <2>4. ASSUME UNCHANGED issued, NEW m \in net,
               store' = [store EXCEPT ![m.to] = Merge(store[m.to], m.payload)]
        PROVE  Replica!MapNext
    <3> DEFINE known == Merge(store[m.to], m.payload)
    <3>1. /\ m.to \in Nodes
          /\ m.payload \in EntryMap
          /\ store[m.to] \in EntryMap
          /\ Written(m.payload)
      BY DEF TypeOK, Message, OnlyIssued
    <3>2. known \in EntryMap
      BY <3>1, MergeType
    <3>3. ASSUME NEW j \in Jobs, known[j] # store[m.to][j]
          PROVE  /\ <<j, known[j]>> \in issued
                 /\ known[j].updated >= store[m.to][j].updated
      <4>1. known[j] = m.payload[j] /\ m.payload[j] # Absent
        BY <3>3 DEF Merge, Accepted
      <4>2. <<j, known[j]>> \in issued
        BY <3>1, <4>1 DEF Written
      <4>3. known[j].updated >= store[m.to][j].updated
        BY <3>1, MergeDominates
      <4> QED BY <4>2, <4>3
    <3>4. store' = [store EXCEPT ![m.to] = known]
      BY <2>4
    <3> HIDE DEF known
    <3>5. /\ store' \in [Nodes -> EntryMap]
          /\ store'[m.to] = known
          /\ \A q \in Nodes \ {m.to} : store'[q] = store[q]
      BY <3>1, <3>4 DEF TypeOK
    <3>6. Replica!Learn(m.to)
      BY <1>0, <2>4, <3>3, <3>5 DEF Replica!Learn
    <3> QED BY <3>1, <3>6 DEF Replica!MapNext
  <2> QED BY <2>1, <2>2, <2>3, <2>4, StoreSteps, IssueSteps
<1> QED BY <1>1, <1>2, TypeCorrect, Provenance, PTL
    DEF Spec, ImplementsReplicatedMap, Replica!MapSpec

-----------------------------------------------------------------------------
(* The order of merges.                                                    *)

\* Entries for a job that were written at the same time are the same.
Consistent(p, q) == \A j \in Jobs : p[j].updated = q[j].updated => p[j] = q[j]

\* Without ties, the newest entry of two wins, on whichever side it is.
LEMMA NewestWins ==
  ASSUME NEW p \in EntryMap, NEW q \in EntryMap, Consistent(p, q), NEW j \in Jobs
  PROVE  Merge(p, q)[j] = IF p[j].updated < q[j].updated THEN q[j] ELSE p[j]
<1>1. /\ p[j] \in Entry \cup {Absent} /\ p[j].updated \in Nat
      /\ q[j] \in Entry \cup {Absent} /\ q[j].updated \in Nat
  BY StampIsNat
<1>2. p[j].updated = q[j].updated => p[j] = q[j]
  BY DEF Consistent
<1>3. q[j] = Absent => q[j].updated = 0
  BY DEF Absent
<1> QED BY <1>1, <1>2, <1>3 DEF Merge, Accepted

\* Two stores that are merged into each other are the same afterwards.
LEMMA MergeCommutative ==
  ASSUME NEW p \in EntryMap, NEW q \in EntryMap, Consistent(p, q)
  PROVE  Merge(p, q) = Merge(q, p)
<1>1. Consistent(q, p)
  BY DEF Consistent
<1>2. ASSUME NEW j \in Jobs
      PROVE  Merge(p, q)[j] = Merge(q, p)[j]
  <2>1. p[j].updated \in Nat /\ q[j].updated \in Nat
    BY StampIsNat
  <2>2. p[j].updated = q[j].updated => p[j] = q[j]
    BY DEF Consistent
  <2>3. Merge(p, q)[j] = IF p[j].updated < q[j].updated THEN q[j] ELSE p[j]
    BY NewestWins
  <2>4. Merge(q, p)[j] = IF q[j].updated < p[j].updated THEN p[j] ELSE q[j]
    BY <1>1, NewestWins
  <2> QED BY <2>1, <2>2, <2>3, <2>4
<1> QED BY <1>2 DEF Merge

\* Payloads may be merged into a store one after the other in any order.
LEMMA MergeAnyOrder ==
  ASSUME NEW s \in EntryMap, NEW p \in EntryMap, NEW q \in EntryMap,
         Consistent(s, p), Consistent(s, q), Consistent(p, q)
  PROVE  Merge(Merge(s, p), q) = Merge(Merge(s, q), p)
<1>1. Merge(s, p) \in EntryMap /\ Merge(s, q) \in EntryMap
  BY MergeType
<1>2. Consistent(Merge(s, p), q) /\ Consistent(Merge(s, q), p)
  BY MergeChooses DEF Consistent
<1>3. ASSUME NEW j \in Jobs
      PROVE  Merge(Merge(s, p), q)[j] = Merge(Merge(s, q), p)[j]
  <2>1. s[j].updated \in Nat /\ p[j].updated \in Nat /\ q[j].updated \in Nat
    BY StampIsNat
  <2>2. p[j].updated = q[j].updated => p[j] = q[j]
    BY DEF Consistent
  <2>3. Merge(s, p)[j] = IF s[j].updated < p[j].updated THEN p[j] ELSE s[j]
    BY NewestWins
  <2>4. Merge(s, q)[j] = IF s[j].updated < q[j].updated THEN q[j] ELSE s[j]
    BY NewestWins
  <2>5. Merge(Merge(s, p), q)[j] =
          IF Merge(s, p)[j].updated < q[j].updated THEN q[j] ELSE Merge(s, p)[j]
    BY <1>1, <1>2, NewestWins
  <2>6. Merge(Merge(s, q), p)[j] =
          IF Merge(s, q)[j].updated < p[j].updated THEN p[j] ELSE Merge(s, q)[j]
    BY <1>1, <1>2, NewestWins
  <2> QED BY <2>1, <2>2, <2>3, <2>4, <2>5, <2>6
<1> QED BY <1>3 DEF Merge

\* A payload that arrives a second time changes nothing, with or without ties.
LEMMA MergeAgain ==
  ASSUME NEW s \in EntryMap, NEW p \in EntryMap
  PROVE  Merge(Merge(s, p), p) = Merge(s, p)
BY MergeChooses DEF Merge, Accepted

\* A timestamp identifies the entry that was written with it.
StampsIdentify == \A v, w \in issued : v[2].updated = w[2].updated => v = w

\* If no two writes get the same time.Now(), no two entries have the same.
THEOREM StampsUnique ==
  ASSUME ~ SharedStamps
  PROVE  Spec => []StampsIdentify
<1>1. Init => StampsIdentify
  BY DEF Init, StampsIdentify
<1>2. TypeOK /\ StampsIdentify /\ [Next]_vars => StampsIdentify'
  <2> SUFFICES ASSUME TypeOK, StampsIdentify, [Next]_vars
               PROVE  StampsIdentify'
    OBVIOUS
  <2>1. CASE UNCHANGED issued
    BY <2>1 DEF StampsIdentify
  <2>2. ASSUME NEW j \in Jobs, NEW e \in Entry, NewEntry(j, e),
               issued' = issued \cup {<<j, e>>}
        PROVE  StampsIdentify'
    <3>1. \A w \in issued : w[2].updated # e.updated
      BY <2>2 DEF NewEntry
    <3>2. <<j, e>>[2] = e
      OBVIOUS
    <3> QED BY <2>2, <3>1, <3>2 DEF StampsIdentify
  <2> QED BY <2>1, <2>2, IssueSteps
<1> QED BY <1>1, <1>2, TypeCorrect, PTL DEF Spec

\* What was written under unique timestamps is consistent.
LEMMA WrittenConsistent ==
  ASSUME StampsIdentify, NEW p \in EntryMap, NEW q \in EntryMap,
         Written(p), Written(q)
  PROVE  Consistent(p, q)
<1> SUFFICES ASSUME NEW j \in Jobs, p[j].updated = q[j].updated
             PROVE  p[j] = q[j]
  BY DEF Consistent
<1>1. p[j] \in Entry \cup {Absent} /\ q[j] \in Entry \cup {Absent}
  BY StampIsNat
<1>2. \A e \in Entry : e.updated # Absent.updated
  BY DEF Entry, ActiveEntry, Tombstone, Stamps, Absent
<1>3. CASE p[j] = Absent \/ q[j] = Absent
  BY <1>1, <1>2, <1>3
<1>4. CASE p[j] # Absent /\ q[j] # Absent
  <2>1. <<j, p[j]>> \in issued /\ <<j, q[j]>> \in issued
    BY <1>4 DEF Written
  <2> QED BY <2>1 DEF StampsIdentify
<1> QED BY <1>3, <1>4

\* If timestamps are unique, processes that exchange states agree, and messages
\* may overtake each other, in a mesh of any size.
THEOREM OrderIrrelevant ==
  ASSUME ~ SharedStamps
  PROVE  Spec => []MergesCommute
<1>1. TypeOK /\ OnlyIssued /\ StampsIdentify => MergesCommute
  <2> SUFFICES ASSUME TypeOK, OnlyIssued, StampsIdentify
               PROVE  MergesCommute
    OBVIOUS
  <2>1. \A n \in Nodes : store[n] \in EntryMap /\ Written(store[n])
    BY DEF TypeOK, OnlyIssued
  <2>2. \A m \in net : /\ m.to \in Nodes /\ m.payload \in EntryMap
                       /\ Written(m.payload)
    BY DEF TypeOK, Message, OnlyIssued
  <2>3. ASSUME NEW n \in Nodes, NEW p \in Nodes
        PROVE  Merge(store[n], store[p]) = Merge(store[p], store[n])
    BY <2>1, WrittenConsistent, MergeCommutative
  <2>4. ASSUME NEW l \in net, NEW m \in net, l.to = m.to
        PROVE  Merge(Merge(store[m.to], l.payload), m.payload)
                 = Merge(Merge(store[m.to], m.payload), l.payload)
    <3>1. /\ Consistent(store[m.to], l.payload)
          /\ Consistent(store[m.to], m.payload)
          /\ Consistent(l.payload, m.payload)
      BY <2>1, <2>2, WrittenConsistent
    <3> QED BY <2>1, <2>2, <3>1, MergeAnyOrder
  <2> QED BY <2>3, <2>4 DEF MergesCommute
<1> QED BY <1>1, TypeCorrect, Provenance, StampsUnique, PTL

=============================================================================
