------------------------- MODULE GossipingJobProofs -------------------------
(***************************************************************************)
(* Proofs about GossipingJob, for any processes, any capacity of the       *)
(* change channel and any bound on entries.                                *)
(***************************************************************************)
EXTENDS GossipingJob, TLAPS, SequenceTheorems

\* The part of the state the wake-ups depend on; entries and the register
\* play no role in them.
LocalType ==
  /\ at \in [Names -> {"new", "booting", "waiting", "gone"} \cup Updating]
  /\ looping \in [Names -> BOOLEAN]
  /\ view \in [Names -> SUBSET Names]
  /\ changes \in [Names -> 0 .. ChangesCap]
  /\ listed \in [Names -> SUBSET Names]
  /\ file \in [Names -> (SUBSET Names) \cup {Broken}]
  /\ failed \in SUBSET Files

\* From the end of an update on, a first process without tokens has listed
\* its view, also while it writes the file.
ListedView(n) ==
  at[n] \in {"waiting", "file"} /\ changes[n] = 0 /\ First(n)
    => listed[n] = view[n]

\* The token of its own join is there until the loop takes the first one.
TokenOfJoin(n) == Up(n) /\ ~ looping[n] => changes[n] > 0

\* The loop writes the file after every update, but for the initial one.
FileWritten(n) ==
  /\ at[n] = "file" => n \in Files
  /\ n \in Files \ failed /\ at[n] = "waiting" /\ changes[n] = 0
       => file[n] = view[n]

TokenInv ==
  /\ LocalType
  /\ \A n \in Names : ListedView(n) /\ TokenOfJoin(n) /\ FileWritten(n)

LEMMA SignalLeavesToken ==
  ASSUME LocalType, NEW n \in Names, Signal(n)
  PROVE  /\ changes' \in [Names -> 0 .. ChangesCap]
         /\ changes'[n] > 0
         /\ \A k \in Names \ {n} : changes'[k] = changes[k]
  BY GossipingJobAssumption DEF LocalType, Signal

\* A change of the view leaves a token, so that nothing is promised for the
\* new view until the updater has seen it.
LEMMA ViewChangeKeeps ==
  ASSUME TokenInv, NEW n \in Names, NEW members_ \in SUBSET Names,
         view' = [view EXCEPT ![n] = members_],
         Signal(n), UNCHANGED updater
  PROVE  TokenInv'
<1>1. LocalType'
  BY SignalLeavesToken DEF TokenInv, LocalType, updater
<1>2. ASSUME NEW k \in Names
      PROVE  (ListedView(k) /\ TokenOfJoin(k) /\ FileWritten(k))'
  <2>1. CASE k = n
    BY <2>1, SignalLeavesToken
    DEF TokenInv, LocalType, updater, ListedView, TokenOfJoin, FileWritten, Up
  <2>2. CASE k # n
    BY <2>2, SignalLeavesToken
    DEF TokenInv, LocalType, updater, ListedView, TokenOfJoin, FileWritten, Up,
        First
  <2> QED BY <2>1, <2>2
<1> QED BY <1>1, <1>2 DEF TokenInv

\* What a step does to process n alone: the others keep what they have.
LEMMA OthersKeep ==
  ASSUME TokenInv, LocalType', NEW n \in Names,
         \A k \in Names \ {n} :
           /\ at'[k] = at[k] /\ looping'[k] = looping[k]
           /\ view'[k] = view[k] /\ changes'[k] = changes[k]
           /\ listed'[k] = listed[k] /\ file'[k] = file[k]
           /\ k \in failed' <=> k \in failed,
         (ListedView(n) /\ TokenOfJoin(n) /\ FileWritten(n))'
  PROVE  TokenInv'
<1>1. ASSUME NEW k \in Names, k # n
      PROVE  (ListedView(k) /\ TokenOfJoin(k) /\ FileWritten(k))'
  BY <1>1 DEF TokenInv, ListedView, TokenOfJoin, FileWritten, Up, First
<1> QED BY <1>1 DEF TokenInv

THEOREM Tokens == Spec => []TokenInv
<1>1. Init => TokenInv
  BY GossipingJobAssumption
  DEF Init, TokenInv, LocalType, ListedView, TokenOfJoin, FileWritten, Up
<1>2. TokenInv /\ [Next]_vars => TokenInv'
  <2> SUFFICES ASSUME TokenInv, [Next]_vars
               PROVE  TokenInv'
    OBVIOUS
  <2> USE DEF ListedView, TokenOfJoin, FileWritten, Up, members
  <2>0. LocalType
    BY DEF TokenInv
  <2>1. ASSUME NEW n \in Names, Create(n)
        PROVE  TokenInv'
    <3>1. LocalType'
      BY <2>0, <2>1, GossipingJobAssumption DEF LocalType, Create, Goto
    <3>2. (ListedView(n) /\ TokenOfJoin(n) /\ FileWritten(n))'
      BY <2>0, <2>1 DEF LocalType, Create, Goto
    <3> QED
      BY <2>0, <2>1, <3>1, <3>2, OthersKeep DEF LocalType, Create, Goto
  <2>2. ASSUME NEW n \in Names, Serve(n)
        PROVE  TokenInv'
    <3>1. LocalType'
      BY <2>0, <2>2 DEF LocalType, Serve, Goto, Updating
    <3>2. (ListedView(n) /\ TokenOfJoin(n) /\ FileWritten(n))'
      BY <2>0, <2>2 DEF TokenInv, LocalType, Serve, Goto
    <3> QED
      BY <2>0, <2>2, <3>1, <3>2, OthersKeep DEF LocalType, Serve, Goto
  <2>3. ASSUME NEW n \in Names, ProcessEnds(n)
        PROVE  TokenInv'
    <3>1. LocalType'
      BY <2>0, <2>3, GossipingJobAssumption DEF LocalType, ProcessEnds, Goto
    <3>2. (ListedView(n) /\ TokenOfJoin(n) /\ FileWritten(n))'
      BY <2>0, <2>3 DEF LocalType, ProcessEnds, Goto
    <3> QED
      BY <2>0, <2>3, <3>1, <3>2, OthersKeep DEF LocalType, ProcessEnds, Goto
  <2>4. ASSUME NEW n \in Names, NEW m \in Names, PeerJoin(n, m)
        PROVE  TokenInv'
    <3>1. view[n] \cup {m} \in SUBSET Names
      BY <2>0 DEF LocalType
    <3> QED BY <2>4, <3>1, ViewChangeKeeps DEF PeerJoin
  <2>5. ASSUME NEW n \in Names, NEW m \in Names, PeerLeave(n, m)
        PROVE  TokenInv'
    <3>1. view[n] \ {m} \in SUBSET Names
      BY <2>0 DEF LocalType
    <3> QED BY <2>5, <3>1, ViewChangeKeeps DEF PeerLeave
  <2>6. ASSUME NEW n \in Names, Tick(n)
        PROVE  TokenInv'
    <3>1. LocalType'
      BY <2>0, <2>6 DEF LocalType, Tick, Goto, Updating
    <3>2. (ListedView(n) /\ TokenOfJoin(n) /\ FileWritten(n))'
      BY <2>0, <2>6 DEF LocalType, Tick, Goto
    <3> QED
      BY <2>0, <2>6, <3>1, <3>2, OthersKeep DEF LocalType, Tick, Goto
  <2>7. ASSUME NEW n \in Names, TakeChange(n)
        PROVE  TokenInv'
    <3>1. LocalType'
      BY <2>0, <2>7, GossipingJobAssumption
      DEF LocalType, TakeChange, Goto, Updating
    <3>2. (ListedView(n) /\ TokenOfJoin(n) /\ FileWritten(n))'
      BY <2>0, <2>7 DEF LocalType, TakeChange, Goto
    <3> QED
      BY <2>0, <2>7, <3>1, <3>2, OthersKeep DEF LocalType, TakeChange, Goto
  <2>8. ASSUME NEW n \in Names, Position(n)
        PROVE  TokenInv'
    <3>1. LocalType'
      BY <2>0, <2>8 DEF LocalType, Position, AfterUpdate, Goto, Updating
    <3>2. (ListedView(n) /\ TokenOfJoin(n) /\ FileWritten(n))'
      BY <2>0, <2>8
      DEF TokenInv, LocalType, Position, AfterUpdate, Goto, First
    <3> QED
      BY <2>0, <2>8, <3>1, <3>2, OthersKeep
      DEF LocalType, Position, Goto
  <2>9. ASSUME NEW n \in Names, Stamp(n)
        PROVE  TokenInv'
    <3>1. LocalType'
      BY <2>0, <2>9 DEF LocalType, Stamp, Goto, Updating
    <3>2. (ListedView(n) /\ TokenOfJoin(n) /\ FileWritten(n))'
      BY <2>0, <2>9 DEF TokenInv, LocalType, Stamp, Goto
    <3> QED
      BY <2>0, <2>9, <3>1, <3>2, OthersKeep DEF LocalType, Stamp, Goto
  <2>10. ASSUME NEW n \in Names, Peers(n)
         PROVE  TokenInv'
    <3>1. LocalType'
      BY <2>0, <2>10 DEF LocalType, Peers, AfterUpdate, Goto, Updating
    <3>2. (ListedView(n) /\ TokenOfJoin(n) /\ FileWritten(n))'
      BY <2>0, <2>10 DEF TokenInv, LocalType, Peers, AfterUpdate, Goto
    <3> QED
      BY <2>0, <2>10, <3>1, <3>2, OthersKeep DEF LocalType, Peers, Goto
  <2>11. ASSUME NEW n \in Names, WriteFile(n)
         PROVE  TokenInv'
    <3>1. LocalType'
      BY <2>0, <2>11 DEF LocalType, WriteFile, Goto
    <3>2. (ListedView(n) /\ TokenOfJoin(n) /\ FileWritten(n))'
      BY <2>0, <2>11 DEF TokenInv, LocalType, WriteFile, Goto, First
    <3> QED
      BY <2>0, <2>11, <3>1, <3>2, OthersKeep DEF LocalType, WriteFile, Goto
  <2>12. ASSUME NEW n \in Names, WriteFileFails(n)
         PROVE  TokenInv'
    <3>1. n \in Files
      BY <2>0, <2>12 DEF LocalType, WriteFileFails, TokenInv
    <3>2. LocalType'
      BY <2>0, <2>12, <3>1 DEF LocalType, WriteFileFails, Goto
    <3>3. (ListedView(n) /\ TokenOfJoin(n) /\ FileWritten(n))'
      BY <2>0, <2>12 DEF TokenInv, LocalType, WriteFileFails, Goto, First
    <3> QED
      BY <2>0, <2>12, <3>2, <3>3, OthersKeep
      DEF LocalType, WriteFileFails, Goto
  <2>13. ASSUME NEW n \in Names, OpenFails(n)
         PROVE  TokenInv'
    <3>1. n \in Files
      BY <2>0, <2>13 DEF LocalType, OpenFails, TokenInv
    <3>2. LocalType'
      BY <2>0, <2>13, <3>1 DEF LocalType, OpenFails, Goto
    <3>3. (ListedView(n) /\ TokenOfJoin(n) /\ FileWritten(n))'
      BY <2>0, <2>13 DEF TokenInv, LocalType, OpenFails, Goto, First
    <3> QED
      BY <2>0, <2>13, <3>2, <3>3, OthersKeep DEF LocalType, OpenFails, Goto
  <2>14. CASE UNCHANGED <<updater, members>>
    BY <2>14
    DEF TokenInv, LocalType, updater, First
  <2> QED
    BY <2>1, <2>2, <2>3, <2>4, <2>5, <2>6, <2>7, <2>8, <2>9, <2>10, <2>11,
       <2>12, <2>13, <2>14
    DEF Next, vars, Merged, Lost, updater
<1> QED BY <1>1, <1>2, PTL DEF Spec

\* No wake-up is lost: a first updater that waits without a token has
\* broadcast the view it has (updateGossipingJob, peerJoin, peerLeave).
THEOREM WakeupsNotLost == Spec => []NoLostWakeup
<1>1. TokenInv => NoLostWakeup
  BY DEF TokenInv, ListedView, NoLostWakeup
<1> QED BY <1>1, Tokens, PTL

\* The Prometheus file of a process that waits without a token lists the view
\* it has, unless its last attempt at the file failed (launch,
\* generatePromConfig).
THEOREM FilesListMembers == Spec => []FileListsMembers
<1>1. TokenInv => FileListsMembers
  BY GossipingJobAssumption DEF TokenInv, FileWritten, FileListsMembers
<1> QED BY <1>1, Tokens, PTL

-----------------------------------------------------------------------------
(* The lists on their way.                                                 *)

List == [by : Names, sent : BOOLEAN, targets : SUBSET Names]

\* A process has stamped at most one list that it has not yet broadcast, and
\* has one only while it collects its peers.
Entries ==
  /\ entries \in Seq(List)
  /\ Len(entries) <= MaxEntries
  /\ job \in SUBSET Names
  /\ \A n \in Names : \A i, j \in Unsent(n) : i = j
  /\ \A n \in Names : Unsent(n) # {} => at[n] = "peers"

UnsentOf(lists, n) == {i \in DOMAIN lists : lists[i].by = n /\ ~ lists[i].sent}

LEMMA UnsentNow ==
  ASSUME NEW n \in Names
  PROVE  Unsent(n) = UnsentOf(entries, n) /\ Unsent(n)' = UnsentOf(entries', n)
BY DEF Unsent, UnsentOf

\* A part of the lists, each in its place once, has no other unsent ones.
LEMMA PartOfEntries ==
  ASSUME Entries, NEW lists, NEW kept, DOMAIN lists = DOMAIN kept,
         kept \in [DOMAIN kept -> DOMAIN entries],
         \A h, i \in DOMAIN kept : kept[h] = kept[i] => h = i,
         \A i \in DOMAIN kept : lists[i] = entries[kept[i]]
  PROVE  \A n \in Names :
           /\ UnsentOf(lists, n) = {i \in DOMAIN kept : kept[i] \in Unsent(n)}
           /\ \A i, j \in UnsentOf(lists, n) : i = j
<1> SUFFICES ASSUME NEW n \in Names
             PROVE  /\ UnsentOf(lists, n) =
                         {i \in DOMAIN kept : kept[i] \in Unsent(n)}
                    /\ \A i, j \in UnsentOf(lists, n) : i = j
  OBVIOUS
<1>1. UnsentOf(lists, n) = {i \in DOMAIN kept : kept[i] \in Unsent(n)}
  BY DEF Unsent, UnsentOf
<1> QED BY <1>1 DEF Entries

\* What is left when one list is gone.
LEMMA WithoutOne ==
  ASSUME Entries, NEW i \in DOMAIN entries
  PROVE  /\ Without(i) \in Seq(List)
         /\ Len(Without(i)) = Len(entries) - 1
         /\ \A n \in Names :
              /\ \A h, k \in UnsentOf(Without(i), n) : h = k
              /\ UnsentOf(Without(i), n) # {} => \E h \in Unsent(n) : h # i
<1> DEFINE L == Len(entries)
           older == SubSeq(entries, 1, i - 1)
           newer == SubSeq(entries, i + 1, L)
           kept == [k \in 1 .. L - 1 |-> IF k < i THEN k ELSE k + 1]
<1>1. L \in Nat /\ DOMAIN entries = 1 .. L /\ i \in 1 .. L
      /\ \A k \in 1 .. L : entries[k] \in List
  BY LenProperties, ElementOfSeq DEF Entries
<1>2. /\ older \in Seq(List) /\ Len(older) = i - 1
      /\ \A k \in 1 .. i - 1 : older[k] = entries[k]
  <2>1. \A k \in 1 .. i - 1 : entries[k] \in List
    BY <1>1
  <2>2. /\ older \in Seq(List)
        /\ Len(older) = IF 1 <= i - 1 THEN i - 1 - 1 + 1 ELSE 0
        /\ \A k \in 1 .. i - 1 - 1 + 1 : older[k] = entries[1 + k - 1]
    BY <1>1, <2>1, SubSeqProperties
  <2> QED BY <1>1, <2>2
<1>3. /\ newer \in Seq(List) /\ Len(newer) = L - i
      /\ \A k \in 1 .. L - i : newer[k] = entries[i + k]
  <2>1. \A k \in i + 1 .. L : entries[k] \in List
    BY <1>1
  <2>2. /\ newer \in Seq(List)
        /\ Len(newer) = IF i + 1 <= L THEN L - (i + 1) + 1 ELSE 0
        /\ \A k \in 1 .. L - (i + 1) + 1 : newer[k] = entries[i + 1 + k - 1]
    BY <1>1, <2>1, SubSeqProperties
  <2> QED BY <1>1, <2>2
<1> HIDE DEF older, newer
<1>4. /\ Without(i) \in Seq(List) /\ Len(Without(i)) = L - 1
      /\ \A k \in 1 .. L - 1 : Without(i)[k] = entries[kept[k]]
  <2>1. Without(i) = older \o newer
    BY DEF Without, older, newer
  <2>2. /\ older \o newer \in Seq(List)
        /\ Len(older \o newer) = Len(older) + Len(newer)
        /\ \A k \in 1 .. Len(older) + Len(newer) : (older \o newer)[k] =
             IF k <= Len(older) THEN older[k] ELSE newer[k - Len(older)]
    BY <1>2, <1>3, ConcatProperties
  <2>3. ASSUME NEW k \in 1 .. L - 1
        PROVE  (older \o newer)[k] = entries[kept[k]]
    <3>1. CASE k < i
      BY <1>1, <1>2, <1>3, <2>2, <3>1
    <3>2. CASE ~ (k < i)
      <4>1. k - (i - 1) \in 1 .. L - i /\ i + (k - (i - 1)) = k + 1
        BY <1>1, <3>2
      <4>2. (older \o newer)[k] = newer[k - (i - 1)]
        BY <1>1, <1>2, <1>3, <2>2, <3>2
      <4> QED BY <1>3, <3>2, <4>1, <4>2
    <3> QED BY <3>1, <3>2
  <2> QED BY <1>1, <1>2, <1>3, <2>1, <2>2, <2>3
<1>5. /\ DOMAIN Without(i) = 1 .. L - 1
      /\ kept \in [1 .. L - 1 -> DOMAIN entries]
      /\ \A h, k \in 1 .. L - 1 : kept[h] = kept[k] => h = k
      /\ \A k \in 1 .. L - 1 : kept[k] # i
  BY <1>1, <1>4, LenProperties
<1>6. PICK from : from = kept
  OBVIOUS
<1> HIDE DEF kept
<1>7. \A n \in Names :
        /\ UnsentOf(Without(i), n) = {k \in 1 .. L - 1 : from[k] \in Unsent(n)}
        /\ \A h, k \in UnsentOf(Without(i), n) : h = k
  <2>1. DOMAIN from = 1 .. L - 1
    BY <1>5, <1>6
  <2>2. /\ DOMAIN Without(i) = DOMAIN from
        /\ from \in [DOMAIN from -> DOMAIN entries]
        /\ \A h, k \in DOMAIN from : from[h] = from[k] => h = k
        /\ \A k \in DOMAIN from : Without(i)[k] = entries[from[k]]
    BY <1>4, <1>5, <1>6, <2>1
  <2>3. \A n \in Names :
          /\ UnsentOf(Without(i), n) = {k \in DOMAIN from : from[k] \in Unsent(n)}
          /\ \A h, k \in UnsentOf(Without(i), n) : h = k
    BY <2>2, PartOfEntries
  <2> QED BY <2>1, <2>3
<1>8. ASSUME NEW n \in Names, UnsentOf(Without(i), n) # {}
      PROVE  \E h \in Unsent(n) : h # i
  BY <1>5, <1>6, <1>7, <1>8
<1> QED BY <1>4, <1>7, <1>8

LEMMA FewerEntries ==
  ASSUME Entries, NEW i \in DOMAIN entries, entries' = Without(i)
  PROVE  /\ entries' \in Seq(List)
         /\ Len(entries') <= MaxEntries
         /\ \A n \in Names :
              /\ \A h, k \in Unsent(n)' : h = k
              /\ Unsent(n)' # {} => \E h \in Unsent(n) : h # i
<1>1. Len(entries) \in Nat /\ Len(entries') = Len(entries) - 1
  BY WithoutOne, LenProperties DEF Entries
<1> QED BY <1>1, WithoutOne, UnsentNow, GossipingJobAssumption DEF Entries

\* A step that neither touches the lists nor takes a process from its peers.
LEMMA EntriesStay ==
  ASSUME LocalType, Entries, UNCHANGED <<entries, job>>,
         \A n \in Names : at[n] = "peers" => at'[n] = "peers"
  PROVE  Entries'
<1>1. \A n \in Names : Unsent(n)' = Unsent(n)
  BY DEF Unsent
<1> QED BY <1>1 DEF Entries

\* A process that ends takes the list with it that it has not broadcast.
LEMMA EndsWithout ==
  ASSUME LocalType, Entries, NEW n \in Names, ProcessEnds(n)
  PROVE  Entries'
<1>1. /\ entries' = IF Unsent(n) = {} THEN entries
                    ELSE Without(CHOOSE i \in Unsent(n) : TRUE)
      /\ job' \in SUBSET Names
      /\ \A k \in Names \ {n} : at'[k] = at[k]
  BY DEF ProcessEnds, Goto, LocalType
<1>2. CASE Unsent(n) = {}
  <2>1. \A k \in Names : Unsent(k)' = Unsent(k)
    BY <1>1, <1>2 DEF Unsent
  <2>2. \A k \in Names : Unsent(k)' # {} => at'[k] = "peers"
    BY <1>1, <1>2, <2>1 DEF Entries
  <2> QED BY <1>1, <1>2, <2>1, <2>2 DEF Entries
<1>3. CASE Unsent(n) # {}
  <2>1. PICK i \in Unsent(n) : entries' = Without(i)
    BY <1>1, <1>3
  <2>2. i \in DOMAIN entries
    BY DEF Unsent
  <2>3. /\ entries' \in Seq(List)
        /\ Len(entries') <= MaxEntries
        /\ \A k \in Names : /\ \A h, l \in Unsent(k)' : h = l
                            /\ Unsent(k)' # {} => \E h \in Unsent(k) : h # i
    BY <2>1, <2>2, FewerEntries
  <2>4. Unsent(n)' = {}
    BY <2>3 DEF Entries
  <2>5. \A k \in Names : Unsent(k)' # {} => at'[k] = "peers"
    BY <1>1, <2>3, <2>4 DEF Entries
  <2> QED BY <1>1, <2>3, <2>5 DEF Entries
<1> QED BY <1>2, <1>3

\* A new list is appended to all lists under way or, at the bound, to all but
\* one that was broadcast; none of them is an unsent one of the same process.
LEMMA RoomLeft ==
  ASSUME Entries, NEW n \in Names, at[n] = "stamp", NEW kept \in Room
  PROVE  /\ kept \in Seq(List) /\ Len(kept) \in Nat /\ Len(kept) < MaxEntries
         /\ UnsentOf(kept, n) = {}
         /\ \A k \in Names :
              /\ \A h, l \in UnsentOf(kept, k) : h = l
              /\ UnsentOf(kept, k) # {} => at[k] = "peers"
<1>1. Len(entries) \in Nat
  BY LenProperties DEF Entries
<1>2. CASE Len(entries) < MaxEntries
  BY <1>1, <1>2, UnsentNow DEF Room, Entries
<1>3. CASE ~ (Len(entries) < MaxEntries)
  <2>1. PICK i \in DOMAIN entries : kept = Without(i)
    BY <1>3 DEF Room
  <2>2. /\ kept \in Seq(List) /\ Len(kept) = Len(entries) - 1
        /\ \A k \in Names :
             /\ \A h, l \in UnsentOf(kept, k) : h = l
             /\ UnsentOf(kept, k) # {} => Unsent(k) # {}
    BY <2>1, WithoutOne
  <2>3. Len(kept) \in Nat
    BY <2>2, LenProperties
  <2> QED BY <1>1, <2>2, <2>3, GossipingJobAssumption DEF Entries
<1> QED BY <1>2, <1>3

LEMMA StampAdds ==
  ASSUME LocalType, Entries, NEW n \in Names, Stamp(n)
  PROVE  Entries'
<1> DEFINE new == [by |-> n, sent |-> FALSE, targets |-> {}]
<1>1. /\ at[n] = "stamp" /\ at'[n] = "peers"
      /\ \A k \in Names \ {n} : at'[k] = at[k]
      /\ job' = job
  BY DEF Stamp, Goto, LocalType
<1>2. PICK kept \in Room : entries' = Append(kept, new)
  BY DEF Stamp
<1>3. /\ kept \in Seq(List) /\ Len(kept) \in Nat /\ Len(kept) < MaxEntries
      /\ UnsentOf(kept, n) = {}
      /\ \A k \in Names : /\ \A h, l \in UnsentOf(kept, k) : h = l
                          /\ UnsentOf(kept, k) # {} => at[k] = "peers"
  BY <1>1, RoomLeft
<1> DEFINE L == Len(kept)
<1>4. L \in Nat /\ DOMAIN kept = 1 .. L
  BY <1>3, LenProperties
<1>5. new \in List /\ new.by = n /\ ~ new.sent
  BY DEF List
<1>6. /\ entries' \in Seq(List) /\ Len(entries') = L + 1
      /\ \A i \in 1 .. L : entries'[i] = kept[i]
      /\ entries'[L + 1] = new
  <2> HIDE DEF new
  <2> QED BY <1>2, <1>3, <1>5, AppendProperties
<1> HIDE DEF new
<1>7. DOMAIN entries' = 1 .. L + 1
  BY <1>6, LenProperties
<1> HIDE DEF L
<1>8. Unsent(n)' = {L + 1}
  <2>1. \A i \in 1 .. L : i \notin Unsent(n)'
    BY <1>3, <1>4, <1>6 DEF Unsent, UnsentOf
  <2>2. L + 1 \in Unsent(n)'
    BY <1>4, <1>5, <1>6, <1>7 DEF Unsent
  <2>3. Unsent(n)' \subseteq 1 .. L + 1
    BY <1>7 DEF Unsent
  <2> QED BY <1>4, <2>1, <2>2, <2>3
<1>9. \A k \in Names \ {n} : Unsent(k)' = UnsentOf(kept, k)
  <2> TAKE k \in Names \ {n}
  <2>1. L + 1 \notin Unsent(k)' /\ L + 1 \notin UnsentOf(kept, k)
    BY <1>4, <1>5, <1>6 DEF Unsent, UnsentOf
  <2>2. \A i \in 1 .. L : i \in Unsent(k)' <=> i \in UnsentOf(kept, k)
    BY <1>4, <1>6, <1>7 DEF Unsent, UnsentOf
  <2>3. Unsent(k)' \subseteq 1 .. L + 1 /\ UnsentOf(kept, k) \subseteq 1 .. L
    BY <1>4, <1>7 DEF Unsent, UnsentOf
  <2>4. \A i \in 1 .. L + 1 : i \in 1 .. L \/ i = L + 1
    BY <1>4
  <2> QED BY <2>1, <2>2, <2>3, <2>4
<1>10. Len(entries') <= MaxEntries
  BY <1>3, <1>4, <1>6, GossipingJobAssumption DEF L
<1>11. job' \in SUBSET Names
  BY <1>1 DEF Entries
<1>12. \A k \in Names : \A h, l \in Unsent(k)' : h = l
  BY <1>3, <1>8, <1>9
<1>13. \A k \in Names : Unsent(k)' # {} => at'[k] = "peers"
  BY <1>1, <1>3, <1>9
<1> QED BY <1>6, <1>10, <1>11, <1>12, <1>13 DEF Entries

LEMMA PeersSends ==
  ASSUME LocalType, Entries, NEW n \in Names, Peers(n)
  PROVE  Entries'
<1> DEFINE L == Len(entries)
           full == [by |-> n, sent |-> TRUE, targets |-> view[n]]
<1>1. /\ entries' = [i \in DOMAIN entries |->
                      IF i \in Unsent(n) THEN full ELSE entries[i]]
      /\ \A k \in Names \ {n} : at'[k] = at[k]
      /\ job' = job
  BY DEF Peers, Goto, LocalType
<1>2. /\ L \in Nat /\ DOMAIN entries = 1 .. L
      /\ \A i \in 1 .. L : entries[i] \in List
  BY LenProperties, ElementOfSeq DEF Entries
<1>3. full \in List /\ full.sent
  BY DEF List, LocalType
<1> HIDE DEF full
<1>4. entries' \in [1 .. L -> List]
  BY <1>1, <1>2, <1>3
<1>5. entries' \in Seq(List)
  BY <1>2, <1>4, SeqDef
<1>6. Len(entries') = L
  BY <1>2, <1>4, <1>5, LenProperties
<1>7. Unsent(n)' = {}
  BY <1>1, <1>2, <1>3 DEF Unsent
<1>8. \A k \in Names \ {n} : Unsent(k)' = Unsent(k)
  <2> TAKE k \in Names \ {n}
  <2>1. \A i \in 1 .. L : i \in Unsent(n) => entries[i].by = n
    BY DEF Unsent
  <2>2. full.by = n
    BY DEF full
  <2>3. \A i \in 1 .. L : i \in Unsent(k)' <=> i \in Unsent(k)
    BY <1>1, <1>2, <2>1, <2>2 DEF Unsent
  <2>4. Unsent(k)' \subseteq 1 .. L /\ Unsent(k) \subseteq 1 .. L
    BY <1>1, <1>2 DEF Unsent
  <2> QED BY <2>3, <2>4
<1> QED BY <1>1, <1>5, <1>6, <1>7, <1>8 DEF Entries

LEMMA MergedDrops ==
  ASSUME LocalType, Entries, NEW i \in DOMAIN entries, Merged(i)
  PROVE  Entries'
<1> DEFINE L == Len(entries)
           kept == [k \in 1 .. L - i |-> i + k]
<1>1. /\ L \in Nat /\ DOMAIN entries = 1 .. L /\ i \in 1 .. L
      /\ \A k \in 1 .. L : entries[k] \in List
  BY LenProperties, ElementOfSeq DEF Entries
<1>2. /\ entries' \in Seq(List) /\ Len(entries') = L - i
      /\ \A k \in 1 .. L - i : entries'[k] = entries[i + k]
  <2>1. \A k \in i + 1 .. L : entries[k] \in List
    BY <1>1
  <2>2. /\ SubSeq(entries, i + 1, L) \in Seq(List)
        /\ Len(SubSeq(entries, i + 1, L)) =
             IF i + 1 <= L THEN L - (i + 1) + 1 ELSE 0
        /\ \A k \in 1 .. L - (i + 1) + 1 :
             SubSeq(entries, i + 1, L)[k] = entries[i + 1 + k - 1]
    BY <1>1, <2>1, SubSeqProperties
  <2> QED BY <1>1, <2>2 DEF Merged
<1>3. PICK from : from = kept
  OBVIOUS
<1>4. /\ DOMAIN from = 1 .. L - i
      /\ DOMAIN entries' = DOMAIN from
      /\ from \in [DOMAIN from -> DOMAIN entries]
      /\ \A h, k \in DOMAIN from : from[h] = from[k] => h = k
      /\ \A k \in DOMAIN from : entries'[k] = entries[from[k]]
  BY <1>1, <1>2, <1>3, LenProperties
<1> HIDE DEF kept
<1>5. \A n \in Names :
        /\ Unsent(n)' = {k \in DOMAIN from : from[k] \in Unsent(n)}
        /\ \A h, k \in Unsent(n)' : h = k
  <2>1. \A n \in Names :
          /\ UnsentOf(entries', n) = {k \in DOMAIN from : from[k] \in Unsent(n)}
          /\ \A h, k \in UnsentOf(entries', n) : h = k
    BY <1>4, PartOfEntries
  <2> QED BY <2>1, UnsentNow
<1>6. \A n \in Names : Unsent(n)' # {} => at'[n] = "peers"
  BY <1>5 DEF Entries, Merged, updater
<1>7. Len(entries') <= MaxEntries
  BY <1>1, <1>2, GossipingJobAssumption DEF Entries
<1>8. job' \in SUBSET Names
  BY <1>1 DEF Merged, List
<1> QED BY <1>2, <1>5, <1>6, <1>7, <1>8 DEF Entries

LEMMA LostDrops ==
  ASSUME LocalType, Entries, NEW i \in DOMAIN entries, Lost(i)
  PROVE  Entries'
<1>1. /\ entries' \in Seq(List)
      /\ Len(entries') <= MaxEntries
      /\ \A n \in Names : /\ \A h, k \in Unsent(n)' : h = k
                          /\ Unsent(n)' # {} => Unsent(n) # {}
  BY FewerEntries DEF Lost
<1>2. job' = job /\ at' = at
  BY DEF Lost, updater
<1> QED BY <1>1, <1>2 DEF Entries

\* What is on its way is typed, within its bound, and no process has more
\* than the one list under way that it is about to broadcast.
THEOREM OneListUnderWay == Spec => []Entries
<1>1. Init => Entries
  BY GossipingJobAssumption, EmptySeq DEF Init, Entries, Unsent
<1>2. LocalType /\ Entries /\ [Next]_vars => Entries'
  <2> SUFFICES ASSUME LocalType, Entries, [Next]_vars
               PROVE  Entries'
    OBVIOUS
  <2>1. ASSUME NEW n \in Names,
               \/ Create(n) \/ Serve(n) \/ Tick(n) \/ TakeChange(n)
               \/ Position(n) \/ WriteFile(n) \/ OpenFails(n)
               \/ WriteFileFails(n)
        PROVE  Entries'
    <3>1. UNCHANGED <<entries, job>> /\ at[n] # "peers"
      BY <2>1 DEF Create, Serve, Tick, TakeChange, Position, WriteFile,
         OpenFails, WriteFileFails
    <3>2. \A k \in Names \ {n} : at'[k] = at[k]
      BY <2>1 DEF Create, Serve, Tick, TakeChange, Position, WriteFile,
         OpenFails, WriteFileFails, Goto, LocalType
    <3> QED BY <3>1, <3>2, EntriesStay
  <2>2. ASSUME NEW n \in Names, NEW m \in Names,
               PeerJoin(n, m) \/ PeerLeave(n, m)
        PROVE  Entries'
    BY <2>2, EntriesStay DEF PeerJoin, PeerLeave, updater
  <2>3. CASE UNCHANGED vars
    BY <2>3, EntriesStay DEF vars
  <2> QED
    BY <2>1, <2>2, <2>3, EndsWithout, StampAdds, PeersSends, MergedDrops,
       LostDrops
    DEF Next
<1>3. TokenInv => LocalType
  BY DEF TokenInv
<1> QED BY <1>1, <1>2, <1>3, Tokens, PTL DEF Spec

\* Type correctness: no channel, list or file holds anything else, whatever
\* processes join, leave and end while their lists are on their way.
THEOREM TypeCorrect == Spec => []TypeOK
<1>1. TokenInv /\ Entries => TypeOK
  BY DEF TokenInv, LocalType, Entries, List, TypeOK
<1> QED BY <1>1, Tokens, OneListUnderWay, PTL

=============================================================================
