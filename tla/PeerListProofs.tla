--------------------------- MODULE PeerListProofs ---------------------------
(***************************************************************************)
(* Proofs about PeerList, for any processes, addresses and configuration.  *)
(* The inductive invariant is the conjunction of the type invariant and    *)
(* the three safety invariants; each of them is needed for another one or  *)
(* is inductive by itself.                                                 *)
(***************************************************************************)
EXTENDS PeerList, FiniteSetTheorems, TLAPS

IInv == TypeOK /\ FailedListMatches /\ FailedAreRetried /\ MembersAreKnown

LEMMA AddressOf ==
  ASSUME NEW n \in Names
  PROVE  AddrOf[n] \in Addrs
  BY PeerListAssumption, ResolveAssumption

LEMMA SignalType ==
  ASSUME changes \in 0 .. ChangesCap, Signal
  PROVE  changes' \in 0 .. ChangesCap
  BY PeerListAssumption DEF Signal

\* peerJoin keeps the bookkeeping consistent and leaves the peer known.
LEMMA PeerJoinKeeps ==
  ASSUME IInv, NEW n \in Names, PeerJoin(n)
  PROVE  /\ peers' \in [Addrs -> {"none", "alive", "failed"}]
         /\ failedPeers' \in [Addrs -> Nat]
         /\ changes' \in 0 .. ChangesCap
         /\ timedOut' \in SUBSET Addrs
         /\ FailedListMatches'
         /\ FailedAreRetried'
         /\ peers'[AddrOf[n]] # "none"
         /\ \A a \in Addrs : peers[a] # "none" => peers'[a] # "none"
<1> DEFINE b == AddrOf[n]
<1>1. b \in Addrs
  BY AddressOf
<1>2. /\ peers' = [peers EXCEPT ![b] = "alive"]
      /\ failedPeers' = IF peers[b] = "failed"
                        THEN [failedPeers EXCEPT ![b] = 0] ELSE failedPeers
      /\ timedOut' = timedOut \ {b}
      /\ Signal
  BY DEF PeerJoin
<1>3. failedPeers' = [failedPeers EXCEPT ![b] = 0]
  <2>1. CASE peers[b] = "failed"
    BY <1>2, <2>1
  <2>2. CASE peers[b] # "failed"
    <3>1. failedPeers[b] = 0
      BY <1>1, <2>2 DEF IInv, TypeOK, FailedListMatches
    <3> QED BY <1>1, <1>2, <2>2, <3>1 DEF IInv, TypeOK
  <2> QED BY <2>1, <2>2
<1>4. changes' \in 0 .. ChangesCap
  BY <1>2, SignalType DEF IInv, TypeOK
<1> HIDE DEF b
<1>5. /\ peers' \in [Addrs -> {"none", "alive", "failed"}]
      /\ failedPeers' \in [Addrs -> Nat]
      /\ timedOut' \in SUBSET Addrs
  BY <1>1, <1>2, <1>3 DEF IInv, TypeOK
<1>6. FailedListMatches'
  BY <1>1, <1>2, <1>3 DEF IInv, TypeOK, FailedListMatches
<1>7. FailedAreRetried'
  BY <1>1, <1>2, <1>3 DEF IInv, TypeOK, FailedAreRetried
<1>8. /\ peers'[b] # "none"
      /\ \A a \in Addrs : peers[a] # "none" => peers'[a] # "none"
  BY <1>1, <1>2 DEF IInv, TypeOK
<1> QED BY <1>4, <1>5, <1>6, <1>7, <1>8 DEF b

\* So does peerLeave, whatever was there before.
LEMMA PeerLeaveKeeps ==
  ASSUME IInv, NEW n \in Names, PeerLeave(n)
  PROVE  /\ peers' \in [Addrs -> {"none", "alive", "failed"}]
         /\ failedPeers' \in [Addrs -> Nat]
         /\ changes' \in 0 .. ChangesCap
         /\ timedOut' \in SUBSET Addrs
         /\ FailedListMatches'
         /\ FailedAreRetried'
         /\ \A a \in Addrs : peers[a] # "none" => peers'[a] # "none"
<1> DEFINE b == AddrOf[n]
<1>1. b \in Addrs
  BY AddressOf
<1>2. CASE UNCHANGED book
  BY <1>2 DEF book, IInv, TypeOK, FailedListMatches, FailedAreRetried
<1>3. CASE /\ peers' = [peers EXCEPT ![b] = "failed"]
           /\ failedPeers' = [failedPeers EXCEPT ![b] = @ + 1]
           /\ timedOut' = timedOut \ {b}
           /\ Signal
  <2>1. changes' \in 0 .. ChangesCap
    BY <1>3, SignalType DEF IInv, TypeOK
  <2> HIDE DEF b
  <2>2. /\ peers' \in [Addrs -> {"none", "alive", "failed"}]
        /\ failedPeers' \in [Addrs -> Nat]
        /\ timedOut' \in SUBSET Addrs
    BY <1>1, <1>3 DEF IInv, TypeOK
  <2>3. FailedListMatches'
    BY <1>1, <1>3 DEF IInv, TypeOK, FailedListMatches
  <2>4. FailedAreRetried'
    BY <1>1, <1>3 DEF IInv, TypeOK, FailedAreRetried
  <2>5. \A a \in Addrs : peers[a] # "none" => peers'[a] # "none"
    BY <1>1, <1>3 DEF IInv, TypeOK
  <2> QED BY <2>1, <2>2, <2>3, <2>4, <2>5
<1> QED BY <1>2, <1>3 DEF PeerLeave

\* A connection that got through announces at most one process.
LEMMA JoinSucceedsKeeps ==
  ASSUME IInv, NEW a \in Addrs, JoinSucceeds(a), UNCHANGED <<proc, stage, periodic>>,
         retrying' \in [Addrs -> Nat], refreshing' \in SUBSET Addrs
  PROVE  IInv'
<1>1. CASE UNCHANGED <<member, book>>
  BY <1>1 DEF book, IInv, TypeOK, FailedListMatches, FailedAreRetried,
              MembersAreKnown
<1>2. ASSUME NEW n \in Names, PeerJoin(n),
             member' = [member EXCEPT ![n] = "alive"]
      PROVE  IInv'
  <2>1. member' \in [Names -> {"unknown", "alive", "dead"}]
    BY <1>2 DEF IInv, TypeOK
  <2>2. TypeOK'
    BY <1>2, <2>1, PeerJoinKeeps DEF IInv, TypeOK
  <2>3. MembersAreKnown'
    BY <1>2, PeerJoinKeeps, AddressOf DEF IInv, TypeOK, MembersAreKnown
  <2> QED BY <1>2, <2>2, <2>3, PeerJoinKeeps DEF IInv
<1> QED BY <1>1, <1>2 DEF JoinSucceeds

\* resolvePeers returns addresses only.
LEMMA ResolutionType ==
  ASSUME NEW my, NEW waitIfEmpty \in BOOLEAN,
         NEW found \in Resolutions(my, waitIfEmpty)
  PROVE  found \in [Known -> SUBSET Addrs]
<1>1. \A k \in Known : Found(k, my, waitIfEmpty) \subseteq SUBSET Addrs
  BY ResolveAssumption DEF Found, AskedAgain, Strip
<1>2. \A k \in Known : found[k] \in Found(k, my, waitIfEmpty)
  BY DEF Resolutions
<1> QED BY <1>1, <1>2 DEF Resolutions

\* An address occurs in the list as often as it was found: at least once.
LEMMA OccurrencesCount ==
  ASSUME NEW found, NEW a
  PROVE  /\ Occurrences(found, a) \in Nat
         /\ (\E k \in Known : a \in found[k]) => Occurrences(found, a) > 0
<1> DEFINE Finders == {k \in Known : a \in found[k]}
<1>1. IsFiniteSet(Finders)
  BY FS_Subset, ResolveAssumption
<1>2. Cardinality(Finders) \in Nat /\ (Cardinality(Finders) = 0 <=> Finders = {})
  BY <1>1, FS_CardinalityType, FS_EmptySet
<1> QED BY <1>2 DEF Occurrences

\* The bookkeeping is consistent in every run: no entry survives a join, no
\* failed address is dropped before it timed out, every member is known.
THEOREM Bookkeeping == Spec => []IInv
<1>1. ASSUME Init PROVE IInv
  <2>1. PICK found \in Resolutions(MyAddr, TRUE) :
          /\ peers = [a \in Addrs |-> IF a \in InitialFailed(found) THEN "failed"
                                      ELSE IF a = AddrOf[Self] THEN "alive"
                                      ELSE "none"]
          /\ failedPeers = [a \in Addrs |-> IF a \in InitialFailed(found)
                                            THEN Occurrences(found, a) ELSE 0]
    BY <1>1 DEF Init
  <2>2. \A a \in Addrs : /\ Occurrences(found, a) \in Nat
                         /\ a \in InitialFailed(found) => Occurrences(found, a) > 0
    BY OccurrencesCount DEF InitialFailed
  <2>3. TypeOK
    BY <1>1, <2>1, <2>2, PeerListAssumption DEF Init, TypeOK, None
  <2>4. FailedListMatches /\ FailedAreRetried
    BY <2>1, <2>2 DEF FailedListMatches, FailedAreRetried
  <2>5. MembersAreKnown
    BY <1>1, <2>1, ResolveAssumption, PeerListAssumption
    DEF Init, MembersAreKnown, InitialFailed
  <2> QED BY <2>3, <2>4, <2>5 DEF IInv
<1>2. IInv /\ [Next]_vars => IInv'
  <2> SUFFICES ASSUME IInv, [Next]_vars
               PROVE  IInv'
    OBVIOUS
  <2>1. CASE UNCHANGED vars
    BY <2>1 DEF vars, IInv, TypeOK, FailedListMatches, FailedAreRetried,
                MembersAreKnown
  <2>2. ASSUME NEW n \in Names, ProcessStarts(n) \/ ProcessEnds(n)
        PROVE  IInv'
    BY <2>2 DEF ProcessStarts, ProcessEnds, book, IInv, TypeOK,
                FailedListMatches, FailedAreRetried, MembersAreKnown
  <2>3. ASSUME NEW n \in Names, NotifyJoin(n)
        PROVE  IInv'
    <3>1. TypeOK'
      BY <2>3, PeerJoinKeeps DEF NotifyJoin, IInv, TypeOK
    <3>2. MembersAreKnown'
      BY <2>3, PeerJoinKeeps, AddressOf
      DEF NotifyJoin, IInv, TypeOK, MembersAreKnown
    <3> QED BY <2>3, <3>1, <3>2, PeerJoinKeeps DEF NotifyJoin, IInv
  <2>4. ASSUME NEW n \in Names, PeerLeave(n),
               member' = [member EXCEPT ![n] = "dead"],
               UNCHANGED <<proc, periodic, retrying, refreshing>>,
               stage' \in {"created", "joined", "stopping", "left"}
        PROVE  IInv'
    <3>1. TypeOK'
      BY <2>4, PeerLeaveKeeps DEF IInv, TypeOK
    <3>2. MembersAreKnown'
      BY <2>4, PeerLeaveKeeps, AddressOf DEF IInv, TypeOK, MembersAreKnown
    <3> QED BY <2>4, <3>1, <3>2, PeerLeaveKeeps DEF IInv
  <2>5. ASSUME NEW n \in Names, NotifyLeave(n)
        PROVE  IInv'
    BY <2>4, <2>5 DEF NotifyLeave, IInv, TypeOK
  <2>6. CASE LeaveMesh
    BY <2>4, <2>6, PeerListAssumption DEF LeaveMesh
  <2>7. CASE Join \/ Stop
    BY <2>7 DEF Join, Stop, book, IInv, TypeOK, FailedListMatches,
                FailedAreRetried, MembersAreKnown
  <2>7a. ASSUME NEW t \in Tasks, TaskReturns(t)
         PROVE  IInv'
    BY <2>7a DEF TaskReturns, book, IInv, TypeOK, FailedListMatches,
                 FailedAreRetried, MembersAreKnown
  <2>8. CASE TakeChange
    <3>1. changes' \in 0 .. ChangesCap
      BY <2>8, PeerListAssumption DEF TakeChange, IInv, TypeOK
    <3> QED BY <2>8, <3>1
            DEF TakeChange, world, IInv, TypeOK, FailedListMatches,
                FailedAreRetried, MembersAreKnown
  <2>9. CASE ReconnectStarts
    BY <2>9 DEF ReconnectStarts, world, book, IInv, TypeOK,
                FailedListMatches, FailedAreRetried, MembersAreKnown
  <2>9a. ASSUME NEW found \in Refreshable, RefreshStarts(found)
         PROVE  IInv'
    <3>1. refreshing' \in SUBSET Addrs
      <4>1. found \in [Known -> SUBSET Addrs]
        BY ResolutionType DEF Refreshable
      <4> QED BY <2>9a, <4>1 DEF RefreshStarts
    <3> QED BY <2>9a, <3>1
            DEF RefreshStarts, world, book, IInv, TypeOK, FailedListMatches,
                FailedAreRetried, MembersAreKnown
  <2>10. ASSUME NEW a \in Addrs, Reconnected(a) \/ ReconnectFails(a)
         PROVE  IInv'
    <3>1. retrying' \in [Addrs -> Nat]
      BY <2>10 DEF Reconnected, ReconnectFails, IInv, TypeOK
    <3>2. CASE Reconnected(a)
      BY <3>1, <3>2, JoinSucceedsKeeps DEF Reconnected, IInv, TypeOK
    <3>3. CASE ReconnectFails(a)
      BY <3>1, <3>3
      DEF ReconnectFails, world, book, IInv, TypeOK, FailedListMatches,
          FailedAreRetried, MembersAreKnown
    <3> QED BY <2>10, <3>2, <3>3
  <2>11. ASSUME NEW a \in Addrs, Refreshed(a) \/ RefreshFails(a)
         PROVE  IInv'
    <3>1. refreshing' \in SUBSET Addrs
      BY <2>11 DEF Refreshed, RefreshFails, IInv, TypeOK
    <3>2. CASE Refreshed(a)
      BY <3>1, <3>2, JoinSucceedsKeeps DEF Refreshed, IInv, TypeOK
    <3>3. CASE RefreshFails(a)
      BY <3>1, <3>3
      DEF RefreshFails, world, book, IInv, TypeOK, FailedListMatches,
          FailedAreRetried, MembersAreKnown
    <3> QED BY <2>11, <3>2, <3>3
  <2>12. CASE RemoveFailedPeers
    <3>1. PICK left \in Remainders : /\ failedPeers' = left
                                     /\ timedOut' = timedOut \cup GivenUp(left)
      BY <2>12 DEF RemoveFailedPeers
    <3>2. /\ left \in [Addrs -> Nat]
          /\ \A a \in Addrs : left[a] <= failedPeers[a]
      BY DEF Remainders, IInv, TypeOK
    <3>3. TypeOK'
      BY <2>12, <3>1, <3>2
      DEF RemoveFailedPeers, world, IInv, TypeOK, GivenUp
    <3>4. FailedListMatches'
      BY <2>12, <3>1, <3>2
      DEF RemoveFailedPeers, IInv, TypeOK, FailedListMatches
    <3>5. FailedAreRetried'
      BY <2>12, <3>1, <3>2
      DEF RemoveFailedPeers, IInv, TypeOK, FailedAreRetried, GivenUp
    <3>6. MembersAreKnown'
      BY <2>12 DEF RemoveFailedPeers, world, IInv, MembersAreKnown
    <3> QED BY <3>3, <3>4, <3>5, <3>6 DEF IInv
  <2> QED BY <2>1, <2>2, <2>3, <2>5, <2>6, <2>7, <2>8, <2>9, <2>10, <2>11,
             <2>12, <2>7a, <2>9a DEF Next, RefreshUnresolved
<1> QED BY <1>1, <1>2, PTL DEF Spec

\* A failedPeers entry always has status "failed" in peers.
THEOREM FailedListCorrect == Spec => []FailedListMatches
<1>1. IInv => FailedListMatches
  BY DEF IInv
<1> QED BY <1>1, Bookkeeping, PTL

\* A failed address is on the list reconnect works off until it timed out.
THEOREM FailedRetried == Spec => []FailedAreRetried
<1>1. IInv => FailedAreRetried
  BY DEF IInv
<1> QED BY <1>1, Bookkeeping, PTL

\* peerLeave never meets a member it does not know.
THEOREM MembersKnown == Spec => []MembersAreKnown
<1>1. IInv => MembersAreKnown
  BY DEF IInv
<1> QED BY <1>1, Bookkeeping, PTL

\* Type correctness: above all, the channel of changes never holds more than
\* its capacity although peerJoin and peerLeave never wait.
THEOREM TypeCorrect == Spec => []TypeOK
<1>1. IInv => TypeOK
  BY DEF IInv
<1> QED BY <1>1, Bookkeeping, PTL

=============================================================================
