------------------------- MODULE DaemonLocksProofs -------------------------
(***************************************************************************)
(* Proofs about RWLocks, for any number of threads: programs that release  *)
(* what they take and that take locks in the order of a rank never         *)
(* deadlock.  The invariant says that the locks a thread holds are those   *)
(* its program has taken and not yet released.                             *)
(*                                                                         *)
(* The programs of the daemon (DaemonLocks) are such programs: the second  *)
(* part shows it, for any number of goroutines, each in any operation.     *)
(***************************************************************************)
EXTENDS DaemonLocks, TLAPS, NaturalsInduction, WellFoundedInduction,
        SequenceTheorems

\* Programs end without a lock.
Balanced ==
  \A o \in Ops, i \in Nat \ {0}, l \in Locks :
    i \notin DOMAIN Programs[o]
      => ~ ReadsAt(Programs[o], i, l) /\ ~ WritesAt(Programs[o], i, l)

\* A program takes a lock only when all it holds are of lower rank.
Ordered(rank) ==
  \A o \in Ops : \A i \in DOMAIN Programs[o] : \A l, m \in Locks :
    /\ \/ Programs[o][i] = [op |-> "RLock", lock |-> l]
       \/ Programs[o][i] = [op |-> "Lock", lock |-> l]
    /\ ReadsAt(Programs[o], i, m) \/ WritesAt(Programs[o], i, m)
    => rank[m] < rank[l]

Types ==
  /\ op \in [Threads -> Ops \cup {"idle"}]
  /\ pc \in [Threads -> Nat \ {0}]
  /\ reading \in [Locks -> SUBSET Threads]
  /\ writing \in [Locks -> Threads \cup {Nobody}]

ReadersHold ==
  \A t \in Threads, l \in Locks :
    t \in reading[l] => op[t] # "idle" /\ ReadsAt(Program(t), pc[t], l)

WritersHold ==
  \A t \in Threads, l \in Locks :
    writing[l] = t => /\ op[t] # "idle"
                      /\ WritesAt(Program(t), pc[t], l) \/ At(t, "Lock", l)

LocksInv == Types /\ ReadersHold /\ WritersHold

-----------------------------------------------------------------------------

\* A step that is not the release of a lock leaves it held.
LEMMA StaysHeld ==
  ASSUME NEW p, DOMAIN p \subseteq Nat \ {0}, NEW i \in DOMAIN p,
         NEW take, NEW release, NEW l,
         Holding(p, i, take, release, l),
         p[i] # [op |-> release, lock |-> l]
  PROVE  Holding(p, i + 1, take, release, l)
<1>1. PICK j \in DOMAIN p :
        /\ j < i
        /\ p[j] = [op |-> take, lock |-> l]
        /\ \A k \in DOMAIN p : j < k /\ k < i => p[k] # [op |-> release, lock |-> l]
  BY DEF Holding
<1>2. j < i + 1
  BY <1>1
<1>3. \A k \in DOMAIN p : j < k /\ k < i + 1 => p[k] # [op |-> release, lock |-> l]
  <2>1. SUFFICES ASSUME NEW k \in DOMAIN p, j < k, k < i + 1
                 PROVE  p[k] # [op |-> release, lock |-> l]
    OBVIOUS
  <2>2. k < i \/ k = i
    BY <2>1
  <2> QED
    BY <1>1, <2>1, <2>2
<1> QED
  BY <1>1, <1>2, <1>3 DEF Holding

\* A step that takes a lock holds it.
LEMMA Taken ==
  ASSUME NEW p, DOMAIN p \subseteq Nat \ {0}, NEW i \in DOMAIN p,
         NEW take, NEW release, NEW l,
         p[i] = [op |-> take, lock |-> l]
  PROVE  Holding(p, i + 1, take, release, l)
<1>1. \A k \in DOMAIN p : ~ (i < k /\ k < i + 1)
  OBVIOUS
<1>2. i < i + 1
  OBVIOUS
<1> QED
  BY <1>1, <1>2 DEF Holding

\* What a thread reads it still reads after a step of its own, if the step is
\* not the release.
LEMMA Reads ==
  ASSUME Types, NEW t \in Threads, op[t] # "idle", pc[t] \in DOMAIN Program(t),
         pc' = [pc EXCEPT ![t] = @ + 1], op' = op
  PROVE  /\ \A l \in Locks : /\ ReadsAt(Program(t), pc[t], l)
                             /\ ~ At(t, "RUnlock", l)
                             => ReadsAt(Program(t)', pc'[t], l)
         /\ \A l \in Locks : /\ WritesAt(Program(t), pc[t], l)
                             /\ ~ At(t, "Unlock", l)
                             => WritesAt(Program(t)', pc'[t], l)
         /\ \A l \in Locks : At(t, "RLock", l) => ReadsAt(Program(t)', pc'[t], l)
         /\ \A l \in Locks : At(t, "Lock", l) => WritesAt(Program(t)', pc'[t], l)
<1>1. Program(t)' = Program(t) /\ pc'[t] = pc[t] + 1
  BY DEF Types, Program
<1>2. DOMAIN Program(t) \subseteq Nat \ {0}
  BY RWLocksAssumption DEF Types, Program
<1>3. ASSUME NEW l \in Locks
      PROVE  /\ ReadsAt(Program(t), pc[t], l) /\ ~ At(t, "RUnlock", l)
                => ReadsAt(Program(t), pc[t] + 1, l)
             /\ WritesAt(Program(t), pc[t], l) /\ ~ At(t, "Unlock", l)
                => WritesAt(Program(t), pc[t] + 1, l)
  BY <1>2, StaysHeld DEF ReadsAt, WritesAt, At
<1>4. ASSUME NEW l \in Locks
      PROVE  /\ At(t, "RLock", l) => ReadsAt(Program(t), pc[t] + 1, l)
             /\ At(t, "Lock", l) => WritesAt(Program(t), pc[t] + 1, l)
  BY <1>2, Taken DEF ReadsAt, WritesAt, At
<1> QED
  BY <1>1, <1>3, <1>4

\* A thread that does not step keeps its place.
LEMMA Others ==
  ASSUME Types, NEW t \in Threads, NEW u \in Threads, u # t,
         \/ Advance(t)
         \/ \E o \in Ops \cup {"idle"} :
              op' = [op EXCEPT ![t] = o] /\ pc' = [pc EXCEPT ![t] = 1]
  PROVE  /\ op'[u] = op[u]
         /\ Program(u)' = Program(u)
         /\ pc'[u] = pc[u]
         /\ \A l \in Locks : At(u, "Lock", l)' <=> At(u, "Lock", l)
<1>1. op'[u] = op[u] /\ pc'[u] = pc[u]
  BY DEF Types, Advance
<1> QED
  BY <1>1 DEF Program, At

LEMMA InvInit == Init => LocksInv
<1> SUFFICES ASSUME Init PROVE LocksInv
  OBVIOUS
<1>1. Types
  BY DEF Init, Types
<1>2. ReadersHold /\ WritersHold
  BY RWLocksAssumption DEF Init, ReadersHold, WritersHold
<1> QED
  BY <1>1, <1>2 DEF LocksInv

LEMMA InvNext ==
  ASSUME Balanced, LocksInv, [Next]_vars
  PROVE  LocksInv'
<1> USE DEF LocksInv
<1>1. ASSUME NEW t \in Threads, NEW o \in Ops, Begins(t, o)
      PROVE  LocksInv'
  <2>1. Types'
    BY <1>1 DEF Begins, Types
  <2>2. ReadersHold'
    BY <1>1, Others DEF Begins, ReadersHold
  <2>3. WritersHold'
    BY <1>1, Others DEF Begins, WritersHold
  <2> QED
    BY <2>1, <2>2, <2>3
<1>2. ASSUME NEW t \in Threads, Ends(t)
      PROVE  LocksInv'
  <2>1. Types'
    BY <1>2 DEF Ends, Types
  <2>2. \A l \in Locks : t \notin reading[l] /\ writing[l] # t
    <3>1. op[t] \in Ops /\ pc[t] \in Nat \ {0}
      BY <1>2 DEF Ends, Types
    <3>2. \A l \in Locks : ~ ReadsAt(Program(t), pc[t], l) /\ ~ WritesAt(Program(t), pc[t], l)
      BY <1>2, <3>1, Balanced DEF Ends, Program, Balanced
    <3>3. \A l \in Locks : ~ At(t, "Lock", l)
      BY <1>2 DEF Ends, At
    <3> QED
      BY <3>2, <3>3 DEF ReadersHold, WritersHold
  <2>3. ReadersHold'
    BY <1>2, <2>2, Others DEF Ends, ReadersHold
  <2>4. WritersHold'
    BY <1>2, <2>2, Others DEF Ends, WritersHold
  <2> QED
    BY <2>1, <2>3, <2>4
<1>3. ASSUME NEW t \in Threads, NEW l \in Locks, RLocks(t, l)
      PROVE  LocksInv'
  <2>1. Types'
    BY <1>3 DEF RLocks, Advance, Types
  <2>2. op[t] # "idle" /\ pc[t] \in DOMAIN Program(t)
    BY <1>3 DEF RLocks, At
  <2>3. \A m \in Locks : ~ At(t, "RUnlock", m) /\ ~ At(t, "Unlock", m) /\ ~ At(t, "Lock", m)
    BY <1>3 DEF RLocks, At
  <2>4. ReadersHold'
    <3>1. \A u \in Threads, m \in Locks : u # t => (u \in reading'[m] <=> u \in reading[m])
      BY <1>3 DEF RLocks, Types
    <3>2. \A m \in Locks : m # l => reading'[m] = reading[m]
      BY <1>3 DEF RLocks, Types
    <3>3. \A m \in Locks : t \in reading'[m] => op'[t] # "idle" /\ ReadsAt(Program(t)', pc'[t], m)
      BY <1>3, <2>2, <2>3, <3>2, Reads DEF RLocks, Advance, ReadersHold
    <3> QED
      BY <1>3, <3>1, <3>3, Others DEF RLocks, ReadersHold
  <2>5. WritersHold'
    <3>1. \A m \in Locks : writing[m] = t => op'[t] # "idle" /\ WritesAt(Program(t)', pc'[t], m)
      BY <1>3, <2>2, <2>3, Reads DEF RLocks, Advance, WritersHold
    <3> QED
      BY <1>3, <3>1, Others DEF RLocks, WritersHold
  <2> QED
    BY <2>1, <2>4, <2>5
<1>4. ASSUME NEW t \in Threads, NEW l \in Locks, RUnlocks(t, l)
      PROVE  LocksInv'
  <2>1. Types'
    BY <1>4 DEF RUnlocks, Advance, Types
  <2>2. op[t] # "idle" /\ pc[t] \in DOMAIN Program(t)
    BY <1>4 DEF RUnlocks, At
  <2>3. \A m \in Locks : ~ At(t, "Unlock", m) /\ ~ At(t, "Lock", m) /\ (m # l => ~ At(t, "RUnlock", m))
    BY <1>4 DEF RUnlocks, At
  <2>4. ReadersHold'
    <3>1. \A u \in Threads, m \in Locks : u # t => (u \in reading'[m] <=> u \in reading[m])
      BY <1>4 DEF RUnlocks, Types
    <3>2. /\ t \notin reading'[l]
          /\ \A m \in Locks : m # l => reading'[m] = reading[m]
      BY <1>4 DEF RUnlocks, Types
    <3>3. \A m \in Locks : t \in reading'[m] => op'[t] # "idle" /\ ReadsAt(Program(t)', pc'[t], m)
      BY <1>4, <2>2, <2>3, <3>2, Reads DEF RUnlocks, Advance, ReadersHold
    <3> QED
      BY <1>4, <3>1, <3>3, Others DEF RUnlocks, ReadersHold
  <2>5. WritersHold'
    <3>1. \A m \in Locks : writing[m] = t => op'[t] # "idle" /\ WritesAt(Program(t)', pc'[t], m)
      BY <1>4, <2>2, <2>3, Reads DEF RUnlocks, Advance, WritersHold
    <3> QED
      BY <1>4, <3>1, Others DEF RUnlocks, WritersHold
  <2> QED
    BY <2>1, <2>4, <2>5
<1>5. ASSUME NEW t \in Threads, NEW l \in Locks, Announces(t, l)
      PROVE  LocksInv'
  <2>1. Types'
    BY <1>5 DEF Announces, Types
  <2>2. ReadersHold'
    BY <1>5 DEF Announces, ReadersHold, Program
  <2>3. op[t] # "idle"
    BY <1>5 DEF Announces, At
  <2>4. \A m \in Locks : m # l => writing'[m] = writing[m]
    BY <1>5 DEF Announces, Types
  <2>5. writing'[l] = t
    BY <1>5 DEF Announces, Types
  <2>6. WritersHold'
    BY <1>5, <2>3, <2>4, <2>5 DEF Announces, WritersHold, Program, At
  <2> QED
    BY <2>1, <2>2, <2>6
<1>6. ASSUME NEW t \in Threads, NEW l \in Locks, Enters(t, l)
      PROVE  LocksInv'
  <2>1. Types'
    BY <1>6 DEF Enters, Advance, Types
  <2>2. op[t] # "idle" /\ pc[t] \in DOMAIN Program(t)
    BY <1>6 DEF Enters, At
  <2>3. \A m \in Locks : ~ At(t, "RUnlock", m) /\ ~ At(t, "Unlock", m)
    BY <1>6 DEF Enters, At
  <2>4. ReadersHold'
    <3>1. \A m \in Locks : t \in reading[m] => op'[t] # "idle" /\ ReadsAt(Program(t)', pc'[t], m)
      BY <1>6, <2>2, <2>3, Reads DEF Enters, Advance, ReadersHold
    <3> QED
      BY <1>6, <3>1, Others DEF Enters, ReadersHold
  <2>5. WritersHold'
    <3>1. \A m \in Locks : writing[m] = t => op'[t] # "idle" /\ WritesAt(Program(t)', pc'[t], m)
      BY <1>6, <2>2, <2>3, Reads DEF Enters, Advance, WritersHold
    <3> QED
      BY <1>6, <3>1, Others DEF Enters, WritersHold
  <2> QED
    BY <2>1, <2>4, <2>5
<1>7. ASSUME NEW t \in Threads, NEW l \in Locks, Unlocks(t, l)
      PROVE  LocksInv'
  <2>1. Types'
    BY <1>7 DEF Unlocks, Advance, Types
  <2>2. op[t] # "idle" /\ pc[t] \in DOMAIN Program(t)
    BY <1>7 DEF Unlocks, At
  <2>3. \A m \in Locks : ~ At(t, "RUnlock", m) /\ ~ At(t, "Lock", m) /\ (m # l => ~ At(t, "Unlock", m))
    BY <1>7 DEF Unlocks, At
  <2>4. ReadersHold'
    <3>1. \A m \in Locks : t \in reading[m] => op'[t] # "idle" /\ ReadsAt(Program(t)', pc'[t], m)
      BY <1>7, <2>2, <2>3, Reads DEF Unlocks, Advance, ReadersHold
    <3> QED
      BY <1>7, <3>1, Others DEF Unlocks, ReadersHold
  <2>5. WritersHold'
    <3>1. /\ writing'[l] = Nobody
          /\ \A m \in Locks : m # l => writing'[m] = writing[m]
      BY <1>7 DEF Unlocks, Types
    <3>2. \A m \in Locks : writing'[m] = t => op'[t] # "idle" /\ WritesAt(Program(t)', pc'[t], m)
      BY <1>7, <2>2, <2>3, <3>1, Reads, RWLocksAssumption DEF Unlocks, Advance, WritersHold
    <3>3. \A u \in Threads, m \in Locks : writing'[m] = u => writing[m] = u
      BY <3>1, RWLocksAssumption
    <3> QED
      BY <1>7, <3>2, <3>3, Others DEF Unlocks, WritersHold
  <2> QED
    BY <2>1, <2>4, <2>5
<1>8. ASSUME NEW t \in Threads, ClientReads(t)
      PROVE  LocksInv'
  <2>1. Types'
    BY <1>8 DEF ClientReads, Advance, Types
  <2>2. op[t] # "idle" /\ pc[t] \in DOMAIN Program(t)
    BY <1>8 DEF ClientReads, At
  <2>3. \A m \in Locks : ~ At(t, "RUnlock", m) /\ ~ At(t, "Unlock", m) /\ ~ At(t, "Lock", m)
    BY <1>8 DEF ClientReads, At
  <2>4. ReadersHold'
    <3>1. \A m \in Locks : t \in reading[m] => op'[t] # "idle" /\ ReadsAt(Program(t)', pc'[t], m)
      BY <1>8, <2>2, <2>3, Reads DEF ClientReads, Advance, ReadersHold
    <3> QED
      BY <1>8, <3>1, Others DEF ClientReads, ReadersHold
  <2>5. WritersHold'
    <3>1. \A m \in Locks : writing[m] = t => op'[t] # "idle" /\ WritesAt(Program(t)', pc'[t], m)
      BY <1>8, <2>2, <2>3, Reads DEF ClientReads, Advance, WritersHold
    <3> QED
      BY <1>8, <3>1, Others DEF ClientReads, WritersHold
  <2> QED
    BY <2>1, <2>4, <2>5
<1>9. CASE UNCHANGED vars
  BY <1>9 DEF vars, Types, ReadersHold, WritersHold, Program, At
<1> QED
  BY <1>1, <1>2, <1>3, <1>4, <1>5, <1>6, <1>7, <1>8, <1>9 DEF Next

\* If programs take locks in the order of a rank, a set of threads that all
\* wait for one of the set has no member that waits for a lock of highest rank.
LEMMA OrderedNoDeadlock ==
  ASSUME NEW N \in Nat, NEW rank \in [Locks -> 0 .. N], Ordered(rank), LocksInv
  PROVE  NoDeadlock
<1> USE DEF LocksInv
<1>1. SUFFICES ASSUME NEW S \in (SUBSET Threads) \ {{}},
                      \A t \in S : Waits(t) \cap S # {}
               PROVE  FALSE
  BY DEF NoDeadlock
<1> DEFINE Wants(t, l) == At(t, "RLock", l) \/ At(t, "Lock", l)
           Heights == {N - rank[l] : l \in {m \in Locks : \E t \in S : Wants(t, m)}}
<1>2. ASSUME NEW t \in S
      PROVE  \E l \in Locks, u \in S : Wants(t, l) /\ Blocks(u, t, l)
  BY <1>1 DEF Waits, Blocks
<1>3. Heights # {} /\ Heights \subseteq Nat
  BY <1>2
<1>4. PICK h \in Heights : \A g \in Heights : ~ g < h
  <2>1. IsWellFoundedOn(OpToRel(<, Nat), Nat)
    BY NatLessThanWellFounded
  <2>2. PICK h \in Heights : \A g \in Heights : <<g, h>> \notin OpToRel(<, Nat)
    BY <1>3, <2>1, WFMin
  <2> QED
    BY <1>3, <2>2 DEF OpToRel
<1>5. PICK l \in Locks, t \in S : Wants(t, l) /\ h = N - rank[l]
  BY <1>4
<1>6. ASSUME NEW m \in Locks, NEW u \in S, Wants(u, m)
      PROVE  rank[m] <= rank[l]
  <2>1. N - rank[m] \in Heights
    BY <1>6
  <2> HIDE DEF Wants, Heights
  <2>2. ~ (N - rank[m] < N - rank[l])
    BY <1>4, <1>5, <2>1
  <2>3. rank[m] \in Nat /\ rank[l] \in Nat
    BY <1>5
  <2> QED BY <2>2, <2>3
\* What a thread of S has taken is of lower rank than what it wants.
<1>7. ASSUME NEW u \in S, NEW m \in Locks,
             ReadsAt(Program(u), pc[u], m) \/ WritesAt(Program(u), pc[u], m)
      PROVE  rank[m] < rank[l]
  <2>1. PICK n \in Locks : Wants(u, n)
    BY <1>2
  <2>2. op[u] \in Ops /\ pc[u] \in DOMAIN Programs[op[u]]
    BY <2>1 DEF At, Types, Program
  <2>3. rank[m] < rank[n]
    BY <1>7, <2>1, <2>2 DEF Ordered, At, Program
  <2>4. rank[n] <= rank[l]
    BY <1>6, <2>1
  <2> QED
    BY <2>3, <2>4
<1>8. \A u \in S : u \notin reading[l]
  BY <1>7 DEF ReadersHold, Types
<1>9. PICK u \in S : Blocks(u, t, l)
  <2>1. PICK n \in Locks, v \in S : Blocks(v, t, n)
    BY <1>2
  <2>2. n = l
    BY <1>5, <2>1 DEF Blocks, At
  <2> QED
    BY <2>1, <2>2
<1>10. writing[l] = u /\ At(u, "Lock", l)
  BY <1>7, <1>8, <1>9 DEF Blocks, WritersHold
<1>11. PICK n \in Locks, v \in S : Blocks(v, u, n)
  BY <1>2
<1>12. n = l
  BY <1>10, <1>11 DEF Blocks, At
<1> QED
  BY <1>8, <1>10, <1>11, <1>12 DEF Blocks, At

-----------------------------------------------------------------------------

\* The locks a thread holds are those its program has taken and not released.
THEOREM HeldAsWritten == Balanced => (Spec => []LocksInv)
<1> SUFFICES ASSUME Balanced PROVE Spec => []LocksInv
  OBVIOUS
<1>1. Init => LocksInv
  BY InvInit
<1>2. LocksInv /\ [Next]_vars => LocksInv'
  BY InvNext
<1> QED
  BY <1>1, <1>2, PTL DEF Spec

\* Type correctness; a thread whose operation is over holds no lock, if the
\* programs release what they take.
THEOREM TypeCorrect == Balanced => (Spec => []TypeOK)
<1> SUFFICES ASSUME Balanced PROVE Spec => []TypeOK
  OBVIOUS
<1>1. LocksInv => TypeOK
  BY DEF LocksInv, Types, ReadersHold, WritersHold, TypeOK
<1> QED
  BY <1>1, HeldAsWritten, PTL

\* Any number of threads, in any number of the same operations at once: no set
\* of them waits for each other, if the programs release what they take and
\* take locks in the order of some rank.
THEOREM DeadlockFree ==
  ASSUME NEW N \in Nat, NEW rank \in [Locks -> 0 .. N], Ordered(rank), Balanced
  PROVE  Spec => []NoDeadlock
<1>1. LocksInv => NoDeadlock
  BY OrderedNoDeadlock
<1> QED
  BY <1>1, HeldAsWritten, PTL

-----------------------------------------------------------------------------
(* Sections.                                                               *)

\* Programs write-unlock what they have locked.
UnlocksHeld ==
  \A o \in Ops, l \in Locks : \A i \in DOMAIN Programs[o] :
    Programs[o][i] = [op |-> "Unlock", lock |-> l] => WritesAt(Programs[o], i, l)

\* Whoever is in a section of a lock by its program has the lock.
SectionsHeld ==
  \A t \in Threads, l \in Locks :
    /\ InRead(t, l) => t \in reading[l]
    /\ InWrite(t, l) => writing[l] = t /\ reading[l] = {}

\* A lock that is held after a step was held before and not released by the
\* step, or taken by it.
LEMMA WasHeld ==
  ASSUME NEW p, DOMAIN p \subseteq Nat \ {0}, NEW i \in DOMAIN p,
         NEW take, NEW release, take # release, NEW l,
         Holding(p, i + 1, take, release, l)
  PROVE  \/ p[i] = [op |-> take, lock |-> l]
         \/ /\ Holding(p, i, take, release, l)
            /\ p[i] # [op |-> release, lock |-> l]
<1>1. PICK j \in DOMAIN p :
        /\ j < i + 1
        /\ p[j] = [op |-> take, lock |-> l]
        /\ \A k \in DOMAIN p : j < k /\ k < i + 1 => p[k] # [op |-> release, lock |-> l]
  BY DEF Holding
<1>2. CASE j = i
  BY <1>1, <1>2
<1>3. CASE j # i
  <2>1. j < i /\ i < i + 1 /\ \A k \in DOMAIN p : k < i => k < i + 1
    BY <1>1, <1>3
  <2>2. p[i] # [op |-> release, lock |-> l]
    BY <1>1, <2>1
  <2> QED
    BY <1>1, <2>1, <2>2 DEF Holding
<1> QED
  BY <1>2, <1>3

\* The sections a thread is in after a step of its own.
LEMMA Sections ==
  ASSUME Types, NEW t \in Threads, op[t] # "idle", pc[t] \in DOMAIN Program(t),
         pc' = [pc EXCEPT ![t] = @ + 1], op' = op, NEW l \in Locks
  PROVE  /\ InRead(t, l)' => \/ At(t, "RLock", l)
                             \/ InRead(t, l) /\ ~ At(t, "RUnlock", l)
         /\ InWrite(t, l)' => \/ At(t, "Lock", l)
                              \/ InWrite(t, l) /\ ~ At(t, "Unlock", l)
<1>1. Program(t)' = Program(t) /\ pc'[t] = pc[t] + 1 /\ op'[t] = op[t]
  BY DEF Types, Program
<1>2. DOMAIN Program(t) \subseteq Nat \ {0}
  BY RWLocksAssumption DEF Types, Program
<1>3. ReadsAt(Program(t), pc[t] + 1, l) =>
        \/ Program(t)[pc[t]] = [op |-> "RLock", lock |-> l]
        \/ /\ ReadsAt(Program(t), pc[t], l)
           /\ Program(t)[pc[t]] # [op |-> "RUnlock", lock |-> l]
  BY <1>2, WasHeld DEF ReadsAt
<1>4. WritesAt(Program(t), pc[t] + 1, l) =>
        \/ Program(t)[pc[t]] = [op |-> "Lock", lock |-> l]
        \/ /\ WritesAt(Program(t), pc[t], l)
           /\ Program(t)[pc[t]] # [op |-> "Unlock", lock |-> l]
  BY <1>2, WasHeld DEF WritesAt
<1> QED
  BY <1>1, <1>3, <1>4 DEF InRead, InWrite, At

\* A thread that does not step stays where it is.
LEMMA OtherSections ==
  ASSUME Types, NEW t \in Threads, NEW u \in Threads, u # t,
         \/ Advance(t)
         \/ \E o \in Ops \cup {"idle"} :
              op' = [op EXCEPT ![t] = o] /\ pc' = [pc EXCEPT ![t] = 1],
         NEW l \in Locks
  PROVE  /\ InRead(u, l)' <=> InRead(u, l)
         /\ InWrite(u, l)' <=> InWrite(u, l)
BY Others DEF InRead, InWrite

LEMMA SectionsNext ==
  ASSUME UnlocksHeld, Types, SectionsHeld, [Next]_vars
  PROVE  SectionsHeld'
<1> USE DEF SectionsHeld
\* At its first step and at its end a program is in no section.
<1>1. ASSUME NEW t \in Threads,
             \/ \E o \in Ops : Begins(t, o)
             \/ Ends(t)
      PROVE  SectionsHeld'
  <2>1. /\ UNCHANGED <<reading, writing>>
        /\ \E o \in Ops \cup {"idle"} :
             op' = [op EXCEPT ![t] = o] /\ pc' = [pc EXCEPT ![t] = 1]
    BY <1>1 DEF Begins, Ends
  <2>2. ASSUME NEW l \in Locks
        PROVE  ~ InRead(t, l)' /\ ~ InWrite(t, l)'
    <3>1. op'[t] = "idle" \/ (op'[t] \in Ops /\ pc'[t] = 1)
      BY <2>1 DEF Types
    <3>2. CASE op'[t] \in Ops /\ pc'[t] = 1
      <4>1. \A j \in DOMAIN Programs[op'[t]] : ~ (j < 1)
        BY <3>2, RWLocksAssumption
      <4> QED
        BY <3>2, <4>1 DEF InRead, InWrite, ReadsAt, WritesAt, Holding, Program
    <3> QED
      BY <3>1, <3>2 DEF InRead, InWrite
  <2>3. ASSUME NEW u \in Threads, u # t, NEW l \in Locks
        PROVE  /\ InRead(u, l)' <=> InRead(u, l)
               /\ InWrite(u, l)' <=> InWrite(u, l)
    BY <2>1, <2>3, OtherSections
  <2> QED
    BY <2>1, <2>2, <2>3
<1>2. ASSUME NEW t \in Threads, NEW l \in Locks, Announces(t, l)
      PROVE  SectionsHeld'
  <2>1. ASSUME NEW u \in Threads, NEW m \in Locks
        PROVE  /\ InRead(u, m)' <=> InRead(u, m)
               /\ InWrite(u, m)' <=> InWrite(u, m)
    BY <1>2 DEF Announces, InRead, InWrite, Program
  <2>2. /\ reading' = reading
        /\ \A m \in Locks : m # l => writing'[m] = writing[m]
    BY <1>2 DEF Announces, Types
  <2>3. \A u \in Threads : ~ InWrite(u, l)
    BY <1>2, RWLocksAssumption DEF Announces
  <2>4. ASSUME NEW u \in Threads, NEW m \in Locks
        PROVE  /\ InRead(u, m)' => u \in reading'[m]
               /\ InWrite(u, m)' => writing'[m] = u /\ reading'[m] = {}
    <3>1. /\ InRead(u, m)' => u \in reading[m]
          /\ InWrite(u, m)' => writing[m] = u /\ reading[m] = {} /\ m # l
      BY <2>1, <2>3
    <3> QED
      BY <2>2, <3>1
  <2> QED
    BY <2>4
<1>3. ASSUME NEW t \in Threads, Advance(t), op[t] # "idle",
             pc[t] \in DOMAIN Program(t),
             \/ \E l \in Locks : RLocks(t, l)
             \/ \E l \in Locks : RUnlocks(t, l)
             \/ \E l \in Locks : Enters(t, l)
             \/ \E l \in Locks : Unlocks(t, l)
             \/ ClientReads(t)
      PROVE  SectionsHeld'
  <2>1. ASSUME NEW u \in Threads, u # t, NEW m \in Locks
        PROVE  /\ InRead(u, m)' <=> InRead(u, m)
               /\ InWrite(u, m)' <=> InWrite(u, m)
    BY <1>3, <2>1, OtherSections
  <2>2. ASSUME NEW m \in Locks
        PROVE  /\ InRead(t, m)' => \/ At(t, "RLock", m)
                                   \/ InRead(t, m) /\ ~ At(t, "RUnlock", m)
               /\ InWrite(t, m)' => \/ At(t, "Lock", m)
                                    \/ InWrite(t, m) /\ ~ At(t, "Unlock", m)
    BY <1>3, Sections DEF Advance
  <2>3. ASSUME NEW l \in Locks, RLocks(t, l)
        PROVE  SectionsHeld'
    <3>1. /\ \A m \in Locks : m # l => reading'[m] = reading[m]
          /\ reading'[l] = reading[l] \cup {t}
          /\ writing' = writing /\ writing[l] = Nobody
          /\ \A m \in Locks : ~ At(t, "Lock", m) /\ (At(t, "RLock", m) => m = l)
      BY <2>3 DEF RLocks, Types, At
    <3>2. \A u \in Threads : ~ InWrite(u, l)
      BY <3>1, RWLocksAssumption
    <3> QED
      BY <2>1, <2>2, <3>1, <3>2
  <2>4. ASSUME NEW l \in Locks, RUnlocks(t, l)
        PROVE  SectionsHeld'
    <3>1. /\ \A m \in Locks : m # l => reading'[m] = reading[m]
          /\ reading'[l] = reading[l] \ {t}
          /\ writing' = writing /\ At(t, "RUnlock", l)
          /\ \A m \in Locks : ~ At(t, "Lock", m) /\ ~ At(t, "RLock", m)
      BY <2>4 DEF RUnlocks, Types, At
    <3> QED
      BY <2>1, <2>2, <3>1
  <2>5. ASSUME NEW l \in Locks, Enters(t, l)
        PROVE  SectionsHeld'
    <3>1. /\ UNCHANGED <<reading, writing>>
          /\ writing[l] = t /\ reading[l] = {}
          /\ \A m \in Locks : ~ At(t, "RLock", m) /\ (At(t, "Lock", m) => m = l)
      BY <2>5 DEF Enters, At
    <3> QED
      BY <2>1, <2>2, <3>1
  \* The lock is its own: no other thread is in a section of it.
  <2>6. ASSUME NEW l \in Locks, Unlocks(t, l)
        PROVE  SectionsHeld'
    <3>1. /\ \A m \in Locks : m # l => writing'[m] = writing[m]
          /\ reading' = reading /\ At(t, "Unlock", l)
          /\ \A m \in Locks : ~ At(t, "Lock", m) /\ ~ At(t, "RLock", m)
      BY <2>6 DEF Unlocks, Types, At
    <3>2. InWrite(t, l)
      <4>1. op[t] \in Ops
        BY <1>3 DEF Types
      <4> QED
        BY <1>3, <3>1, <4>1 DEF UnlocksHeld, At, InWrite, Program
    <3>3. \A u \in Threads : u # t => ~ InWrite(u, l)
      BY <3>2
    <3> QED
      BY <2>1, <2>2, <3>1, <3>3
  <2>7. CASE ClientReads(t)
    <3>1. /\ UNCHANGED <<reading, writing>>
          /\ \A m \in Locks : ~ At(t, "Lock", m) /\ ~ At(t, "RLock", m)
      BY <2>7 DEF ClientReads, At
    <3> QED
      BY <2>1, <2>2, <3>1
  <2> QED
    BY <1>3, <2>3, <2>4, <2>5, <2>6, <2>7
<1>4. CASE UNCHANGED vars
  BY <1>4 DEF vars, InRead, InWrite, Program
<1>5. ASSUME NEW t \in Threads, NEW l \in Locks,
             RLocks(t, l) \/ RUnlocks(t, l) \/ Enters(t, l) \/ Unlocks(t, l)
      PROVE  SectionsHeld'
  BY <1>3, <1>5 DEF RLocks, RUnlocks, Enters, Unlocks, At
<1>6. ASSUME NEW t \in Threads, ClientReads(t)
      PROVE  SectionsHeld'
  BY <1>3, <1>6 DEF ClientReads, At
<1> QED
  BY <1>1, <1>2, <1>4, <1>5, <1>6 DEF Next

\* Write sections of a lock exclude all others, for any threads and programs
\* that unlock only what they have locked and release what they take.
THEOREM MutualExclusion == Balanced /\ UnlocksHeld => (Spec => []SectionsExclude)
<1> SUFFICES ASSUME Balanced, UnlocksHeld PROVE Spec => []SectionsExclude
  OBVIOUS
<1>1. Init => SectionsHeld
  BY DEF Init, SectionsHeld, InRead, InWrite
<1>2. Types /\ SectionsHeld /\ [Next]_vars => SectionsHeld'
  BY SectionsNext
<1>3. SectionsHeld => SectionsExclude
  BY DEF SectionsHeld, SectionsExclude
<1>4. LocksInv => Types
  BY DEF LocksInv
<1> QED
  BY <1>1, <1>2, <1>3, <1>4, HeldAsWritten, PTL DEF Spec

-----------------------------------------------------------------------------
(* The programs of the daemon.                                             *)

\* Store.mtx and nodeLock are taken first, Collector.mtx and peerLock inside.
Rank == [l \in DaemonLocks |-> IF l \in {"store", "nodes"} THEN 0 ELSE 1]

Steps == [op : {"RLock", "RUnlock", "Lock", "Unlock", "Client"}, lock : DaemonLocks \cup {NoLock}]

Takes(p, i, l) ==
  \/ p[i] = [op |-> "RLock", lock |-> l]
  \/ p[i] = [op |-> "Lock", lock |-> l]

Holds(p, i, l) == ReadsAt(p, i, l) \/ WritesAt(p, i, l)

\* Program p releases what it takes, write-unlocks what it has locked, takes
\* no lock below rank a, and takes locks in the order of their ranks.
Clean(p, a) ==
  /\ p \in Seq(Steps)
  /\ \A l \in DaemonLocks : ~ Holds(p, Len(p) + 1, l)
  /\ \A i \in DOMAIN p, l \in DaemonLocks :
       p[i] = [op |-> "Unlock", lock |-> l] => WritesAt(p, i, l)
  /\ \A i \in DOMAIN p, l \in DaemonLocks :
       Takes(p, i, l) => /\ a <= Rank[l]
                         /\ \A m \in DaemonLocks : Holds(p, i, m) => Rank[m] < Rank[l]

-----------------------------------------------------------------------------

LEMMA CleanBelow ==
  ASSUME NEW p, NEW a \in Nat, NEW b \in Nat, b <= a, Clean(p, a)
  PROVE  Clean(p, b)
<1>1. \A l \in DaemonLocks : Rank[l] \in Nat
  BY DEF Rank
<1> QED
  BY <1>1 DEF Clean

\* What is held in the middle of p \o q is held at that place of p or of q, if
\* p holds nothing at its end.
LEMMA HoldingConcat ==
  ASSUME NEW p \in Seq(Steps), NEW q \in Seq(Steps), NEW i \in Nat \ {0},
         NEW take, NEW release, NEW l,
         ~ Holding(p, Len(p) + 1, take, release, l),
         Holding(p \o q, i, take, release, l)
  PROVE  \/ i <= Len(p) /\ Holding(p, i, take, release, l)
         \/ i > Len(p) + 1 /\ Holding(q, i - Len(p), take, release, l)
<1> DEFINE r == p \o q
<1>1. /\ r \in Seq(Steps) /\ Len(r) = Len(p) + Len(q)
      /\ \A k \in 1 .. Len(p) : r[k] = p[k]
      /\ \A k \in 1 .. Len(q) : r[Len(p) + k] = q[k]
  BY ConcatProperties
<1>2. /\ DOMAIN p = 1 .. Len(p) /\ DOMAIN q = 1 .. Len(q) /\ DOMAIN r = 1 .. Len(r)
      /\ Len(p) \in Nat /\ Len(q) \in Nat
  BY <1>1
<1> HIDE DEF r
<1>3. PICK j \in DOMAIN r :
        /\ j < i
        /\ r[j] = [op |-> take, lock |-> l]
        /\ \A k \in DOMAIN r : j < k /\ k < i => r[k] # [op |-> release, lock |-> l]
  BY DEF Holding, r
<1>4. CASE j <= Len(p)
  <2>1. j \in DOMAIN p /\ p[j] = [op |-> take, lock |-> l]
    BY <1>1, <1>2, <1>3, <1>4
  <2>2. \A k \in DOMAIN p : j < k /\ k < i => p[k] # [op |-> release, lock |-> l]
    BY <1>1, <1>2, <1>3
  <2>3. Holding(p, i, take, release, l)
    BY <1>3, <2>1, <2>2 DEF Holding
  <2>4. i <= Len(p)
    <3>1. SUFFICES ASSUME i > Len(p) PROVE FALSE
      BY <1>2
    <3>2. j < Len(p) + 1 /\ \A k \in DOMAIN p : j < k /\ k < Len(p) + 1 => p[k] # [op |-> release, lock |-> l]
      BY <1>2, <1>4, <2>2, <3>1
    <3> QED
      BY <2>1, <3>2 DEF Holding
  <2> QED
    BY <2>3, <2>4
<1>5. CASE j > Len(p)
  <2> DEFINE n == j - Len(p)
  <2>1. n \in DOMAIN q /\ n < i - Len(p) /\ q[n] = [op |-> take, lock |-> l]
    BY <1>1, <1>2, <1>3, <1>5
  <2>2. ASSUME NEW k \in DOMAIN q, n < k, k < i - Len(p)
        PROVE  q[k] # [op |-> release, lock |-> l]
    <3>1. Len(p) + k \in DOMAIN r /\ j < Len(p) + k /\ Len(p) + k < i /\ r[Len(p) + k] = q[k]
      BY <1>1, <1>2, <2>2
    <3> QED
      BY <1>3, <3>1
  <2>3. Holding(q, i - Len(p), take, release, l)
    BY <2>1, <2>2 DEF Holding
  <2>4. i > Len(p) + 1
    BY <1>2, <1>3, <1>5
  <2> QED
    BY <2>3, <2>4
<1> QED
  BY <1>2, <1>4, <1>5

\* What is held inside of p is held there when p is part of r.
LEMMA HoldingInside ==
  ASSUME NEW p \in Seq(Steps), NEW r \in Seq(Steps), NEW d \in Nat,
         \A k \in DOMAIN p : k + d \in DOMAIN r /\ r[k + d] = p[k],
         NEW i \in DOMAIN p, NEW take, NEW release, NEW l,
         Holding(p, i, take, release, l)
  PROVE  Holding(r, i + d, take, release, l)
<1>1. DOMAIN p = 1 .. Len(p) /\ DOMAIN r = 1 .. Len(r) /\ Len(p) \in Nat
      /\ Len(r) \in Nat
  OBVIOUS
<1>2. PICK j \in DOMAIN p :
        /\ j < i
        /\ p[j] = [op |-> take, lock |-> l]
        /\ \A k \in DOMAIN p : j < k /\ k < i => p[k] # [op |-> release, lock |-> l]
  BY DEF Holding
<1>3. j + d \in DOMAIN r /\ j + d < i + d /\ r[j + d] = [op |-> take, lock |-> l]
  BY <1>1, <1>2
<1>4. ASSUME NEW k \in DOMAIN r, j + d < k, k < i + d
      PROVE  r[k] # [op |-> release, lock |-> l]
  <2>1. k - d \in DOMAIN p /\ j < k - d /\ k - d < i /\ (k - d) + d = k
    BY <1>1, <1>4
  <2>2. r[k] = p[k - d]
    BY <2>1
  <2> QED
    BY <1>2, <2>1, <2>2
<1> QED
  BY <1>3, <1>4 DEF Holding

LEMMA CleanConcat ==
  ASSUME NEW p, NEW q, NEW a \in Nat, Clean(p, a), Clean(q, a)
  PROVE  Clean(p \o q, a)
<1> DEFINE r == p \o q
<1>1. p \in Seq(Steps) /\ q \in Seq(Steps)
  BY DEF Clean
<1>2. /\ r \in Seq(Steps) /\ Len(r) = Len(p) + Len(q)
      /\ \A k \in 1 .. Len(p) : r[k] = p[k]
      /\ \A k \in 1 .. Len(q) : r[Len(p) + k] = q[k]
  BY <1>1, ConcatProperties
<1>3. /\ DOMAIN p = 1 .. Len(p) /\ DOMAIN q = 1 .. Len(q) /\ DOMAIN r = 1 .. Len(r)
      /\ Len(p) \in Nat /\ Len(q) \in Nat
  BY <1>1, <1>2
<1>4. ASSUME NEW i \in Nat \ {0}, NEW l \in DaemonLocks, Holds(r, i, l)
      PROVE  \/ i <= Len(p) /\ Holds(p, i, l)
             \/ i > Len(p) + 1 /\ Holds(q, i - Len(p), l)
  BY <1>1, <1>4, HoldingConcat DEF Holds, ReadsAt, WritesAt, Clean
<1> HIDE DEF r
<1>5. \A l \in DaemonLocks : ~ Holds(r, Len(r) + 1, l)
  <2>1. SUFFICES ASSUME NEW l \in DaemonLocks, Holds(r, Len(r) + 1, l) PROVE FALSE
    OBVIOUS
  <2>2. Len(r) + 1 > Len(p) /\ Len(r) + 1 \in Nat \ {0} /\ (Len(r) + 1) - Len(p) = Len(q) + 1
    BY <1>2, <1>3
  <2>3. Holds(q, Len(q) + 1, l)
    BY <1>4, <2>1, <2>2
  <2> QED
    BY <2>3 DEF Clean
<1>6. ASSUME NEW i \in DOMAIN r, NEW l \in DaemonLocks, Takes(r, i, l)
      PROVE  /\ a <= Rank[l]
             /\ \A m \in DaemonLocks : Holds(r, i, m) => Rank[m] < Rank[l]
  <2>1. CASE i <= Len(p)
    <3>1. i \in DOMAIN p /\ Takes(p, i, l)
      BY <1>2, <1>3, <1>6, <2>1 DEF Takes
    <3>2. \A m \in DaemonLocks : Holds(r, i, m) => Holds(p, i, m)
      BY <1>3, <1>4, <2>1
    <3> QED
      BY <3>1, <3>2 DEF Clean
  <2>2. CASE i > Len(p)
    <3> DEFINE n == i - Len(p)
    <3>1. n \in DOMAIN q /\ r[i] = q[n]
      <4>1. n \in DOMAIN q /\ Len(p) + n = i
        BY <1>2, <1>3, <2>2
      <4> QED
        BY <1>2, <1>3, <4>1
    <3>2. Takes(q, n, l)
      BY <1>6, <3>1 DEF Takes
    <3>3. \A m \in DaemonLocks : Holds(r, i, m) => Holds(q, n, m)
      BY <1>3, <1>4, <2>2
    <3> QED
      BY <3>1, <3>2, <3>3 DEF Clean
  <2> QED
    BY <1>2, <1>3, <2>1, <2>2
<1>7. ASSUME NEW i \in DOMAIN r, NEW l \in DaemonLocks,
             r[i] = [op |-> "Unlock", lock |-> l]
      PROVE  WritesAt(r, i, l)
  <2>1. CASE i <= Len(p)
    <3>1. i \in DOMAIN p /\ p[i] = r[i]
      BY <1>2, <1>3, <2>1
    <3>2. Holding(p, i, "Lock", "Unlock", l)
      BY <1>7, <3>1 DEF Clean, WritesAt
    <3>3. \A k \in DOMAIN p : k + 0 \in DOMAIN r /\ r[k + 0] = p[k]
      BY <1>2, <1>3
    <3>4. Holding(r, i + 0, "Lock", "Unlock", l)
      BY <1>1, <1>2, <3>1, <3>2, <3>3, HoldingInside
    <3> QED
      BY <1>3, <3>4 DEF WritesAt
  <2>2. CASE i > Len(p)
    <3> DEFINE n == i - Len(p)
    <3>1. n \in DOMAIN q /\ Len(p) + n = i /\ n + Len(p) = i
      BY <1>2, <1>3, <2>2
    <3>2. q[n] = r[i]
      BY <1>2, <1>3, <3>1
    <3>3. Holding(q, n, "Lock", "Unlock", l)
      BY <1>7, <3>1, <3>2 DEF Clean, WritesAt
    <3>4. ASSUME NEW k \in DOMAIN q
          PROVE  k + Len(p) \in DOMAIN r /\ r[k + Len(p)] = q[k]
      <4>1. k + Len(p) = Len(p) + k /\ Len(p) + k \in DOMAIN r
        BY <1>2, <1>3
      <4> QED
        BY <1>2, <1>3, <4>1
    <3>5. Holding(r, n + Len(p), "Lock", "Unlock", l)
      <4> HIDE DEF n
      <4> QED
        BY <1>1, <1>2, <1>3, <3>1, <3>3, <3>4, HoldingInside
    <3> QED
      BY <3>1, <3>5 DEF WritesAt
  <2> QED
    BY <1>2, <1>3, <2>1, <2>2
<1> QED
  BY <1>2, <1>5, <1>6, <1>7 DEF Clean, r

\* A clean program inside a lock of lower rank than its own.
LEMMA CleanAround ==
  ASSUME NEW body, NEW lock \in DaemonLocks, Clean(body, Rank[lock] + 1),
         NEW take, NEW release,
         <<take, release>> \in {<<"Lock", "Unlock">>, <<"RLock", "RUnlock">>}
  PROVE  Clean(Step(take, lock) \o body \o Step(release, lock), Rank[lock])
<1> DEFINE s == Step(take, lock)
           e == Step(release, lock)
           sb == s \o body
           r == sb \o e
           n == Len(body)
<1>1. s \in Seq(Steps) /\ e \in Seq(Steps) /\ body \in Seq(Steps)
  BY DEF Step, Steps, Clean
<1>2. /\ Len(s) = 1 /\ s[1] = [op |-> take, lock |-> lock]
      /\ Len(e) = 1 /\ e[1] = [op |-> release, lock |-> lock]
      /\ n \in Nat
  BY <1>1 DEF Step
<1> HIDE DEF s, e
<1>3. /\ sb \in Seq(Steps) /\ Len(sb) = n + 1
      /\ sb[1] = s[1]
      /\ \A k \in 1 .. n : sb[k + 1] = body[k]
  <2>1. /\ sb \in Seq(Steps) /\ Len(sb) = Len(s) + n
        /\ \A k \in 1 .. Len(s) + n : sb[k] = IF k <= Len(s) THEN s[k] ELSE body[k - Len(s)]
    BY <1>1, ConcatProperties
  <2> HIDE DEF sb, n
  <2>2. sb[1] = s[1]
    BY <1>2, <2>1
  <2>3. ASSUME NEW k \in 1 .. n PROVE sb[k + 1] = body[k]
    <3>1. k + 1 \in 1 .. Len(s) + n /\ ~ k + 1 <= Len(s) /\ (k + 1) - Len(s) = k
      BY <1>2
    <3> QED
      BY <2>1, <3>1
  <2> QED
    BY <1>2, <2>1, <2>2, <2>3
<1> HIDE DEF sb
<1>4. /\ r \in Seq(Steps) /\ Len(r) = n + 2
      /\ \A k \in 1 .. n + 1 : r[k] = sb[k]
      /\ r[n + 2] = e[1]
  <2>1. /\ r \in Seq(Steps) /\ Len(r) = Len(sb) + Len(e)
        /\ \A k \in 1 .. Len(sb) + Len(e) : r[k] = IF k <= Len(sb) THEN sb[k] ELSE e[k - Len(sb)]
    BY <1>1, <1>3, ConcatProperties
  <2> HIDE DEF r, n
  <2>2. Len(r) = n + 2
    BY <1>2, <1>3, <2>1
  <2>3. \A k \in 1 .. n + 1 : r[k] = sb[k]
    BY <1>2, <1>3, <2>1
  <2>4. r[n + 2] = e[1]
    <3>1. n + 2 \in 1 .. Len(sb) + Len(e) /\ ~ n + 2 <= Len(sb) /\ (n + 2) - Len(sb) = 1
      BY <1>2, <1>3
    <3> QED
      BY <2>1, <3>1
  <2> QED
    BY <2>1, <2>2, <2>3, <2>4
<1> HIDE DEF r
<1>5. /\ DOMAIN r = 1 .. n + 2 /\ DOMAIN body = 1 .. n
      /\ r[1] = [op |-> take, lock |-> lock]
      /\ \A k \in 1 .. n : r[k + 1] = body[k]
      /\ r[n + 2] = [op |-> release, lock |-> lock]
  <2>1. r[1] = sb[1]
    BY <1>2, <1>4
  <2>2. \A k \in 1 .. n : r[k + 1] = sb[k + 1]
    BY <1>2, <1>4
  <2> QED
    BY <1>1, <1>2, <1>3, <1>4, <2>1, <2>2
<1> HIDE DEF n
\* What is held at a step of the body is the lock or held there by the body.
<1>6. ASSUME NEW i \in 1 .. n + 1, NEW m \in DaemonLocks, m # lock, Holds(r, i + 1, m)
      PROVE  Holds(body, i, m)
  <2>1. ASSUME NEW tk, NEW rl, tk \in {"Lock", "RLock"}, Holding(r, i + 1, tk, rl, m)
        PROVE  Holding(body, i, tk, rl, m)
    <3>1. PICK j \in DOMAIN r :
            /\ j < i + 1
            /\ r[j] = [op |-> tk, lock |-> m]
            /\ \A k \in DOMAIN r : j < k /\ k < i + 1 => r[k] # [op |-> rl, lock |-> m]
      BY <2>1 DEF Holding
    <3>2. j # 1 /\ j # n + 2
      BY <1>2, <1>5, <1>6, <3>1
    <3>3. (j - 1) \in 1 .. n /\ j - 1 < i /\ body[j - 1] = [op |-> tk, lock |-> m]
      <4>1. (j - 1) \in 1 .. n /\ (j - 1) + 1 = j
        BY <1>2, <1>5, <3>2
      <4> QED
        BY <1>2, <1>5, <3>1, <4>1
    <3>4. ASSUME NEW k \in 1 .. n, j - 1 < k, k < i
          PROVE  body[k] # [op |-> rl, lock |-> m]
      <4>1. k + 1 \in DOMAIN r /\ j < k + 1 /\ k + 1 < i + 1
        BY <1>2, <1>5, <3>3, <3>4
      <4> QED
        BY <1>5, <3>1, <4>1
    <3> QED
      BY <1>5, <3>3, <3>4 DEF Holding
  <2> QED
    BY <1>6, <2>1 DEF Holds, ReadsAt, WritesAt
<1>7. \A l \in DaemonLocks : Rank[l] \in Nat
  BY DEF Rank
\* The lock is not taken inside, and it is released by the last step.
<1>8. ~ Holds(r, n + 3, lock)
  <2>1. ASSUME NEW tk, NEW rl, <<tk, rl>> \in {<<"Lock", "Unlock">>, <<"RLock", "RUnlock">>},
               Holding(r, n + 3, tk, rl, lock)
        PROVE  FALSE
    <3>1. PICK j \in DOMAIN r :
            /\ j < n + 3
            /\ r[j] = [op |-> tk, lock |-> lock]
            /\ \A k \in DOMAIN r : j < k /\ k < n + 3 => r[k] # [op |-> rl, lock |-> lock]
      BY <2>1 DEF Holding
    <3>2. CASE j = 1
      <4>1. tk = take /\ rl = release
        BY <1>5, <2>1, <3>1, <3>2
      <4>2. n + 2 \in DOMAIN r /\ j < n + 2 /\ n + 2 < n + 3
        BY <1>2, <1>5, <3>2
      <4> QED
        BY <1>5, <3>1, <4>1, <4>2
    <3>3. CASE j = n + 2
      BY <1>5, <2>1, <3>1, <3>3
    <3>4. CASE j # 1 /\ j # n + 2
      <4>1. (j - 1) \in 1 .. n /\ (j - 1) + 1 = j
        BY <1>2, <1>5, <3>4
      <4>2. Takes(body, j - 1, lock)
        BY <1>5, <2>1, <3>1, <4>1 DEF Takes
      <4>3. Rank[lock] + 1 <= Rank[lock]
        BY <1>5, <4>1, <4>2 DEF Clean
      <4> QED
        BY <1>7, <4>3
    <3> QED
      BY <3>2, <3>3, <3>4
  <2> QED
    BY <2>1 DEF Holds, ReadsAt, WritesAt
<1>9. \A l \in DaemonLocks : ~ Holds(r, n + 3, l)
  <2>1. SUFFICES ASSUME NEW l \in DaemonLocks, l # lock, Holds(r, n + 3, l) PROVE FALSE
    BY <1>8
  <2>2. Holds(r, (n + 2) + 1, l)
    BY <1>2, <2>1
  <2>3. \E tk, rl : <<tk, rl>> \in {<<"Lock", "Unlock">>, <<"RLock", "RUnlock">>} /\ Holding(r, (n + 2) + 1, tk, rl, l)
    BY <2>2 DEF Holds, ReadsAt, WritesAt
  <2>4. PICK tk, rl : <<tk, rl>> \in {<<"Lock", "Unlock">>, <<"RLock", "RUnlock">>} /\ Holding(r, (n + 2) + 1, tk, rl, l)
    BY <2>3
  <2>5. PICK j \in DOMAIN r :
          /\ j < (n + 2) + 1
          /\ r[j] = [op |-> tk, lock |-> l]
          /\ \A k \in DOMAIN r : j < k /\ k < (n + 2) + 1 => r[k] # [op |-> rl, lock |-> l]
    BY <2>4 DEF Holding
  <2>6. j # n + 2
    BY <1>5, <2>4, <2>5
  <2>7. j < (n + 1) + 1 /\ \A k \in DOMAIN r : j < k /\ k < (n + 1) + 1 => r[k] # [op |-> rl, lock |-> l]
    BY <1>2, <1>5, <2>5, <2>6
  <2>8. Holding(r, (n + 1) + 1, tk, rl, l)
    BY <2>5, <2>7 DEF Holding
  <2>9. Holds(r, (n + 1) + 1, l)
    BY <2>4, <2>8 DEF Holds, ReadsAt, WritesAt
  <2>10. n + 1 \in 1 .. n + 1
    BY <1>2
  <2>11. Holds(body, n + 1, l)
    BY <1>6, <2>1, <2>9, <2>10
  <2> QED
    BY <2>11 DEF Clean, n
<1>10. ASSUME NEW i \in DOMAIN r, NEW l \in DaemonLocks, Takes(r, i, l)
       PROVE  /\ Rank[lock] <= Rank[l]
              /\ \A m \in DaemonLocks : Holds(r, i, m) => Rank[m] < Rank[l]
  <2>1. CASE i = 1
    <3>1. l = lock
      BY <1>5, <1>10, <2>1 DEF Takes
    <3>2. \A m \in DaemonLocks : ~ Holds(r, 1, m)
      BY <1>2, <1>5 DEF Holds, ReadsAt, WritesAt, Holding
    <3> QED
      BY <1>7, <2>1, <3>1, <3>2
  <2>2. i # n + 2
    BY <1>5, <1>10 DEF Takes
  <2>3. CASE i # 1
    <3>1. (i - 1) \in 1 .. n /\ (i - 1) + 1 = i /\ (i - 1) \in 1 .. n + 1
      BY <1>2, <1>5, <2>2, <2>3
    <3>2. Takes(body, i - 1, l)
      BY <1>5, <1>10, <3>1 DEF Takes
    <3>3. Rank[lock] + 1 <= Rank[l]
      BY <1>5, <3>1, <3>2 DEF Clean
    <3>4. ASSUME NEW m \in DaemonLocks, Holds(r, i, m), m # lock
          PROVE  Rank[m] < Rank[l]
      BY <1>5, <1>6, <3>1, <3>2, <3>4 DEF Clean
    <3> QED
      BY <1>7, <3>3, <3>4
  <2> QED
    BY <2>1, <2>3
<1>11. ASSUME NEW i \in DOMAIN r, NEW l \in DaemonLocks,
              r[i] = [op |-> "Unlock", lock |-> l]
       PROVE  WritesAt(r, i, l)
  <2>1. i # 1
    BY <1>5, <1>11
  <2>2. CASE i = n + 2
    <3>1. take = "Lock" /\ release = "Unlock" /\ l = lock
      BY <1>5, <1>11, <2>2
    <3>2. 1 \in DOMAIN r /\ 1 < n + 2
      BY <1>2, <1>5
    <3>3. ASSUME NEW k \in DOMAIN r, 1 < k, k < n + 2
          PROVE  r[k] # [op |-> "Unlock", lock |-> lock]
      <4>1. k - 1 \in DOMAIN body /\ (k - 1) + 1 = k
        BY <1>2, <1>5, <3>3
      <4>2. r[k] = body[k - 1]
        BY <1>5, <4>1
      <4>3. SUFFICES ASSUME body[k - 1] = [op |-> "Unlock", lock |-> lock]
                     PROVE  FALSE
        BY <4>2
      <4>4. WritesAt(body, k - 1, lock)
        BY <4>1, <4>3 DEF Clean
      <4>5. PICK j \in DOMAIN body : body[j] = [op |-> "Lock", lock |-> lock]
        BY <4>4 DEF WritesAt, Holding
      <4>6. Rank[lock] + 1 <= Rank[lock]
        BY <4>5 DEF Clean, Takes
      <4> QED
        BY <1>7, <4>6
    <3> QED
      BY <1>5, <2>2, <3>1, <3>2, <3>3 DEF WritesAt, Holding
  <2>3. CASE i # n + 2
    <3>1. i - 1 \in DOMAIN body /\ (i - 1) + 1 = i
      BY <1>2, <1>5, <2>1, <2>3
    <3>2. Holding(body, i - 1, "Lock", "Unlock", l)
      BY <1>5, <1>11, <3>1 DEF Clean, WritesAt
    <3>3. \A k \in DOMAIN body : k + 1 \in DOMAIN r /\ r[k + 1] = body[k]
      BY <1>2, <1>5
    <3>4. Holding(r, (i - 1) + 1, "Lock", "Unlock", l)
      BY <1>1, <1>4, <3>1, <3>2, <3>3, HoldingInside
    <3> QED
      BY <3>1, <3>4 DEF WritesAt
  <2> QED
    BY <2>2, <2>3
<1>12. Len(r) + 1 = n + 3
  BY <1>2, <1>4 DEF n
<1> QED
  BY <1>4, <1>9, <1>10, <1>11, <1>12 DEF Clean, r, sb, s, e

LEMMA CleanNothing == \A a \in Nat : Clean(Nothing, a)
<1>1. Nothing \in Seq(Steps) /\ DOMAIN Nothing = {}
  BY DEF Nothing
<1> QED
  BY <1>1 DEF Clean, Holds, ReadsAt, WritesAt, Holding

\* Writing to the client takes no lock; NoLock is none of them.
LEMMA CleanClient ==
  ASSUME NoLock \notin DaemonLocks
  PROVE  \A a \in Nat : Clean(Step("Client", NoLock), a)
<1> DEFINE p == Step("Client", NoLock)
<1>1. /\ p \in Seq(Steps) /\ Len(p) = 1 /\ DOMAIN p = {1}
      /\ p[1] = [op |-> "Client", lock |-> NoLock]
  BY DEF Step, Steps
<1> HIDE DEF p
<1>2. p[1].op = "Client"
  BY <1>1
<1>3. \A i \in DOMAIN p, l \in DaemonLocks : p[i] # [op |-> "RLock", lock |-> l] /\ p[i] # [op |-> "Lock", lock |-> l]
  BY <1>1
<1>4. \A i, l \in DaemonLocks : ~ Holds(p, i, l)
  BY <1>3 DEF Holds, ReadsAt, WritesAt, Holding
<1>5. \A i \in DOMAIN p, l \in DaemonLocks : ~ Takes(p, i, l)
  BY <1>3 DEF Takes
<1>6. \A l \in DaemonLocks : ~ Holds(p, Len(p) + 1, l)
  <2>1. \A l \in DaemonLocks : ~ (ReadsAt(p, Len(p) + 1, l) \/ WritesAt(p, Len(p) + 1, l))
    BY <1>3 DEF ReadsAt, WritesAt, Holding
  <2> QED
    BY <2>1 DEF Holds
<1>7. \A i \in DOMAIN p, l \in DaemonLocks : p[i] # [op |-> "Unlock", lock |-> l]
  BY <1>1
<1> QED
  BY <1>1, <1>5, <1>6, <1>7 DEF Clean, p

LEMMA Ranks ==
  /\ Rank["store"] = 0 /\ Rank["nodes"] = 0
  /\ Rank["collector"] = 1 /\ Rank["peers"] = 1
  /\ {"store", "nodes", "collector", "peers"} \subseteq DaemonLocks
BY DEF Rank, DaemonLocks

\* Every operation of the daemon is clean.
LEMMA CleanDaemon ==
  ASSUME NoLock \notin DaemonLocks, NEW o \in DOMAIN Daemon
  PROVE  Clean(Daemon[o], 0)
<1> USE Ranks
<1>1. ASSUME NEW body, NEW lock \in DaemonLocks, Clean(body, Rank[lock] + 1)
      PROVE  Clean(Locked(lock, body), Rank[lock]) /\ Clean(RLocked(lock, body), Rank[lock])
  BY <1>1, CleanAround DEF Locked, RLocked
<1>2. Clean(Coordinate, 1) /\ Clean(Collect, 1)
  BY <1>1, CleanNothing DEF Coordinate, Collect
<1>3. Clean(Bookkeeping, 1) /\ Clean(RemoveFailedPeers, 1) /\ Clean(FailedPeers, 1) /\ Clean(RLocked("peers", Nothing), 1)
  BY <1>1, CleanNothing DEF Bookkeeping, RemoveFailedPeers, FailedPeers
<1>4. Clean(Snapshot, 0) /\ Clean(MarshalBinary, 0) /\ Clean(Members, 0)
  BY <1>1, CleanNothing, CleanClient DEF Snapshot, MarshalBinary, Members
<1>5. Clean(Merge, 0) /\ Clean(Announcement, 0)
  BY <1>1, <1>2, <1>3 DEF Merge, Announcement
<1>6. Clean(Collect, 0) /\ Clean(RemoveFailedPeers, 0) /\ Clean(FailedPeers, 0) /\ Clean(RLocked("peers", Nothing), 0)
  BY <1>2, <1>3, CleanBelow
<1>7. Clean(Exchange, 0)
  <2>1. Clean(Members \o MarshalBinary, 0)
    BY <1>4, CleanConcat
  <2>2. Clean(Members \o MarshalBinary \o Announcement, 0)
    BY <1>5, <2>1, CleanConcat
  <2>3. Clean(Members \o MarshalBinary \o Announcement \o Merge, 0)
    BY <1>5, <2>2, CleanConcat
  <2> QED
    BY <2>3 DEF Exchange
<1>8. Clean(Reconnect, 0) /\ Clean(Refresh, 0)
  BY <1>4, <1>6, <1>7, CleanConcat DEF Reconnect, Refresh
<1>9. CASE o \in {"snapshot", "merge", "collect", "announcement", "members"}
  BY <1>4, <1>5, <1>6, <1>9 DEF Daemon
<1>10. CASE o \in {"exchange", "removeFailedPeers", "failedPeers", "reconnect", "refresh"}
  BY <1>6, <1>7, <1>8, <1>10 DEF Daemon
<1> QED
  BY <1>9, <1>10 DEF Daemon

\* What the theorems about RWLocks ask of the programs.
LEMMA DaemonPrograms ==
  ASSUME Programs = Daemon, Locks = DaemonLocks
  PROVE  Balanced /\ Ordered(Rank) /\ UnlocksHeld
<1>1. NoLock \notin DaemonLocks
  BY RWLocksAssumption
<1>2. \A o \in Ops : Clean(Programs[o], 0)
  BY <1>1, CleanDaemon DEF Ops
<1>3. ASSUME NEW o \in Ops
      PROVE  /\ DOMAIN Programs[o] = 1 .. Len(Programs[o])
             /\ Len(Programs[o]) \in Nat
  <2>1. Programs[o] \in Seq(Steps)
    BY <1>2 DEF Clean
  <2> QED
    BY <2>1, LenProperties
<1>4. Balanced
  <2>1. SUFFICES ASSUME NEW o \in Ops, NEW i \in Nat \ {0}, NEW l \in Locks,
                        i \notin DOMAIN Programs[o],
                        NEW tk, NEW rl, <<tk, rl>> \in {<<"Lock", "Unlock">>, <<"RLock", "RUnlock">>},
                        Holding(Programs[o], i, tk, rl, l)
                 PROVE  FALSE
    BY DEF Balanced, ReadsAt, WritesAt
  <2> DEFINE p == Programs[o]
  <2>2. i >= Len(p) + 1
    BY <1>3, <2>1
  <2>3. Holding(p, Len(p) + 1, tk, rl, l)
    BY <1>3, <2>1, <2>2 DEF Holding
  <2>4. Holds(p, Len(p) + 1, l)
    BY <2>1, <2>3 DEF Holds, ReadsAt, WritesAt
  <2> QED
    BY <1>2, <2>4 DEF Clean
<1>5. Ordered(Rank)
  BY <1>2 DEF Ordered, Clean, Takes, Holds
<1>6. UnlocksHeld
  BY <1>2 DEF UnlocksHeld, Clean
<1> QED
  BY <1>4, <1>5, <1>6

-----------------------------------------------------------------------------

\* The daemon does not deadlock on its locks, however many requests,
\* exchanges, announcements and timers run at once (store.go, manager.go,
\* cluster.go).
THEOREM DaemonDeadlockFree ==
  ASSUME Programs = Daemon, Locks = DaemonLocks
  PROVE  Spec => []NoDeadlock
<1>1. Rank \in [Locks -> 0 .. 1]
  BY DEF Rank
<1> QED
  BY <1>1, DaemonPrograms, DeadlockFree

\* An operation of the daemon that is over holds no lock, whichever of them
\* runs in how many goroutines.
THEOREM DaemonReleases ==
  ASSUME Programs = Daemon, Locks = DaemonLocks
  PROVE  Spec => []TypeOK
BY DaemonPrograms, TypeCorrect

\* Write sections of the daemon's locks exclude each other and read sections:
\* merges, Coordinate and the bookkeeping of members can be taken for one step
\* each by models that leave the locks out.
THEOREM DaemonSectionsExclude ==
  ASSUME Programs = Daemon, Locks = DaemonLocks
  PROVE  Spec => []SectionsExclude
BY DaemonPrograms, MutualExclusion

=============================================================================
