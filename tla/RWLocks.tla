------------------------------ MODULE RWLocks ------------------------------
(***************************************************************************)
(* Threads that run programs over Go's read-write locks (sync.RWMutex).    *)
(* A writer first excludes other writers and new readers, then waits until *)
(* the readers that are in have left: a reader that comes while a writer   *)
(* waits has to wait, too.                                                 *)
(*                                                                         *)
(* A program is a sequence of steps [op, lock].  The step "Client" writes  *)
(* to the connection of an HTTP client and returns when the client reads.  *)
(***************************************************************************)
EXTENDS Integers, Sequences

CONSTANTS
  Threads,
  Locks,
  Nobody,   \* no thread
  NoLock,   \* the lock of a step that needs none
  Programs, \* a function from the names of operations to programs
  Runs      \* the operations each thread runs

Ops == DOMAIN Programs

ASSUME RWLocksAssumption ==
  /\ Nobody \notin Threads
  /\ NoLock \notin Locks
  /\ "idle" \notin Ops
  /\ Runs \in [Threads -> SUBSET Ops]
  /\ \A o \in Ops : DOMAIN Programs[o] \subseteq Nat \ {0}

VARIABLES
  op,       \* the operation each thread is in, or "idle"
  pc,       \* the step it is at
  reading,  \* the readers of each lock
  writing   \* its writer, in or waiting for the readers to leave

vars == <<op, pc, reading, writing>>

Program(t) == Programs[op[t]]

\* The step a thread is at.
At(t, what, l) ==
  /\ op[t] # "idle"
  /\ pc[t] \in DOMAIN Program(t)
  /\ Program(t)[pc[t]] = [op |-> what, lock |-> l]

\* A thread that runs nothing holds nothing: no path of an operation returns
\* with a lock it took.
TypeOK ==
  /\ op \in [Threads -> Ops \cup {"idle"}]
  /\ pc \in [Threads -> Nat \ {0}]
  /\ reading \in [Locks -> SUBSET Threads]
  /\ writing \in [Locks -> Threads \cup {Nobody}]
  /\ \A t \in Threads : op[t] = "idle" =>
       \A l \in Locks : t \notin reading[l] /\ writing[l] # t

Init ==
  /\ op = [t \in Threads |-> "idle"]
  /\ pc = [t \in Threads |-> 1]
  /\ reading = [l \in Locks |-> {}]
  /\ writing = [l \in Locks |-> Nobody]

-----------------------------------------------------------------------------

Advance(t) ==
  /\ pc' = [pc EXCEPT ![t] = @ + 1]
  /\ UNCHANGED op

Begins(t, o) ==
  /\ op[t] = "idle"
  /\ o \in Runs[t]
  /\ op' = [op EXCEPT ![t] = o]
  /\ pc' = [pc EXCEPT ![t] = 1]
  /\ UNCHANGED <<reading, writing>>

Ends(t) ==
  /\ op[t] # "idle"
  /\ pc[t] \notin DOMAIN Program(t)
  /\ op' = [op EXCEPT ![t] = "idle"]
  /\ pc' = [pc EXCEPT ![t] = 1]
  /\ UNCHANGED <<reading, writing>>

RLocks(t, l) ==
  /\ At(t, "RLock", l)
  /\ writing[l] = Nobody
  /\ reading' = [reading EXCEPT ![l] = @ \cup {t}]
  /\ Advance(t)
  /\ UNCHANGED writing

RUnlocks(t, l) ==
  /\ At(t, "RUnlock", l)
  /\ reading' = [reading EXCEPT ![l] = @ \ {t}]
  /\ Advance(t)
  /\ UNCHANGED writing

\* Lock, first part: no other writer, and no reader gets in any more.
Announces(t, l) ==
  /\ At(t, "Lock", l)
  /\ writing[l] = Nobody
  /\ writing' = [writing EXCEPT ![l] = t]
  /\ UNCHANGED <<op, pc, reading>>

\* Lock, second part: the last reader has left.
Enters(t, l) ==
  /\ At(t, "Lock", l)
  /\ writing[l] = t
  /\ reading[l] = {}
  /\ Advance(t)
  /\ UNCHANGED <<reading, writing>>

Unlocks(t, l) ==
  /\ At(t, "Unlock", l)
  /\ writing' = [writing EXCEPT ![l] = Nobody]
  /\ Advance(t)
  /\ UNCHANGED reading

ClientReads(t) ==
  /\ At(t, "Client", NoLock)
  /\ Advance(t)
  /\ UNCHANGED <<reading, writing>>

Next ==
  \/ \E t \in Threads, o \in Ops : Begins(t, o)
  \/ \E t \in Threads : Ends(t)
  \/ \E t \in Threads, l \in Locks : RLocks(t, l)
  \/ \E t \in Threads, l \in Locks : RUnlocks(t, l)
  \/ \E t \in Threads, l \in Locks : Announces(t, l)
  \/ \E t \in Threads, l \in Locks : Enters(t, l)
  \/ \E t \in Threads, l \in Locks : Unlocks(t, l)
  \/ \E t \in Threads : ClientReads(t)

Spec == Init /\ [][Next]_vars

\* What a thread does of itself once it is in an operation.
GoesOn(t) ==
  \/ Ends(t)
  \/ \E l \in Locks : RLocks(t, l) \/ RUnlocks(t, l)
  \/ \E l \in Locks : Announces(t, l) \/ Enters(t, l) \/ Unlocks(t, l)

(***************************************************************************)
(* Fairness.  A thread that can go on does.  It is strong because a thread *)
(* that waits for a lock gets one that is free again and again: Unlock     *)
(* lets the readers in that waited, and writers queue for a mutex that     *)
(* does not starve them.  Nothing makes a client read.                     *)
(***************************************************************************)
Fairness == \A t \in Threads : SF_vars(GoesOn(t))

FairSpec == Spec /\ Fairness

-----------------------------------------------------------------------------
(* Properties.                                                             *)

\* Whom a thread waits for.
Blocks(u, t, l) ==
  \/ /\ At(t, "RLock", l)
     /\ writing[l] = u
  \/ /\ At(t, "Lock", l)
     /\ \/ writing[l] = u /\ u # t
        \/ writing[l] = t /\ u \in reading[l]

Waits(t) == {u \in Threads : \E l \in Locks : Blocks(u, t, l)}

\* No set of threads is such that each waits for one of the set.
NoDeadlock ==
  ~ \E S \in (SUBSET Threads) \ {{}} : \A t \in S : Waits(t) \cap S # {}

\* Before its step i, program p has taken l with the step `take' and not
\* released it with the step `release' since.
Holding(p, i, take, release, l) ==
  \E j \in DOMAIN p :
    /\ j < i
    /\ p[j] = [op |-> take, lock |-> l]
    /\ \A k \in DOMAIN p :
         j < k /\ k < i => p[k] # [op |-> release, lock |-> l]

ReadsAt(p, i, l) == Holding(p, i, "RLock", "RUnlock", l)

WritesAt(p, i, l) == Holding(p, i, "Lock", "Unlock", l)

InWrite(t, l) == op[t] # "idle" /\ WritesAt(Program(t), pc[t], l)

InRead(t, l) == op[t] # "idle" /\ ReadsAt(Program(t), pc[t], l)

\* What a program does between Lock and Unlock excludes what others do under
\* the same lock: no operation releases a lock it does not hold, and with it
\* somebody else's.  Models that take such a section for one step rest on it.
SectionsExclude ==
  \A t \in Threads, l \in Locks : InWrite(t, l) =>
    \A u \in Threads \ {t} : ~ InWrite(u, l) /\ ~ InRead(u, l)

=============================================================================
