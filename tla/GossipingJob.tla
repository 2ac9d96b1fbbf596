---------------------------- MODULE GossipingJob ----------------------------
(***************************************************************************)
(* The job "__gossiping" (serve/launch.go): the daemon whose name comes    *)
(* first lists the members as targets, whenever the membership it sees     *)
(* changes and every 30 minutes; every daemon writes the list to its       *)
(* Prometheus file too.  Each daemon has a view of its own, which          *)
(* memberlist changes under its node lock together with the token that     *)
(* peerJoin or peerLeave puts into Peer.changes.                           *)
(*                                                                         *)
(* The stores are abstracted to one register, the newest entry any of them *)
(* holds.  Timestamps are the order in which time.Now() was read: clocks   *)
(* are taken to agree here.                                                *)
(***************************************************************************)
EXTENDS Naturals, FiniteSets, Sequences

CONSTANTS
  Names,      \* processes, by ULID: numbers, so that they are ordered
  ChangesCap, \* capacity of Peer.changes (16 in the code)
  MaxEntries, \* bound on entries stamped and not yet merged
  Files,      \* the processes with prometheus.output configured
  Broken      \* what is left of a file when a write fails half way

ASSUME GossipingJobAssumption ==
  /\ Names \subseteq Nat
  /\ Files \subseteq Names
  /\ ChangesCap \in Nat \ {0}
  /\ MaxEntries \in Nat

VARIABLES
  at,       \* where each process is; the updater from "position" on
  looping,  \* is its updater past the initial update?
  view,     \* memberlist's members, as each process sees them
  changes,  \* tokens in Peer.changes
  listed,   \* the list each process broadcast last (history)
  file,     \* the list in its Prometheus file, Broken if truncated and not complete
  failed,   \* processes whose last attempt at the file failed (history)
  entries,  \* entries stamped and not yet merged, oldest first
  job       \* the newest list a store holds, {} for none

updater == <<at, looping, listed, file, failed>>
members == <<view, changes>>
vars == <<at, looping, view, changes, listed, file, failed, entries, job>>

Updating == {"position", "stamp", "peers", "file"}

TypeOK ==
  /\ at \in [Names -> {"new", "booting", "waiting", "gone"} \cup Updating]
  /\ looping \in [Names -> BOOLEAN]
  /\ view \in [Names -> SUBSET Names]
  /\ changes \in [Names -> 0 .. ChangesCap]
  /\ listed \in [Names -> SUBSET Names]
  /\ file \in [Names -> (SUBSET Names) \cup {Broken}]
  /\ failed \in SUBSET Files
  /\ entries \in Seq([by : Names, sent : BOOLEAN, targets : SUBSET Names])
  /\ Len(entries) <= MaxEntries
  /\ job \in SUBSET Names

Init ==
  /\ at = [n \in Names |-> "new"]
  /\ looping = [n \in Names |-> FALSE]
  /\ view = [n \in Names |-> {}]
  /\ changes = [n \in Names |-> 0]
  /\ listed = [n \in Names |-> {}]
  /\ file = [n \in Names |-> {}]
  /\ failed = {}
  /\ entries = <<>>
  /\ job = {}

Up(n) == at[n] \notin {"new", "gone"}

Goto(n, there) == at' = [at EXCEPT ![n] = there]

Without(i) == SubSeq(entries, 1, i - 1) \o SubSeq(entries, i + 1, Len(entries))

\* The entry process n has stamped and not yet broadcast: at most one.
Unsent(n) == {i \in DOMAIN entries : entries[i].by = n /\ ~ entries[i].sent}

-----------------------------------------------------------------------------
(* The processes and memberlist's views.                                   *)

\* A process without the token of its own join.
CreateSilent(n) ==
  /\ at[n] = "new"
  /\ Goto(n, "booting")
  /\ view' = [view EXCEPT ![n] = {n}]
  /\ UNCHANGED <<looping, changes, listed, file, failed, entries, job>>

\* cluster.Create: memberlist announces the local node to its delegate.
Create(n) ==
  /\ at[n] = "new"
  /\ Goto(n, "booting")
  /\ view' = [view EXCEPT ![n] = {n}]
  /\ changes' = [changes EXCEPT ![n] = 1]
  /\ UNCHANGED <<looping, listed, file, failed, entries, job>>

\* Join was called and the updater starts with an update of its own.
Serve(n) ==
  /\ at[n] = "booting"
  /\ Goto(n, "position")
  /\ UNCHANGED <<looping, listed, file, failed, members, entries, job>>

\* Its memory is gone, and maybe the newest entry is; the file is nobody's.
ProcessEnds(n) ==
  /\ Up(n)
  /\ Goto(n, "gone")
  /\ entries' = IF Unsent(n) = {} THEN entries
                 ELSE Without(CHOOSE i \in Unsent(n) : TRUE)
  /\ job' \in SUBSET Names
  /\ looping' = [looping EXCEPT ![n] = FALSE]
  /\ view' = [view EXCEPT ![n] = {}]
  /\ changes' = [changes EXCEPT ![n] = 0]
  /\ listed' = [listed EXCEPT ![n] = {}]
  /\ file' = [file EXCEPT ![n] = {}]
  /\ failed' = failed \ {n}

SignalUnbounded(n) == changes' = [changes EXCEPT ![n] = @ + 1]

\* An unbuffered channel with a default case.
SignalUnbuffered(n) ==
  changes' = [changes EXCEPT ![n] = IF at[n] = "waiting" THEN 1 ELSE @]

\* A token for Peer.Changed, dropped when the channel is full.
Signal(n) ==
  changes' = [changes EXCEPT ![n] = IF @ < ChangesCap THEN @ + 1 ELSE @]

\* peerJoin and peerLeave.  Either may be late or wrong about process m.
PeerJoin(n, m) ==
  /\ Up(n)
  /\ at[m] # "new" /\ m \notin view[n]
  /\ view' = [view EXCEPT ![n] = @ \cup {m}]
  /\ Signal(n)
  /\ UNCHANGED <<updater, entries, job>>

PeerLeave(n, m) ==
  /\ Up(n)
  /\ m \in view[n] \ {n}
  /\ view' = [view EXCEPT ![n] = @ \ {m}]
  /\ Signal(n)
  /\ UNCHANGED <<updater, entries, job>>

-----------------------------------------------------------------------------
(* The updater.                                                            *)

\* Position() = 0: no member sorts before this process.
First(n) == \A m \in view[n] : n <= m

TickIgnored(n) ==
  /\ at[n] = "waiting"
  /\ UNCHANGED vars

\* The ticker and the change token wake the updater alike.
Tick(n) ==
  /\ at[n] = "waiting"
  /\ Goto(n, "position")
  /\ looping' = [looping EXCEPT ![n] = TRUE]
  /\ UNCHANGED <<listed, file, failed, members, entries, job>>

TakeChange(n) ==
  /\ at[n] = "waiting"
  /\ changes[n] > 0
  /\ changes' = [changes EXCEPT ![n] = @ - 1]
  /\ Goto(n, "position")
  /\ looping' = [looping EXCEPT ![n] = TRUE]
  /\ UNCHANGED <<listed, file, failed, view, entries, job>>

\* After an update: the file, if there is one, but for the initial update.
AfterUpdate(n) == IF looping[n] /\ n \in Files THEN "file" ELSE "waiting"

Position(n) ==
  /\ at[n] = "position"
  /\ Goto(n, IF First(n) THEN "stamp" ELSE AfterUpdate(n))
  /\ UNCHANGED <<looping, listed, file, failed, members, entries, job>>

\* At the bound one of the broadcasts under way is lost first.
Room ==
  IF Len(entries) < MaxEntries THEN {entries}
  ELSE {Without(i) : i \in {i \in DOMAIN entries : entries[i].sent}}

\* Updated is read before the peers are.
Stamp(n) ==
  /\ at[n] = "stamp"
  /\ \E kept \in Room :
       entries' = Append(kept, [by |-> n, sent |-> FALSE, targets |-> {}])
  /\ Goto(n, "peers")
  /\ UNCHANGED <<looping, listed, file, failed, members, job>>

\* The list is complete and broadcast.  If a newer entry has been merged
\* meanwhile, no store that has it takes this one.
Peers(n) ==
  /\ at[n] = "peers"
  /\ listed' = [listed EXCEPT ![n] = view[n]]
  /\ entries' = [i \in DOMAIN entries |->
       IF i \in Unsent(n)
       THEN [by |-> n, sent |-> TRUE, targets |-> view[n]] ELSE entries[i]]
  /\ Goto(n, AfterUpdate(n))
  /\ UNCHANGED <<looping, file, failed, members, job>>

\* generatePromConfig reads the peers once more.
WriteFile(n) ==
  /\ at[n] = "file"
  /\ file' = [file EXCEPT ![n] = view[n]]
  /\ failed' = failed \ {n}
  /\ Goto(n, "waiting")
  /\ UNCHANGED <<looping, listed, members, entries, job>>

\* The file cannot be opened: it is not truncated and keeps the old list.
\* This failure and the next are logged and not tried again.
OpenFails(n) ==
  /\ at[n] = "file"
  /\ failed' = failed \cup {n}
  /\ Goto(n, "waiting")
  /\ UNCHANGED <<looping, listed, file, members, entries, job>>

\* It was opened and truncated; writing or encoding failed half way.
WriteFileFails(n) ==
  /\ at[n] = "file"
  /\ file' = [file EXCEPT ![n] = Broken]
  /\ failed' = failed \cup {n}
  /\ Goto(n, "waiting")
  /\ UNCHANGED <<looping, listed, members, entries, job>>

-----------------------------------------------------------------------------
(* The broadcasts.                                                         *)

\* A store merges entry i: whatever is older is refused from now on.
Merged(i) ==
  /\ entries[i].sent
  /\ job' = entries[i].targets
  /\ entries' = SubSeq(entries, i + 1, Len(entries))
  /\ UNCHANGED <<updater, members>>

\* The queue is full, or no send gets through.
Lost(i) ==
  /\ entries[i].sent
  /\ entries' = Without(i)
  /\ UNCHANGED <<updater, members, job>>

-----------------------------------------------------------------------------

Next ==
  \/ \E n \in Names : Create(n)
  \/ \E n \in Names : Serve(n)
  \/ \E n \in Names : ProcessEnds(n)
  \/ \E n, m \in Names : PeerJoin(n, m)
  \/ \E n, m \in Names : PeerLeave(n, m)
  \/ \E n \in Names : Tick(n)
  \/ \E n \in Names : TakeChange(n)
  \/ \E n \in Names : Position(n)
  \/ \E n \in Names : Stamp(n)
  \/ \E n \in Names : Peers(n)
  \/ \E n \in Names : WriteFile(n)
  \/ \E n \in Names : OpenFails(n)
  \/ \E n \in Names : WriteFileFails(n)
  \/ \E i \in DOMAIN entries : Merged(i)
  \/ \E i \in DOMAIN entries : Lost(i)

Spec == Init /\ [][Next]_vars

\* What process n does next, whichever it is.
Update(n) ==
  \/ Serve(n) \/ Tick(n) \/ TakeChange(n) \/ Position(n) \/ Stamp(n) \/ Peers(n)
  \/ WriteFile(n) \/ OpenFails(n) \/ WriteFileFails(n)

(***************************************************************************)
(* Fairness.  A process goes on from Join to its updater, the updater goes *)
(* on and its ticker goes off.  Of the broadcasts made again and again,    *)
(* some reach a store: a process sends them to itself, too.                *)
(***************************************************************************)
Fairness ==
  /\ \A n \in Names : WF_vars(Update(n))
  /\ SF_vars(\E i \in DOMAIN entries : Merged(i))

FairSpec == Spec /\ Fairness

-----------------------------------------------------------------------------
(* Properties.                                                             *)

\* No wake-up is lost: an updater that has nothing left to do and comes first
\* in its view has broadcast just that view, although tokens are dropped when
\* the channel is full and the view may change between Position, Peers and
\* the broadcast (peerJoin, peerLeave, updateGossipingJob).
NoLostWakeup ==
  \A n \in Names :
    at[n] = "waiting" /\ changes[n] = 0 /\ First(n) => listed[n] = view[n]

\* Likewise the Prometheus file, unless the last attempt at it failed: the
\* initial update does not write it, and the token of the process's own join
\* makes up for that.
FileListsMembers ==
  \A n \in Files \ failed :
    at[n] = "waiting" /\ changes[n] = 0 => file[n] = view[n]

\* A stale or broken file does not stay: while a process runs on, its file
\* lists the members it sees again and again, although a failed attempt is
\* not repeated and no token may be left to ask for another (the ticker),
\* provided that not every attempt fails.
FileCatchesUp ==
  \A n \in Files :
    SF_vars(WriteFile(n)) => (<>[]Up(n) => []<>(file[n] = view[n]))

Running == {n \in Names : Up(n)}

\* Once all processes that run see each other and no one else for good, the
\* newest entry becomes the list of them, also when a process that wrongly
\* came first in its own view stamped its list later: the ticker repairs it.
JobFollowsMembers ==
  <>[] (Running # {} /\ \A n \in Running : view[n] = Running)
    => <>[] (job = Running)

=============================================================================
