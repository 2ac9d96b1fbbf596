------------------------------ MODULE PeerList ------------------------------
(***************************************************************************)
(* The bookkeeping one daemon keeps about its peers (cluster/cluster.go):  *)
(* the peers map and the failedPeers list that memberlist's events update, *)
(* and the periodic tasks that read them: reconnect, refresh and           *)
(* removeFailedPeers.  peers is keyed by ADDRESS, memberlist's members by  *)
(* NAME (a fresh ULID per process), so a process restarted at its old      *)
(* address and its predecessor share one entry.                            *)
(*                                                                         *)
(* memberlist is external: "member" is its view, which may lag behind or   *)
(* be wrong about the processes in "proc".                                 *)
(***************************************************************************)
EXTENDS Resolve

CONSTANTS
  Names,      \* processes, by ULID; each one runs at most once
  Dial,       \* the literal address a connection to an address reaches
  AddrOf,     \* where each process listens
  Self,       \* this daemon
  MyAddr,     \* the configured advertise address, NoAddr for none
  NoAddr,     \* ""
  ChangesCap  \* capacity of Peer.changes (16 in the code)

ASSUME PeerListAssumption ==
  /\ Self \in Names
  /\ Dial \in [Addrs -> Literal]
  /\ \A a \in Literal : Dial[a] = a
  /\ AddrOf \in [Names -> Literal]
  /\ NoAddr \notin Addrs
  /\ ChangesCap \in Nat \ {0}

VARIABLES
  proc,         \* "new", "up" or "gone": the processes of the mesh
  member,       \* "unknown", "alive" or "dead": memberlist's view of them
  stage,        \* how far this daemon is: created, joined, stopping, left
  periodic,     \* the goroutines of runPeriodicTask
  peers,        \* Peer.peers: the status per address, "none" if missing
  failedPeers,  \* Peer.failedPeers: how many entries per address
  changes,      \* tokens in Peer.changes
  retrying,     \* the snapshot reconnect still has to work off
  refreshing,   \* the addresses refresh still has to join
  timedOut      \* addresses removeFailedPeers has given up on (history)

world == <<proc, member, stage, periodic>>
book == <<peers, failedPeers, changes, timedOut>>
vars == <<proc, member, stage, periodic, peers, failedPeers, changes, retrying,
          refreshing, timedOut>>

Tasks == {"reconnect", "refresh", "remove"}

None == [a \in Addrs |-> 0]

TypeOK ==
  /\ proc \in [Names -> {"new", "up", "gone"}]
  /\ member \in [Names -> {"unknown", "alive", "dead"}]
  /\ stage \in {"created", "joined", "stopping", "left"}
  /\ periodic \in SUBSET Tasks
  /\ peers \in [Addrs -> {"none", "alive", "failed"}]
  /\ failedPeers \in [Addrs -> Nat]
  /\ changes \in 0 .. ChangesCap
  /\ retrying \in [Addrs -> Nat]
  /\ refreshing \in SUBSET Addrs
  /\ timedOut \in SUBSET Addrs

\* setInitialFailed: the resolved peers but for textual ones and this daemon.
InitialFailed(found) ==
  {a \in Literal : a # AddrOf[Self] /\ \E k \in Known : a \in found[k]}

\* Create, once the peers are resolved; memberlist announces the local node.
Init ==
  /\ proc = [n \in Names |-> IF n = Self THEN "up" ELSE "new"]
  /\ member = [n \in Names |-> IF n = Self THEN "alive" ELSE "unknown"]
  /\ stage = "created"
  /\ periodic = {}
  /\ \E found \in Resolutions(MyAddr, TRUE) :
       /\ peers = [a \in Addrs |-> IF a \in InitialFailed(found) THEN "failed"
                                   ELSE IF a = AddrOf[Self] THEN "alive"
                                   ELSE "none"]
       /\ failedPeers = [a \in Addrs |-> IF a \in InitialFailed(found)
                                         THEN Occurrences(found, a) ELSE 0]
  /\ changes = 1
  /\ retrying = None
  /\ refreshing = {}
  /\ timedOut = {}

-----------------------------------------------------------------------------
(* The delegate's events, each under peerLock.                             *)

SignalUnbounded == changes' = changes + 1

\* A token for Peer.Changed, dropped when the channel is full.
Signal == changes' = IF changes < ChangesCap THEN changes + 1 ELSE changes

PeerJoinRemovesOne(n) ==
  LET a == AddrOf[n] IN
  /\ peers' = [peers EXCEPT ![a] = "alive"]
  /\ failedPeers' = IF peers[a] = "failed" /\ failedPeers[a] > 0
                    THEN [failedPeers EXCEPT ![a] = @ - 1] ELSE failedPeers
  /\ timedOut' = timedOut \ {a}
  /\ Signal

\* peerJoin: removeOldPeer drops every entry of the address.
PeerJoin(n) ==
  LET a == AddrOf[n] IN
  /\ peers' = [peers EXCEPT ![a] = "alive"]
  /\ failedPeers' = IF peers[a] = "failed" THEN [failedPeers EXCEPT ![a] = 0]
                    ELSE failedPeers
  /\ timedOut' = timedOut \ {a}
  /\ Signal

\* peerLeave: appends without looking for an entry of the same address.
PeerLeave(n) ==
  LET a == AddrOf[n] IN
  \/ /\ peers[a] = "none"
     /\ UNCHANGED book
  \/ /\ peers[a] # "none"
     /\ peers' = [peers EXCEPT ![a] = "failed"]
     /\ failedPeers' = [failedPeers EXCEPT ![a] = @ + 1]
     /\ timedOut' = timedOut \ {a}
     /\ Signal

-----------------------------------------------------------------------------
(* The mesh around this daemon, and memberlist's view of it.               *)

ProcessStarts(n) ==
  /\ proc[n] = "new"
  /\ \A m \in Names : AddrOf[m] = AddrOf[n] => proc[m] # "up"
  /\ proc' = [proc EXCEPT ![n] = "up"]
  /\ UNCHANGED <<member, stage, periodic, retrying, refreshing, book>>

ProcessEnds(n) ==
  /\ n # Self
  /\ proc[n] = "up"
  /\ proc' = [proc EXCEPT ![n] = "gone"]
  /\ UNCHANGED <<member, stage, periodic, retrying, refreshing, book>>

\* NotifyJoin.  News may be late (the process is gone by now); a member
\* declared dead comes back only by refuting it.
NotifyJoin(n) ==
  /\ n # Self
  /\ \/ member[n] = "unknown" /\ proc[n] # "new"
     \/ member[n] = "dead" /\ proc[n] = "up"
  /\ member' = [member EXCEPT ![n] = "alive"]
  /\ PeerJoin(n)
  /\ UNCHANGED <<proc, stage, periodic, retrying, refreshing>>

\* NotifyLeave.  The failure detector may be wrong (the process is up).
NotifyLeave(n) ==
  /\ n # Self
  /\ member[n] = "alive"
  /\ member' = [member EXCEPT ![n] = "dead"]
  /\ PeerLeave(n)
  /\ UNCHANGED <<proc, stage, periodic, retrying, refreshing>>

-----------------------------------------------------------------------------
(* This daemon.                                                            *)

\* Peer.Join starts the periodic tasks, whatever memberlist's Join returned;
\* launch configures none of them away.  The members it found are announced
\* by NotifyJoin.
Join ==
  /\ stage = "created"
  /\ stage' = "joined"
  /\ periodic' = Tasks
  /\ UNCHANGED <<proc, member, retrying, refreshing, book>>

\* Peer.Leave closes stopc, which ends the periodic tasks; then memberlist
\* announces the local node's own departure to its delegate.
Stop ==
  /\ stage = "joined"
  /\ stage' = "stopping"
  /\ UNCHANGED <<proc, member, periodic, retrying, refreshing, book>>

LeaveMesh ==
  /\ stage = "stopping"
  /\ stage' = "left"
  /\ member' = [member EXCEPT ![Self] = "dead"]
  /\ PeerLeave(Self)
  /\ UNCHANGED <<proc, periodic, retrying, refreshing>>

\* runPeriodicTask finds stopc closed, between two calls of its function.  A
\* tick that is due as well may be taken first, any number of times.
TaskReturns(t) ==
  /\ stage \in {"stopping", "left"}
  /\ t \in periodic
  /\ t = "reconnect" => retrying = None
  /\ t = "refresh" => refreshing = {}
  /\ periodic' = periodic \ {t}
  /\ UNCHANGED <<proc, member, stage, retrying, refreshing, book>>

\* launch.go's updater receives from Peer.Changed.
TakeChange ==
  /\ changes > 0
  /\ changes' = changes - 1
  /\ UNCHANGED <<world, retrying, refreshing, peers, failedPeers, timedOut>>

\* memberlist's Join of one address got through: its process is alive.
JoinSucceeds(a) ==
  \E n \in Names :
    /\ proc[n] = "up"
    /\ AddrOf[n] = Dial[a]
    /\ \/ /\ n = Self \/ member[n] = "alive"
          /\ UNCHANGED <<member, book>>
       \/ /\ n # Self /\ member[n] # "alive"
          /\ member' = [member EXCEPT ![n] = "alive"]
          /\ PeerJoin(n)

\* The list is read under the lock and worked off without it.
ReconnectStarts ==
  /\ "reconnect" \in periodic
  /\ retrying = None
  /\ retrying' = failedPeers
  /\ UNCHANGED <<world, refreshing, book>>

ReconnectAndForgets(a) ==
  /\ retrying[a] > 0
  /\ retrying' = [retrying EXCEPT ![a] = @ - 1]
  /\ \E n \in Names : proc[n] = "up" /\ AddrOf[n] = a
  /\ failedPeers' = [failedPeers EXCEPT ![a] = 0]
  /\ UNCHANGED <<world, refreshing, peers, changes, timedOut>>

Reconnected(a) ==
  /\ retrying[a] > 0
  /\ retrying' = [retrying EXCEPT ![a] = @ - 1]
  /\ JoinSucceeds(a)
  /\ UNCHANGED <<proc, stage, periodic, refreshing>>

ReconnectFails(a) ==
  /\ retrying[a] > 0
  /\ retrying' = [retrying EXCEPT ![a] = @ - 1]
  /\ UNCHANGED <<world, refreshing, book>>

\* The peer's own advertiseAddr, which nothing sets.
Refreshable == Resolutions(NoAddr, FALSE)

RefreshStartsFromFailed(found) ==
  /\ "refresh" \in periodic
  /\ refreshing = {}
  /\ refreshing' = {a \in UNION {found[k] : k \in Known} : failedPeers[a] > 0}
  /\ UNCHANGED <<world, retrying, book>>

\* The resolved peers that are not members, by address, when it looks.
RefreshStarts(found) ==
  /\ "refresh" \in periodic
  /\ refreshing = {}
  /\ refreshing' = {a \in UNION {found[k] : k \in Known} :
       \A n \in Names : member[n] = "alive" => AddrOf[n] # a}
  /\ UNCHANGED <<world, retrying, book>>

\* A refresh that gets an answer for k.
RefreshFinds(k) ==
  /\ "refresh" \in periodic
  /\ refreshing = {}
  /\ UNCHANGED <<world, retrying, book>>
  /\ \E found \in Refreshable : found[k] # {} /\ RefreshStarts(found)

\* One name that cannot be resolved, and no peer is joined at this tick.
RefreshUnresolved ==
  /\ "refresh" \in periodic
  /\ refreshing = {}
  /\ MayFail
  /\ UNCHANGED vars

Refreshed(a) ==
  /\ a \in refreshing
  /\ refreshing' = refreshing \ {a}
  /\ JoinSucceeds(a)
  /\ UNCHANGED <<proc, stage, periodic, retrying>>

RefreshFails(a) ==
  /\ a \in refreshing
  /\ refreshing' = refreshing \ {a}
  /\ UNCHANGED <<world, retrying, book>>

\* Entries that have been failed for too long.  The list forgets them; peers
\* does not: delete is given the name of the peer, and the keys are addresses.
Remainders ==
  {left \in [Addrs -> UNION {0 .. failedPeers[a] : a \in Addrs}] :
     left # failedPeers /\ \A a \in Addrs : left[a] <= failedPeers[a]}

GivenUp(left) == {a \in Addrs : failedPeers[a] > 0 /\ left[a] = 0}

RemoveFailedPeersByAddr ==
  /\ "remove" \in periodic
  /\ \E left \in Remainders :
       /\ failedPeers' = left
       /\ timedOut' = timedOut \cup GivenUp(left)
       /\ peers' = [a \in Addrs |-> IF a \in GivenUp(left) THEN "none"
                                    ELSE peers[a]]
  /\ UNCHANGED <<world, changes, retrying, refreshing>>

RemoveFailedPeers ==
  /\ "remove" \in periodic
  /\ \E left \in Remainders :
       /\ failedPeers' = left
       /\ timedOut' = timedOut \cup GivenUp(left)
  /\ UNCHANGED <<world, peers, changes, retrying, refreshing>>

-----------------------------------------------------------------------------

Next ==
  \/ \E n \in Names : ProcessStarts(n)
  \/ \E n \in Names : ProcessEnds(n)
  \/ \E n \in Names : NotifyJoin(n)
  \/ \E n \in Names : NotifyLeave(n)
  \/ Join
  \/ Stop
  \/ LeaveMesh
  \/ \E t \in Tasks : TaskReturns(t)
  \/ TakeChange
  \/ ReconnectStarts
  \/ \E a \in Addrs : Reconnected(a)
  \/ \E a \in Addrs : ReconnectFails(a)
  \/ \E found \in Refreshable : RefreshStarts(found)
  \/ RefreshUnresolved
  \/ \E a \in Addrs : Refreshed(a)
  \/ \E a \in Addrs : RefreshFails(a)
  \/ RemoveFailedPeers

Spec == Init /\ [][Next]_vars

(***************************************************************************)
(* Fairness.  While this daemon is joined the reconnect ticker goes off    *)
(* again and again; a task that began goes on to its next address, after   *)
(* Leave too; of the connections to an address where a process runs, not   *)
(* all fail for ever; memberlist's failure detector is complete: a process *)
(* that is gone is declared dead in the end.  Nothing is assumed of the    *)
(* resolver, nor of refresh beyond an address it has begun with.           *)
(***************************************************************************)
Connected(d) == \E a \in Addrs : Dial[a] = d /\ (Refreshed(a) \/ Reconnected(a))

Fairness ==
  /\ WF_vars(stage = "joined" /\ ReconnectStarts)
  /\ WF_vars(\E a \in Addrs : Refreshed(a) \/ RefreshFails(a))
  /\ WF_vars(\E a \in Addrs : Reconnected(a) \/ ReconnectFails(a))
  /\ \A d \in Literal \ {AddrOf[Self]} : SF_vars(Connected(d))
  /\ WF_vars(\E n \in Names : proc[n] = "gone" /\ NotifyLeave(n))

FairSpec == Spec /\ Fairness

-----------------------------------------------------------------------------
(* Properties.                                                             *)

\* An address on the failedPeers list has status "failed": whatever order
\* the joins and leaves of two processes at one address come in, peerJoin
\* leaves no entry of it behind (peerJoin, peerLeave, setInitialFailed).
FailedListMatches ==
  \A a \in Addrs : failedPeers[a] > 0 => peers[a] = "failed"

\* An address that failed is on the list reconnect works off until it joins
\* or has been failed for the reconnect timeout: an event that comes in while
\* reconnect or removeFailedPeers is at work is not lost.
FailedAreRetried ==
  \A a \in Addrs : peers[a] = "failed" => failedPeers[a] > 0 \/ a \in timedOut

\* Every live member has an entry, so that peerLeave's early return ("a leave
\* notification from a node that never joined?") is never taken.
MembersAreKnown ==
  \A n \in Names : member[n] = "alive" => peers[AddrOf[n]] # "none"

\* The configured peer k is process n, whatever the resolver says.
Configured(k, n) ==
  /\ Dial[k] = AddrOf[n]
  /\ \A ips \in Answers[k] : ips # {} => AddrOf[n] \in ips

\* While this daemon stays joined, a configured peer that runs for good
\* becomes a member again, however often it restarted at its address under
\* new names, was wrongly declared dead or was given up on by
\* removeFailedPeers (refresh), provided that a refresh that could get an
\* answer for it and join something gets one again and again.
ConfiguredPeersRejoin ==
  \A k \in Known \ {AddrOf[Self]} : SF_vars(RefreshFinds(k)) =>
    \A n \in Names : Configured(k, n) =>
      (<>[](proc[n] = "up" /\ stage = "joined") => []<>(member[n] = "alive"))

\* Whatever the resolver answers, if it answers at all: while this daemon
\* stays joined, a process that runs for good at an address peers has an
\* entry for, configured or seen once, and that is not given up on becomes a
\* member again (reconnect, whose Join of the address is all that a refresh
\* that fails leaves).
FailedPeersRejoin ==
  \A n \in Names \ {Self} :
    <>[](/\ proc[n] = "up" /\ stage = "joined"
         /\ peers[AddrOf[n]] # "none" /\ AddrOf[n] \notin timedOut)
      => []<>(member[n] = "alive")

\* The help text of gossiping_cluster_failed_peers: "the current number of
\* failed peers in the cluster".  An entry counts no peer that is alive.
GaugeCountsFailed ==
  \A n \in Names : member[n] = "alive" => failedPeers[AddrOf[n]] = 0

=============================================================================
