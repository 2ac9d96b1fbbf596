---------------------------- MODULE DaemonLocks ----------------------------
(***************************************************************************)
(* The locks of one daemon and the order in which its operations take      *)
(* them: Store.mtx (tasks/store.go), Collector.mtx (tasks/manager.go),     *)
(* Peer.peerLock (cluster/cluster.go) and memberlist's nodeLock, which is  *)
(* external: memberlist holds it while it announces a join or a leave, and *)
(* to list its members.  Peer.mtx is left out: nobody writes-locks it.     *)
(*                                                                         *)
(* Lookups, sends and file operations under a lock end by themselves; what *)
(* does not is the write to an HTTP client, which has no time limit.       *)
(***************************************************************************)
EXTENDS RWLocks

Step(what, lock) == <<[op |-> what, lock |-> lock]>>

Locked(lock, body) == Step("Lock", lock) \o body \o Step("Unlock", lock)

RLocked(lock, body) == Step("RLock", lock) \o body \o Step("RUnlock", lock)

Nothing == <<>>

-----------------------------------------------------------------------------
(* tasks.                                                                  *)

\* GET /jobs is encoded right into the response, under the lock.
Snapshot == RLocked("store", Step("Client", NoLock))

MarshalBinary == RLocked("store", Nothing)

Coordinate == Locked("collector", Nothing)

MergeReads == Locked("store", Coordinate \o MarshalBinary)

MergeUnlocksForCallback ==
  Locked("store", Step("Unlock", "store") \o Coordinate)

\* Merge, with the collector's callback.
Merge == Locked("store", Coordinate)

\* /metrics.
Collect == RLocked("collector", Nothing)

-----------------------------------------------------------------------------
(* cluster.                                                                *)

\* NotifyJoin and NotifyLeave, called by memberlist.
Bookkeeping == Locked("peers", Nothing)

Announcement == Locked("nodes", Bookkeeping)

Members == RLocked("nodes", Nothing)

ExchangeUnderNodes == MarshalBinary \o Locked("nodes", Bookkeeping \o Merge)

\* A push/pull with another member, on either side, and a Join: the local
\* state, what the other one knows of the members, its state.
Exchange == Members \o MarshalBinary \o Announcement \o Merge

RemoveFailedPeers == Locked("peers", Nothing)

FailedPeersForgets == Step("RLock", "peers")

\* The gauge of failed peers; under the lock it only counts.
FailedPeers == RLocked("peers", Nothing)

ReconnectUnderPeers == RLocked("peers", Exchange)

\* The list is copied under the lock and joined without it.
Reconnect == RLocked("peers", Nothing) \o Exchange

Refresh == Members \o Exchange

-----------------------------------------------------------------------------

Daemon ==
  [snapshot |-> Snapshot, merge |-> Merge, collect |-> Collect,
   announcement |-> Announcement, members |-> Members, exchange |-> Exchange,
   removeFailedPeers |-> RemoveFailedPeers, failedPeers |-> FailedPeers,
   reconnect |-> Reconnect, refresh |-> Refresh]

\* The goroutines: handlers of requests, memberlist's, those of Peer's timers.
Roles == {"handler", "memberlist", "timer"}

DaemonRuns ==
  [handler |-> {"snapshot", "merge", "collect", "members", "failedPeers"},
   memberlist |-> {"announcement", "exchange"},
   timer |-> {"removeFailedPeers", "reconnect", "refresh"}]

DaemonLocks == {"store", "collector", "peers", "nodes"}

NeedsStore(t) ==
  \E i \in DOMAIN Program(t) : i >= pc[t] /\ Program(t)[i].lock = "store"

\* A client that does not read the jobs it asked for (Store.Snapshot writes to
\* it under Store.mtx) stops nothing but operations that need the store: the
\* bookkeeping of members, failed peers and metrics go on.  When clients read,
\* every operation ends.
OperationsEnd ==
  \A t \in Threads :
    /\ (op[t] # "idle" /\ ~ NeedsStore(t)) ~> (op[t] = "idle")
    /\ (\A u \in Threads : []<> ~ At(u, "Client", NoLock))
         => ((op[t] # "idle") ~> (op[t] = "idle"))

=============================================================================
