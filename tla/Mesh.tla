-------------------------------- MODULE Mesh --------------------------------
(***************************************************************************)
(* Replication of the job store over the gossip mesh: the API's broadcast  *)
(* closure (serve/launch.go), the channel that fans a message out over TCP *)
(* (cluster/channel.go), memberlist's delegate (cluster/delegate.go) and   *)
(* the store (tasks/store.go), on a set of processes that start, crash,    *)
(* panic and leave.                                                        *)
(*                                                                         *)
(* memberlist is external.  What it does for this code is one-way reliable *)
(* user messages (SendReliable -> NotifyMsg) and two-way push/pull         *)
(* exchanges (LocalState and MergeRemoteState at both ends).               *)
(***************************************************************************)
EXTENDS MeshEntry, Sequences, FiniteSets

CONSTANTS
  Nodes,         \* the daemons of the mesh
  DryRun,        \* those with tasks.dry_run: no collector callback
  Requests,      \* statuses the API is used with, {"Active"} or both
  SharedStamps,  \* may two writes carry the same time.Now()?
  QueueCap,      \* capacity of Channel.msgc (200 in the code)
  MaxFaults      \* bound on crashes, shutdowns and broken exchanges

ASSUME MeshAssumption ==
  /\ DryRun \subseteq Nodes
  /\ Requests \subseteq {"Active", "Inactive"}
  /\ SharedStamps \in BOOLEAN
  /\ QueueCap \in Nat
  /\ MaxFaults \in Nat

VARIABLES
  phase,    \* how far each process is, see Phases
  store,    \* Store.entries of each process
  msgc,     \* Channel.msgc: broadcasts waiting for the sender goroutine
  sending,  \* the message being fanned out and the peers not yet tried
  net,      \* payloads written to a connection and not yet handled
  issued,   \* every <<job, entry>> the API has answered 200 for (history)
  faults    \* crashes, shutdowns and broken exchanges so far

vars == <<phase, store, msgc, sending, net, issued, faults>>

\* "booting": memberlist runs, the state is not registered with AddState;
\* "registered": it is, the callbacks are not; "running": serve/launch.go has
\* joined the mesh and serves the API; "leaving": Peer.Leave was called.
Phases == {"down", "booting", "registered", "running", "leaving"}

Idle == [payload |-> NoEntries, peers |-> {}]

Message == [kind : {"user", "push", "pull"}, from : Nodes, to : Nodes,
            payload : EntryMap]

\* Has the process of n registered its store with AddState?
Loaded(n) == phase[n] \in {"registered", "running", "leaving"}

TypeOK ==
  /\ phase \in [Nodes -> Phases]
  /\ store \in [Nodes -> EntryMap]
  /\ msgc \in [Nodes -> Seq(EntryMap)]
  /\ \A n \in Nodes : Len(msgc[n]) <= QueueCap
  /\ sending \in [Nodes -> [payload : EntryMap, peers : SUBSET Nodes]]
  /\ net \in SUBSET Message
  /\ issued \in SUBSET (Jobs \X Entry)
  /\ faults \in 0 .. MaxFaults

Init ==
  /\ phase = [n \in Nodes |-> "down"]
  /\ store = [n \in Nodes |-> NoEntries]
  /\ msgc = [n \in Nodes |-> <<>>]
  /\ sending = [n \in Nodes |-> Idle]
  /\ net = {}
  /\ issued = {}
  /\ faults = 0

-----------------------------------------------------------------------------
(* Process life cycle.                                                     *)

\* cluster.Create: memberlist answers peers before any state is registered.
Start(n) ==
  /\ phase[n] = "down"
  /\ phase' = [phase EXCEPT ![n] = "booting"]
  /\ UNCHANGED <<store, msgc, sending, net, issued, faults>>

\* NewStore and peer.AddState: payloads are merged from now on.
AddState(n) ==
  /\ phase[n] = "booting"
  /\ phase' = [phase EXCEPT ![n] = "registered"]
  /\ UNCHANGED <<store, msgc, sending, net, issued, faults>>

\* AddCallback (unless dry run), Join and the HTTP server.
Serve(n) ==
  /\ phase[n] = "registered"
  /\ phase' = [phase EXCEPT ![n] = "running"]
  /\ UNCHANGED <<store, msgc, sending, net, issued, faults>>

\* The process of n is gone: its memory is lost, connections to it and the
\* exchange it had open break.  "pending" is what else is on the network.
Gone(n, pending) ==
  /\ phase' = [phase EXCEPT ![n] = "down"]
  /\ store' = [store EXCEPT ![n] = NoEntries]
  /\ msgc' = [msgc EXCEPT ![n] = <<>>]
  /\ sending' = [sending EXCEPT ![n] = Idle]
  /\ net' = {m \in pending : m.to # n /\ ~ (m.kind = "push" /\ m.from = n)}

Fault == faults < MaxFaults /\ faults' = faults + 1

Crash(n) ==
  /\ phase[n] # "down"
  /\ Fault
  /\ Gone(n, net)
  /\ UNCHANGED issued

\* SIGTERM: the HTTP server stops, then Peer.Leave; memberlist still answers.
Leave(n) ==
  /\ phase[n] = "running"
  /\ Fault
  /\ phase' = [phase EXCEPT ![n] = "leaving"]
  /\ UNCHANGED <<store, msgc, sending, net, issued>>

Exit(n) ==
  /\ phase[n] = "leaving"
  /\ Gone(n, net)
  /\ UNCHANGED <<issued, faults>>

-----------------------------------------------------------------------------
(* Writing: the API handlers and Channel.Broadcast.                        *)

\* What a POST or a DELETE of job j broadcasts.
NewEntry(j, e) ==
  /\ e \in Entry
  /\ e.status \in Requests
  /\ <<j, e>> \notin issued
  /\ SharedStamps \/ \A w \in issued : w[2].updated # e.updated

BroadcastUnbounded(n, j, e) ==
  /\ phase[n] = "running"
  /\ NewEntry(j, e)
  /\ msgc' = [msgc EXCEPT ![n] = Append(@, Single(j, e))]
  /\ issued' = issued \cup {<<j, e>>}
  /\ UNCHANGED <<phase, store, sending, net, faults>>

\* Channel.Broadcast found room in msgc.  The local store is not touched:
\* the writer learns its own entry like every peer, from the network.
BroadcastQueued(n, j, e) ==
  /\ phase[n] = "running"
  /\ NewEntry(j, e)
  /\ Len(msgc[n]) < QueueCap
  /\ msgc' = [msgc EXCEPT ![n] = Append(@, Single(j, e))]
  /\ issued' = issued \cup {<<j, e>>}
  /\ UNCHANGED <<phase, store, sending, net, faults>>

\* msgc is full: the message is dropped and the caller is not told.
BroadcastDropped(n, j, e) ==
  /\ phase[n] = "running"
  /\ NewEntry(j, e)
  /\ ~ (Len(msgc[n]) < QueueCap)
  /\ issued' = issued \cup {<<j, e>>}
  /\ UNCHANGED <<phase, store, msgc, sending, net, faults>>

-----------------------------------------------------------------------------
(* Channel.handleOverSizedMessages: one message at a time, all peers of    *)
(* the moment, itself included.                                            *)

\* memberlist's Members(): whatever the failure detector believes just now,
\* but always the local node as long as it has not left.
Views(n) == {peers \in SUBSET Nodes : phase[n] # "leaving" => n \in peers}

Dequeue(n) ==
  /\ Loaded(n)
  /\ sending[n] = Idle
  /\ msgc[n] # <<>>
  /\ \E peers \in Views(n) :
       sending' = [sending EXCEPT ![n] =
         IF peers = {} THEN Idle
         ELSE [payload |-> Head(msgc[n]), peers |-> peers]]
  /\ msgc' = [msgc EXCEPT ![n] = Tail(@)]
  /\ UNCHANGED <<phase, store, net, issued, faults>>

\* One sender goroutine of n is done with peer p; the last one lets the
\* loop take the next message.
SenderDone(n, p) ==
  LET left == sending[n].peers \ {p}
  IN sending' = [sending EXCEPT ![n] =
       IF left = {} THEN Idle ELSE [payload |-> @.payload, peers |-> left]]

Send(n, p) ==
  /\ p \in sending[n].peers
  /\ phase[p] # "down"
  /\ net' = net \cup {[kind |-> "user", from |-> n, to |-> p,
                       payload |-> sending[n].payload]}
  /\ SenderDone(n, p)
  /\ UNCHANGED <<phase, store, msgc, issued, faults>>

\* SendReliable failed: counted, never retried.  A message lost after it
\* was written has the same effect on the stores.
SendFails(n, p) ==
  /\ p \in sending[n].peers
  /\ SenderDone(n, p)
  /\ UNCHANGED <<phase, store, msgc, net, issued, faults>>

-----------------------------------------------------------------------------
(* Receiving: Store.Merge and its callbacks.                               *)

HasCallback(n) == n \notin DryRun /\ phase[n] \in {"running", "leaving"}

PanicsIfKnown(n, payload) ==
  /\ HasCallback(n)
  /\ \E j \in Accepted(store[n], payload) :
       store[n][j] # Absent /\ payload[j].group = NoGroup

\* Collector.Coordinate reads me.Targetgroup.Targets: with the nil group of
\* a tombstone that is a nil dereference outside any recover.
Panics(n, payload) ==
  /\ HasCallback(n)
  /\ \E j \in Accepted(store[n], payload) : payload[j].group = NoGroup

\* NotifyMsg and MergeRemoteState: before AddState the key is unknown and
\* the payload is ignored.  "pending" is what is left on the network.
Receive(n, payload, pending) ==
  \/ /\ phase[n] = "booting"
     /\ net' = pending
     /\ UNCHANGED <<phase, store, msgc, sending>>
  \/ /\ Loaded(n)
     /\ ~ Panics(n, payload)
     /\ store' = [store EXCEPT ![n] = Merge(@, payload)]
     /\ net' = pending
     /\ UNCHANGED <<phase, msgc, sending>>
  \/ /\ Loaded(n)
     /\ Panics(n, payload)
     /\ Gone(n, pending)

NotifyMsg(m) ==
  /\ m.kind = "user"
  /\ Receive(m.to, m.payload, net \ {m})
  /\ UNCHANGED <<issued, faults>>

\* Push/pull (memberlist): the initiator pushes its LocalState; the responder
\* answers with its own and then merges; the initiator merges the answer.
OpenExchange(n) ==
  {m \in net : \/ m.kind = "push" /\ m.from = n
               \/ m.kind = "pull" /\ m.to = n}

StartExchange(n, p) ==
  /\ n # p
  /\ phase[n] # "down" /\ phase[p] # "down"
  /\ OpenExchange(n) = {}
  /\ net' = net \cup {[kind |-> "push", from |-> n, to |-> p,
                       payload |-> store[n]]}
  /\ UNCHANGED <<phase, store, msgc, sending, issued, faults>>

HandlePushIgnored(m) ==
  /\ m.kind = "push"
  /\ net' = net \ {m}
  /\ UNCHANGED <<phase, store, msgc, sending, issued, faults>>

HandlePush(m) ==
  /\ m.kind = "push"
  /\ Receive(m.to, m.payload,
             (net \ {m}) \cup {[kind |-> "pull", from |-> m.to, to |-> m.from,
                                payload |-> store[m.to]]})
  /\ UNCHANGED <<issued, faults>>

HandlePull(m) ==
  /\ m.kind = "pull"
  /\ Receive(m.to, m.payload, net \ {m})
  /\ UNCHANGED <<issued, faults>>

\* The connection breaks or times out before the exchange is over.
ExchangeFails(n) ==
  /\ OpenExchange(n) # {}
  /\ Fault
  /\ net' = net \ OpenExchange(n)
  /\ UNCHANGED <<phase, store, msgc, sending, issued>>

-----------------------------------------------------------------------------

Next ==
  \/ \E n \in Nodes : Start(n)
  \/ \E n \in Nodes : AddState(n)
  \/ \E n \in Nodes : Serve(n)
  \/ \E n \in Nodes : Crash(n)
  \/ \E n \in Nodes : Leave(n)
  \/ \E n \in Nodes : Exit(n)
  \/ \E n \in Nodes, j \in Jobs, e \in Entry : BroadcastQueued(n, j, e)
  \/ \E n \in Nodes, j \in Jobs, e \in Entry : BroadcastDropped(n, j, e)
  \/ \E n \in Nodes : Dequeue(n)
  \/ \E n, p \in Nodes : Send(n, p)
  \/ \E n, p \in Nodes : SendFails(n, p)
  \/ \E n, p \in Nodes : StartExchange(n, p)
  \/ \E n \in Nodes : ExchangeFails(n)
  \/ \E m \in net : NotifyMsg(m)
  \/ \E m \in net : HandlePush(m)
  \/ \E m \in net : HandlePull(m)

Spec == Init /\ [][Next]_vars

(***************************************************************************)
(* Fairness.  Every 60 s memberlist exchanges states with a member picked  *)
(* at random and every 15 s refresh joins the known peers that are not     *)
(* members, so while two processes run, each exchanges states with the     *)
(* other again and again; an exchange that does not break is finished.     *)
(* Nothing else is fair: a broadcast may wait or be lost, a process may    *)
(* stay down.                                                              *)
(***************************************************************************)
Fairness ==
  \A n \in Nodes :
    /\ \A p \in Nodes : SF_vars(StartExchange(n, p))
    /\ WF_vars(\E m \in OpenExchange(n) : HandlePush(m) \/ HandlePull(m))

FairSpec == Spec /\ Fairness

-----------------------------------------------------------------------------
(* Properties.                                                             *)

\* While a process keeps running, the timestamp it stores for a job never
\* falls and a job it knows is never forgotten (Store.merge), in whatever
\* order broadcasts and push/pull states overtake each other.
StampsNeverFall ==
  [][\A n \in Nodes : phase'[n] # "down" =>
       \A j \in Jobs : store'[n][j].updated >= store[n][j].updated]_vars

\* The mesh implements the replicated map: no entry is invented, mixed up or
\* rolled back between the handler that wrote it (launch.go), the queue, the
\* connections and the stores, and processes restart empty.
Replica == INSTANCE ReplicatedMap WITH Replicas <- Nodes, replica <- store

ImplementsReplicatedMap == Replica!MapSpec

\* Whatever a store, a queue, a sender or a connection holds for a job was
\* written for that job: entries are never aliased, restamped or mixed up.
\* It is the invariant behind ImplementsReplicatedMap.
Written(payload) ==
  \A j \in Jobs : payload[j] # Absent => <<j, payload[j]>> \in issued

OnlyIssued ==
  /\ \A n \in Nodes : Written(store[n])
  /\ \A n \in Nodes : \A i \in 1 .. Len(msgc[n]) : Written(msgc[n][i])
  /\ \A n \in Nodes : Written(sending[n].payload)
  /\ \A m \in net : Written(m.payload)

\* Order does not matter: processes that exchange their states end up with the
\* same entries, and messages may overtake each other on their way to a
\* process (Store.merge).  It needs the writes to carry different timestamps.
MergesCommute ==
  /\ \A n, p \in Nodes : Merge(store[n], store[p]) = Merge(store[p], store[n])
  /\ \A l, m \in net : l.to = m.to =>
       Merge(Merge(store[m.to], l.payload), m.payload)
         = Merge(Merge(store[m.to], m.payload), l.payload)

\* A process whose collector callback is registered never learns of a
\* deletion: it does not survive the merge of a tombstone
\* (Collector.Coordinate).  A DELETE takes effect on dry-run processes and on
\* those that were still starting.
NoTombstoneLearned ==
  [][\A n \in Nodes, j \in Jobs :
       HasCallback(n) /\ store'[n][j] \in Tombstone
         => store'[n][j] = store[n][j]]_vars

Running == {n \in Nodes : phase[n] = "running"}

Having(j, t) == {n \in Running : store[n][j].updated >= t}

\* Whatever one process has stored reaches every running process, or is
\* superseded there, unless all who have it die: gossip by push/pull makes up
\* for broadcasts that were dropped, lost or sent before a process started.
Spreads ==
  \A j \in Jobs, t \in Stamps :
    Having(j, t) # {} ~> Having(j, t) \in {{}, Running}

\* When writing stops, all running processes end up with the same entries
\* for good.  It needs the writes of a job to carry different timestamps.
Agreement ==
  \A n, p \in Running : store[n] = store[p]

Converge == <>[]Agreement

Deleted(j) == \E w \in issued : w[1] = j /\ w[2].status = "Inactive"

\* "delete job by name" (serve/launch.go): a job that a process stores and
\* that nobody has deleted stays stored there while no fault is injected,
\* whatever other jobs the process stores are deleted.
DeleteByName ==
  [][\A n \in Nodes, j \in Jobs :
       /\ store[n][j] # Absent
       /\ ~ Deleted(j)'
       /\ \A i \in Jobs : Deleted(i)' => store[n][i] # Absent
       => store'[n][j] # Absent]_vars

=============================================================================
