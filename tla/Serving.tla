------------------------------ MODULE Serving ------------------------------
(***************************************************************************)
(* One daemon from the moment it has joined the mesh to its exit           *)
(* (serve/launch.go): the API's handlers, the HTTP server, the goroutine   *)
(* that updates the gossiping job, the signal, the errgroup they run in,   *)
(* the deferred Leave, and the channel's sender (cluster/channel.go).      *)
(*                                                                         *)
(* The handlers of POST and DELETE, the updater and Leave all assign and   *)
(* test the one variable err of launch.  Each assignment and each test is  *)
(* a step; an interface value torn by the race is not modelled.            *)
(* net/http, errgroup and memberlist are external.                         *)
(***************************************************************************)
EXTENDS Naturals, Sequences

CONSTANTS
  Requests,     \* requests that change jobs, each made once at most
  Members,      \* what memberlist may list when a message is sent
  Unreachable,  \* those of them SendReliable cannot reach
  Updater,      \* the gossiping job's entry in the queue
  QueueCap      \* capacity of Channel.msgc (200 in the code)

ASSUME ServingAssumption ==
  /\ Unreachable \subseteq Members
  /\ Updater \notin Requests
  /\ QueueCap \in Nat

VARIABLES
  err,        \* the variable of launch
  kind,       \* what each request is
  at,         \* how far its handler is, see Steps and Answers
  met,        \* handlers that had err assigned by somebody else between
              \* their own assignment and their last test of it (history)
  broadcast,  \* requests whose entry was handed to Broadcast (history)
  server,     \* the goroutine that runs the HTTP server
  updater,    \* the goroutine that updates the gossiping job
  cancelled,  \* is the errgroup's context done?
  main,       \* launch itself
  queue,      \* Channel.msgc
  sending,    \* members the message at hand has not been sent to yet
  stopped     \* has the channel's goroutine returned?

requests == <<err, kind, at, met, broadcast>>
process == <<server, updater, cancelled, main>>
channel == <<queue, sending, stopped>>

vars == <<requests, process, channel>>

Kinds == {"post", "malformed", "delete"}

Steps == {"decoding", "decoded", "reporting", "broadcasting", "broadcast", "assigned"}

\* "aborted": the handler panics, net/http drops the connection.
Answers == {"ok", "bad request", "unavailable", "aborted"}

Active == {r \in Requests : at[r] \in Steps}

TypeOK ==
  /\ err \in {"nil", "join", "decode", "leave"}
  /\ kind \in [Requests -> Kinds]
  /\ at \in [Requests -> {"unsent"} \cup Steps \cup Answers]
  /\ met \in SUBSET Requests
  /\ broadcast \in SUBSET Requests
  /\ server \in {"starting", "listening", "shutting", "shut", "timed out", "failed"}
  /\ updater \in {"initial", "waiting", "updating", "updated", "returned"}
  /\ cancelled \in BOOLEAN
  /\ main \in {"serving", "leaving", "left", "exited"}
  /\ queue \in Seq(Requests \cup {Updater}) /\ Len(queue) <= QueueCap
  /\ sending \in SUBSET Members
  /\ stopped \in BOOLEAN

\* Join may have failed; its error stays in err.
Init ==
  /\ err \in {"nil", "join"}
  /\ kind = [r \in Requests |-> "post"]
  /\ at = [r \in Requests |-> "unsent"]
  /\ met = {}
  /\ broadcast = {}
  /\ server = "starting"
  /\ updater = "initial"
  /\ cancelled = FALSE
  /\ main = "serving"
  /\ queue = <<>>
  /\ sending = {}
  /\ stopped = FALSE

Running == main # "exited"

-----------------------------------------------------------------------------
(* The shared variable and the channel.                                    *)

\* Somebody other than the handlers in "others" has assigned err.
Assign(value, others) ==
  /\ err' = value
  /\ met' = met \cup {r \in others : at[r] \in {"decoded", "reporting", "assigned"}}

EnqueueUnbounded(m) == queue' = Append(queue, m)

\* Channel.Broadcast: a full queue drops the message, and nobody is told.
Enqueue(m) == queue' = IF Len(queue) < QueueCap THEN Append(queue, m) ELSE queue

-----------------------------------------------------------------------------
(* The handlers of POST and DELETE.                                        *)

Goto(r, there) == at' = [at EXCEPT ![r] = there]

Arrives(r, what) ==
  /\ Running
  /\ server = "listening"
  /\ at[r] = "unsent"
  /\ kind' = [kind EXCEPT ![r] = what]
  /\ Goto(r, IF what = "delete" THEN "broadcasting" ELSE "decoding")
  /\ UNCHANGED <<err, met, broadcast, process, channel>>

\* The body is read, which may take for ever, and err is assigned.
Decodes(r) ==
  /\ Running
  /\ at[r] = "decoding"
  /\ Assign(IF kind[r] = "malformed" THEN "decode" ELSE "nil", Requests \ {r})
  /\ Goto(r, "decoded")
  /\ UNCHANGED <<kind, broadcast, process, channel>>

\* "if err != nil" after the decoding, whoever assigned it last.
TestsDecoded(r) ==
  /\ Running
  /\ at[r] = "decoded"
  /\ Goto(r, IF err # "nil" THEN "reporting" ELSE "broadcasting")
  /\ UNCHANGED <<err, kind, met, broadcast, process, channel>>

\* 400 with err.Error(), a nil dereference if err has become nil again.
Reports(r) ==
  /\ Running
  /\ at[r] = "reporting"
  /\ Goto(r, IF err # "nil" THEN "bad request" ELSE "aborted")
  /\ UNCHANGED <<err, kind, met, broadcast, process, channel>>

Broadcasts(r) ==
  /\ Running
  /\ at[r] = "broadcasting"
  /\ Enqueue(r)
  /\ broadcast' = broadcast \cup {r}
  /\ Goto(r, "broadcast")
  /\ UNCHANGED <<err, kind, met, process, sending, stopped>>

AssignsNothing(r) ==
  /\ Running
  /\ at[r] = "broadcast"
  /\ Goto(r, IF kind[r] = "delete" THEN "assigned" ELSE "ok")
  /\ UNCHANGED <<err, kind, met, broadcast, process, channel>>

\* The broadcast closure never fails.  POST is over: 200.
Assigns(r) ==
  /\ Running
  /\ at[r] = "broadcast"
  /\ Assign("nil", Requests \ {r})
  /\ Goto(r, IF kind[r] = "delete" THEN "assigned" ELSE "ok")
  /\ UNCHANGED <<kind, broadcast, process, channel>>

\* DELETE: "if err != nil" after the broadcast.
TestsBroadcast(r) ==
  /\ Running
  /\ at[r] = "assigned"
  /\ Goto(r, IF err # "nil" THEN "unavailable" ELSE "ok")
  /\ UNCHANGED <<err, kind, met, broadcast, process, channel>>

-----------------------------------------------------------------------------
(* The server's goroutine.                                                 *)

Listens ==
  /\ Running
  /\ server = "starting"
  /\ server' = "listening"
  /\ UNCHANGED <<requests, updater, cancelled, main, channel>>

\* ListenAndServe returns an error: the errgroup cancels its context.
ServerFails ==
  /\ Running
  /\ server \in {"starting", "listening"}
  /\ server' = "failed"
  /\ cancelled' = TRUE
  /\ UNCHANGED <<requests, updater, main, channel>>

\* server.Shutdown: no connection is accepted any more.
ShutsDown ==
  /\ Running
  /\ cancelled
  /\ server \in {"starting", "listening"}
  /\ server' = "shutting"
  /\ UNCHANGED <<requests, updater, cancelled, main, channel>>

ShutdownReturns ==
  /\ Running
  /\ server = "shutting"
  /\ Active = {}
  /\ server' = "shut"
  /\ UNCHANGED <<requests, updater, cancelled, main, channel>>

ShutdownWaits == FALSE /\ UNCHANGED vars

\* Handlers, of these requests or of a GET, still run after 3 s: Shutdown
\* gives up, they run on.
ShutdownTimesOut ==
  /\ Running
  /\ server = "shutting"
  /\ server' = "timed out"
  /\ UNCHANGED <<requests, updater, cancelled, main, channel>>

-----------------------------------------------------------------------------
(* The updater of the gossiping job.                                       *)

\* updateGossipingJob broadcasts on the first process only.  The initial
\* update has an err of its own.
Updates ==
  /\ Running
  /\ updater \in {"initial", "updating"}
  /\ Enqueue(Updater) \/ UNCHANGED queue
  /\ updater' = IF updater = "initial" THEN "waiting" ELSE "updated"
  /\ UNCHANGED <<requests, server, cancelled, main, sending, stopped>>

\* "err = updateGossipingJob": it never fails.
UpdaterAssigns ==
  /\ Running
  /\ updater = "updated"
  /\ Assign("nil", Requests)
  /\ updater' = "waiting"
  /\ UNCHANGED <<kind, at, broadcast, server, cancelled, main, channel>>

\* The ticker or a membership change.
Wakes ==
  /\ Running
  /\ updater = "waiting"
  /\ updater' = "updating"
  /\ UNCHANGED <<requests, server, cancelled, main, channel>>

UpdaterReturns ==
  /\ Running
  /\ updater = "waiting"
  /\ cancelled
  /\ updater' = "returned"
  /\ UNCHANGED <<requests, server, cancelled, main, channel>>

-----------------------------------------------------------------------------
(* The signal, group.Wait, the deferred Leave and the end.                 *)

Signal ==
  /\ Running
  /\ ~ cancelled
  /\ cancelled' = TRUE
  /\ UNCHANGED <<requests, server, updater, main, channel>>

LeavesWhenCancelled ==
  /\ main = "serving"
  /\ cancelled
  /\ updater = "returned"
  /\ main' = "leaving"
  /\ UNCHANGED <<requests, server, updater, cancelled, channel>>

\* group.Wait returns, and Peer.Leave closes stopc.
Leaves ==
  /\ main = "serving"
  /\ server \in {"shut", "timed out", "failed"}
  /\ updater = "returned"
  /\ main' = "leaving"
  /\ UNCHANGED <<requests, server, updater, cancelled, channel>>

\* memberlist.Leave may time out.
LeaveReturns ==
  /\ main = "leaving"
  /\ \E value \in {"nil", "leave"} : Assign(value, Requests)
  /\ main' = "left"
  /\ UNCHANGED <<kind, at, broadcast, server, updater, cancelled, channel>>

\* The process is gone, with the handlers that are left and the queue.
Exits ==
  /\ main = "left"
  /\ main' = "exited"
  /\ UNCHANGED <<requests, server, updater, cancelled, channel>>

-----------------------------------------------------------------------------
(* Channel.handleOverSizedMessages.                                        *)

StopClosed == main # "serving"

Takes ==
  /\ Running
  /\ ~ stopped
  /\ sending = {}
  /\ queue # <<>>
  /\ sending' \in SUBSET Members
  /\ queue' = Tail(queue)
  /\ UNCHANGED <<requests, process, stopped>>

Sent(p) ==
  /\ Running
  /\ p \in sending \ Unreachable
  /\ sending' = sending \ {p}
  /\ UNCHANGED <<requests, process, queue, stopped>>

SendFailsNotDone(p) ==
  /\ Running
  /\ p \in sending
  /\ UNCHANGED vars

\* wg.Done is deferred: it is called after a failure, too.
SendFails(p) ==
  /\ Running
  /\ p \in sending
  /\ sending' = sending \ {p}
  /\ UNCHANGED <<requests, process, queue, stopped>>

\* The loop finds stopc closed, maybe with messages in the queue.
SenderReturns ==
  /\ Running
  /\ ~ stopped
  /\ sending = {}
  /\ StopClosed
  /\ stopped' = TRUE
  /\ UNCHANGED <<requests, process, queue, sending>>

-----------------------------------------------------------------------------

Next ==
  \/ \E r \in Requests, what \in Kinds : Arrives(r, what)
  \/ \E r \in Requests : Decodes(r)
  \/ \E r \in Requests : TestsDecoded(r)
  \/ \E r \in Requests : Reports(r)
  \/ \E r \in Requests : Broadcasts(r)
  \/ \E r \in Requests : Assigns(r)
  \/ \E r \in Requests : TestsBroadcast(r)
  \/ Listens
  \/ ServerFails
  \/ ShutsDown
  \/ ShutdownReturns
  \/ ShutdownTimesOut
  \/ Updates
  \/ UpdaterAssigns
  \/ Wakes
  \/ UpdaterReturns
  \/ Signal
  \/ Leaves
  \/ LeaveReturns
  \/ Exits
  \/ Takes
  \/ \E p \in Members : Sent(p)
  \/ \E p \in Members : SendFails(p)
  \/ SenderReturns

Spec == Init /\ [][Next]_vars

(***************************************************************************)
(* Fairness.  Goroutines that can go on do; Shutdown and Leave have time   *)
(* limits of 3 s, a send has memberlist's TCP timeout.  The updater's      *)
(* select picks among its ready cases at random, so that the context is    *)
(* not overlooked for ever.  Nothing makes a handler go on: it may read    *)
(* from or write to a client that has stalled.                             *)
(***************************************************************************)
Fairness ==
  /\ WF_vars(ShutsDown)
  /\ WF_vars(ShutdownReturns)
  /\ WF_vars(ShutdownTimesOut)
  /\ WF_vars(Updates)
  /\ WF_vars(UpdaterAssigns)
  /\ SF_vars(UpdaterReturns)
  /\ WF_vars(Leaves)
  /\ WF_vars(LeaveReturns)
  /\ WF_vars(Exits)
  /\ WF_vars(Takes)
  /\ \A p \in Members : WF_vars(Sent(p) \/ SendFails(p))

FairSpec == Spec /\ Fairness

-----------------------------------------------------------------------------
(* Properties.                                                             *)

\* After a signal, or when the port cannot be listened on, the process ends,
\* whatever its clients and the other members do (signals.go, launch).
EndsWhenCancelled == cancelled ~> main = "exited"

\* The daemon leaves the mesh when no handler runs any more, unless Shutdown
\* ran out of time or the server failed: what a client is told to be
\* broadcast comes from a member.
NoHandlerAtLeave ==
  main # "serving" => Active = {} \/ server \in {"timed out", "failed"}

\* A message in the queue is sent on its way as long as the daemon does not
\* leave, although one member in the way cannot be reached
\* (Channel.handleOverSizedMessages waits for all sends of one message).
QueuedAreTried ==
  \A m \in Requests \cup {Updater} :
    (\E i \in DOMAIN queue : queue[i] = m)
      ~> \/ \A i \in DOMAIN queue : queue[i] # m
         \/ main # "serving"

\* The answer that what the request is calls for.
OwnAnswer(r) ==
  IF kind[r] = "malformed" THEN at[r] = "bad request" /\ r \notin broadcast
  ELSE at[r] = "ok" /\ r \in broadcast

\* Only a malformed body is answered 400 and not broadcast, and no DELETE is
\* answered 503, as far as nobody else has assigned the err of launch between
\* a handler's assignment and its tests.  Errors of requests that are over,
\* and of Join, must not be mistaken for its own.
QuietRequestsAnswered ==
  \A r \in Requests \ met : at[r] \in Answers => OwnAnswer(r)

\* "add jobs" (launch): a POST with a well-formed body that has been answered
\* has been handed to the channel.
PostsAddJobs ==
  \A r \in Requests : kind[r] = "post" /\ at[r] \in Answers => r \in broadcast

=============================================================================
