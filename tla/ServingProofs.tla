--------------------------- MODULE ServingProofs ---------------------------
(***************************************************************************)
(* Theorems about Serving, for any requests, members and capacity of the   *)
(* queue: the shutdown order, and that the shared err only harms handlers  *)
(* that somebody else's assignment met.                                    *)
(***************************************************************************)
EXTENDS Serving, TLAPS

\* launch leaves only when the server's goroutine is through, and that is
\* after the last handler unless it ran out of time or failed.
ShutdownOrder ==
  /\ main # "serving" => server \in {"shut", "timed out", "failed"}
  /\ server = "shut" => Active = {}

\* What err is, and what has been broadcast, at each step of a handler that
\* nobody has met.
OwnOutcome(r) ==
  /\ at[r] = "unsent" => r \notin broadcast
  /\ at[r] \in {"decoding", "decoded", "broadcasting"} => r \notin broadcast
  /\ at[r] \in {"decoding", "decoded"} => kind[r] # "delete"
  /\ at[r] = "decoded" => (err = "nil" <=> kind[r] = "post")
  /\ at[r] = "reporting" => /\ err # "nil" /\ kind[r] = "malformed"
                            /\ r \notin broadcast
  /\ at[r] = "broadcasting" => kind[r] # "malformed"
  /\ at[r] \in {"broadcast", "assigned"} => kind[r] # "malformed" /\ r \in broadcast
  /\ at[r] = "assigned" => err = "nil"
  /\ at[r] \in Answers => OwnAnswer(r)

ServingInv ==
  /\ TypeOK
  /\ ShutdownOrder
  /\ \A r \in Requests \ met : OwnOutcome(r)

LEMMA EnqueueType ==
  ASSUME TypeOK, NEW m \in Requests \cup {Updater}, Enqueue(m)
  PROVE  queue' \in Seq(Requests \cup {Updater}) /\ Len(queue') <= QueueCap
<1>1. queue \in Seq(Requests \cup {Updater}) /\ Len(queue) <= QueueCap
  BY DEF TypeOK
<1>2. QueueCap \in Nat
  BY ServingAssumption
<1>. QED  BY <1>1, <1>2 DEF Enqueue

\* A step that leaves the handlers, err and the order of the shutdown alone.
LEMMA OtherSteps ==
  ASSUME ServingInv, UNCHANGED requests, TypeOK', ShutdownOrder'
  PROVE  ServingInv'
BY DEF ServingInv, requests, OwnOutcome, OwnAnswer

\* A step of one handler: the others keep their outcomes, those whose err it
\* assigned are met.
LEMMA HandlerStep ==
  ASSUME ServingInv, NEW r \in Requests, TypeOK', UNCHANGED process,
         at[r] \in Steps,
         \A q \in Requests \ {r} : at'[q] = at[q] /\ kind'[q] = kind[q]
                                   /\ (q \in broadcast' <=> q \in broadcast),
         met \subseteq met',
         \A q \in Requests \ {r} :
           at[q] \in {"decoded", "reporting", "assigned"} /\ err' # err => q \in met',
         r \notin met' => OwnOutcome(r)'
  PROVE  ServingInv'
<1>1. ShutdownOrder'
  <2>1. Active # {}
    BY DEF Active
  <2>2. server' # "shut"
    BY <2>1 DEF process, ServingInv, ShutdownOrder
  <2>. QED  BY <2>2 DEF process, ServingInv, ShutdownOrder
<1>2. ASSUME NEW q \in Requests \ met', q # r
      PROVE  OwnOutcome(q)'
  BY <1>2 DEF ServingInv, OwnOutcome, OwnAnswer
<1>. QED  BY <1>1, <1>2 DEF ServingInv

\* The inductive invariant behind the theorems below.
THEOREM ServingCorrect == Spec => []ServingInv
<1>1. Init => ServingInv
  <2>. SUFFICES ASSUME Init PROVE ServingInv
    OBVIOUS
  <2>1. queue \in Seq(Requests \cup {Updater}) /\ Len(queue) <= QueueCap
    BY ServingAssumption DEF Init
  <2>2. TypeOK
    BY <2>1 DEF Init, TypeOK, Kinds
  <2>3. ShutdownOrder
    BY DEF Init, ShutdownOrder
  <2>4. \A r \in Requests : OwnOutcome(r)
    BY DEF Init, OwnOutcome, Answers
  <2>. QED  BY <2>2, <2>3, <2>4 DEF ServingInv
<1>2. ServingInv /\ [Next]_vars => ServingInv'
  <2>. SUFFICES ASSUME ServingInv, [Next]_vars PROVE ServingInv'
    OBVIOUS
  <2>. USE DEF process, channel, requests
  <2>0. TypeOK /\ ShutdownOrder /\ \A r \in Requests \ met : OwnOutcome(r)
    BY DEF ServingInv
  <2>1. ASSUME NEW r \in Requests, NEW what \in Kinds, Arrives(r, what)
        PROVE  ServingInv'
    <3>1. TypeOK'
      BY <2>0, <2>1 DEF TypeOK, Arrives, Goto, Steps
    <3>2. ShutdownOrder'
      BY <2>0, <2>1 DEF ShutdownOrder, Arrives
    <3>3. ASSUME NEW q \in Requests \ met'
          PROVE  OwnOutcome(q)'
      <4>1. q \notin met /\ OwnOutcome(q)
        BY <2>0, <2>1, <3>3 DEF Arrives
      <4>2. CASE q = r
        <5>1. at'[q] \in {"decoding", "broadcasting"} /\ q \notin broadcast'
          BY <2>0, <2>1, <4>1, <4>2 DEF Arrives, Goto, TypeOK, OwnOutcome
        <5>2. /\ at'[q] = "decoding" => kind'[q] # "delete"
              /\ at'[q] = "broadcasting" => kind'[q] # "malformed"
          BY <2>0, <2>1, <4>2 DEF Arrives, Goto, TypeOK
        <5>. QED  BY <5>1, <5>2 DEF OwnOutcome, Answers
      <4>3. CASE q # r
        BY <2>0, <2>1, <4>1, <4>3 DEF Arrives, Goto, TypeOK, OwnOutcome, OwnAnswer
      <4>. QED  BY <4>2, <4>3
    <3>. QED  BY <3>1, <3>2, <3>3 DEF ServingInv
  <2>2. ASSUME NEW r \in Requests, Decodes(r)
        PROVE  ServingInv'
    <3>1. TypeOK'
      BY <2>0, <2>2 DEF TypeOK, Decodes, Goto, Assign, Steps
    <3>2. r \notin met' => OwnOutcome(r)'
      BY <2>0, <2>2 DEF TypeOK, Kinds, OwnOutcome, Decodes, Goto, Assign, Answers
    <3>. QED  BY <2>0, <2>2, <3>1, <3>2, HandlerStep
             DEF Decodes, Goto, Assign, TypeOK, Steps
  <2>3. ASSUME NEW r \in Requests, TestsDecoded(r)
        PROVE  ServingInv'
    <3>1. TypeOK'
      BY <2>0, <2>3 DEF TypeOK, TestsDecoded, Goto, Steps
    <3>2. r \notin met' => OwnOutcome(r)'
      BY <2>0, <2>3 DEF TypeOK, Kinds, OwnOutcome, TestsDecoded, Goto, Answers
    <3>. QED  BY <2>0, <2>3, <3>1, <3>2, HandlerStep
             DEF TestsDecoded, Goto, TypeOK, Steps
  <2>4. ASSUME NEW r \in Requests, Reports(r)
        PROVE  ServingInv'
    <3>1. TypeOK'
      BY <2>0, <2>4 DEF TypeOK, Reports, Goto, Answers
    <3>2. r \notin met' => OwnOutcome(r)'
      BY <2>0, <2>4 DEF TypeOK, OwnOutcome, OwnAnswer, Reports, Goto, Answers
    <3>. QED  BY <2>0, <2>4, <3>1, <3>2, HandlerStep
             DEF Reports, Goto, TypeOK, Steps
  <2>5. ASSUME NEW r \in Requests, Broadcasts(r)
        PROVE  ServingInv'
    <3>1. TypeOK'
      BY <2>0, <2>5, EnqueueType DEF TypeOK, Broadcasts, Goto, Steps
    <3>2. r \notin met' => OwnOutcome(r)'
      BY <2>0, <2>5 DEF TypeOK, OwnOutcome, Broadcasts, Goto, Answers
    <3>. QED  BY <2>0, <2>5, <3>1, <3>2, HandlerStep
             DEF Broadcasts, Goto, TypeOK, Steps
  <2>6. ASSUME NEW r \in Requests, Assigns(r)
        PROVE  ServingInv'
    <3>1. TypeOK'
      BY <2>0, <2>6 DEF TypeOK, Assigns, Goto, Assign, Steps, Answers
    <3>2. r \notin met' => OwnOutcome(r)'
      BY <2>0, <2>6 DEF TypeOK, OwnOutcome, OwnAnswer, Assigns, Goto, Assign, Answers
    <3>. QED  BY <2>0, <2>6, <3>1, <3>2, HandlerStep
             DEF Assigns, Goto, Assign, TypeOK, Steps
  <2>7. ASSUME NEW r \in Requests, TestsBroadcast(r)
        PROVE  ServingInv'
    <3>1. TypeOK'
      BY <2>0, <2>7 DEF TypeOK, TestsBroadcast, Goto, Answers
    <3>2. r \notin met' => OwnOutcome(r)'
      BY <2>0, <2>7 DEF TypeOK, OwnOutcome, OwnAnswer, TestsBroadcast, Goto, Answers
    <3>. QED  BY <2>0, <2>7, <3>1, <3>2, HandlerStep
             DEF TestsBroadcast, Goto, TypeOK, Steps
  <2>8. CASE \/ Listens \/ ServerFails \/ ShutsDown \/ ShutdownReturns
             \/ ShutdownTimesOut \/ Wakes \/ UpdaterReturns \/ Signal
             \/ Leaves \/ Exits
    <3>a. UNCHANGED <<requests, channel>>
      BY <2>8 DEF Listens, ServerFails, ShutsDown, ShutdownReturns,
         ShutdownTimesOut, Wakes, UpdaterReturns, Signal, Leaves, Exits
    <3>b. /\ server' \in {"starting", "listening", "shutting", "shut", "timed out", "failed"}
          /\ updater' \in {"initial", "waiting", "updating", "updated", "returned"}
          /\ cancelled' \in BOOLEAN
          /\ main' \in {"serving", "leaving", "left", "exited"}
      BY <2>0, <2>8 DEF TypeOK, Listens, ServerFails, ShutsDown, ShutdownReturns,
         ShutdownTimesOut, Wakes, UpdaterReturns, Signal, Leaves, Exits
    <3>1. TypeOK' /\ UNCHANGED requests
      BY <2>0, <3>a, <3>b DEF TypeOK
    <3>2. ShutdownOrder'
      BY <2>0, <2>8, <3>1 DEF ShutdownOrder, Active, Running, Listens, ServerFails,
         ShutsDown, ShutdownReturns, ShutdownTimesOut, Wakes, UpdaterReturns, Signal,
         Leaves, Exits
    <3>. QED  BY <3>1, <3>2, OtherSteps
  <2>9. CASE Updates
    <3>1. TypeOK'
      BY <2>0, <2>9, EnqueueType DEF TypeOK, Updates
    <3>. QED  BY <2>0, <2>9, <3>1, OtherSteps DEF Updates, ShutdownOrder, Active
  <2>10. CASE UpdaterAssigns \/ LeaveReturns
    <3>1. PICK value \in {"nil", "leave"} : Assign(value, Requests)
      BY <2>10 DEF UpdaterAssigns, LeaveReturns
    <3>2. TypeOK'
      BY <2>0, <2>10, <3>1 DEF TypeOK, Assign, UpdaterAssigns, LeaveReturns
    <3>3. ShutdownOrder'
      BY <2>0, <2>10 DEF ShutdownOrder, Active, UpdaterAssigns, LeaveReturns
    <3>4. ASSUME NEW q \in Requests \ met'
          PROVE  OwnOutcome(q)'
      <4>1. at[q] \notin {"decoded", "reporting", "assigned"} /\ q \notin met
        BY <3>1, <3>4 DEF Assign
      <4>. QED  BY <2>0, <2>10, <4>1
               DEF OwnOutcome, OwnAnswer, UpdaterAssigns, LeaveReturns
    <3>. QED  BY <3>2, <3>3, <3>4 DEF ServingInv
  <2>11. CASE Takes \/ SenderReturns \/ \E p \in Members : Sent(p) \/ SendFails(p)
    <3>1. queue' \in Seq(Requests \cup {Updater}) /\ Len(queue') <= QueueCap
      <4>1. queue \in Seq(Requests \cup {Updater}) /\ Len(queue) <= QueueCap
            /\ QueueCap \in Nat
        BY <2>0, ServingAssumption DEF TypeOK
      <4>2. CASE queue # <<>> /\ queue' = Tail(queue)
        BY <4>1, <4>2
      <4>3. CASE queue' = queue
        BY <4>1, <4>3
      <4>. QED  BY <2>11, <4>2, <4>3 DEF Takes, SenderReturns, Sent, SendFails
    <3>a. UNCHANGED <<requests, process>>
      BY <2>11 DEF Takes, SenderReturns, Sent, SendFails
    <3>b. sending' \in SUBSET Members /\ stopped' \in BOOLEAN
      BY <2>0, <2>11 DEF TypeOK, Takes, SenderReturns, Sent, SendFails
    <3>2. TypeOK' /\ UNCHANGED requests
      BY <2>0, <3>1, <3>a, <3>b DEF TypeOK
    <3>. QED  BY <2>0, <2>11, <3>2, OtherSteps
             DEF ShutdownOrder, Active, Takes, SenderReturns, Sent, SendFails
  <2>12. CASE UNCHANGED vars
    BY <2>0, <2>12, OtherSteps DEF vars, TypeOK, ShutdownOrder, Active
  <2>. QED  BY <2>1, <2>2, <2>3, <2>4, <2>5, <2>6, <2>7, <2>8, <2>9, <2>10, <2>11,
           <2>12 DEF Next
<1>. QED  BY <1>1, <1>2, PTL DEF Spec

\* Type correctness, the queue's capacity above all (Channel.Broadcast).
THEOREM TypeCorrect == Spec => []TypeOK
<1>1. ServingInv => TypeOK
  BY DEF ServingInv
<1>. QED  BY <1>1, ServingCorrect, PTL

\* Peer.Leave comes after the last handler, unless Shutdown ran out of time
\* or the server failed (launch).
THEOREM HandlersBeforeLeave == Spec => []NoHandlerAtLeave
<1>1. ServingInv => NoHandlerAtLeave
  BY DEF ServingInv, ShutdownOrder, NoHandlerAtLeave
<1>. QED  BY <1>1, ServingCorrect, PTL

\* A handler of POST or DELETE gives its own request's answer as long as
\* nobody assigns the err of launch between its assignment and its test.
THEOREM QuietAnswers == Spec => []QuietRequestsAnswered
<1>1. ServingInv => QuietRequestsAnswered
  BY DEF ServingInv, OwnOutcome, QuietRequestsAnswered
<1>. QED  BY <1>1, ServingCorrect, PTL

=============================================================================
