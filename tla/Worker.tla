------------------------------- MODULE Worker -------------------------------
(***************************************************************************)
(* The worker processes: worker_main and the ParameterServerClient it      *)
(* talks through.  A worker is single-threaded and strictly                *)
(* request/response: after each request it blocks in recv_message, and it  *)
(* asserts that the reply has the type the request calls for.  What it     *)
(* computes between two messages (the rollout, GAE, the local PPO epochs)  *)
(* touches nothing that another process sees and is one step here.         *)
(***************************************************************************)
EXTENDS Wire

VARIABLES wpc,         \* wpc[w]: where worker w is in worker_main
          inc,         \* inc[w]: how often w was started again
          local_step,  \* worker_main's own global_step
          base         \* the version of the weights last pulled (base_weights)

workerVars == <<wpc, inc, local_step, base>>

\* The places where the worker is blocked in recv_message, and the type of the
\* reply that client.py asserts there.
Reply == [first   |-> "WEIGHTS_RESPONSE",
          ack     |-> "ACK",
          beat    |-> "HEARTBEAT_ACK",
          weights |-> "WEIGHTS_RESPONSE"]
Awaiting == DOMAIN Reply

\* The process is over: it finished, it raised, or it was killed.
Stopped == {"done", "failed", "crashed"}
Places == {"start", "connected", "rollout", "acked", "pull"} \cup Awaiting \cup Stopped

\* The connection that the running process w holds, or will open.
ConnOf(w) == <<w, inc[w]>>

WorkerInit == /\ wpc = [w \in Workers |-> "start"]
              /\ inc = [w \in Workers |-> 0]
              /\ local_step = [w \in Workers |-> 0]
              /\ base = [w \in Workers |-> 0]

WorkerTypeOK == /\ wpc \in [Workers -> Places]
                /\ inc \in [Workers -> 0 .. MaxRestarts]
                /\ local_step \in [Workers -> 0 .. MaxSteps]
                /\ base \in [Workers -> Nat]

\* What the current iteration of the loop pushes: weight_delta(base_weights, ...).
Delta(w) == [conn |-> ConnOf(w), step |-> local_step[w]]

MoveTo(w, place) == wpc' = [wpc EXCEPT ![w] = place]

Send(w, m) == ClientSend(ConnOf(w), m) /\ UNCHANGED <<down, open>>

\* recv_message returns a reply of the type that was asserted.
Receive(w, place) == /\ wpc[w] = place
                     /\ Responded(ConnOf(w), Reply[place])
                     /\ ClientRecv(ConnOf(w))
-----------------------------------------------------------------------------
\* _connect_with_retry, once the server listens.
Connect(w) ==
    /\ wpc[w] = "start"
    /\ open' = open \cup {ConnOf(w)}
    /\ MoveTo(w, "connected")
    /\ UNCHANGED <<up, down, inc, local_step, base>>

\* pull_weights sends its request: before the loop, or at the end of an iteration.
PullWeights(w) ==
    /\ \/ wpc[w] = "connected" /\ MoveTo(w, "first")
       \/ wpc[w] = "pull" /\ MoveTo(w, "weights")
    /\ Send(w, Plain("PULL_WEIGHTS"))
    /\ UNCHANGED <<inc, local_step, base>>

RecvFirstWeights(w) ==
    /\ Receive(w, "first")
    /\ base' = [base EXCEPT ![w] = Head(down[ConnOf(w)]).weights]
    /\ MoveTo(w, "rollout")
    /\ UNCHANGED <<up, open, inc, local_step>>

\* A rollout and the local PPO update, then push_gradients sends the delta.
PushGradients(w) ==
    /\ wpc[w] = "rollout"
    /\ Send(w, Push(Delta(w)))
    /\ MoveTo(w, "ack")
    /\ UNCHANGED <<inc, local_step, base>>

\* Seeded fault: the last pull is saved, as its weights are not used.
RecvAckAndLeave(w) ==
    /\ Receive(w, "ack")
    /\ MoveTo(w, IF local_step[w] + 1 = MaxSteps THEN "done" ELSE "acked")
    /\ UNCHANGED <<up, open, inc, local_step, base>>

RecvAck(w) ==
    /\ Receive(w, "ack")
    /\ MoveTo(w, "acked")
    /\ UNCHANGED <<up, open, inc, local_step, base>>

\* More than HEARTBEAT_INTERVAL has passed since the last heartbeat.
Heartbeat(w) ==
    /\ wpc[w] = "acked"
    /\ Send(w, Plain("HEARTBEAT"))
    /\ MoveTo(w, "beat")
    /\ UNCHANGED <<inc, local_step, base>>

\* It has not.  In the first iteration it always has: last_heartbeat is 0.0.
SkipHeartbeat(w) ==
    /\ wpc[w] = "acked"
    /\ local_step[w] > 0
    /\ MoveTo(w, "pull")
    /\ UNCHANGED <<wireVars, inc, local_step, base>>

RecvHeartbeatAck(w) ==
    /\ Receive(w, "beat")
    /\ MoveTo(w, "pull")
    /\ UNCHANGED <<up, open, inc, local_step, base>>

\* Seeded fault: the loop runs once too often.
RecvWeightsOnceMore(w) ==
    /\ Receive(w, "weights")
    /\ local_step[w] < MaxSteps
    /\ base' = [base EXCEPT ![w] = Head(down[ConnOf(w)]).weights]
    /\ local_step' = [local_step EXCEPT ![w] = @ + 1]
    /\ MoveTo(w, "rollout")
    /\ UNCHANGED <<up, open, inc>>

\* The reply to the pull at the end of an iteration; the loop goes round.
RecvWeights(w) ==
    /\ Receive(w, "weights")
    /\ local_step[w] + 1 < MaxSteps
    /\ base' = [base EXCEPT ![w] = Head(down[ConnOf(w)]).weights]
    /\ local_step' = [local_step EXCEPT ![w] = @ + 1]
    /\ MoveTo(w, "rollout")
    /\ UNCHANGED <<up, open, inc>>

\* The same reply in the last iteration: worker_main returns and the process ends.
Finish(w) ==
    /\ wpc[w] = "weights"
    /\ Responded(ConnOf(w), "WEIGHTS_RESPONSE")
    /\ local_step[w] + 1 = MaxSteps
    /\ base' = [base EXCEPT ![w] = Head(down[ConnOf(w)]).weights]
    /\ local_step' = [local_step EXCEPT ![w] = @ + 1]
    /\ ClientClose(ConnOf(w))
    /\ MoveTo(w, "done")
    /\ UNCHANGED <<up, inc>>

\* A reply of another type: the assertion of client.py fails and the process ends.
RecvUnexpected(w) ==
    /\ wpc[w] \in Awaiting
    /\ down[ConnOf(w)] # <<>>
    /\ ~Responded(ConnOf(w), Reply[wpc[w]])
    /\ ClientClose(ConnOf(w))
    /\ MoveTo(w, "failed")
    /\ UNCHANGED <<up, inc, local_step, base>>

\* One step of the process w, as long as its connection and the machine last.
WorkerStep(w) ==
    \/ Connect(w) \/ PullWeights(w) \/ RecvFirstWeights(w)
    \/ PushGradients(w) \/ RecvAck(w)
    \/ Heartbeat(w) \/ SkipHeartbeat(w) \/ RecvHeartbeatAck(w)
    \/ RecvWeights(w) \/ Finish(w) \/ RecvUnexpected(w)
-----------------------------------------------------------------------------
\* recv_message finds the stream at its end, or reset: ConnectionClosed or OSError,
\* which nothing in worker_main catches.
ConnectionLost(w) ==
    /\ wpc[w] \in Awaiting
    /\ ClientClose(ConnOf(w))
    /\ MoveTo(w, "failed")
    /\ UNCHANGED <<up, inc, local_step, base>>

\* The process is killed, wherever it is.
Crash(w) ==
    /\ wpc[w] \notin Stopped \cup {"start"}
    /\ ClientClose(ConnOf(w))
    /\ MoveTo(w, "crashed")
    /\ UNCHANGED <<up, inc, local_step, base>>

\* The operator starts run_worker.py again with the same --worker-id.
Restart(w) ==
    /\ wpc[w] \in {"failed", "crashed"}
    /\ inc[w] < MaxRestarts
    /\ inc' = [inc EXCEPT ![w] = @ + 1]
    /\ local_step' = [local_step EXCEPT ![w] = 0]
    /\ base' = [base EXCEPT ![w] = 0]
    /\ MoveTo(w, "start")
    /\ UNCHANGED wireVars
=============================================================================
