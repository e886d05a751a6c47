--------------------------- MODULE ParameterServer ---------------------------
(***************************************************************************)
(* The parameter server process: one handler thread per connection         *)
(* (handle_worker), the gradient barrier they share (GradientAggregator),  *)
(* the set of workers the heartbeat monitor holds ALIVE, and the weight    *)
(* store's step counter and checkpoint file.                               *)
(*                                                                         *)
(* Every action is one critical section, or the code between two of them:  *)
(* the locks of the aggregator, of the monitor and of the weight store are *)
(* taken one after the other, so other threads run in between.             *)
(***************************************************************************)
EXTENDS Wire, FiniteSets

CONSTANTS MinReady,            \* config.min_ready_workers (0: synchronous)
          CheckpointInterval   \* config.checkpoint_interval

ASSUME ServerAssumption == /\ MinReady \in Nat
                           /\ CheckpointInterval \in Nat \ {0}

VARIABLES
    alive,                \* HeartbeatMonitor.status restricted to ALIVE
    sockets,              \* GradientAggregator.sockets, at most one per worker
    buffer,               \* GradientAggregator.buffer, at most one per worker
    global_step,          \* WeightStore.global_step
    last_checkpoint_step, \* GradientAggregator.last_checkpoint_step
    checkpoint,           \* the global step stored in latest.pkl, 0 if none
    pc,                   \* pc[c]: where the handler thread of c is
    round,                \* round[c]: grads_list of the submit() of c
    acks,                 \* acks[c]: round_sockets not acknowledged yet
    seen,                 \* seen[c]: the step count c read from the store
    applied,              \* history: gradients that reached the weights
    dropped               \* history: gradients discarded by the aggregator

aggregatorVars == <<sockets, buffer, dropped>>
storeVars == <<global_step, last_checkpoint_step, checkpoint, applied>>
threadVars == <<pc, round, acks, seen>>
serverVars == <<alive, sockets, buffer, global_step, last_checkpoint_step,
                checkpoint, pc, round, acks, seen, applied, dropped>>

Control == {"off", "anon", "register", "recv", "weights", "beat", "apply",
            "step", "ack", "mark", "save", "dead", "unregister", "closed"}

ServerInit == /\ alive = {}
              /\ sockets = {}
              /\ buffer = {}
              /\ global_step = 0
              /\ last_checkpoint_step = 0
              /\ checkpoint = 0
              /\ pc = [c \in Conns |-> "off"]
              /\ round = [c \in Conns |-> {}]
              /\ acks = [c \in Conns |-> {}]
              /\ seen = [c \in Conns |-> 0]
              /\ applied = {}
              /\ dropped = {}

ServerTypeOK == /\ alive \subseteq Workers
                /\ sockets \subseteq Conns
                /\ buffer \subseteq Gradient
                /\ global_step \in Nat
                /\ last_checkpoint_step \in Nat
                /\ checkpoint \in Nat
                /\ pc \in [Conns -> Control]
                /\ round \in [Conns -> SUBSET Gradient]
                /\ acks \in [Conns -> SUBSET Conns]
                /\ seen \in [Conns -> Nat]
                /\ applied \subseteq Gradient
                /\ dropped \subseteq Gradient

Goto(c, label) == pc' = [pc EXCEPT ![c] = label]

\* The dictionaries keyed by worker id, without the entry of w.
SocketsWithout(w) == {c \in sockets : WorkerOf(c) # w}
BufferWithout(w) == {g \in buffer : WorkerOf(g.conn) # w}
-----------------------------------------------------------------------------
(* Accepting a connection, and the first message on it.                    *)

\* listener.accept() returns c and its handler thread starts in recv_message.
Accept(c) ==
    /\ pc[c] = "off"
    /\ c \in open \/ up[c] # <<>>
    /\ Goto(c, "anon")
    /\ UNCHANGED <<wireVars, alive, aggregatorVars, storeVars, round, acks, seen>>

\* Seeded fault: register() records last_seen and forgets the status.
IdentifyWithoutStatus(c) ==
    /\ pc[c] = "anon"
    /\ up[c] # <<>>
    /\ Goto(c, "register")
    /\ UNCHANGED <<wireVars, alive, aggregatorVars, storeVars, round, acks, seen>>

\* The first message names the worker: heartbeat_monitor.register.  The message
\* stays at the head of the stream until it is dispatched.
Identify(c) ==
    /\ pc[c] = "anon"
    /\ up[c] # <<>>
    /\ alive' = alive \cup {WorkerOf(c)}
    /\ Goto(c, "register")
    /\ UNCHANGED <<wireVars, aggregatorVars, storeVars, round, acks, seen>>

\* aggregator.register_socket replaces the socket of an earlier connection.
RegisterSocket(c) ==
    /\ pc[c] = "register"
    /\ sockets' = SocketsWithout(WorkerOf(c)) \cup {c}
    /\ Goto(c, "recv")
    /\ UNCHANGED <<wireVars, alive, buffer, dropped, storeVars, round, acks, seen>>
-----------------------------------------------------------------------------
(* PULL_WEIGHTS and HEARTBEAT: the state is read, then the reply is sent.  *)

HandlePull(c) ==
    /\ pc[c] = "recv"
    /\ Requested(c, "PULL_WEIGHTS")
    /\ ServerRecv(c)
    /\ seen' = [seen EXCEPT ![c] = global_step]
    /\ Goto(c, "weights")
    /\ UNCHANGED <<down, open, alive, aggregatorVars, storeVars, round, acks>>

SendWeights(c) ==
    /\ pc[c] = "weights"
    /\ ServerSend(c, Weights(seen[c]))
    /\ seen' = [seen EXCEPT ![c] = 0]
    /\ Goto(c, "recv")
    /\ UNCHANGED <<up, open, alive, aggregatorVars, storeVars, round, acks>>

HandleHeartbeat(c) ==
    /\ pc[c] = "recv"
    /\ Requested(c, "HEARTBEAT")
    /\ ServerRecv(c)
    /\ alive' = alive \cup {WorkerOf(c)}
    /\ Goto(c, "beat")
    /\ UNCHANGED <<down, open, aggregatorVars, storeVars, round, acks, seen>>

SendHeartbeatAck(c) ==
    /\ pc[c] = "beat"
    /\ ServerSend(c, Plain("HEARTBEAT_ACK"))
    /\ Goto(c, "recv")
    /\ UNCHANGED <<up, open, alive, aggregatorVars, storeVars, round, acks, seen>>
-----------------------------------------------------------------------------
(* PUSH_GRADIENTS: the critical section of GradientAggregator.submit.      *)

\* Seeded fault: whoever pushes opens the barrier.
ShouldApplyAtOnce(buf) == TRUE

\* Does the barrier open when the buffer holds the gradients of buf?
ShouldApply(buf) ==
    LET have == {WorkerOf(g.conn) : g \in buf}
        waiting_on == (alive \cap {WorkerOf(c) : c \in sockets}) \ have
    IN  IF MinReady <= 0 THEN waiting_on = {}
                         ELSE Cardinality(have \cap alive) >= MinReady

\* buffer[worker_id] = grads: an entry still there is overwritten.
BufferWith(c) == BufferWithout(WorkerOf(c)) \cup {Head(up[c]).gradients}

\* What every submit() does first.
Store(c) == /\ pc[c] = "recv"
            /\ Requested(c, "PUSH_GRADIENTS")
            /\ ServerRecv(c)
            /\ dropped' = dropped \cup (buffer \ BufferWith(c))

\* The threshold is not met: the gradient waits and the thread reads on.
SubmitAndWait(c) ==
    /\ Store(c)
    /\ ~ShouldApply(BufferWith(c))
    /\ buffer' = BufferWith(c)
    /\ UNCHANGED <<down, open, alive, sockets, storeVars, threadVars>>

\* Seeded faults: the buffer is not cleared; the ACKs go out before the weights are
\* updated; the thread forgets to acknowledge its own worker.
SubmitAndFireKeep(c) ==
    /\ Store(c)
    /\ ShouldApply(BufferWith(c))
    /\ buffer' = BufferWith(c)
    /\ round' = [round EXCEPT ![c] = BufferWith(c)]
    /\ acks' = [acks EXCEPT ![c] = sockets]
    /\ Goto(c, "apply")
    /\ UNCHANGED <<down, open, alive, sockets, storeVars, seen>>

SubmitAndFireAckFirst(c) ==
    /\ Store(c)
    /\ ShouldApply(BufferWith(c))
    /\ buffer' = {}
    /\ round' = [round EXCEPT ![c] = BufferWith(c)]
    /\ acks' = [acks EXCEPT ![c] = sockets]
    /\ Goto(c, "step")
    /\ UNCHANGED <<down, open, alive, sockets, storeVars, seen>>

SubmitAndFireOthers(c) ==
    /\ Store(c)
    /\ ShouldApply(BufferWith(c))
    /\ buffer' = {}
    /\ round' = [round EXCEPT ![c] = BufferWith(c)]
    /\ acks' = [acks EXCEPT ![c] = sockets \ {c}]
    /\ Goto(c, "apply")
    /\ UNCHANGED <<down, open, alive, sockets, storeVars, seen>>

\* The threshold is met: this thread takes every buffered gradient, and a copy of
\* the sockets to acknowledge, and leaves the barrier empty for the next round.
SubmitAndFire(c) ==
    /\ Store(c)
    /\ ShouldApply(BufferWith(c))
    /\ buffer' = {}
    /\ round' = [round EXCEPT ![c] = BufferWith(c)]
    /\ acks' = [acks EXCEPT ![c] = sockets]
    /\ Goto(c, "apply")
    /\ UNCHANGED <<down, open, alive, sockets, storeVars, seen>>
-----------------------------------------------------------------------------
(* The rest of submit(), outside the aggregator's lock.                    *)

ApplyGradients(c) ==
    /\ pc[c] = "apply"
    /\ global_step' = global_step + 1
    /\ applied' = applied \cup round[c]
    /\ round' = [round EXCEPT ![c] = {}]
    /\ Goto(c, "step")
    /\ UNCHANGED <<wireVars, alive, aggregatorVars, last_checkpoint_step,
                   checkpoint, acks, seen>>

\* Seeded fault: the step is the one before the update.
GetStepBefore(c) ==
    /\ pc[c] = "step"
    /\ seen' = [seen EXCEPT ![c] = global_step - 1]
    /\ Goto(c, "ack")
    /\ UNCHANGED <<wireVars, alive, aggregatorVars, storeVars, round, acks>>

\* weight_store.get_step takes the lock again: other rounds may have come between.
GetStep(c) ==
    /\ pc[c] = "step"
    /\ seen' = [seen EXCEPT ![c] = global_step]
    /\ Goto(c, "ack")
    /\ UNCHANGED <<wireVars, alive, aggregatorVars, storeVars, round, acks>>

\* Each socket of the copy gets an ACK, whether or not its worker contributed, and
\* in the order of the dictionary, which depends on who registered when.
SendAck(c) ==
    /\ pc[c] = "ack"
    /\ \E d \in acks[c] :
          /\ acks' = [acks EXCEPT ![c] = @ \ {d}]
          /\ ServerSend(d, Plain("ACK"))
    /\ UNCHANGED <<up, open, alive, aggregatorVars, storeVars, pc, round, seen>>

\* Seeded fault: one step too late.
CheckpointDueLate(c) == seen[c] - last_checkpoint_step > CheckpointInterval

CheckpointDue(c) == seen[c] - last_checkpoint_step >= CheckpointInterval

SkipCheckpoint(c) ==
    /\ pc[c] = "ack"
    /\ acks[c] = {}
    /\ ~CheckpointDue(c)
    /\ seen' = [seen EXCEPT ![c] = 0]
    /\ Goto(c, "recv")
    /\ UNCHANGED <<wireVars, alive, aggregatorVars, storeVars, round, acks>>

DecideCheckpoint(c) ==
    /\ pc[c] = "ack"
    /\ acks[c] = {}
    /\ CheckpointDue(c)
    /\ Goto(c, "mark")
    /\ UNCHANGED <<wireVars, alive, aggregatorVars, storeVars, round, acks, seen>>

MarkCheckpoint(c) ==
    /\ pc[c] = "mark"
    /\ last_checkpoint_step' = seen[c]
    /\ Goto(c, "save")
    /\ UNCHANGED <<wireVars, alive, aggregatorVars, global_step, checkpoint,
                   applied, round, acks, seen>>

\* Seeded fault: the checkpoint is labelled with the step of the round that saves it.
SaveCheckpointOfRound(c) ==
    /\ pc[c] = "save"
    /\ checkpoint' = seen[c]
    /\ seen' = [seen EXCEPT ![c] = 0]
    /\ Goto(c, "recv")
    /\ UNCHANGED <<wireVars, alive, aggregatorVars, global_step,
                   last_checkpoint_step, applied, round, acks>>

\* save_checkpoint writes what the store holds now, not what this round made.
SaveCheckpoint(c) ==
    /\ pc[c] = "save"
    /\ checkpoint' = global_step
    /\ seen' = [seen EXCEPT ![c] = 0]
    /\ Goto(c, "recv")
    /\ UNCHANGED <<wireVars, alive, aggregatorVars, global_step,
                   last_checkpoint_step, applied, round, acks>>

\* The write fails with OSError, which leaves submit() and ends this handler.  The
\* old file may be gone by then: open(path, "wb") truncates it first.
FailCheckpoint(c) ==
    /\ pc[c] = "save"
    /\ checkpoint' \in {checkpoint, 0}
    /\ seen' = [seen EXCEPT ![c] = 0]
    /\ Goto(c, "dead")
    /\ UNCHANGED <<wireVars, alive, aggregatorVars, global_step,
                   last_checkpoint_step, applied, round, acks>>
-----------------------------------------------------------------------------
(* The end of a handler: the finally clause of handle_worker.              *)

\* Seeded fault: the handler returns without its finally clause.
DisconnectAbruptly(c) ==
    /\ c \notin open
    /\ pc[c] \in {"anon", "recv"}
    /\ Goto(c, "closed")
    /\ up' = [up EXCEPT ![c] = <<>>]
    /\ UNCHANGED <<down, open, alive, aggregatorVars, storeVars, round, acks, seen>>

\* recv_message fails.  Requests that were not read yet may be lost with the
\* connection (a reset) or read before (an orderly close).
Disconnect(c) ==
    /\ c \notin open
    /\ \/ pc[c] = "anon" /\ Goto(c, "closed")
       \/ pc[c] = "recv" /\ Goto(c, "dead")
    /\ up' = [up EXCEPT ![c] = <<>>]
    /\ UNCHANGED <<down, open, alive, aggregatorVars, storeVars, round, acks, seen>>

\* Seeded fault: mark_dead leaves the status as it is.
MarkDeadNot(c) ==
    /\ pc[c] = "dead"
    /\ Goto(c, "unregister")
    /\ UNCHANGED <<wireVars, alive, aggregatorVars, storeVars, round, acks, seen>>

MarkDead(c) ==
    /\ pc[c] = "dead"
    /\ alive' = alive \ {WorkerOf(c)}
    /\ Goto(c, "unregister")
    /\ UNCHANGED <<wireVars, aggregatorVars, storeVars, round, acks, seen>>

\* Seeded faults: the buffered gradient stays; everybody's gradients go.
UnregisterSocketOnly(c) ==
    /\ pc[c] = "unregister"
    /\ sockets' = SocketsWithout(WorkerOf(c))
    /\ Goto(c, "closed")
    /\ UNCHANGED <<wireVars, alive, buffer, dropped, storeVars, round, acks, seen>>

UnregisterAll(c) ==
    /\ pc[c] = "unregister"
    /\ sockets' = SocketsWithout(WorkerOf(c))
    /\ buffer' = {}
    /\ dropped' = dropped \cup buffer
    /\ Goto(c, "closed")
    /\ UNCHANGED <<wireVars, alive, storeVars, round, acks, seen>>

\* Keyed by the worker id: the entries may belong to a later connection.
Unregister(c) ==
    /\ pc[c] = "unregister"
    /\ sockets' = SocketsWithout(WorkerOf(c))
    /\ buffer' = BufferWithout(WorkerOf(c))
    /\ dropped' = dropped \cup (buffer \ buffer')
    /\ Goto(c, "closed")
    /\ UNCHANGED <<wireVars, alive, storeVars, round, acks, seen>>

\* The heartbeat thread finds w silent for longer than its timeout.
Expire(w) ==
    /\ w \in alive
    /\ alive' = alive \ {w}
    /\ UNCHANGED <<wireVars, aggregatorVars, storeVars, threadVars>>

\* One step of the handler thread of c, in submit() or outside it.
Submit(c) ==
    \/ SubmitAndWait(c) \/ SubmitAndFire(c) \/ ApplyGradients(c) \/ GetStep(c)
    \/ SendAck(c) \/ SkipCheckpoint(c) \/ DecideCheckpoint(c)
    \/ MarkCheckpoint(c) \/ SaveCheckpoint(c)

Handler(c) ==
    \/ Accept(c) \/ Identify(c) \/ RegisterSocket(c)
    \/ HandlePull(c) \/ SendWeights(c) \/ HandleHeartbeat(c) \/ SendHeartbeatAck(c)
    \/ Submit(c) \/ Disconnect(c) \/ MarkDead(c) \/ Unregister(c)
=============================================================================
