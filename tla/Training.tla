------------------------------ MODULE Training ------------------------------
(***************************************************************************)
(* A training run: the worker processes and the parameter server, joined   *)
(* by their connections, with the faults the code is written for: a worker *)
(* is killed, a worker is silent for longer than the heartbeat timeout, a  *)
(* checkpoint cannot be written.                                           *)
(***************************************************************************)
EXTENDS ParameterServer, Worker

CONSTANTS FaultKinds,  \* the faults that may happen, among AllFaults
          MaxFaults    \* bound: how many of them in one behaviour

AllFaults == {"crash", "expire", "disk"}

ASSUME FaultAssumption == /\ FaultKinds \subseteq AllFaults
                          /\ MaxFaults \in Nat

VARIABLE faults  \* how many faults happened

vars == <<wireVars, serverVars, workerVars, faults>>

Init == WireInit /\ ServerInit /\ WorkerInit /\ faults = 0

\* The server closed its end of the connection that w waits on.
LoseConnection(w) == pc[ConnOf(w)] = "closed" /\ ConnectionLost(w)

Fault(kind) == /\ kind \in FaultKinds
               /\ faults < MaxFaults
               /\ faults' = faults + 1

Server == \E c \in Conns : Handler(c) /\ UNCHANGED <<workerVars, faults>>

WorkerProcess(w) == /\ WorkerStep(w) \/ LoseConnection(w)
                    /\ UNCHANGED <<serverVars, faults>>

Faulty ==
    \/ \E w \in Workers : Fault("crash") /\ Crash(w) /\ UNCHANGED serverVars
    \/ \E w \in Workers : Fault("expire") /\ Expire(w) /\ UNCHANGED workerVars
    \/ \E c \in Conns : Fault("disk") /\ FailCheckpoint(c) /\ UNCHANGED workerVars

Next == \/ Server
        \/ \E w \in Workers : WorkerProcess(w)
        \/ \E w \in Workers : Restart(w) /\ UNCHANGED <<serverVars, faults>>
        \/ Faulty

Spec == Init /\ [][Next]_vars

\* Threads and processes keep running; faults and restarts need not happen.
Fairness ==
    /\ \A c \in Conns : WF_vars(Handler(c) /\ UNCHANGED <<workerVars, faults>>)
    /\ \A w \in Workers : WF_vars(WorkerProcess(w))

FairSpec == Spec /\ Fairness

TypeOK == /\ WireTypeOK
          /\ ServerTypeOK
          /\ WorkerTypeOK
          /\ faults \in 0 .. MaxFaults
-----------------------------------------------------------------------------
(* What is still to be averaged: in the buffer, or in the hands of a round.*)

InRound == UNION {round[c] : c \in Conns}

SenderOf(g) == WorkerOf(g.conn)

Rounds == INSTANCE FedAvgRounds
            WITH Gradients <- Gradient, Sender <- SenderOf,
                 pending <- buffer \cup InRound, step <- global_step

\* The server's threads, with all their interleavings, implement the rounds: no
\* gradient is averaged twice, none comes back after it was dropped, and no two
\* rounds are counted as one (submit, apply_gradients, unregister).
ImplementsRounds == Rounds!Spec

\* A worker that was told ACK for its push: its delta is part of the weights it is
\* going to pull (submit sends the ACKs after apply_gradients).
AckMeansApplied ==
    \A w \in Workers : wpc[w] \in {"acked", "beat", "pull", "weights"} =>
                         Delta(w) \in applied

AllDone == \A w \in Workers : wpc[w] = "done"

\* No pushed delta is ever thrown away (submit overwrites, unregister pops).
NoLostGradient == dropped = {}

\* No worker process dies of a reply it did not ask for, or of a connection the
\* server closed (the assertions in client.py).
NoWorkerFails == \A w \in Workers : wpc[w] # "failed"

\* In synchronous mode only one thread at a time writes to a worker's socket: no round
\* acknowledges a worker whose own handler is about to reply, and no two rounds
\* acknowledge the same worker (send_message in submit and in handle_worker).
OneWriterPerSocket ==
    \A c, d \in Conns : d \in acks[c] /\ pc[c] = "ack" =>
        /\ pc[d] \notin {"weights", "beat"}
        /\ \A e \in Conns \ {c} : pc[e] = "ack" => d \notin acks[e]

\* The thread of c is in the part of submit() that no lock of the aggregator covers.
InSubmit(c) == pc[c] \in {"apply", "step", "ack", "mark", "save"}

\* In synchronous mode these parts never overlap, though no lock is held: the thread
\* that runs a round keeps its own worker's next push waiting, and no round goes
\* without it.  So metrics and checkpoints come in the order of the steps (submit).
RoundsOneByOne == \A c, d \in Conns : InSubmit(c) /\ InSubmit(d) => c = d

\* Once every worker has finished, no thread is in a round or saves a checkpoint:
\* terminating the server then cuts nothing short (main, handle_worker).
QuietAtTheEnd == AllDone => \A c \in Conns : ~InSubmit(c)

\* A delta is at most one update old when it is averaged (a worker may pull while a
\* round that does not wait for it is between submit and apply_gradients).
StaleByAtMostOne ==
    \A c \in Conns : \A g \in round[c] : global_step - base[WorkerOf(g.conn)] <= 1

\* Every delta was computed against the weights it is averaged into.
ExactFedAvg ==
    \A c \in Conns : \A g \in round[c] : base[WorkerOf(g.conn)] = global_step
-----------------------------------------------------------------------------
(* What the server keeps of a worker, and the threads that serve it.        *)

\* The handler has identified its worker and has not begun to clean up after it.
Serving(c) == pc[c] \notin {"off", "anon", "unregister", "closed"}

\* The barrier waits for no worker that no thread serves: a probe that never names
\* a worker, or a worker whose handler is gone (register, mark_dead).
AliveIsServed ==
    \A w \in alive : \E c \in Conns : WorkerOf(c) = w /\ Serving(c)

\* A handler that has ended leaves neither a socket to acknowledge nor a gradient
\* for a later round behind (register_socket, submit, unregister).
NothingLeftBehind ==
    \A c \in Conns : pc[c] = "closed" =>
                       c \notin sockets /\ \A g \in buffer : g.conn # c
-----------------------------------------------------------------------------
(* Checkpoints.                                                             *)

\* Between GetStep and the end of submit() a round may still save.
MidRound(c) == pc[c] \in {"step", "ack", "mark", "save"}

\* Once no round is under way, the file on disk is less than checkpoint_interval
\* steps behind, whatever the order in which concurrent rounds took their steps and
\* wrote last_checkpoint_step (_maybe_checkpoint takes no lock).
CheckpointCadence ==
    (\A c \in Conns : ~MidRound(c)) => global_step - checkpoint < CheckpointInterval

\* The file on disk never goes back to an older step (save_checkpoint).
CheckpointMonotone == [][checkpoint' >= checkpoint]_vars
-----------------------------------------------------------------------------
(* Progress.                                                                *)

\* Nobody pushes before every worker has joined, that is pulled its first weights.
AllTogether == \A v, w \in Workers :
                 wpc[w] = "ack" => wpc[v] \notin {"start", "connected", "first"}

\* Workers that start together all run their max_steps iterations to the end, and
\* together make that many updates of the global weights, the meaning config.py gives
\* the number (submit counts alive and registered workers, and acknowledges everyone).
TogetherAllFinish == []AllTogether => <>(AllDone /\ global_step = MaxSteps)

\* Even when workers crash, a worker that waits at the barrier is released: the dead
\* one is marked DEAD and unregistered (mark_dead, unregister, submit).
SurvivorsGoOn ==
    []AllTogether => \A w \in Workers : wpc[w] = "ack" ~> wpc[w] # "ack"
=============================================================================
