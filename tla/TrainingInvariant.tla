-------------------------- MODULE TrainingInvariant --------------------------
(***************************************************************************)
(* The inductive invariant behind the properties of Training that hold in  *)
(* every mode and under every fault: why no pushed gradient is counted     *)
(* twice although threads, connections and incarnations overlap.           *)
(***************************************************************************)
EXTENDS Training

\* A worker that is still in its loop has iterations left.
LoopGuard == \A w \in Workers : wpc[w] # "done" => local_step[w] < MaxSteps

\* The pushes that the server has not read yet, by their place in the stream.
Pushes(c) == {i \in DOMAIN up[c] : up[c][i].type = "PUSH_GRADIENTS"}
Pushed(c, i) == up[c][i].gradients

\* The gradients that entered the aggregator at some time.
Taken == buffer \cup InRound \cup applied \cup dropped

\* How many pushes the current incarnation of w has made.
PushCount(w) == IF wpc[w] \in {"ack", "acked", "beat", "pull", "weights"}
                THEN local_step[w] + 1 ELSE local_step[w]

\* g comes from a past incarnation of its worker, or from an iteration that the
\* current one has reached.
IsPast(g) == LET w == WorkerOf(g.conn) IN
    /\ g.conn[2] <= inc[w]
    /\ g.conn[2] = inc[w] /\ wpc[w] \notin {"failed", "crashed"} =>
         g.step < PushCount(w)

\* A dictionary keyed by worker id.
Keyed(grads) == \A g, h \in grads : WorkerOf(g.conn) = WorkerOf(h.conn) => g = h
-----------------------------------------------------------------------------
BufferKeyed == Keyed(buffer) /\ \A c \in Conns : Keyed(round[c])

\* A thread holds a round from the end of the critical section to apply_gradients.
RoundInApply == \A c \in Conns : round[c] # {} <=> pc[c] = "apply"

\* No gradient is in two hands.
Disjoint == /\ \A c \in Conns : buffer \cap round[c] = {}
            /\ \A c, d \in Conns : c # d => round[c] \cap round[d] = {}

\* A connection carries the pushes of its own worker, in the order of the loop.
StreamOrdered == \A c \in Conns : \A i \in Pushes(c) :
    /\ Pushed(c, i).conn = c
    /\ \A j \in Pushes(c) : i < j => Pushed(c, i).step < Pushed(c, j).step

\* What is still to be read was pushed after everything that was read.
StreamFresh == \A c \in Conns : \A i \in Pushes(c) : \A g \in Taken :
    g.conn = c => g.step < Pushed(c, i).step

NothingFromTheFuture ==
    /\ \A c \in Conns : \A i \in Pushes(c) : IsPast(Pushed(c, i))
    /\ \A g \in Taken : IsPast(g)

Conservation == /\ BufferKeyed
                /\ RoundInApply
                /\ Disjoint
                /\ StreamOrdered
                /\ StreamFresh
                /\ NothingFromTheFuture

\* Whoever is in the aggregator's dictionaries is served by a thread, or by one
\* that is about to take it out.
Attended(c) == Serving(c) \/ pc[c] = "unregister"
EntriesAttended == /\ \A c \in sockets : Attended(c)
                   /\ \A g \in buffer : Attended(g.conn)

IInv == TypeOK /\ LoopGuard /\ Conservation /\ EntriesAttended
-----------------------------------------------------------------------------
(* Without disk faults: why no thread has to lock last_checkpoint_step.      *)

\* Nobody knows of a step that the store has not made.
StoreOrder == /\ last_checkpoint_step <= global_step
              /\ checkpoint <= global_step
              /\ \A c \in Conns : seen[c] <= global_step

\* The step marked as saved is on disk, or a thread is on its way to save it.
MarkIsBacked == \/ last_checkpoint_step <= checkpoint
                \/ \E c \in Conns : pc[c] = "save"

\* The newest step has a thread that has yet to compare it with the mark, or a save
\* is about to happen, or the file is recent enough.
StepIsWatched ==
    \/ \E c \in Conns : pc[c] = "step"
    \/ \E c \in Conns : pc[c] \in {"ack", "mark"} /\ seen[c] = global_step
    \/ \E c \in Conns : pc[c] = "save"
    \/ global_step - checkpoint < CheckpointInterval

CheckpointInv == StoreOrder /\ MarkIsBacked /\ StepIsWatched
=============================================================================
