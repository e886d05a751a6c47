---------------------------- MODULE SyncInvariant ----------------------------
(***************************************************************************)
(* Why synchronous training is as orderly as a program that took one big   *)
(* lock would be, even when workers are killed for good.  Each worker and  *)
(* the thread that serves it take turns on their one connection; the       *)
(* barrier ties the turns of all of them together; and the thread that     *)
(* runs a round holds the next round back, because it does not read its    *)
(* own worker's next push.  The thread of a killed worker finishes what    *)
(* the worker had asked for, and the barrier waits for it until it has     *)
(* cleaned up.                                                             *)
(***************************************************************************)
EXTENDS TrainingInvariant

\* config.min_ready_workers = 0, and nothing breaks.
Sync == MinReady = 0 /\ FaultKinds = {}

\* The same, but workers may be killed if none is started again.
CrashStop == /\ MinReady = 0
             /\ FaultKinds \subseteq {"crash"}
             /\ MaxRestarts = 0 \/ FaultKinds = {}

\* The only connection that worker w ever opens.
Main(w) == <<w, 0>>

\* One message on c, in one direction, or none.
Silent(c) == up[c] = <<>> /\ down[c] = <<>>
Asked(c, m) == up[c] = <<m>> /\ down[c] = <<>>
Answered(c, type) == /\ up[c] = <<>>
                     /\ Len(down[c]) = 1
                     /\ down[c][1].type = type

\* Where the thread may be that has not read its worker's message yet: still getting
\* to its loop, or in the rest of the round that the worker's last push opened.
Arriving == {"off", "anon", "register", "recv"}
Late == {"recv", "ack", "mark", "save"}

\* A request of a type, on its way; in the hands of the thread; or answered.
Exchange(c, type, reading, working, reply) ==
    \/ Asked(c, Plain(type)) /\ pc[c] \in reading
    \/ Silent(c) /\ pc[c] = working
    \/ Answered(c, reply) /\ pc[c] = "recv"

\* Some round still has to acknowledge c.
Owed(c) == \E e \in Conns : c \in acks[e]

\* A worker that has pushed: its delta is unread, in the buffer, in a round, or
\* acknowledged.
Waiting(w) == LET c == Main(w) IN
    \/ Asked(c, Push(Delta(w))) /\ pc[c] = "recv"
    \/ Silent(c) /\ Delta(w) \in buffer
    \/ Silent(c) /\ Owed(c)
    \/ Answered(c, "ACK") /\ Delta(w) \in applied /\ pc[c] \in Late

\* What a killed worker leaves to its thread: at most one request that is not read yet.
Left(w) == LET c == Main(w) IN
    /\ down[c] = <<>>
    /\ up[c] # <<>> =>
         \/ Asked(c, Plain("PULL_WEIGHTS")) /\ pc[c] \in Arriving \cup Late
         \/ Asked(c, Plain("HEARTBEAT")) /\ pc[c] \in Late
         \/ Asked(c, Push(Delta(w))) /\ pc[c] = "recv"

\* The turns that w and its thread take.
Dialogue(w) == LET c == Main(w) IN
    /\ c \in open <=> wpc[w] \notin {"start", "done", "crashed"}
    /\ wpc[w] = "start" => Silent(c) /\ pc[c] = "off"
    /\ wpc[w] = "connected" => Silent(c) /\ pc[c] \in {"off", "anon"}
    /\ wpc[w] = "first" =>
         Exchange(c, "PULL_WEIGHTS", Arriving, "weights", "WEIGHTS_RESPONSE")
    /\ wpc[w] = "rollout" => Silent(c) /\ pc[c] = "recv"
    /\ wpc[w] = "ack" => Waiting(w)
    /\ wpc[w] \in {"acked", "pull"} => Silent(c) /\ pc[c] \in Late
    /\ wpc[w] = "beat" =>
         Exchange(c, "HEARTBEAT", Late, "beat", "HEARTBEAT_ACK")
    /\ wpc[w] = "weights" =>
         Exchange(c, "PULL_WEIGHTS", Late, "weights", "WEIGHTS_RESPONSE")
    /\ wpc[w] = "done" =>
         Silent(c) /\ pc[c] \in {"recv", "dead", "unregister", "closed"}
    /\ wpc[w] = "crashed" => Left(w)
    /\ wpc[w] # "failed"

TakingTurns == \A w \in Workers : Dialogue(w)

\* No worker is started again, so no other connection is ever used.
OneConnection == /\ \A w \in Workers : inc[w] = 0
                 /\ \A c \in Conns : c[2] # 0 =>
                      pc[c] = "off" /\ up[c] = <<>> /\ c \notin open

\* The two dictionaries say who is served: a thread enters its worker in the monitor
\* before the aggregator, and takes it out in the same order.
NotEntered == {"off", "anon", "register"}
Membership == \A c \in Conns :
    /\ c \in sockets <=> pc[c] \notin NotEntered \cup {"closed"}
    /\ pc[c] \in {"register", "recv", "weights", "beat"} \/ InSubmit(c) =>
         WorkerOf(c) \in alive
-----------------------------------------------------------------------------
(* The barrier.                                                             *)

\* A buffered delta is the latest of a worker that waits, or was killed, and is owed
\* nothing yet; its thread is not in a round.
Leaving == {"dead", "unregister"}
BufferWaits == \A g \in buffer : LET w == WorkerOf(g.conn) IN
    /\ g = Delta(w) /\ Silent(g.conn) /\ ~Owed(g.conn)
    /\ \/ wpc[w] = "ack" /\ pc[g.conn] = "recv"
       \/ wpc[w] = "crashed" /\ pc[g.conn] \in {"recv"} \cup Leaving

\* Whom a round has to acknowledge: workers whose delta it took and who wait for
\* just that, and workers that are gone.
RoundOwes == \A e, d \in Conns : d \in acks[e] => LET w == WorkerOf(d) IN
    /\ d = Main(w) /\ pc[e] \in {"apply", "step", "ack"}
    /\ \/ wpc[w] = "done"
       \/ /\ wpc[w] = "ack" /\ Silent(d) /\ (pc[d] = "recv" \/ d = e)
          /\ Delta(w) \in (IF pc[e] = "apply" THEN round[e] ELSE applied)
       \/ /\ wpc[w] = "crashed" /\ Silent(d)
          /\ pc[d] \in {"recv", "closed"} \cup Leaving \/ d = e

\* Every delta of a round is to be acknowledged, and the first to wait for that is
\* the worker whose thread runs the round, unless it was killed.
RoundOwed == \A e \in Conns :
    /\ \A g \in round[e] : /\ g.conn \in acks[e]
                           /\ wpc[WorkerOf(g.conn)] \in {"ack", "crashed"}
    /\ pc[e] \in {"apply", "step"} => e \in acks[e]

Barrier == BufferWaits /\ RoundOwes /\ RoundOwed
-----------------------------------------------------------------------------
(* The age of the weights.                                                  *)

\* Weights of this version will still be at most one update old when a delta that is
\* computed from them is averaged.
UpToDate(version) ==
    /\ global_step <= version + 1
    /\ global_step = version + 1 => \A e \in Conns : pc[e] # "apply"

\* The version that w holds, or is about to hold, while no round has its delta.
Fresh(w) == LET c == Main(w) IN
    /\ pc[c] = "weights" => UpToDate(seen[c])
    /\ Answered(c, "WEIGHTS_RESPONSE") => UpToDate(down[c][1].weights)
    /\ wpc[w] = "rollout" => UpToDate(base[w])
    /\ up[c] = <<Push(Delta(w))>> => UpToDate(base[w])
    /\ Delta(w) \in buffer => UpToDate(base[w])

FreshWeights == \A w \in Workers : Fresh(w)

\* What the aggregator discards was pushed by a worker that was killed; without faults
\* nobody is.
OnlyTheKilledLose == \A g \in dropped : wpc[WorkerOf(g.conn)] = "crashed"
NobodyKilled == FaultKinds = {} => \A w \in Workers : wpc[w] # "crashed"

Losses == OnlyTheKilledLose /\ NobodyKilled

SyncInv == /\ OneConnection
           /\ Membership
           /\ TakingTurns
           /\ Barrier
           /\ RoundsOneByOne
           /\ FreshWeights
           /\ Losses
           /\ AckMeansApplied
           /\ StaleByAtMostOne
=============================================================================
