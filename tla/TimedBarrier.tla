---------------------------- MODULE TimedBarrier ----------------------------
(***************************************************************************)
(* The gradient barrier and the heartbeat monitor on one clock.  A worker  *)
(* that waits for its ACK sends no heartbeat, so the barrier itself makes  *)
(* the silence by which the monitor judges, and the monitor decides whom   *)
(* the barrier counts.  A unit of time is long: a round, its ACKs and the  *)
(* heartbeats after it take less than one.  Nobody crashes.                *)
(***************************************************************************)
EXTENDS Integers, FiniteSets

CONSTANTS Workers, CheckInterval, Timeout, HeartbeatInterval, Slack, MaxTime,
          MaxCompute,  \* the longest rollout and its epochs
          JoinWithin,  \* quorum mode: the last worker joins at most so late
          MinReadies   \* config.min_ready_workers: the values to look at

VARIABLES clock, status, last_seen, phase, now, wake, life, started, last_heartbeat,
          unread, closing, struck,  \* nobody crashes: no handler lingers and strikes
          min_ready,  \* config.min_ready_workers
          buffer,     \* GradientAggregator.buffer: who has pushed
          at          \* at[w]: what the loop of w does

\* From one heartbeat point to the next: in synchronous mode a worker may wait for all
\* the others in turn, when each joins just before the barrier would have opened.
LongestIteration == LET chain == Cardinality(Workers) * MaxCompute
                        joining == JoinWithin + MaxCompute
                    IN  IF chain > joining THEN chain ELSE joining

ASSUME BarrierAssumption ==
    /\ IsFiniteSet(Workers) /\ Workers # {}
    /\ CheckInterval \in Nat \ {0} /\ Timeout \in Nat /\ HeartbeatInterval \in Nat
    /\ Slack \in Nat /\ MaxTime \in Nat /\ MaxCompute \in Nat /\ JoinWithin \in Nat
    /\ MinReadies \subseteq Nat

Monitor == INSTANCE HeartbeatMonitor WITH MaxIteration <- LongestIteration, MaxLinger <- 0

monitorVars == <<clock, status, last_seen, phase, now, wake, life, started,
                 last_heartbeat, unread, closing, struck>>
vars == <<monitorVars, min_ready, buffer, at>>

Init == /\ Monitor!Init
        /\ min_ready \in MinReadies
        /\ buffer = {}
        /\ at = [w \in Workers |-> "away"]

Joined == {w \in Workers : at[w] # "away"}
Alive == {w \in Workers : status[w] = "ALIVE"}

Join(w) == /\ at[w] = "away"
           /\ min_ready > 0 => clock <= Monitor!Boot + JoinWithin
           /\ Monitor!Register(w)
           /\ at' = [at EXCEPT ![w] = "compute"]
           /\ UNCHANGED <<min_ready, buffer>>

\* Seeded fault: the barrier waits for every configured worker.
ShouldApplyAll(have) == IF min_ready = 0 THEN Workers \subseteq have
                                         ELSE Cardinality(have \cap Alive) >= min_ready

ShouldApply(have) == IF min_ready = 0 THEN Alive \cap Joined \subseteq have
                                      ELSE Cardinality(have \cap Alive) >= min_ready

\* An ACK reaches all who joined; one who still computes does not wait for it.
Submit(w) ==
    /\ at[w] = "compute"
    /\ IF ShouldApply(buffer \cup {w})
       THEN /\ buffer' = {}
            /\ at' = [v \in Workers |-> IF v \in buffer \cup {w} THEN "acked"
                                        ELSE IF v \in Joined THEN "stray" ELSE at[v]]
       ELSE /\ buffer' = buffer \cup {w}
            /\ at' = [at EXCEPT ![w] = "barrier"]
    /\ UNCHANGED <<monitorVars, min_ready>>

\* The ACK is read, a heartbeat is sent if one is due, and the next rollout begins.
EndIteration(w) == /\ at[w] = "acked"
                   /\ Monitor!EndIteration(w)
                   /\ at' = [at EXCEPT ![w] = "compute"]
                   /\ UNCHANGED <<min_ready, buffer>>

Scanning == (Monitor!ReadClock \/ Monitor!Scan) /\ UNCHANGED <<min_ready, buffer, at>>

\* Time passes at the barrier, and while nobody computes longer than it may.
Tick == /\ clock < MaxTime
        /\ phase = "waiting" => clock < wake + Slack
        /\ phase = "locking" => clock < now + Slack
        /\ \A w \in Workers : /\ at[w] # "acked"
                              /\ at[w] = "compute" => clock - started[w] < MaxCompute
        /\ min_ready > 0 /\ clock >= Monitor!Boot + JoinWithin => Joined = Workers
        /\ clock' = clock + 1
        /\ UNCHANGED <<status, last_seen, phase, now, wake, life, started, last_heartbeat,
                       unread, closing, struck, min_ready, buffer, at>>

Next == Scanning \/ Tick \/ \E w \in Workers : Join(w) \/ Submit(w) \/ EndIteration(w)

Spec == Init /\ [][Next]_vars
-----------------------------------------------------------------------------
\* The barrier keeps the promise the monitor relies on: no worker waits so long that
\* its iteration exceeds LongestIteration, joins one after the other included.
IterationsBounded == Monitor!Spec

\* What the monitor's timing is good for.
TimingFits == LongestIteration + HeartbeatInterval <= Timeout

\* When the timing fits, no round leaves out a worker that still computes and
\* surprises it with an ACK: silence at the barrier and long rollouts do not make a
\* working worker DEAD (submit, alive_workers).
NoStrayAck == TimingFits => \A w \in Workers : at[w] # "stray"

\* When the timing fits, they never all wait: the last to push finds the others still
\* ALIVE, although they have sent nothing since they came to the barrier, and a
\* quorum is reached (submit, ready_count).
NeverAllWaiting == TimingFits => \E w \in Workers : at[w] # "barrier"
-----------------------------------------------------------------------------
(* Why these hold: the inductive invariant, when the timing fits and the     *)
(* barrier waits for everybody (a smaller quorum makes stray ACKs anyway).   *)

EverybodyCounts == MinReadies \subseteq {0, Cardinality(Workers)}

InRound == {w \in Workers : at[w] \in {"compute", "barrier"}}
AllJoined == Joined = Workers

Stages == /\ min_ready \in MinReadies
          /\ at \in [Workers -> {"away", "compute", "barrier", "acked"}]
          /\ buffer = {w \in Workers : at[w] = "barrier"}
          /\ clock >= Monitor!Boot
          /\ \A w \in Workers : /\ life[w] = IF at[w] = "away" THEN "new" ELSE "looping"
                                /\ ~struck[w]
                                /\ started[w] <= clock
                                /\ at[w] = "compute" => clock - started[w] <= MaxCompute

\* The first to read its ACK may be back in a rollout, or even at the barrier, before
\* the last has read it.
ReadingAcks == (\E v \in Workers : at[v] = "acked") =>
                 /\ \A w \in InRound : started[w] = clock
                 /\ min_ready > 0 => AllJoined

\* Somebody is still to come: in synchronous mode one of those who joined.
SomebodyOut == /\ \E v \in Workers : at[v] # "barrier"
               /\ min_ready = 0 /\ buffer # {} =>
                    \E v \in Workers : at[v] \in {"compute", "acked"}

\* How far apart the iterations of one round begin.  In synchronous mode each worker
\* that joins can do so while another one computes, and each joins once.
Spread == \A v, w \in InRound :
            started[v] - started[w] <= IF min_ready = 0
                                       THEN MaxCompute * (Cardinality(Joined) - 1)
                                       ELSE JoinWithin

\* A quorum of all is not reached before all have joined, which takes a while.
QuorumJoins == min_ready > 0 /\ ~AllJoined =>
                 /\ clock <= Monitor!Boot + JoinWithin
                 /\ \A w \in Joined : started[w] >= Monitor!Boot

BarrierInv == /\ Monitor!MonitorInv
              /\ Stages /\ ReadingAcks /\ SomebodyOut /\ Spread /\ QuorumJoins
=============================================================================
