-------------------------- MODULE HeartbeatProofs --------------------------
(***************************************************************************)
(* The two bounds of the heartbeat monitor, for every number of workers    *)
(* and every timing: MonitorInv is inductive, and it implies both.         *)
(***************************************************************************)
EXTENDS HeartbeatMonitor, TLAPS

\* The state after Init is one in which the monitor thread waits and nobody is ALIVE.
LEMMA InitInv == Init => MonitorInv
<1> SUFFICES ASSUME Init PROVE MonitorInv
  OBVIOUS
<1> USE TimingAssumption DEF Init, Boot
<1>1. TypeOK
  BY DEF TypeOK
<1>2. LoopOnTime
  BY DEF LoopOnTime
<1>3. LoopersSeen /\ ScannedRecently /\ DeadOnlyIfStruck
  BY DEF LoopersSeen, ScannedRecently, DeadOnlyIfStruck
<1> QED
  BY <1>1, <1>2, <1>3 DEF MonitorInv

\* Seeing a worker restarts its time and touches nobody else's (register, beat).
LEMMA SeenKeeps ==
  ASSUME MonitorInv, NEW w \in Workers, Seen(w), UNCHANGED <<clock, loopVars>>
  PROVE  /\ status' \in [Workers -> {"UNKNOWN", "ALIVE", "DEAD"}]
         /\ last_seen' \in [Workers -> Nat]
         /\ \A v \in Workers : v # w => /\ status'[v] = status[v]
                                        /\ last_seen'[v] = last_seen[v]
         /\ status'[w] = "ALIVE"
         /\ last_seen'[w] = clock
         /\ struck' \in [Workers -> BOOLEAN]
         /\ \A v \in Workers : v # w => struck'[v] = struck[v]
         /\ ScannedRecently'
<1>1. /\ status' \in [Workers -> {"UNKNOWN", "ALIVE", "DEAD"}]
      /\ last_seen' \in [Workers -> Nat]
      /\ \A v \in Workers : v # w => /\ status'[v] = status[v]
                                     /\ last_seen'[v] = last_seen[v]
      /\ status'[w] = "ALIVE"
      /\ last_seen'[w] = clock
      /\ struck' \in [Workers -> BOOLEAN]
      /\ \A v \in Workers : v # w => struck'[v] = struck[v]
  BY DEF Seen, MonitorInv, TypeOK
<1>2. ASSUME NEW v \in Workers, status'[v] = "ALIVE"
      PROVE  IF phase' = "waiting"
               THEN wake' - last_seen'[v] <= Timeout + CheckInterval + Slack
               ELSE now' - last_seen'[v] <= Timeout + CheckInterval + 2 * Slack
  <2>1. CASE v = w
    BY <1>1, <2>1, TimingAssumption DEF MonitorInv, LoopOnTime, TypeOK, loopVars
  <2>2. CASE v # w
    BY <1>1, <1>2, <2>2 DEF MonitorInv, ScannedRecently, loopVars
  <2> QED
    BY <2>1, <2>2
<1> QED
  BY <1>1, <1>2 DEF ScannedRecently

\* Every step of the handlers, the workers, the monitor's thread and the clock
\* keeps MonitorInv.
LEMMA NextInv ==
  ASSUME MonitorInv, [Next]_vars
  PROVE  MonitorInv'
<1> USE TimingAssumption
<1>1. ASSUME NEW w \in Workers, Register(w) PROVE MonitorInv'
  <2> USE <1>1 DEF Register, oldVars
  <2>1. Seen(w) /\ UNCHANGED <<clock, loopVars>>
    OBVIOUS
  <2>2. TypeOK'
    BY <2>1, SeenKeeps DEF MonitorInv, TypeOK, loopVars
  <2>3. LoopOnTime'
    BY <2>1, SeenKeeps DEF MonitorInv, TypeOK, LoopOnTime, loopVars
  <2>4. LoopersSeen'
    BY <2>1, SeenKeeps DEF MonitorInv, TypeOK, LoopersSeen
  <2>5. DeadOnlyIfStruck'
    BY <2>1, SeenKeeps DEF MonitorInv, TypeOK, DeadOnlyIfStruck
  <2> QED
    BY <2>1, <2>2, <2>3, <2>4, <2>5, SeenKeeps DEF MonitorInv
<1>2. ASSUME NEW w \in Workers, EndIteration(w), HeartbeatDue(w) PROVE MonitorInv'
  <2> USE <1>2 DEF EndIteration, oldVars
  <2>1. Seen(w) /\ UNCHANGED <<clock, loopVars>>
    OBVIOUS
  <2>2. TypeOK'
    BY <2>1, SeenKeeps DEF MonitorInv, TypeOK, loopVars
  <2>3. LoopOnTime'
    BY <2>1, SeenKeeps DEF MonitorInv, TypeOK, LoopOnTime, loopVars
  <2>4. LoopersSeen'
    BY <2>1, SeenKeeps DEF MonitorInv, TypeOK, LoopersSeen
  <2>5. DeadOnlyIfStruck'
    BY <2>1, SeenKeeps DEF MonitorInv, TypeOK, DeadOnlyIfStruck
  <2> QED
    BY <2>1, <2>2, <2>3, <2>4, <2>5, SeenKeeps DEF MonitorInv
<1>3. ASSUME NEW w \in Workers, EndIteration(w), ~HeartbeatDue(w) PROVE MonitorInv'
  <2> USE <1>3 DEF EndIteration, monitorVars, loopVars, oldVars
  <2>1. TypeOK' /\ LoopOnTime' /\ ScannedRecently' /\ DeadOnlyIfStruck'
    BY DEF MonitorInv, TypeOK, LoopOnTime, ScannedRecently, DeadOnlyIfStruck
  <2>2. ASSUME NEW v \in Workers, life'[v] = "looping"
        PROVE  /\ clock' - started'[v] <= MaxIteration
               /\ started'[v] - last_seen'[v] <= HeartbeatInterval
               /\ last_heartbeat'[v] <= last_seen'[v]
    <3>1. CASE v = w
      <4>1. clock - last_heartbeat[w] <= HeartbeatInterval
        BY DEF HeartbeatDue, MonitorInv, TypeOK
      <4>2. last_heartbeat[w] <= last_seen[w]
        BY DEF MonitorInv, LoopersSeen
      <4> QED
        BY <3>1, <4>1, <4>2 DEF MonitorInv, TypeOK
    <3>2. CASE v # w
      BY <2>2, <3>2 DEF MonitorInv, TypeOK, LoopersSeen
    <3> QED
      BY <3>1, <3>2
  <2> QED
    BY <2>1, <2>2 DEF MonitorInv, LoopersSeen
<1>4. ASSUME NEW w \in Workers, FallSilent(w) \/ Break(w) PROVE MonitorInv'
  <2>0. /\ life' \in [Workers -> {"new", "looping", "silent", "gone"}] /\ life'[w] # "looping"
        /\ \A v \in Workers : v # w => /\ life'[v] = life[v]
                                       /\ started'[v] = started[v]
                                       /\ last_heartbeat'[v] = last_heartbeat[v]
        /\ UNCHANGED <<clock, status, last_seen, phase, now, wake, struck>>
    BY <1>4 DEF FallSilent, Break, Forget, monitorVars, loopVars, MonitorInv, TypeOK
  <2>1. TypeOK'
    BY <1>4, <2>0 DEF FallSilent, Break, Forget, oldVars, MonitorInv, TypeOK
  <2>2. LoopOnTime' /\ ScannedRecently'
    BY <2>0 DEF MonitorInv, LoopOnTime, ScannedRecently
  <2>3. LoopersSeen' /\ DeadOnlyIfStruck'
    BY <2>0 DEF MonitorInv, LoopersSeen, DeadOnlyIfStruck
  <2> QED
    BY <2>1, <2>2, <2>3 DEF MonitorInv
<1>5. ASSUME NEW w \in Workers, MarkDead(w) PROVE MonitorInv'
  <2> USE <1>5 DEF MarkDead, loopVars, workerVars
  <2>1. TypeOK' /\ LoopOnTime' /\ LoopersSeen' /\ ScannedRecently'
    BY DEF MonitorInv, TypeOK, LoopOnTime, LoopersSeen, ScannedRecently
  <2>2. ASSUME NEW v \in Workers, life[v] = "looping"
        PROVE  clock - last_seen[v] <= MaxIteration + HeartbeatInterval
    BY <2>2 DEF MonitorInv, TypeOK, LoopersSeen
  <2>3. DeadOnlyIfStruck'
    BY <2>2 DEF MonitorInv, TypeOK, DeadOnlyIfStruck
  <2> QED
    BY <2>1, <2>3 DEF MonitorInv
<1>6. ASSUME NEW w \in Workers, BeatLate(w) PROVE MonitorInv'
  <2> USE <1>6 DEF BeatLate, workerVars
  <2>1. Seen(w) /\ UNCHANGED <<clock, loopVars>>
    OBVIOUS
  <2>2. TypeOK'
    BY <2>1, SeenKeeps DEF MonitorInv, TypeOK, loopVars
  <2>3. LoopOnTime'
    BY <2>1, SeenKeeps DEF MonitorInv, TypeOK, LoopOnTime, loopVars
  <2>4. ASSUME NEW v \in Workers, life[v] = "looping"
        PROVE  /\ clock - started[v] <= MaxIteration
               /\ started[v] - last_seen'[v] <= HeartbeatInterval
               /\ last_heartbeat[v] <= last_seen'[v]
    <3>1. /\ clock - started[v] <= MaxIteration
          /\ started[v] - last_seen[v] <= HeartbeatInterval
          /\ last_heartbeat[v] <= last_seen[v]
          /\ last_seen[v] <= clock
      BY <2>4 DEF MonitorInv, LoopersSeen, LoopOnTime
    <3>2. /\ clock \in Nat /\ started[v] \in Nat /\ last_heartbeat[v] \in Nat
          /\ last_seen[v] \in Nat
      BY DEF MonitorInv, TypeOK
    <3>3. last_seen'[v] = last_seen[v] \/ last_seen'[v] = clock
      BY <2>1, SeenKeeps
    <3> QED
      BY <3>1, <3>2, <3>3
  <2>5. DeadOnlyIfStruck'
    BY <2>1, SeenKeeps DEF MonitorInv, TypeOK, DeadOnlyIfStruck
  <2> QED
    BY <2>1, <2>2, <2>3, <2>4, <2>5, SeenKeeps DEF MonitorInv, LoopersSeen
<1>7. ASSUME ReadClock PROVE MonitorInv'
  <2> USE <1>7 DEF ReadClock, monitorVars, workerVars, oldVars
  <2>1. TypeOK' /\ LoopOnTime' /\ LoopersSeen' /\ DeadOnlyIfStruck'
    BY DEF MonitorInv, TypeOK, LoopOnTime, LoopersSeen, DeadOnlyIfStruck
  <2>2. ScannedRecently'
    BY DEF MonitorInv, TypeOK, LoopOnTime, ScannedRecently
  <2> QED
    BY <2>1, <2>2 DEF MonitorInv
<1>8. ASSUME Scan PROVE MonitorInv'
  <2> USE <1>8 DEF Scan, workerVars, oldVars
  <2>1. TypeOK' /\ LoopOnTime' /\ LoopersSeen'
    BY DEF MonitorInv, TypeOK, LoopOnTime, LoopersSeen
  <2>2. ScannedRecently'
    BY DEF MonitorInv, TypeOK, LoopOnTime, ScannedRecently, Overdue
  <2>3. ASSUME MaxIteration + HeartbeatInterval <= Timeout,
               NEW w \in Workers, life'[w] = "looping", status'[w] # "ALIVE"
        PROVE  struck'[w] /\ clock' - last_seen'[w] <= MaxIteration + HeartbeatInterval
    <3>1. clock - last_seen[w] <= MaxIteration + HeartbeatInterval
      BY <2>3 DEF MonitorInv, TypeOK, LoopersSeen
    <3>2. ~Overdue(w)
      BY <2>3, <3>1 DEF MonitorInv, TypeOK, LoopOnTime, Overdue
    <3>3. status[w] # "ALIVE"
      BY <2>3, <3>2 DEF MonitorInv, TypeOK
    <3> QED
      BY <2>3, <3>1, <3>3 DEF MonitorInv, DeadOnlyIfStruck
  <2> QED
    BY <2>1, <2>2, <2>3 DEF MonitorInv, DeadOnlyIfStruck
<1>9. ASSUME Tick PROVE MonitorInv'
  <2> USE <1>9 DEF Tick, monitorVars, loopVars, workerVars, oldVars
  <2>1. TypeOK' /\ LoopOnTime' /\ ScannedRecently'
    BY DEF MonitorInv, TypeOK, LoopOnTime, ScannedRecently
  <2>2. LoopersSeen'
    BY DEF MonitorInv, TypeOK, LoopersSeen
  <2>3. ASSUME NEW w \in Workers, life[w] = "looping"
        PROVE  clock' - last_seen[w] <= MaxIteration + HeartbeatInterval
    BY <2>3 DEF MonitorInv, TypeOK, LoopersSeen
  <2>4. DeadOnlyIfStruck'
    BY <2>3 DEF MonitorInv, DeadOnlyIfStruck
  <2> QED
    BY <2>1, <2>2, <2>4 DEF MonitorInv
<1>10. CASE UNCHANGED vars
  BY <1>10 DEF vars, monitorVars, loopVars, workerVars, oldVars, MonitorInv, TypeOK,
              LoopOnTime, LoopersSeen, ScannedRecently, DeadOnlyIfStruck
<1> QED
  BY <1>1, <1>2, <1>3, <1>4, <1>5, <1>6, <1>7, <1>8, <1>9, <1>10 DEF Next, WorkerNext
-----------------------------------------------------------------------------
\* MonitorInv holds for any number of workers and any timing: the variables keep
\* their types, and the scan of _loop is never later than the delays allow.
THEOREM MonitorInvariance == Spec => []MonitorInv
<1>1. MonitorInv /\ [Next]_vars => MonitorInv'
  BY NextInv
<1> QED
  BY InitInv, <1>1, PTL DEF Spec

\* A worker whose iterations, with one heartbeat interval, fit into the timeout is DEAD
\* while it loops only if an old handler's mark_dead hit it since it was last seen, and
\* no longer than that iteration and interval (handle_worker, _loop, worker_main).
THEOREM OnlyStruck == Spec => []DeadOnlyIfStruck
<1>1. MonitorInv => DeadOnlyIfStruck
  BY DEF MonitorInv
<1> QED
  BY MonitorInvariance, <1>1, PTL

\* A silent worker is DEAD after the timeout, one wait and the scheduling delays, so
\* that the barrier does not count on it for longer (heartbeat_monitor._loop).
THEOREM Noticed == Spec => []SilenceIsNoticed
<1>1. MonitorInv => SilenceIsNoticed
  BY TimingAssumption
     DEF MonitorInv, TypeOK, LoopOnTime, ScannedRecently, SilenceIsNoticed
<1> QED
  BY MonitorInvariance, <1>1, PTL

\* No worker is declared DEAD too early, but by an old handler's mark_dead, although the scan judges by a clock that was
\* read before the lock was taken (heartbeat_monitor._loop).
THEOREM NotEarly == Spec => NoEarlyDeath
<1>1. ASSUME MonitorInv, [Next]_vars
      PROVE  [\A w \in Workers : status[w] = "ALIVE" /\ status'[w] = "DEAD" =>
                closing'[w] < closing[w] \/ clock - last_seen[w] > Timeout]_vars
  <2>1. ASSUME NEW w \in Workers, status[w] = "ALIVE", status'[w] = "DEAD"
        PROVE  closing'[w] < closing[w] \/ clock - last_seen[w] > Timeout
    <3>1. CASE Scan
      BY <1>1, <2>1, <3>1, TimingAssumption
         DEF Scan, Overdue, MonitorInv, TypeOK, LoopOnTime
    <3>2. ASSUME NEW v \in Workers, MarkDead(v)
          PROVE  closing'[w] < closing[w] \/ clock - last_seen[w] > Timeout
      BY <1>1, <2>1, <3>2 DEF MarkDead, MonitorInv, TypeOK
    <3>3. ASSUME NEW v \in Workers, \/ Register(v) \/ EndIteration(v) \/ FallSilent(v)
                                 \/ Break(v) \/ BeatLate(v)
          PROVE  FALSE
      BY <1>1, <2>1, <3>3
         DEF Register, EndIteration, FallSilent, Break, BeatLate, Seen, monitorVars, MonitorInv, TypeOK
    <3>4. CASE ReadClock \/ Tick \/ UNCHANGED vars
      BY <2>1, <3>4 DEF ReadClock, Tick, vars, monitorVars
    <3> QED
      BY <1>1, <3>1, <3>2, <3>3, <3>4 DEF Next, WorkerNext
  <2> QED
    BY <2>1
<1> QED
  BY MonitorInvariance, <1>1, PTL DEF Spec, NoEarlyDeath
=============================================================================
