-------------------------- MODULE HeartbeatMonitor --------------------------
(***************************************************************************)
(* Liveness of the workers, with a clock: the HeartbeatMonitor's thread,   *)
(* the handlers that register and beat, and the loop of the workers that   *)
(* decides when a heartbeat is sent.  In Training a worker may be declared *)
(* DEAD at any time; here it is said when.  The monitor knows a worker by  *)
(* its id, so the handler of a process that ended may still speak for a    *)
(* process that was started after it.                                      *)
(***************************************************************************)
EXTENDS Integers

CONSTANTS Workers,
          CheckInterval,     \* HeartbeatMonitor.check_interval
          Timeout,           \* HeartbeatMonitor.timeout
          HeartbeatInterval, \* worker.HEARTBEAT_INTERVAL
          MaxIteration,      \* the longest iteration: rollout, epochs and barrier
          Slack,             \* how late the operating system may run a thread
          MaxLinger,         \* bound: handlers of ended processes of one worker
          MaxTime            \* bound: when the clock stops

ASSUME TimingAssumption ==
    /\ CheckInterval \in Nat \ {0}
    /\ Timeout \in Nat
    /\ HeartbeatInterval \in Nat
    /\ MaxIteration \in Nat
    /\ Slack \in Nat
    /\ MaxLinger \in Nat
    /\ MaxTime \in Nat

VARIABLES clock,          \* time.time()
          status,         \* status[w], "UNKNOWN" before the first message of w
          last_seen,      \* last_seen[w]
          phase,          \* of _loop: waiting, or between time.time() and the lock
          now,            \* _loop's now, read before the lock is taken
          wake,           \* when the current _stop.wait(check_interval) is over
          life,           \* life[w]: what the process of w does
          started,        \* started[w]: when its current iteration began
          last_heartbeat, \* worker_main's last_heartbeat
          unread,         \* unread[w]: handlers with a last message of an ended process
          closing,        \* closing[w]: handlers on their way to mark_dead
          struck          \* history: w was marked dead since it was last seen

monitorVars == <<status, last_seen>>
loopVars == <<phase, now, wake>>
workerVars == <<life, started, last_heartbeat>>
oldVars == <<unread, closing>>
vars == <<clock, monitorVars, loopVars, workerVars, oldVars, struck>>

\* time.time() is far from the epoch, where last_heartbeat starts.
Boot == HeartbeatInterval + 1

Init == /\ clock = Boot
        /\ status = [w \in Workers |-> "UNKNOWN"]
        /\ last_seen = [w \in Workers |-> 0]
        /\ phase = "waiting"
        /\ now = 0
        /\ wake = Boot + CheckInterval
        /\ life = [w \in Workers |-> "new"]
        /\ started = [w \in Workers |-> 0]
        /\ last_heartbeat = [w \in Workers |-> 0]
        /\ unread = [w \in Workers |-> 0]
        /\ closing = [w \in Workers |-> 0]
        /\ struck = [w \in Workers |-> FALSE]

TypeOK == /\ clock \in Nat
          /\ status \in [Workers -> {"UNKNOWN", "ALIVE", "DEAD"}]
          /\ last_seen \in [Workers -> Nat]
          /\ phase \in {"waiting", "locking"}
          /\ now \in Nat
          /\ wake \in Nat
          /\ life \in [Workers -> {"new", "looping", "silent", "gone"}]
          /\ started \in [Workers -> Nat]
          /\ last_heartbeat \in [Workers -> Nat]
          /\ unread \in [Workers -> Nat]
          /\ closing \in [Workers -> Nat]
          /\ struck \in [Workers -> BOOLEAN]

\* register() and beat() do the same.
Seen(w) == /\ status' = [status EXCEPT ![w] = "ALIVE"]
           /\ last_seen' = [last_seen EXCEPT ![w] = clock]
           /\ struck' = [struck EXCEPT ![w] = FALSE]
-----------------------------------------------------------------------------
(* The workers and their handlers.                                          *)

\* The first message of w, of a process that just started.  The handlers of its
\* predecessors need not have noticed anything yet.
Register(w) ==
    /\ life[w] \in {"new", "gone"}
    /\ Seen(w)
    /\ life' = [life EXCEPT ![w] = "looping"]
    /\ started' = [started EXCEPT ![w] = clock]
    /\ last_heartbeat' = [last_heartbeat EXCEPT ![w] = 0]
    /\ UNCHANGED <<clock, loopVars, oldVars>>

\* Seeded fault: heartbeats are spaced by the server's timeout.
HeartbeatDueRarely(w) == clock - last_heartbeat[w] > Timeout

HeartbeatDue(w) == clock - last_heartbeat[w] > HeartbeatInterval

\* An iteration of worker_main ends, and with it the heartbeat, if one is due.  The
\* pushes and pulls of the iteration do not count: only register and beat do.
EndIteration(w) ==
    /\ life[w] = "looping"
    /\ IF HeartbeatDue(w)
       THEN Seen(w) /\ last_heartbeat' = [last_heartbeat EXCEPT ![w] = clock]
       ELSE UNCHANGED <<monitorVars, struck, last_heartbeat>>
    /\ started' = [started EXCEPT ![w] = clock]
    /\ UNCHANGED <<clock, loopVars, oldVars, life>>

\* What a process knew is of no use once it does not loop.
Forget(w) == /\ started' = [started EXCEPT ![w] = 0]
             /\ last_heartbeat' = [last_heartbeat EXCEPT ![w] = 0]

\* The process hangs or its node is cut off: nothing closes the connection.
FallSilent(w) ==
    /\ life[w] = "looping"
    /\ life' = [life EXCEPT ![w] = "silent"]
    /\ Forget(w)
    /\ UNCHANGED <<clock, monitorVars, loopVars, oldVars, struck>>

\* The process ends, or its connection breaks, or its handler raises: nothing that w
\* sends from now on is read.  Its handler may have one request before it that w sent
\* earlier, or finds the end of the connection at once.
Break(w) ==
    /\ life[w] \in {"looping", "silent"}
    /\ unread[w] + closing[w] < MaxLinger
    /\ life' = [life EXCEPT ![w] = "gone"]
    /\ \/ unread' = [unread EXCEPT ![w] = @ + 1] /\ UNCHANGED closing
       \/ closing' = [closing EXCEPT ![w] = @ + 1] /\ UNCHANGED unread
    /\ Forget(w)
    /\ UNCHANGED <<clock, monitorVars, loopVars, struck>>

\* An old handler beats, or registers, for a process that is gone.
BeatLate(w) ==
    /\ unread[w] > 0
    /\ Seen(w)
    /\ unread' = [unread EXCEPT ![w] = @ - 1]
    /\ closing' = [closing EXCEPT ![w] = @ + 1]
    /\ UNCHANGED <<clock, loopVars, workerVars>>

\* The finally clause of an old handler.  It goes by the worker's id: by now another
\* process of w may be served and in time.
MarkDead(w) ==
    /\ closing[w] > 0
    /\ closing' = [closing EXCEPT ![w] = @ - 1]
    /\ status' = [status EXCEPT ![w] = "DEAD"]
    /\ struck' = [struck EXCEPT ![w] = TRUE]
    /\ UNCHANGED <<clock, last_seen, loopVars, workerVars, unread>>
-----------------------------------------------------------------------------
(* The monitor's thread.                                                    *)

\* _stop.wait(check_interval) times out, and time.time() is read without the lock.
ReadClock ==
    /\ phase = "waiting"
    /\ clock >= wake
    /\ now' = clock
    /\ phase' = "locking"
    /\ UNCHANGED <<clock, monitorVars, wake, workerVars, oldVars, struck>>

\* Seeded faults: one tick too early; a missed heartbeat is taken for silence.
OverdueEarly(w) == now - last_seen[w] >= Timeout
OverdueOnce(w) == now - last_seen[w] > HeartbeatInterval

Overdue(w) == now - last_seen[w] > Timeout

\* Seeded fault: the scan stops at the first worker it finds overdue.
ScanForOne ==
    /\ phase = "locking"
    /\ LET found == {w \in Workers : status[w] = "ALIVE" /\ Overdue(w)} IN
         IF found = {} THEN UNCHANGED status
         ELSE \E w \in found : status' = [status EXCEPT ![w] = "DEAD"]
    /\ phase' = "waiting"
    /\ wake' = clock + CheckInterval
    /\ UNCHANGED <<clock, last_seen, now, workerVars, oldVars, struck>>

\* The scan, under the lock; then the next wait begins.
Scan ==
    /\ phase = "locking"
    /\ status' = [w \in Workers |->
                    IF status[w] = "ALIVE" /\ Overdue(w) THEN "DEAD" ELSE status[w]]
    /\ phase' = "waiting"
    /\ wake' = clock + CheckInterval
    /\ UNCHANGED <<clock, last_seen, now, workerVars, oldVars, struck>>

\* Time passes while no thread is later than it may be.
Tick ==
    /\ clock < MaxTime
    /\ phase = "waiting" => clock < wake + Slack
    /\ phase = "locking" => clock < now + Slack
    /\ \A w \in Workers : life[w] = "looping" => clock - started[w] < MaxIteration
    /\ clock' = clock + 1
    /\ UNCHANGED <<monitorVars, loopVars, workerVars, oldVars, struck>>

WorkerNext(w) == \/ Register(w) \/ EndIteration(w) \/ FallSilent(w)
                 \/ Break(w) \/ BeatLate(w) \/ MarkDead(w)

Next == ReadClock \/ Scan \/ Tick \/ \E w \in Workers : WorkerNext(w)

Spec == Init /\ [][Next]_vars
-----------------------------------------------------------------------------
\* A worker in its loop is DEAD only because the handler of an earlier process of the
\* same id marked it so after it was last seen, never for its silence, and for no longer
\* than an iteration and a heartbeat interval, which must fit into the timeout:
\* HEARTBEAT_INTERVAL delays a heartbeat by a whole iteration, and a scan may use a clock
\* that is older than the last beat (handle_worker's finally, _loop, worker_main).
DeadOnlyIfStruck ==
    MaxIteration + HeartbeatInterval <= Timeout =>
      \A w \in Workers : life[w] = "looping" /\ status[w] # "ALIVE" =>
        struck[w] /\ clock - last_seen[w] <= MaxIteration + HeartbeatInterval

\* A worker that fell silent does not stay ALIVE: the barrier stops counting on it
\* after the timeout, one wait of the monitor's thread and its scheduling delays.
SilenceIsNoticed ==
    \A w \in Workers : status[w] = "ALIVE" =>
      clock - last_seen[w] <= Timeout + CheckInterval + 3 * Slack

\* Only silence for longer than the timeout, or the mark_dead of a handler whose process
\* is gone, makes a worker DEAD, although the scan judges by a clock it read before it
\* took the lock.
NoEarlyDeath ==
    [][\A w \in Workers : status[w] = "ALIVE" /\ status'[w] = "DEAD" =>
         closing'[w] < closing[w] \/ clock - last_seen[w] > Timeout]_vars
-----------------------------------------------------------------------------
(* The inductive invariant behind the two bounds.                           *)

\* The thread is never later than its scheduling allows, and nobody uses a future clock.
LoopOnTime ==
    /\ now <= clock
    /\ \A w \in Workers : last_seen[w] <= clock
    /\ wake <= clock + CheckInterval
    /\ phase = "waiting" => clock <= wake + Slack
    /\ phase = "locking" => clock <= now + Slack /\ now <= wake + Slack

\* A worker that loops was seen when its iteration began, or a heartbeat interval
\* before that.
LoopersSeen ==
    \A w \in Workers : life[w] = "looping" =>
      /\ clock - started[w] <= MaxIteration
      /\ started[w] - last_seen[w] <= HeartbeatInterval
      /\ last_heartbeat[w] <= last_seen[w]

\* What the last scan has established for whoever is still ALIVE.
ScannedRecently ==
    \A w \in Workers : status[w] = "ALIVE" =>
      IF phase = "waiting" THEN wake - last_seen[w] <= Timeout + CheckInterval + Slack
                           ELSE now - last_seen[w] <= Timeout + CheckInterval + 2 * Slack

MonitorInv == /\ TypeOK
              /\ LoopOnTime
              /\ LoopersSeen
              /\ ScannedRecently
              /\ DeadOnlyIfStruck
=============================================================================
