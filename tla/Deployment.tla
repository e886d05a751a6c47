----------------------------- MODULE Deployment -----------------------------
(***************************************************************************)
(* The processes of one machine together: the launcher, the server and the *)
(* workers as its children, and the metrics on their way to the dashboard. *)
(* A worker that trains makes the server emit: the handler emits between   *)
(* the acknowledgement of a push and the next reply, so no iteration ends  *)
(* before its metrics were put.  Whether a push is acknowledged at all     *)
(* depends on the other workers and is left open here.                     *)
(***************************************************************************)
EXTENDS Launcher, Metrics

vars == <<launcherVars, metricsVars>>

Init == LauncherInit /\ MetricsInit

\* The dashboard starts with the workers, unless the operator passed --no_dashboard,
\* and is terminated after the server and before the workers.
Start == StartWorkers /\ (SetDashboard("running") \/ UNCHANGED metricsVars)
Stop == \/ TerminateServer /\ SetDashboard("gone")
        \/ TerminateWorkers /\ UNCHANGED metricsVars
Wait == Pass /\ UNCHANGED metricsVars

ServerMain == (Listen \/ ServerInterrupted \/ ServerCloses) /\ UNCHANGED metricsVars

\* What the process of w does by itself.
Worker(w) == /\ \/ Connects(w) \/ IsRefused(w) \/ GivesUp(w)
                \/ Pushes(w) \/ Finishes(w) \/ LosesServer(w) \/ WorkerInterrupted(w)
             /\ UNCHANGED metricsVars

\* The handler of w puts the metrics of an iteration and replies.
Serve(w) == IsServed(w) /\ Emit
Ack(w) == IsAcked(w) /\ UNCHANGED metricsVars

Pump == /\ dashboard = "running"
        /\ Get \/ DiscardDead \/ \E b \in Browsers : SendText(b)
        /\ UNCHANGED launcherVars

Visitor(b) == /\ dashboard = "running"
              /\ Accept(b) \/ AddClient(b) \/ Leave(b) \/ Forget(b)
              /\ UNCHANGED launcherVars

\* What comes from outside: Control-C, and the end of one process while the others go on.
Crash == \/ Interrupt /\ UNCHANGED metricsVars
         \/ ServerDies /\ UNCHANGED metricsVars
         \/ \E w \in Workers : WorkerDies(w) /\ UNCHANGED metricsVars
         \/ dashboard = "running" /\ SetDashboard("gone") /\ UNCHANGED launcherVars

Next == \/ Start \/ Stop \/ Wait \/ ServerMain \/ Pump \/ Crash
        \/ \E w \in Workers : Worker(w) \/ Ack(w) \/ Serve(w)
        \/ \E b \in Browsers : Visitor(b)

\* Processes and threads that can run do; a worker and its handler take turns.  (The
\* subscripts name what each of their steps changes.)  Nothing is promised of an ACK, and
\* nobody need interrupt, visit, leave or crash.
Fairness == /\ WF_main(Start \/ Stop) /\ WF_clock(Wait)
            /\ WF_server(ServerMain) /\ WF_pumpVars(Pump)
            /\ \A w \in Workers : WF_<<worker, attempt>>(Worker(w) \/ Serve(w))

Spec == Init /\ [][Next]_vars /\ Fairness

TypeOK == MetricsTypeOK /\ LauncherTypeOK
-----------------------------------------------------------------------------
\* The launcher comes to its end and no child outlives it, whatever happens to the server,
\* the dashboard and single workers: full queues and lost dashboards hold nobody up,
\* workers without a server give up, and those who wait for an ACK are freed by the end of
\* the server or by Control-C.  The premise is what the barrier does not guarantee: that
\* nobody waits for an ACK of a running server for ever, and main with it (main,
\* _connect_with_retry, _put, recv_message).
LauncherEnds ==
    (\A w \in Workers : []<>(worker[w] # "waiting" \/ server = "dead" \/ interrupted))
      => <>[](main = "done" /\ ~AnyAlive /\ server = "dead")

\* A server that is slow to start is waited for: ready.wait and the retries add up,
\* less the pause after the last attempt, although main ignores that the wait timed
\* out.
SlowStartIsWaitedFor ==
    delay < ReadyTimeout + MaxRetries - 1 /\ server \in {"starting", "listening"} =>
      \A w \in Workers : worker[w] # "gaveup"

\* A browser whose coroutine receives stays in the set of clients while it is there, and
\* misses nothing of what the pump takes from the queue in that time: it is sent each
\* payload once and in order, whoever comes and goes during a broadcast (pump, ws).
NothingMissed ==
    dashboard = "running" =>
      \A b \in Browsers : link[b] = "open" /\ ws[b] = "receiving" =>
        /\ b \in clients
        /\ received[b] = SubSeq(popped, since[b] + 1,
                               IF b \in targets THEN Len(popped) - 1 ELSE Len(popped))
-----------------------------------------------------------------------------
(* Why these hold: the inductive invariant.                                 *)

LauncherTyped == /\ redial \in [Workers -> Nat]
                 /\ delay \in Nat

\* main goes through its phases in order, and nothing starts twice.
Phases == /\ main = "wait" => /\ clock <= ReadyTimeout
                              /\ \A w \in Workers : worker[w] = "none" /\ attempt[w] = 0
          /\ main \in {"terminate", "done"} => server = "dead" /\ (~AnyAlive \/ interrupted)
          /\ main = "done" => ~AnyAlive
          /\ \A w \in Workers : worker[w] \in {"waiting", "reporting"} => step[w] < MaxSteps
          /\ server = "starting" => clock <= delay

\* A worker dials at its own pace from the end of the wait on, so each attempt that a
\* starting server refused is one unit of the time that server took.
DialTimes == \A w \in Workers : worker[w] = "dialing" =>
    /\ clock <= redial[w] /\ redial[w] <= ReadyTimeout + attempt[w]
    /\ server = "starting" \/ (server = "listening" /\ attempt[w] > 0) =>
         redial[w] >= ReadyTimeout + attempt[w]
    /\ server \in {"starting", "listening"} /\ attempt[w] > 0 => redial[w] <= delay + 1

\* The browsers of a broadcast, and those found dead in it, are no newcomers.
Broadcast == /\ popped \in Seq(Nat) /\ received \in [Browsers -> Seq(Nat)]
             /\ since \in [Browsers -> Nat]
             /\ pumping => popped # <<>>
             /\ ~pumping => targets = {}
             /\ dashboard # "running" => \A b \in Browsers : link[b] = "away"
             /\ \A b \in Browsers :
                  /\ link[b] = "away" => ws[b] = "none"
                  /\ link[b] = "away" \/ ws[b] = "accepting" =>
                       received[b] = <<>> /\ b \notin targets \cup clients
                  /\ ws[b] = "none" => link[b] # "open"
                  /\ b \in dead => link[b] = "broken"
                  /\ since[b] <= Len(popped)
                  /\ b \in targets => since[b] < Len(popped)

LauncherInv == /\ LauncherTypeOK /\ LauncherTyped
               /\ Phases /\ DialTimes /\ SlowStartIsWaitedFor

DashboardInv == MetricsTypeOK /\ Broadcast /\ NothingMissed

DeploymentInv == LauncherInv /\ DashboardInv /\ (main = "wait" => dashboard = "none")
=============================================================================
