------------------------------ MODULE Launcher ------------------------------
(***************************************************************************)
(* train.py's main: it starts the server, waits a while for it, starts the *)
(* workers, which dial on their own, and ends with them, or at Control-C,  *)
(* which every process answers for itself.  One unit of time is the pause  *)
(* between two attempts to connect (0.5 s).                                *)
(***************************************************************************)
EXTENDS Integers

CONSTANTS Workers,       \* range(config.num_workers)
          ReadyTimeout,  \* ready.wait(timeout=30)
          MaxRetries,    \* max_retries of _connect_with_retry
          MaxSteps,      \* config.max_steps
          Delays         \* bound: how long a server may take until it listens

ASSUME LauncherAssumption == /\ ReadyTimeout \in Nat
                             /\ MaxRetries \in Nat \ {0}
                             /\ MaxSteps \in Nat
                             /\ Delays \subseteq Nat

VARIABLES main,        \* where main() is
          server,      \* the server process
          worker,      \* worker[w]: the worker process
          attempt,     \* attempt[w]: failed attempts to connect
          redial,      \* redial[w]: when w wakes from its sleep between attempts
          step,        \* step[w]: worker_main's global_step
          interrupted, \* Control-C was pressed
          clock,
          delay        \* when this server will listen

dialVars == <<attempt, redial>>
timeVars == <<clock, delay>>
launcherVars == <<main, server, worker, dialVars, step, interrupted, timeVars>>

LauncherInit == /\ main = "wait"
                /\ server = "starting"
                /\ worker = [w \in Workers |-> "none"]
                /\ attempt = [w \in Workers |-> 0]
                /\ redial = [w \in Workers |-> 0]
                /\ step = [w \in Workers |-> 0]
                /\ interrupted = FALSE
                /\ clock = 0
                /\ delay \in Delays

\* Connected: in its rollout or before its push, waiting for an ACK, or past the ACK.
InLoop(w) == worker[w] \in {"training", "waiting", "reporting"}
Alive(w) == worker[w] = "dialing" \/ InLoop(w)
AnyAlive == \E w \in Workers : Alive(w)

Becomes(w, state) == worker' = [worker EXCEPT ![w] = state]

\* What the process knew goes with it.
Ends(w, state) == /\ Becomes(w, state)
                  /\ attempt' = [attempt EXCEPT ![w] = 0]
                  /\ redial' = [redial EXCEPT ![w] = 0]
                  /\ step' = [step EXCEPT ![w] = 0]
-----------------------------------------------------------------------------
(* The server.                                                              *)

\* server_main: built, loaded, listening, and ready is set.
Listen == /\ server = "starting"
          /\ clock >= delay
          /\ server' = "listening"
          /\ UNCHANGED <<main, worker, dialVars, step, interrupted, timeVars>>

\* The process dies while it starts (the port is taken) or later.
ServerDies == /\ server \in {"starting", "listening"}
              /\ server' = "dead"
              /\ UNCHANGED <<main, worker, dialVars, step, interrupted, timeVars>>

\* KeyboardInterrupt: a server that is up goes on to its finally clause.
ServerInterrupted == /\ interrupted
                     /\ server \in {"starting", "listening"}
                     /\ server' = IF server = "listening" THEN "closing" ELSE "dead"
                     /\ UNCHANGED <<main, worker, dialVars, step, interrupted, timeVars>>

\* The server's finally clause: the last checkpoint is saved, if main lets it.
ServerCloses == /\ server = "closing"
                /\ server' = "dead"
                /\ UNCHANGED <<main, worker, dialVars, step, interrupted, timeVars>>
-----------------------------------------------------------------------------
(* A worker.                                                                *)

Dials(w) == worker[w] = "dialing" /\ clock >= redial[w]

Connects(w) == /\ Dials(w)
               /\ attempt[w] < MaxRetries
               /\ server = "listening"
               /\ Becomes(w, "training")
               /\ attempt' = [attempt EXCEPT ![w] = 0]
               /\ redial' = [redial EXCEPT ![w] = 0]
               /\ UNCHANGED <<main, server, step, interrupted, timeVars>>

\* Seeded fault: no pause before the next attempt.
IsRefusedAtOnce(w) == /\ Dials(w)
                      /\ attempt[w] < MaxRetries
                      /\ server # "listening"
                      /\ attempt' = [attempt EXCEPT ![w] = @ + 1]
                      /\ UNCHANGED <<main, server, worker, redial, step, interrupted, timeVars>>

\* ConnectionRefusedError: the worker sleeps, also after its last attempt.
IsRefused(w) == /\ Dials(w)
                /\ attempt[w] < MaxRetries
                /\ server # "listening"
                /\ attempt' = [attempt EXCEPT ![w] = @ + 1]
                /\ redial' = [redial EXCEPT ![w] = clock + 1]
                /\ UNCHANGED <<main, server, worker, step, interrupted, timeVars>>

\* RuntimeError after the last attempt.
GivesUp(w) == /\ Dials(w)
              /\ attempt[w] >= MaxRetries
              /\ Ends(w, "gaveup")
              /\ UNCHANGED <<main, server, interrupted, timeVars>>

\* An iteration up to push_gradients, which then waits for the ACK.
Pushes(w) == /\ worker[w] = "training"
             /\ step[w] < MaxSteps
             /\ server # "dead"
             /\ Becomes(w, "waiting")
             /\ UNCHANGED <<main, server, dialVars, step, interrupted, timeVars>>

\* The ACK of a round.  Rounds depend on the other workers, and the barrier is evaluated
\* by a push only, so this may never happen.
IsAcked(w) == /\ worker[w] = "waiting"
              /\ server # "dead"
              /\ Becomes(w, "reporting")
              /\ UNCHANGED <<main, server, dialVars, step, interrupted, timeVars>>

\* The replies to the heartbeat and to the pull, which end the iteration.
IsServed(w) == /\ worker[w] = "reporting"
               /\ server # "dead"
               /\ Becomes(w, "training")
               /\ step' = [step EXCEPT ![w] = @ + 1]
               /\ UNCHANGED <<main, server, dialVars, interrupted, timeVars>>

Finishes(w) == /\ worker[w] = "training"
               /\ step[w] >= MaxSteps
               /\ Ends(w, "done")
               /\ UNCHANGED <<main, server, interrupted, timeVars>>

\* Seeded fault: the end of the stream is not noticed while waiting.
LosesServerSending(w) == /\ worker[w] = "training"
                         /\ step[w] < MaxSteps
                         /\ server = "dead"
                         /\ Ends(w, "failed")
                         /\ UNCHANGED <<main, server, interrupted, timeVars>>

\* The connection ends with the server, which a worker in its loop learns when it sends
\* or receives.
LosesServer(w) == /\ InLoop(w)
                  /\ step[w] < MaxSteps
                  /\ server = "dead"
                  /\ Ends(w, "failed")
                  /\ UNCHANGED <<main, server, interrupted, timeVars>>

\* KeyboardInterrupt, which nobody catches in a worker.
WorkerInterrupted(w) == /\ interrupted
                        /\ Alive(w)
                        /\ Ends(w, "failed")
                        /\ UNCHANGED <<main, server, interrupted, timeVars>>

\* The process is killed, or raises, while the others go on.
WorkerDies(w) == /\ Alive(w)
                 /\ Ends(w, "failed")
                 /\ UNCHANGED <<main, server, interrupted, timeVars>>
-----------------------------------------------------------------------------
(* main, and the terminal.                                                  *)

\* The result of ready.wait is not looked at: ready or not, the workers start.  (A server
\* that dies after it set ready and before main wakes is one that dies right after.)
StartWorkers == /\ main = "wait"
                /\ server = "listening" \/ clock >= ReadyTimeout
                /\ main' = "watch"
                /\ worker' = [w \in Workers |-> "dialing"]
                /\ redial' = [w \in Workers |-> clock]
                /\ UNCHANGED <<server, attempt, step, interrupted, timeVars>>

AllEnded == ~AnyAlive

\* Control-C while main watches: a signal to every process of the terminal, each of which
\* takes it when it is scheduled.
Interrupt == /\ main = "watch"
             /\ ~interrupted
             /\ interrupted' = TRUE
             /\ UNCHANGED <<main, server, worker, dialVars, step, timeVars>>

\* main leaves its loop, for its finally clause: terminate() in the order in which the
\* processes were started.  Whoever is alive dies of it, a server in the middle of its
\* finally clause included.
TerminateServer == /\ main = "watch"
                   /\ AllEnded \/ interrupted
                   /\ main' = "terminate"
                   /\ server' = "dead"
                   /\ UNCHANGED <<worker, dialVars, step, interrupted, timeVars>>

TerminateWorkers ==
    /\ main = "terminate"
    /\ main' = "done"
    /\ worker' = [w \in Workers |-> IF Alive(w) THEN "terminated" ELSE worker[w]]
    /\ UNCHANGED <<server, dialVars, step, interrupted, timeVars>>

\* Time passes when nobody has anything to do at this moment.
Pass == /\ \/ main = "wait"
           \/ \E w \in Workers : worker[w] = "dialing"
        /\ ~(server = "starting" /\ clock >= delay)
        /\ ~(main = "wait" /\ (server = "listening" \/ clock >= ReadyTimeout))
        /\ \A w \in Workers : ~Dials(w)
        /\ clock' = clock + 1
        /\ UNCHANGED <<main, server, worker, dialVars, step, interrupted, delay>>
-----------------------------------------------------------------------------
LauncherTypeOK ==
    /\ main \in {"wait", "watch", "terminate", "done"}
    /\ server \in {"starting", "listening", "closing", "dead"}
    /\ worker \in [Workers -> {"none", "dialing", "training", "waiting", "reporting",
                               "gaveup", "failed", "done", "terminated"}]
    /\ attempt \in [Workers -> 0 .. MaxRetries]
    /\ step \in [Workers -> 0 .. MaxSteps]
    /\ interrupted \in BOOLEAN
    /\ clock \in 0 .. ReadyTimeout + MaxRetries
=============================================================================
