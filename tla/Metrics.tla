------------------------------- MODULE Metrics -------------------------------
(***************************************************************************)
(* The way of a metric from the server to the browsers: a bounded queue    *)
(* that drops what does not fit, and the dashboard's event loop, where the *)
(* pump awaits the browsers one by one while others come and go.           *)
(***************************************************************************)
EXTENDS Integers, Sequences

CONSTANTS Browsers,   \* websockets, each opened at most once
          QueueSize   \* mp.Queue(maxsize=10000)

ASSUME MetricsAssumption == QueueSize \in Nat \ {0}

VARIABLES emitted,    \* metrics emitted so far; the n-th is known as n
          queue,      \* MetricsQueue
          dashboard,  \* the dashboard process
          link,       \* link[b]: the websocket of b
          ws,         \* ws[b]: where the dashboard's coroutine for b is
          clients,    \* the set of build_app
          targets,    \* list(clients) of the running broadcast, minus those served
          dead,       \* pump's dead
          pumping,    \* a broadcast is running
          popped,     \* history: what this pump took from the queue
          received,   \* history: received[b], what b was sent
          since       \* history: since[b], how much was popped before b was added

queueVars == <<emitted, queue>>
browserVars == <<link, ws, since>>
pumpVars == <<targets, dead, pumping, popped>>
metricsVars == <<queueVars, browserVars, pumpVars, dashboard, clients, received>>

MetricsInit == /\ emitted = 0
               /\ queue = <<>>
               /\ dashboard = "none"
               /\ link = [b \in Browsers |-> "away"]
               /\ ws = [b \in Browsers |-> "none"]
               /\ clients = {} /\ targets = {} /\ dead = {} /\ pumping = FALSE
               /\ popped = <<>>
               /\ received = [b \in Browsers |-> <<>>]
               /\ since = [b \in Browsers |-> 0]

\* Seeded faults: put() in place of put_nowait(); a queue without a bound.
PutBlocking(n) == Len(queue) < QueueSize /\ queue' = Append(queue, n)
PutUnbounded(n) == queue' = Append(queue, n)

\* put_nowait raises Full, and _put swallows it.
Put(n) == queue' = IF Len(queue) < QueueSize THEN Append(queue, n) ELSE queue

Emit == /\ emitted' = emitted + 1
        /\ Put(emitted')
        /\ UNCHANGED <<browserVars, pumpVars, dashboard, clients, received>>

\* The pump has a payload and begins with a copy of the set.
Get == /\ ~pumping
       /\ queue # <<>>
       /\ queue' = Tail(queue)
       /\ popped' = Append(popped, Head(queue))
       /\ targets' = clients
       /\ pumping' = TRUE
       /\ UNCHANGED <<emitted, browserVars, dead, dashboard, clients, received>>

\* Seeded fault: the exception ends the whole broadcast.
FailedOnce(b) == targets' = {} /\ dead' = dead \cup {b} /\ UNCHANGED received

\* send_text raises: the pump goes on with the others.
Failed(b) == targets' = targets \ {b} /\ dead' = dead \cup {b} /\ UNCHANGED received

\* await c.send_text(data), in the arbitrary order of the set.
SendText(b) ==
    /\ b \in targets
    /\ IF link[b] = "open"
       THEN /\ received' = [received EXCEPT ![b] = Append(@, popped[Len(popped)])]
            /\ targets' = targets \ {b}
            /\ UNCHANGED dead
       ELSE Failed(b)
    /\ UNCHANGED <<queueVars, browserVars, pumping, popped, dashboard, clients>>

DiscardDead == /\ pumping
               /\ targets = {}
               /\ clients' = clients \ dead
               /\ dead' = {}
               /\ pumping' = FALSE
               /\ UNCHANGED <<queueVars, browserVars, targets, popped, dashboard, received>>

\* await websocket.accept() in ws(): the browser may believe itself connected before the
\* coroutine goes on.
Accept(b) == /\ link[b] = "away"
             /\ link' = [link EXCEPT ![b] = "open"]
             /\ ws' = [ws EXCEPT ![b] = "accepting"]
             /\ UNCHANGED <<queueVars, pumpVars, since, dashboard, clients, received>>

\* clients.add, whatever became of the browser in the meantime; the history of one that
\* is gone stays empty.
AddClient(b) == /\ ws[b] = "accepting"
                /\ ws' = [ws EXCEPT ![b] = "receiving"]
                /\ clients' = clients \cup {b}
                /\ since' = [since EXCEPT ![b] = IF link[b] = "open" THEN Len(popped) ELSE 0]
                /\ UNCHANGED <<queueVars, pumpVars, link, dashboard, received>>

\* The browser goes, and its history with it; the dashboard learns of it later, from
\* receive_text or send_text.
Leave(b) == /\ link[b] = "open"
            /\ link' = [link EXCEPT ![b] = "broken"]
            /\ since' = [since EXCEPT ![b] = 0]
            /\ received' = [received EXCEPT ![b] = <<>>]
            /\ UNCHANGED <<queueVars, pumpVars, ws, dashboard, clients>>

\* WebSocketDisconnect in receive_text, and the finally clause of ws().
Forget(b) == /\ ws[b] = "receiving"
             /\ link[b] = "broken"
             /\ ws' = [ws EXCEPT ![b] = "none"]
             /\ clients' = clients \ {b}
             /\ UNCHANGED <<queueVars, pumpVars, link, since, dashboard, received>>

\* The process is started, or ends with its memory, its connections and their history:
\* crash, terminate() or an interrupt.
SetDashboard(state) ==
    /\ dashboard' = state
    /\ link' = [b \in Browsers |-> "away"]
    /\ ws' = [b \in Browsers |-> "none"]
    /\ clients' = {} /\ targets' = {} /\ dead' = {} /\ pumping' = FALSE
    /\ popped' = <<>>
    /\ received' = [b \in Browsers |-> <<>>]
    /\ since' = [b \in Browsers |-> 0]
    /\ UNCHANGED queueVars
-----------------------------------------------------------------------------
MetricsTypeOK == /\ emitted \in Nat
                 /\ queue \in Seq(1 .. emitted) /\ Len(queue) <= QueueSize
                 /\ dashboard \in {"none", "running", "gone"}
                 /\ link \in [Browsers -> {"away", "open", "broken"}]
                 /\ ws \in [Browsers -> {"none", "accepting", "receiving"}]
                 /\ clients \cup targets \cup dead \subseteq Browsers
                 /\ pumping \in BOOLEAN
=============================================================================
