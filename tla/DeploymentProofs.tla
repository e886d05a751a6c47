-------------------------- MODULE DeploymentProofs --------------------------
(***************************************************************************)
(* Proofs about the launcher and the way of the metrics, for any number of *)
(* workers and browsers, any timeouts, any queue size.                     *)
(***************************************************************************)
EXTENDS Deployment, SequenceTheorems, TLAPS

\* What was popped since a browser came: unchanged by a payload it was not sent yet,
\* one longer once it was, nothing when it comes.
LEMMA Slices ==
    ASSUME NEW s \in Seq(Nat), NEW n \in Nat, n <= Len(s)
    PROVE  /\ \A x \in Nat : SubSeq(Append(s, x), n + 1, Len(s)) = SubSeq(s, n + 1, Len(s))
           /\ n < Len(s) => Append(SubSeq(s, n + 1, Len(s) - 1), s[Len(s)])
                              = SubSeq(s, n + 1, Len(s))
           /\ SubSeq(s, Len(s) + 1, Len(s)) = <<>>
           /\ SubSeq(s, n + 1, Len(s)) \in Seq(Nat)
<1>1. SubSeq(s, n + 1, Len(s)) \in Seq(Nat) /\ Len(SubSeq(s, n + 1, Len(s))) = Len(s) - n
      /\ \A i \in 1 .. Len(s) - n : SubSeq(s, n + 1, Len(s))[i] = s[n + i]
  OBVIOUS
<1>2. ASSUME NEW x \in Nat
      PROVE  SubSeq(Append(s, x), n + 1, Len(s)) = SubSeq(s, n + 1, Len(s))
  <2>1. Append(s, x) \in Seq(Nat) /\ Len(Append(s, x)) = Len(s) + 1
        /\ \A i \in 1 .. Len(s) : Append(s, x)[i] = s[i]
    OBVIOUS
  <2>2. SubSeq(Append(s, x), n + 1, Len(s)) \in Seq(Nat)
        /\ Len(SubSeq(Append(s, x), n + 1, Len(s))) = Len(s) - n
        /\ \A i \in 1 .. Len(s) - n : SubSeq(Append(s, x), n + 1, Len(s))[i] = Append(s, x)[n + i]
    BY <2>1
  <2>3. \A i \in 1 .. Len(s) - n : Append(s, x)[n + i] = s[n + i]
    BY <2>1
  <2>4. QED
    BY <1>1, <2>2, <2>3, SeqEqual
<1>3. ASSUME n < Len(s)
      PROVE  Append(SubSeq(s, n + 1, Len(s) - 1), s[Len(s)]) = SubSeq(s, n + 1, Len(s))
  <2> DEFINE t == SubSeq(s, n + 1, Len(s) - 1)
  <2>1. t \in Seq(Nat) /\ Len(t) = Len(s) - 1 - n
        /\ \A i \in 1 .. Len(s) - 1 - n : t[i] = s[n + i]
    <3>1. \A i \in n + 1 .. Len(s) - 1 : s[i] \in Nat
      OBVIOUS
    <3>2. t \in Seq(Nat) /\ Len(t) = Len(s) - 1 - n
      BY <1>3, <3>1, SubSeqProperties
    <3>3. \A i \in 1 .. Len(s) - 1 - n : t[i] = s[n + i]
      BY <1>3, <3>1, <3>2
    <3>4. QED
      BY <3>2, <3>3
  <2>2. s[Len(s)] \in Nat
    <3>1. Len(s) \in 1 .. Len(s)
      BY <1>3
    <3>2. QED
      BY <3>1, ElementOfSeq
  <2>3. Append(t, s[Len(s)]) \in Seq(Nat) /\ Len(Append(t, s[Len(s)])) = Len(s) - n
        /\ \A i \in 1 .. Len(s) - n :
             Append(t, s[Len(s)])[i] = IF i = Len(s) - n THEN s[Len(s)] ELSE t[i]
    BY <2>1, <2>2
  <2>4. \A i \in 1 .. Len(s) - n : Append(t, s[Len(s)])[i] = s[n + i]
    BY <1>3, <2>1, <2>3
  <2>5. QED
    BY <1>1, <2>3, <2>4, SeqEqual
<1>4. SubSeq(s, Len(s) + 1, Len(s)) = <<>>
  <2>1. SubSeq(s, Len(s) + 1, Len(s)) \in Seq(Nat) /\ Len(SubSeq(s, Len(s) + 1, Len(s))) = 0
    OBVIOUS
  <2>2. QED
    BY <2>1, EmptySeq
<1>5. QED
  BY <1>1, <1>2, <1>3, <1>4

\* The launcher waits for a server that starts, and there is no dashboard yet.
LEMMA DeployInit == Init => DeploymentInv
<1> SUFFICES ASSUME Init PROVE DeploymentInv
  OBVIOUS
<1> USE LauncherAssumption, MetricsAssumption DEF Init, LauncherInit, MetricsInit
<1>1. LauncherTypeOK /\ LauncherTyped
  <2>1. attempt \in [Workers -> 0 .. MaxRetries] /\ step \in [Workers -> 0 .. MaxSteps]
        /\ clock \in 0 .. ReadyTimeout + MaxRetries
    OBVIOUS
  <2>2. LauncherTypeOK
    BY <2>1 DEF LauncherTypeOK
  <2>3. LauncherTyped
    BY DEF LauncherTyped
  <2>4. QED
    BY <2>2, <2>3
<1>2. Phases /\ DialTimes /\ SlowStartIsWaitedFor
  BY DEF Phases, DialTimes, SlowStartIsWaitedFor
<1>3. MetricsTypeOK
  <2>1. queue \in Seq(1 .. emitted) /\ Len(queue) = 0
    BY EmptySeq
  <2>2. emitted \in Nat /\ Len(queue) <= QueueSize
    BY <2>1
  <2>3. QED
    BY <2>1, <2>2, Zenon DEF MetricsTypeOK
<1>4. Broadcast /\ NothingMissed
  <2>1. popped \in Seq(Nat) /\ received \in [Browsers -> Seq(Nat)] /\ Len(popped) = 0
    BY EmptySeq
  <2>2. Broadcast
    BY <2>1 DEF Broadcast
  <2>3. NothingMissed
    BY DEF NothingMissed
  <2>4. QED
    BY <2>2, <2>3
<1>5. QED
  BY <1>1, <1>2, <1>3, <1>4 DEF DeploymentInv, LauncherInv, DashboardInv
-----------------------------------------------------------------------------
\* The launcher's half.  A step that leaves the clock, the server and the workers that
\* dial alone keeps their times.
LEMMA ServerKeeps ==
    ASSUME LauncherInv, Listen \/ ServerDies \/ ServerInterrupted \/ ServerCloses
    PROVE  LauncherInv'
<1> USE LauncherAssumption
        DEF LauncherInv, Listen, ServerDies, ServerInterrupted, ServerCloses, dialVars, timeVars
<1>1. LauncherTypeOK' /\ LauncherTyped'
  BY DEF LauncherTypeOK, LauncherTyped
<1>2. Phases'
  BY DEF Phases, AnyAlive, Alive, InLoop
<1>3. DialTimes'
  BY DEF DialTimes, LauncherTyped, LauncherTypeOK
<1>4. SlowStartIsWaitedFor'
  BY DEF SlowStartIsWaitedFor
<1>5. QED
  BY <1>1, <1>2, <1>3, <1>4

\* Workers begin to dial when the wait is over, at a server that listens or after
\* ReadyTimeout.
LEMMA StartKeeps == ASSUME LauncherInv, StartWorkers PROVE LauncherInv'
<1> USE LauncherAssumption DEF LauncherInv, StartWorkers, timeVars
<1>1. LauncherTypeOK' /\ LauncherTyped'
  BY DEF LauncherTypeOK, LauncherTyped
<1>2. Phases'
  BY DEF Phases, AnyAlive, Alive, InLoop
<1>3. DialTimes'
  BY DEF DialTimes, Phases, LauncherTyped, LauncherTypeOK
<1>4. SlowStartIsWaitedFor'
  BY DEF SlowStartIsWaitedFor
<1>5. QED
  BY <1>1, <1>2, <1>3, <1>4

\* A connection, and a refused attempt: one more unit of the time that a starting server
\* took.
LEMMA DialerKeeps ==
    ASSUME LauncherInv, NEW w \in Workers, Connects(w) \/ IsRefused(w)
    PROVE  LauncherInv'
<1> USE LauncherAssumption DEF LauncherInv, Dials, Becomes, timeVars
<1>1. CASE Connects(w)
  <2> USE <1>1 DEF Connects
  <2>1. LauncherTypeOK' /\ LauncherTyped'
    BY DEF LauncherTypeOK, LauncherTyped
  <2>2. Phases'
    BY DEF Phases, AnyAlive, Alive, InLoop, LauncherTypeOK
  <2>3. DialTimes'
    BY DEF DialTimes, LauncherTyped, LauncherTypeOK
  <2>4. SlowStartIsWaitedFor'
    BY DEF SlowStartIsWaitedFor, LauncherTypeOK
  <2>5. QED
    BY <2>1, <2>2, <2>3, <2>4
<1>2. CASE IsRefused(w)
  <2> USE <1>2 DEF IsRefused
  <2>1. LauncherTypeOK' /\ LauncherTyped'
    BY DEF LauncherTypeOK, LauncherTyped
  <2>2. Phases'
    BY DEF Phases, AnyAlive, Alive, InLoop, LauncherTypeOK
  <2>3. DialTimes'
    <3>1. clock = redial[w] /\ redial'[w] = clock + 1 /\ attempt'[w] = attempt[w] + 1
      BY DEF DialTimes, LauncherTyped, LauncherTypeOK
    <3>2. \A v \in Workers : v # w => redial'[v] = redial[v] /\ attempt'[v] = attempt[v]
      BY DEF LauncherTyped, LauncherTypeOK
    <3>3. server = "starting" => clock <= delay
      BY DEF Phases
    <3>4. QED
      BY <3>1, <3>2, <3>3 DEF DialTimes, LauncherTyped, LauncherTypeOK
  <2>4. SlowStartIsWaitedFor'
    BY DEF SlowStartIsWaitedFor
  <2>5. QED
    BY <2>1, <2>2, <2>3, <2>4
<1>3. QED
  BY <1>1, <1>2

\* An iteration does not concern those who dial.
LEMMA LoopKeeps ==
    ASSUME LauncherInv, NEW w \in Workers, Pushes(w) \/ IsAcked(w) \/ IsServed(w)
    PROVE  LauncherInv'
<1> USE LauncherAssumption
        DEF LauncherInv, Pushes, IsAcked, IsServed, Becomes, dialVars, timeVars
<1>1. step' \in [Workers -> 0 .. MaxSteps]
  BY DEF LauncherTypeOK, Phases
<1>2. LauncherTypeOK' /\ LauncherTyped'
  BY <1>1 DEF LauncherTypeOK, LauncherTyped
<1>3. Phases'
  BY DEF Phases, AnyAlive, Alive, InLoop, LauncherTypeOK
<1>4. DialTimes' /\ SlowStartIsWaitedFor'
  BY DEF DialTimes, SlowStartIsWaitedFor, LauncherTyped, LauncherTypeOK
<1>5. QED
  BY <1>2, <1>3, <1>4

\* However a worker ends, nobody else is concerned.  One whose last attempt failed has
\* waited out the whole time that the launcher and the retries allow.
LEMMA EndKeeps ==
    ASSUME LauncherInv, NEW w \in Workers,
           \/ GivesUp(w) \/ Finishes(w) \/ LosesServer(w)
           \/ WorkerInterrupted(w) \/ WorkerDies(w)
    PROVE  LauncherInv'
<1> USE LauncherAssumption DEF LauncherInv
<1>1. PICK state \in {"gaveup", "done", "failed"} : Ends(w, state)
  BY DEF GivesUp, Finishes, LosesServer, WorkerInterrupted, WorkerDies
<1>2. /\ UNCHANGED <<main, server, interrupted, clock, delay>>
      /\ Alive(w)
  BY DEF GivesUp, Finishes, LosesServer, WorkerInterrupted, WorkerDies, Dials, Alive, InLoop,
         timeVars
<1>3. /\ worker' \in [Workers -> {"none", "dialing", "training", "waiting", "reporting",
                                  "gaveup", "failed", "done", "terminated"}]
      /\ attempt' \in [Workers -> 0 .. MaxRetries] /\ redial' \in [Workers -> Nat]
      /\ step' \in [Workers -> 0 .. MaxSteps]
  BY <1>1 DEF Ends, Becomes, LauncherTypeOK, LauncherTyped
<1>4. worker'[w] = state
  BY <1>1 DEF Ends, Becomes, LauncherTypeOK
<1>5. \A v \in Workers : v # w => /\ worker'[v] = worker[v] /\ attempt'[v] = attempt[v]
                                  /\ redial'[v] = redial[v] /\ step'[v] = step[v]
  BY <1>1 DEF Ends, Becomes, LauncherTypeOK, LauncherTyped
<1>6. LauncherTypeOK' /\ LauncherTyped'
  BY <1>2, <1>3 DEF LauncherTypeOK, LauncherTyped
<1>7. Phases'
  BY <1>2, <1>4, <1>5 DEF Phases, AnyAlive, Alive, InLoop
<1>8. DialTimes'
  BY <1>2, <1>4, <1>5 DEF DialTimes
<1>9. SlowStartIsWaitedFor'
  <2>1. CASE state # "gaveup"
    BY <1>2, <1>4, <1>5, <2>1 DEF SlowStartIsWaitedFor
  <2>2. CASE state = "gaveup"
    <3>1. GivesUp(w)
      BY <1>4, <2>2 DEF Finishes, LosesServer, WorkerInterrupted, WorkerDies, Ends, Becomes,
                        LauncherTypeOK
    <3>2. worker[w] = "dialing" /\ clock >= redial[w] /\ attempt[w] >= MaxRetries
      BY <3>1 DEF GivesUp, Dials
    <3>3. attempt[w] = MaxRetries /\ attempt[w] > 0
      BY <3>2 DEF LauncherTypeOK
    <3>4. server \in {"starting", "listening"} => delay >= ReadyTimeout + MaxRetries - 1
      BY <3>2, <3>3 DEF DialTimes, LauncherTyped, LauncherTypeOK
    <3>5. QED
      BY <1>2, <3>4 DEF SlowStartIsWaitedFor, LauncherTyped
  <2>3. QED
    BY <2>1, <2>2
<1>10. QED
  BY <1>6, <1>7, <1>8, <1>9

\* Time passes only when no worker is due to dial, and waits for a server that is due
\* to listen.
LEMMA PassKeeps == ASSUME LauncherInv, Pass PROVE LauncherInv'
<1> USE LauncherAssumption DEF LauncherInv, Pass, dialVars
<1>1. \A w \in Workers : worker[w] = "dialing" => clock < redial[w]
  BY DEF Dials, LauncherTypeOK, LauncherTyped
<1>2. LauncherTypeOK' /\ LauncherTyped'
  <2>1. clock + 1 <= ReadyTimeout + MaxRetries
    <3>1. CASE main = "wait"
      BY <3>1 DEF LauncherTypeOK
    <3>2. CASE \E w \in Workers : worker[w] = "dialing"
      BY <1>1, <3>2 DEF DialTimes, LauncherTypeOK, LauncherTyped
    <3>3. QED
      BY <3>1, <3>2
  <2>2. QED
    BY <2>1 DEF LauncherTypeOK, LauncherTyped
<1>3. Phases'
  BY DEF Phases, AnyAlive, Alive, InLoop, LauncherTypeOK, LauncherTyped
<1>4. DialTimes'
  BY <1>1 DEF DialTimes, LauncherTypeOK, LauncherTyped
<1>5. SlowStartIsWaitedFor'
  BY DEF SlowStartIsWaitedFor
<1>6. QED
  BY <1>2, <1>3, <1>4, <1>5

\* The end of main: after the last worker, or at an interrupt, when whoever is still
\* alive is terminated.
LEMMA MainKeeps ==
    ASSUME LauncherInv, Interrupt \/ TerminateServer \/ TerminateWorkers
    PROVE  LauncherInv'
<1> USE DEF LauncherInv, dialVars, timeVars
<1>1. CASE Interrupt
  <2> USE <1>1 DEF Interrupt
  <2>1. LauncherTypeOK' /\ LauncherTyped'
    BY DEF LauncherTypeOK, LauncherTyped
  <2>2. Phases' /\ DialTimes' /\ SlowStartIsWaitedFor'
    BY DEF Phases, DialTimes, SlowStartIsWaitedFor, AnyAlive, Alive, InLoop
  <2>3. QED
    BY <2>1, <2>2
<1>2. CASE TerminateServer
  <2> USE <1>2 DEF TerminateServer
  <2>1. LauncherTypeOK' /\ LauncherTyped'
    BY DEF LauncherTypeOK, LauncherTyped
  <2>2. Phases' /\ SlowStartIsWaitedFor'
    BY DEF Phases, SlowStartIsWaitedFor, AllEnded, AnyAlive, Alive, InLoop
  <2>3. DialTimes'
    BY DEF DialTimes
  <2>4. QED
    BY <2>1, <2>2, <2>3
<1>3. CASE TerminateWorkers
  <2> USE <1>3 DEF TerminateWorkers
  <2>1. worker' \in [Workers -> {"none", "dialing", "training", "waiting", "reporting",
                                 "gaveup", "failed", "done", "terminated"}]
    BY DEF LauncherTypeOK
  <2>2. \A w \in Workers : ~Alive(w)' /\ (worker'[w] = "gaveup" => worker[w] = "gaveup")
    BY DEF Alive, InLoop
  <2>3. LauncherTypeOK' /\ LauncherTyped'
    BY <2>1 DEF LauncherTypeOK, LauncherTyped
  <2>4. Phases'
    BY <2>2 DEF Phases, AnyAlive, Alive, InLoop
  <2>5. DialTimes' /\ SlowStartIsWaitedFor'
    BY <2>2 DEF DialTimes, SlowStartIsWaitedFor, Alive
  <2>6. QED
    BY <2>3, <2>4, <2>5
<1>4. QED
  BY <1>1, <1>2, <1>3
-----------------------------------------------------------------------------
\* The dashboard's half.  A process that ends, or is started when no browser has come,
\* has no clients and no broadcast.
LEMMA SetKeeps ==
    ASSUME DashboardInv, NEW state \in {"running", "gone"}, SetDashboard(state),
           state = "running" => dashboard = "none"
    PROVE  DashboardInv'
<1> USE DEF DashboardInv, SetDashboard, queueVars, browserVars
<1>1. MetricsTypeOK'
  BY DEF MetricsTypeOK
<1>2. Broadcast'
  BY DEF Broadcast
<1>3. NothingMissed'
  BY DEF NothingMissed, Broadcast
<1>4. QED
  BY <1>1, <1>2, <1>3

\* A metric that does not fit is dropped, and the queue keeps its bound.
LEMMA EmitKeeps == ASSUME DashboardInv, Emit PROVE DashboardInv'
<1> USE MetricsAssumption DEF DashboardInv, Emit, Put, browserVars, pumpVars
<1>1. MetricsTypeOK'
  <2>1. queue \in Seq(1 .. emitted + 1)
    <3>1. 1 .. emitted \subseteq 1 .. emitted + 1 /\ queue \in Seq(1 .. emitted)
      BY DEF MetricsTypeOK
    <3>2. QED
      BY <3>1, SeqMonotonic
  <2>2. emitted + 1 \in 1 .. emitted + 1 /\ emitted' \in Nat
    BY DEF MetricsTypeOK
  <2>3. Append(queue, emitted') \in Seq(1 .. emitted') /\ Len(Append(queue, emitted')) = Len(queue) + 1
    BY <2>1, <2>2
  <2>4. queue' \in Seq(1 .. emitted')
    BY <2>1, <2>3
  <2>5. Len(queue') <= QueueSize
    <3>1. CASE Len(queue) < QueueSize
      BY <2>1, <2>3, <3>1
    <3>2. CASE ~(Len(queue) < QueueSize)
      BY <3>2 DEF MetricsTypeOK
    <3>3. QED
      BY <3>1, <3>2
  <2>6. QED
    BY <2>2, <2>4, <2>5 DEF MetricsTypeOK
<1>2. Broadcast' /\ NothingMissed'
  BY DEF Broadcast, NothingMissed
<1>3. QED
  BY <1>1, <1>2

\* Browsers come and go, one at a time, during a broadcast or between two.
LEMMA VisitorKeeps ==
    ASSUME DashboardInv, NEW b \in Browsers, dashboard = "running",
           Accept(b) \/ AddClient(b) \/ Leave(b) \/ Forget(b)
    PROVE  DashboardInv'
<1> USE DEF DashboardInv, queueVars, pumpVars
<1>0. link \in [Browsers -> {"away", "open", "broken"}] /\ received \in [Browsers -> Seq(Nat)]
      /\ ws \in [Browsers -> {"none", "accepting", "receiving"}]
      /\ since \in [Browsers -> Nat] /\ popped \in Seq(Nat) /\ Len(popped) \in Nat
  BY DEF MetricsTypeOK, Broadcast
<1>1. CASE Accept(b)
  <2> USE <1>1 DEF Accept
  <2>1. MetricsTypeOK' /\ Broadcast'
    BY <1>0 DEF MetricsTypeOK, Broadcast
  <2>2. NothingMissed'
    BY <1>0 DEF NothingMissed
  <2>3. QED
    BY <2>1, <2>2
<1>2. CASE AddClient(b)
  <2> USE <1>2 DEF AddClient
  <2>1. b \notin targets /\ received[b] = <<>> /\ link[b] # "away"
    BY DEF Broadcast
  <2>2. MetricsTypeOK'
    BY <1>0 DEF MetricsTypeOK
  <2>3. Broadcast'
    BY <1>0, <2>1 DEF Broadcast
  <2>4. NothingMissed'
    <3>1. SubSeq(popped, Len(popped) + 1, Len(popped)) = <<>>
      BY <1>0, Slices
    <3>2. (link[b] = "open" => since'[b] = Len(popped)) /\ b \in clients'
      BY <1>0
    <3>3. \A c \in Browsers : c # b => ws'[c] = ws[c] /\ since'[c] = since[c]
      BY <1>0
    <3>4. QED
      BY <2>1, <3>1, <3>2, <3>3 DEF NothingMissed
  <2>5. QED
    BY <2>2, <2>3, <2>4
<1>3. CASE Leave(b)
  <2> USE <1>3 DEF Leave
  <2>1. link'[b] = "broken" /\ since'[b] = 0 /\ received'[b] = <<>>
        /\ \A c \in Browsers : c # b => /\ link'[c] = link[c] /\ since'[c] = since[c]
                                       /\ received'[c] = received[c]
    BY <1>0
  <2>2. received' \in [Browsers -> Seq(Nat)] /\ since' \in [Browsers -> Nat]
    <3>1. <<>> \in Seq(Nat)
      OBVIOUS
    <3>2. QED
      BY <1>0, <3>1
  <2>3. MetricsTypeOK'
    BY <1>0 DEF MetricsTypeOK
  <2>4. b \in targets => Len(popped) > 0
    BY <1>0 DEF Broadcast
  <2>5. Broadcast'
    BY <1>0, <2>1, <2>2, <2>4 DEF Broadcast
  <2>6. NothingMissed'
    BY <2>1 DEF NothingMissed
  <2>7. QED
    BY <2>3, <2>5, <2>6
<1>4. CASE Forget(b)
  <2> USE <1>4 DEF Forget
  <2>1. MetricsTypeOK' /\ Broadcast'
    BY <1>0 DEF MetricsTypeOK, Broadcast
  <2>2. NothingMissed'
    BY <1>0 DEF NothingMissed
  <2>3. QED
    BY <2>1, <2>2
<1>5. QED
  BY <1>1, <1>2, <1>3, <1>4

\* One step of the pump: a payload is taken, a target is served or found dead, the dead
\* are discarded.
LEMMA PumpKeeps ==
    ASSUME DashboardInv, dashboard = "running",
           Get \/ DiscardDead \/ \E b \in Browsers : SendText(b)
    PROVE  DashboardInv'
<1> USE MetricsAssumption DEF DashboardInv, queueVars, browserVars
<1>0. /\ link \in [Browsers -> {"away", "open", "broken"}] /\ received \in [Browsers -> Seq(Nat)]
      /\ since \in [Browsers -> Nat] /\ popped \in Seq(Nat) /\ Len(popped) \in Nat
      /\ \A b \in Browsers : since[b] <= Len(popped) /\ (b \in targets => since[b] < Len(popped))
  BY DEF MetricsTypeOK, Broadcast
<1>1. CASE Get
  <2> USE <1>1 DEF Get
  <2>1. /\ Head(queue) \in Nat /\ Tail(queue) \in Seq(1 .. emitted)
        /\ Len(Tail(queue)) <= QueueSize
    <3>1. Head(queue) \in 1 .. emitted /\ Tail(queue) \in Seq(1 .. emitted)
          /\ Len(Tail(queue)) = Len(queue) - 1
      BY HeadTailProperties DEF MetricsTypeOK
    <3>2. QED
      BY <3>1 DEF MetricsTypeOK
  <2>2. popped' \in Seq(Nat) /\ Len(popped') = Len(popped) + 1 /\ popped' # <<>>
    BY <1>0, <2>1
  <2>3. MetricsTypeOK'
    BY <2>1 DEF MetricsTypeOK
  <2>4. Broadcast'
    BY <1>0, <2>2 DEF Broadcast
  <2>5. NothingMissed'
    <3>1. SUFFICES ASSUME NEW b \in Browsers, link[b] = "open", ws[b] = "receiving"
                   PROVE  b \in clients /\ received[b] = SubSeq(popped', since[b] + 1, Len(popped))
      BY <1>0, <2>2 DEF NothingMissed
    <3>2. b \in clients /\ received[b] = SubSeq(popped, since[b] + 1, Len(popped))
      BY <3>1 DEF NothingMissed, Broadcast
    <3>3. SubSeq(popped', since[b] + 1, Len(popped)) = SubSeq(popped, since[b] + 1, Len(popped))
      BY <1>0, <2>1, Slices
    <3>4. QED
      BY <3>2, <3>3
  <2>6. QED
    BY <2>3, <2>4, <2>5
<1>2. CASE DiscardDead
  <2> USE <1>2 DEF DiscardDead
  <2>1. MetricsTypeOK' /\ Broadcast'
    BY <1>0 DEF MetricsTypeOK, Broadcast
  <2>2. NothingMissed'
    BY DEF NothingMissed, Broadcast
  <2>3. QED
    BY <2>1, <2>2
<1>3. ASSUME NEW b \in Browsers, SendText(b) PROVE DashboardInv'
  <2> USE <1>3 DEF SendText
  <2>1. pumping /\ Len(popped) > 0
    BY <1>0, EmptySeq DEF Broadcast, MetricsTypeOK
  <2>2. CASE link[b] = "open"
    <3> USE <2>2
    <3>0. b \in clients /\ received[b] = SubSeq(popped, since[b] + 1, Len(popped) - 1)
      <4>1. ws[b] = "receiving"
        BY <1>0 DEF Broadcast, MetricsTypeOK
      <4>2. QED
        BY <4>1 DEF NothingMissed
    <3>1. Append(received[b], popped[Len(popped)]) = SubSeq(popped, since[b] + 1, Len(popped))
      BY <1>0, <3>0, Slices
    <3>2. received'[b] = SubSeq(popped, since[b] + 1, Len(popped))
          /\ received'[b] \in Seq(Nat)
      BY <1>0, <3>1, Slices
    <3>3. \A c \in Browsers : c # b => received'[c] = received[c]
      BY <1>0
    <3>4. received' \in [Browsers -> Seq(Nat)]
      BY <1>0, <3>2, <3>3
    <3>5. MetricsTypeOK'
      BY DEF MetricsTypeOK
    <3>6. Broadcast'
      BY <1>0, <2>1, <3>3, <3>4 DEF Broadcast
    <3>7. NothingMissed'
      BY <3>0, <3>2, <3>3 DEF NothingMissed
    <3>8. QED
      BY <3>5, <3>6, <3>7
  <2>3. CASE link[b] # "open"
    <3> USE <2>3 DEF Failed
    <3>1. link[b] = "broken"
      BY <1>0 DEF Broadcast
    <3>2. MetricsTypeOK' /\ Broadcast'
      BY <1>0, <2>1, <3>1 DEF MetricsTypeOK, Broadcast
    <3>3. NothingMissed'
      BY DEF NothingMissed
    <3>4. QED
      BY <3>2, <3>3
  <2>4. QED
    BY <2>2, <2>3
<1>4. QED
  BY <1>1, <1>2, <1>3
-----------------------------------------------------------------------------
\* Every step of the launcher, its children, the pump and the browsers.
LEMMA DeployStep == ASSUME DeploymentInv, [Next]_vars PROVE DeploymentInv'
<1> USE DEF DeploymentInv
<1>1. ASSUME UNCHANGED launcherVars, DashboardInv', main = "wait" => dashboard' = "none"
      PROVE  DeploymentInv'
  BY <1>1 DEF launcherVars, dialVars, timeVars, LauncherInv, LauncherTypeOK, LauncherTyped,
              Phases, DialTimes, SlowStartIsWaitedFor, AnyAlive, Alive, InLoop
<1>2. ASSUME UNCHANGED metricsVars, LauncherInv', main' = "wait" => main = "wait"
      PROVE  DeploymentInv'
  BY <1>2 DEF metricsVars, queueVars, browserVars, pumpVars, DashboardInv, MetricsTypeOK,
              Broadcast, NothingMissed
<1>3. CASE Start
  <2>1. LauncherInv' /\ main' # "wait" /\ dashboard = "none"
    BY <1>3, StartKeeps DEF Start, StartWorkers
  <2>2. CASE UNCHANGED metricsVars
    BY <1>2, <2>1, <2>2
  <2>3. CASE SetDashboard("running")
    BY <2>1, <2>3, SetKeeps
  <2>4. QED
    BY <1>3, <2>2, <2>3 DEF Start
<1>4. CASE Stop
  <2>1. LauncherInv' /\ main' # "wait"
    BY <1>4, MainKeeps DEF Stop, TerminateServer, TerminateWorkers
  <2>2. SetDashboard("gone") \/ UNCHANGED metricsVars
    BY <1>4 DEF Stop
  <2>3. QED
    BY <1>2, <2>1, <2>2, SetKeeps
<1>5. CASE Wait \/ ServerMain
  <2>1. LauncherInv' /\ UNCHANGED metricsVars /\ main' = main
    BY <1>5, PassKeeps, ServerKeeps
       DEF Wait, ServerMain, Pass, Listen, ServerInterrupted, ServerCloses
  <2>2. QED
    BY <1>2, <2>1
<1>6. CASE Pump
  <2>1. DashboardInv' /\ UNCHANGED launcherVars /\ dashboard = "running"
    BY <1>6, PumpKeeps DEF Pump
  <2>2. QED
    BY <1>1, <2>1
<1>7. CASE Crash
  <2>1. CASE (Interrupt \/ ServerDies) /\ UNCHANGED metricsVars
    <3>1. LauncherInv' /\ main' = main
      BY <2>1, MainKeeps, ServerKeeps DEF Interrupt, ServerDies
    <3>2. QED
      BY <1>2, <2>1, <3>1
  <2>2. CASE \E w \in Workers : WorkerDies(w) /\ UNCHANGED metricsVars
    <3>1. LauncherInv' /\ main' = main /\ UNCHANGED metricsVars
      BY <2>2, EndKeeps DEF WorkerDies
    <3>2. QED
      BY <1>2, <3>1
  <2>3. CASE dashboard = "running" /\ SetDashboard("gone") /\ UNCHANGED launcherVars
    BY <1>1, <2>3, SetKeeps
  <2>4. QED
    BY <1>7, <2>1, <2>2, <2>3 DEF Crash
<1>8. ASSUME NEW w \in Workers, Worker(w) \/ Ack(w) PROVE DeploymentInv'
  <2>1. UNCHANGED metricsVars
    BY <1>8 DEF Worker, Ack
  <2>2. LauncherInv'
    BY <1>8, DialerKeeps, LoopKeeps, EndKeeps DEF Worker, Ack
  <2>3. main' = main
    BY <1>8 DEF Worker, Ack, Connects, IsRefused, GivesUp, Pushes, Finishes, LosesServer,
                WorkerInterrupted, IsAcked
  <2>4. QED
    BY <1>2, <2>1, <2>2, <2>3
<1>9. ASSUME NEW w \in Workers, Serve(w) PROVE DeploymentInv'
  <2>1. LauncherInv' /\ DashboardInv'
    BY <1>9, LoopKeeps, EmitKeeps DEF Serve
  <2>2. main' = main /\ dashboard' = dashboard
    BY <1>9 DEF Serve, IsServed, Emit
  <2>3. QED
    BY <2>1, <2>2
<1>10. ASSUME NEW b \in Browsers, Visitor(b) PROVE DeploymentInv'
  <2>1. DashboardInv' /\ UNCHANGED launcherVars /\ dashboard = "running"
    BY <1>10, VisitorKeeps DEF Visitor
  <2>2. QED
    BY <1>1, <2>1
<1>11. CASE UNCHANGED vars
  <2>1. UNCHANGED launcherVars /\ UNCHANGED metricsVars
    BY <1>11 DEF vars
  <2>2. LauncherInv'
    BY <2>1 DEF launcherVars, dialVars, timeVars, LauncherInv, LauncherTypeOK, LauncherTyped,
                Phases, DialTimes, SlowStartIsWaitedFor, AnyAlive, Alive, InLoop
  <2>3. main' = main
    BY <2>1 DEF launcherVars
  <2>4. QED
    BY <1>2, <2>1, <2>2, <2>3
<1>12. QED
  BY <1>3, <1>4, <1>5, <1>6, <1>7, <1>8, <1>9, <1>10, <1>11 DEF Next

\* The invariant that the three properties below follow from.
THEOREM DeploymentInvariant == Spec => []DeploymentInv
BY DeployInit, DeployStep, PTL DEF Spec

\* Every variable of the launcher and of the dashboard stays in its type, the queue
\* within its bound and the clock within what the waits and the retries add up to.
THEOREM DeploymentTypes == Spec => []TypeOK
<1>1. DeploymentInv => TypeOK
  BY DEF DeploymentInv, LauncherInv, DashboardInv, TypeOK
<1>2. QED
  BY <1>1, DeploymentInvariant, PTL

\* The wait of main and the retries of the workers add up, whatever their values: no
\* worker gives up on a server that listens within their sum less one pause.
THEOREM SlowStart == Spec => []SlowStartIsWaitedFor
<1>1. DeploymentInv => SlowStartIsWaitedFor
  BY DEF DeploymentInv, LauncherInv
<1>2. QED
  BY <1>1, DeploymentInvariant, PTL

\* A browser is sent each payload of its time once and in order, however many come and
\* go during a broadcast.
THEOREM NothingIsMissed == Spec => []NothingMissed
<1>1. DeploymentInv => NothingMissed
  BY DEF DeploymentInv, DashboardInv
<1>2. QED
  BY <1>1, DeploymentInvariant, PTL
=============================================================================
