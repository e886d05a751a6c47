--------------------------- MODULE TrainingProofs ---------------------------
(***************************************************************************)
(* Proofs about Training for any set of workers, any number of restarts    *)
(* and steps, any quorum, and any faults.                                  *)
(***************************************************************************)
EXTENDS TrainingInvariant, FiniteSetTheorems, TLAPS

-----------------------------------------------------------------------------
(* Types.                                                                   *)

LEMMA ConnFacts ==
    /\ \A w \in Workers : ConnOf(w)[1] = w /\ ConnOf(w)[2] = inc[w]
    /\ TypeOK => \A w \in Workers : ConnOf(w) \in Conns
    /\ \A c \in Conns : WorkerOf(c) \in Workers
BY DEF ConnOf, TypeOK, WorkerTypeOK, Conns, WorkerOf

\* The messages that are sent are requests and responses.
LEMMA MessageTypes ==
    /\ Plain("PULL_WEIGHTS") \in Request
    /\ Plain("HEARTBEAT") \in Request
    /\ \A g \in Gradient : Push(g) \in Request /\ Push(g).gradients = g
    /\ Plain("ACK") \in Response
    /\ Plain("HEARTBEAT_ACK") \in Response
    /\ \A v \in Nat : Weights(v) \in Response
    /\ \A m \in Request : m.type = "PUSH_GRADIENTS" => m.gradients \in Gradient
    /\ \A m \in Response : m.type = "WEIGHTS_RESPONSE" => m.weights \in Nat
BY DEF Plain, Push, Weights, Request, Response

\* The streams keep their type under everything that is done to them.
LEMMA WireTypes ==
    ASSUME WireTypeOK, NEW c \in Conns
    PROVE  /\ \A m \in Request : ClientSend(c, m) =>
                up' \in [Conns -> Seq(Request)]
           /\ \A m \in Response : ServerSend(c, m) =>
                down' \in [Conns -> Seq(Response)]
           /\ up[c] # <<>> /\ ServerRecv(c) =>
                up' \in [Conns -> Seq(Request)] /\ Head(up[c]) \in Request
           /\ down[c] # <<>> /\ ClientRecv(c) =>
                down' \in [Conns -> Seq(Response)] /\ Head(down[c]) \in Response
           /\ ClientClose(c) => open' \subseteq Conns /\ down' \in [Conns -> Seq(Response)]
<1>1. \A m \in Request : ClientSend(c, m) => up' \in [Conns -> Seq(Request)]
  BY DEF WireTypeOK, ClientSend
<1>2. \A m \in Response : ServerSend(c, m) => down' \in [Conns -> Seq(Response)]
  BY DEF WireTypeOK, ServerSend
<1>3. up[c] # <<>> /\ ServerRecv(c) =>
        up' \in [Conns -> Seq(Request)] /\ Head(up[c]) \in Request
  BY DEF WireTypeOK, ServerRecv
<1>4. down[c] # <<>> /\ ClientRecv(c) =>
        down' \in [Conns -> Seq(Response)] /\ Head(down[c]) \in Response
  BY DEF WireTypeOK, ClientRecv
<1>5. ClientClose(c) => open' \subseteq Conns /\ down' \in [Conns -> Seq(Response)]
  BY DEF WireTypeOK, ClientClose
<1>6. QED
  BY <1>1, <1>2, <1>3, <1>4, <1>5

\* Every step of a handler thread keeps the types of the server and of the wire.
LEMMA HandlerTypes ==
    ASSUME WireTypeOK, ServerTypeOK, NEW c \in Conns, Handler(c)
    PROVE  WireTypeOK' /\ ServerTypeOK'
<1> USE DEF Goto, Control
<1>w. WorkerOf(c) \in Workers
  BY ConnFacts
<1>1. CASE Accept(c)
  BY <1>w, <1>1 DEF Accept, aggregatorVars, storeVars, wireVars, WireTypeOK, ServerTypeOK
<1>2. CASE Identify(c)
  BY <1>w, <1>2 DEF Identify, aggregatorVars, storeVars, wireVars, WireTypeOK, ServerTypeOK
<1>3. CASE RegisterSocket(c)
  BY <1>w, <1>3 DEF RegisterSocket, SocketsWithout, storeVars, wireVars, WireTypeOK, ServerTypeOK
<1>4. CASE HandlePull(c)
  BY <1>w, <1>4, WireTypes, MessageTypes DEF HandlePull, aggregatorVars, storeVars, Requested, WireTypeOK, ServerTypeOK
<1>5. CASE SendWeights(c)
  BY <1>w, <1>5, WireTypes, MessageTypes DEF SendWeights, aggregatorVars, storeVars, WireTypeOK, ServerTypeOK
<1>6. CASE HandleHeartbeat(c)
  BY <1>w, <1>6, WireTypes, MessageTypes DEF HandleHeartbeat, aggregatorVars, storeVars, Requested, WireTypeOK, ServerTypeOK
<1>7. CASE SendHeartbeatAck(c)
  BY <1>w, <1>7, WireTypes, MessageTypes DEF SendHeartbeatAck, aggregatorVars, storeVars, WireTypeOK, ServerTypeOK
<1>8. CASE SubmitAndWait(c)
  BY <1>w, <1>8, WireTypes, MessageTypes DEF SubmitAndWait, Store, BufferWith, BufferWithout, storeVars, threadVars, Requested, WireTypeOK, ServerTypeOK
<1>9. CASE SubmitAndFire(c)
  BY <1>w, <1>9, WireTypes, MessageTypes DEF SubmitAndFire, Store, BufferWith, BufferWithout, storeVars, Requested, WireTypeOK, ServerTypeOK
<1>10. CASE ApplyGradients(c)
  BY <1>w, <1>10 DEF ApplyGradients, wireVars, aggregatorVars, WireTypeOK, ServerTypeOK
<1>11. CASE GetStep(c)
  BY <1>w, <1>11 DEF GetStep, wireVars, aggregatorVars, storeVars, WireTypeOK, ServerTypeOK
<1>12. CASE SendAck(c)
  BY <1>w, <1>12, WireTypes, MessageTypes DEF SendAck, aggregatorVars, storeVars, WireTypeOK, ServerTypeOK
<1>13. CASE SkipCheckpoint(c)
  BY <1>w, <1>13 DEF SkipCheckpoint, wireVars, aggregatorVars, storeVars, WireTypeOK, ServerTypeOK
<1>14. CASE DecideCheckpoint(c)
  BY <1>w, <1>14 DEF DecideCheckpoint, wireVars, aggregatorVars, storeVars, WireTypeOK, ServerTypeOK
<1>15. CASE MarkCheckpoint(c)
  BY <1>w, <1>15 DEF MarkCheckpoint, wireVars, aggregatorVars, WireTypeOK, ServerTypeOK
<1>16. CASE SaveCheckpoint(c)
  BY <1>w, <1>16 DEF SaveCheckpoint, wireVars, aggregatorVars, WireTypeOK, ServerTypeOK
<1>17. CASE Disconnect(c)
  <2>1. up' \in [Conns -> Seq(Request)]
    BY <1>17 DEF Disconnect, WireTypeOK
  <2>2. pc' \in [Conns -> Control]
    BY <1>17 DEF Disconnect, ServerTypeOK
  <2>3. QED
    BY <1>17, <2>1, <2>2 DEF Disconnect, aggregatorVars, storeVars, WireTypeOK,
                             ServerTypeOK
<1>18. CASE MarkDead(c)
  BY <1>w, <1>18 DEF MarkDead, wireVars, aggregatorVars, storeVars, WireTypeOK, ServerTypeOK
<1>19. CASE Unregister(c)
  BY <1>w, <1>19 DEF Unregister, wireVars, storeVars, SocketsWithout, BufferWithout, WireTypeOK, ServerTypeOK
<1>20. QED
  BY <1>1, <1>2, <1>3, <1>4, <1>5, <1>6, <1>7, <1>8, <1>9, <1>10, <1>11, <1>12, <1>13, <1>14, <1>15, <1>16, <1>17, <1>18, <1>19 DEF Handler, Submit

\* Every step of a worker keeps the types of the worker and of the wire.
LEMMA WorkerTypes ==
    ASSUME WireTypeOK, WorkerTypeOK, LoopGuard, NEW w \in Workers,
           WorkerStep(w) \/ ConnectionLost(w) \/ Crash(w) \/ Restart(w)
    PROVE  WireTypeOK' /\ WorkerTypeOK' /\ LoopGuard'
<1> USE DEF MoveTo, Places, Awaiting, Stopped, Reply, LoopGuard
<1>w. ConnOf(w) \in Conns /\ MaxSteps \in Nat /\ MaxRestarts \in Nat
  BY WireAssumption DEF ConnOf, Conns, WorkerTypeOK
<1>r. Responded(ConnOf(w), "WEIGHTS_RESPONSE") => Head(down[ConnOf(w)]).weights \in Nat
  <2>1. down[ConnOf(w)] # <<>> => Head(down[ConnOf(w)]) \in Response
    BY <1>w DEF WireTypeOK
  <2>2. QED
    BY <2>1, MessageTypes DEF Responded
<1>1. CASE Connect(w)
  BY <1>w, <1>1 DEF Connect, WireTypeOK, WorkerTypeOK
<1>2. CASE PullWeights(w)
  BY <1>w, <1>2, WireTypes, MessageTypes DEF PullWeights, Send, WireTypeOK, WorkerTypeOK
<1>3. CASE RecvFirstWeights(w)
  <2>1. WorkerTypeOK' /\ LoopGuard'
    BY <1>w, <1>r, <1>3 DEF RecvFirstWeights, Receive, WorkerTypeOK
  <2>2. WireTypeOK'
    BY <1>w, <1>3, WireTypes DEF RecvFirstWeights, Receive, Responded, WireTypeOK
  <2>3. QED
    BY <2>1, <2>2
<1>4. CASE PushGradients(w)
  <2>1. Delta(w) \in Gradient
    BY <1>w, <1>4 DEF PushGradients, Delta, Gradient, WorkerTypeOK
  <2>2. up' \in [Conns -> Seq(Request)]
    BY <1>w, <1>4, <2>1, WireTypes, MessageTypes DEF PushGradients, Send
  <2>3. QED
    BY <1>4, <2>2 DEF PushGradients, Send, WireTypeOK, WorkerTypeOK
<1>5. CASE RecvAck(w)
  BY <1>w, <1>5, WireTypes, MessageTypes DEF RecvAck, Receive, Responded, WireTypeOK, WorkerTypeOK
<1>6. CASE Heartbeat(w)
  BY <1>w, <1>6, WireTypes, MessageTypes DEF Heartbeat, Send, WireTypeOK, WorkerTypeOK
<1>7. CASE SkipHeartbeat(w)
  BY <1>w, <1>7 DEF SkipHeartbeat, wireVars, WireTypeOK, WorkerTypeOK
<1>8. CASE RecvHeartbeatAck(w)
  BY <1>w, <1>8, WireTypes, MessageTypes DEF RecvHeartbeatAck, Receive, Responded, WireTypeOK, WorkerTypeOK
<1>9. CASE RecvWeights(w)
  <2>1. WorkerTypeOK' /\ LoopGuard'
    BY <1>w, <1>r, <1>9 DEF RecvWeights, Receive, WorkerTypeOK
  <2>2. WireTypeOK'
    BY <1>w, <1>9, WireTypes DEF RecvWeights, Receive, Responded, WireTypeOK
  <2>3. QED
    BY <2>1, <2>2
<1>10. CASE Finish(w)
  <2>1. WorkerTypeOK' /\ LoopGuard'
    BY <1>w, <1>r, <1>10 DEF Finish, WorkerTypeOK
  <2>2. WireTypeOK'
    BY <1>w, <1>10, WireTypes DEF Finish, WireTypeOK
  <2>3. QED
    BY <2>1, <2>2
<1>11. CASE RecvUnexpected(w)
  BY <1>w, <1>11, WireTypes, MessageTypes DEF RecvUnexpected, WireTypeOK, WorkerTypeOK
<1>12. CASE ConnectionLost(w)
  BY <1>w, <1>12, WireTypes, MessageTypes DEF ConnectionLost, WireTypeOK, WorkerTypeOK
<1>13. CASE Crash(w)
  BY <1>w, <1>13, WireTypes, MessageTypes DEF Crash, WireTypeOK, WorkerTypeOK
<1>14. CASE Restart(w)
  BY <1>w, <1>14 DEF Restart, wireVars, WireTypeOK, WorkerTypeOK
<1>15. QED
  BY <1>1, <1>2, <1>3, <1>4, <1>5, <1>6, <1>7, <1>8, <1>9, <1>10, <1>11, <1>12, <1>13, <1>14 DEF WorkerStep

Typed == TypeOK /\ LoopGuard

LEMMA TypedInit == Init => Typed
BY WireAssumption, FaultAssumption
   DEF Init, WireInit, ServerInit, WorkerInit, Typed, TypeOK, WireTypeOK,
       ServerTypeOK, WorkerTypeOK, LoopGuard, Control, Places

LEMMA TypedStep == Typed /\ [Next]_vars => Typed'
<1> SUFFICES ASSUME Typed, [Next]_vars PROVE Typed'
  OBVIOUS
<1> USE DEF Typed, TypeOK
<1>1. CASE Server
  BY <1>1, HandlerTypes DEF Server, workerVars, WorkerTypeOK, LoopGuard
<1>2. ASSUME NEW w \in Workers, WorkerProcess(w) PROVE Typed'
  BY <1>2, WorkerTypes DEF WorkerProcess, LoseConnection, serverVars, ServerTypeOK
<1>3. ASSUME NEW w \in Workers, Restart(w), UNCHANGED <<serverVars, faults>>
      PROVE  Typed'
  BY <1>3, WorkerTypes DEF serverVars, ServerTypeOK
<1>4. CASE Faulty
  <2>1. ASSUME NEW w \in Workers, Fault("crash"), Crash(w), UNCHANGED serverVars
        PROVE  Typed'
    BY <2>1, FaultAssumption, WorkerTypes DEF Fault, serverVars, ServerTypeOK
  <2>2. ASSUME NEW w \in Workers, Fault("expire"), Expire(w), UNCHANGED workerVars
        PROVE  Typed'
    BY <2>2, FaultAssumption
       DEF Fault, Expire, wireVars, aggregatorVars, storeVars, threadVars, workerVars,
           WireTypeOK, ServerTypeOK, WorkerTypeOK, LoopGuard
  <2>3. ASSUME NEW c \in Conns, Fault("disk"), FailCheckpoint(c), UNCHANGED workerVars
        PROVE  Typed'
    BY <2>3, FaultAssumption
       DEF Fault, FailCheckpoint, Goto, Control, wireVars, aggregatorVars, workerVars,
           WireTypeOK, ServerTypeOK, WorkerTypeOK, LoopGuard
  <2>4. QED
    BY <1>4, <2>1, <2>2, <2>3 DEF Faulty
<1>5. CASE UNCHANGED vars
  BY <1>5 DEF vars, wireVars, serverVars, workerVars, WireTypeOK, ServerTypeOK,
              WorkerTypeOK, LoopGuard
<1>6. QED
  BY <1>1, <1>2, <1>3, <1>4, <1>5 DEF Next

\* Every reachable state is well typed, and a worker in its loop has iterations left.
THEOREM TypeCorrect == Spec => []TypeOK
<1>1. Typed => TypeOK
  BY DEF Typed
<1>2. QED
  BY <1>1, TypedInit, TypedStep, PTL DEF Spec
-----------------------------------------------------------------------------
(* The streams of pushes.                                                   *)

\* Whatever push is in a stream after a step was there before it, and in the same
\* order: the stream of c moved up by k places, and nothing was added.
Shifted(c, k) == \A i \in Pushes(c)' :
                    i + k \in Pushes(c) /\ Pushed(c, i)' = Pushed(c, i + k)
UpShrinks == \A c \in Conns : \E k \in Nat : Shifted(c, k)

LEMMA Shrinking ==
    ASSUME WireTypeOK
    PROVE  /\ UNCHANGED up => UpShrinks
           /\ \A c \in Conns : up[c] # <<>> /\ ServerRecv(c) => UpShrinks
           /\ \A c \in Conns : up' = [up EXCEPT ![c] = <<>>] => UpShrinks
           /\ \A c \in Conns : ClientSend(c, Plain("PULL_WEIGHTS")) => UpShrinks
           /\ \A c \in Conns : ClientSend(c, Plain("HEARTBEAT")) => UpShrinks
<1>1. UNCHANGED up => UpShrinks
  <2>1. UNCHANGED up => \A c \in Conns : Shifted(c, 0)
    BY DEF WireTypeOK, Shifted, Pushes, Pushed
  <2>2. QED
    BY <2>1 DEF UpShrinks
<1>2. ASSUME NEW d \in Conns, up[d] # <<>>, ServerRecv(d) PROVE UpShrinks
  <2>1. Shifted(d, 1)
    BY <1>2 DEF WireTypeOK, Shifted, Pushes, Pushed, ServerRecv
  <2>2. \A c \in Conns : c # d => Shifted(c, 0)
    BY <1>2 DEF WireTypeOK, Shifted, Pushes, Pushed, ServerRecv
  <2>3. QED
    BY <2>1, <2>2 DEF UpShrinks
<1>3. ASSUME NEW d \in Conns, up' = [up EXCEPT ![d] = <<>>] PROVE UpShrinks
  <2>1. \A c \in Conns : Shifted(c, 0)
    BY <1>3 DEF WireTypeOK, Shifted, Pushes, Pushed
  <2>2. QED
    BY <2>1 DEF UpShrinks
<1>4. ASSUME NEW d \in Conns, NEW type \in {"PULL_WEIGHTS", "HEARTBEAT"},
             ClientSend(d, Plain(type))
      PROVE  UpShrinks
  <2>1. \A c \in Conns : Shifted(c, 0)
    BY <1>4 DEF WireTypeOK, Shifted, Pushes, Pushed, ClientSend, Plain
  <2>2. QED
    BY <2>1 DEF UpShrinks
<1>5. QED
  BY <1>1, <1>2, <1>3, <1>4

LEMMA InRoundMembers == \A g : g \in InRound <=> \E c \in Conns : g \in round[c]
BY DEF InRound

LEMMA GradientTypes ==
    /\ WireTypeOK => \A c \in Conns : \A i \in Pushes(c) :
                       i \in Nat /\ i > 0 /\ Pushed(c, i) \in Gradient
    /\ ServerTypeOK => Taken \subseteq Gradient
    /\ \A g \in Gradient : g.conn \in Conns /\ g.step \in Nat
<1>1. ASSUME WireTypeOK, NEW c \in Conns, NEW i \in Pushes(c)
      PROVE  i \in Nat /\ i > 0 /\ Pushed(c, i) \in Gradient
  <2>1. i \in Nat /\ i > 0 /\ up[c][i] \in Request
    BY <1>1 DEF WireTypeOK, Pushes
  <2>2. QED
    BY <1>1, <2>1, MessageTypes DEF Pushes, Pushed
<1>2. ServerTypeOK => Taken \subseteq Gradient
  BY InRoundMembers DEF ServerTypeOK, Taken
<1>3. \A g \in Gradient : g.conn \in Conns /\ g.step \in Nat
  BY WireAssumption DEF Gradient
<1>4. QED
  BY <1>1, <1>2, <1>3

\* A step that only shrinks the streams, takes nothing new and moves no worker back.
LEMMA StreamsKept ==
    ASSUME WireTypeOK, WireTypeOK', ServerTypeOK,
           StreamOrdered, StreamFresh, NothingFromTheFuture,
           UpShrinks, Taken' \subseteq Taken,
           \A g \in Gradient : IsPast(g) => IsPast(g)'
    PROVE  StreamOrdered' /\ StreamFresh' /\ NothingFromTheFuture'
<1>1. ASSUME NEW c \in Conns, NEW i \in Pushes(c)'
      PROVE  /\ Pushed(c, i)'.conn = c
             /\ \A j \in Pushes(c)' : i < j => Pushed(c, i)'.step < Pushed(c, j)'.step
             /\ \A g \in Taken : g.conn = c => g.step < Pushed(c, i)'.step
             /\ IsPast(Pushed(c, i))'
  <2>1. PICK k \in Nat : Shifted(c, k)
    BY DEF UpShrinks
  <2>2. i + k \in Pushes(c) /\ Pushed(c, i)' = Pushed(c, i + k)
    BY <1>1, <2>1 DEF Shifted
  <2>3. \A j \in Pushes(c)' : j \in Nat
    BY DEF WireTypeOK, Pushes
  <2>4. ASSUME NEW j \in Pushes(c)', i < j
        PROVE  Pushed(c, i)'.step < Pushed(c, j)'.step
    <3>1. j + k \in Pushes(c) /\ Pushed(c, j)' = Pushed(c, j + k)
      BY <2>1, <2>4 DEF Shifted
    <3>2. i + k < j + k
      BY <2>3, <2>4
    <3>3. QED
      BY <2>2, <3>1, <3>2 DEF StreamOrdered
  <2>5. IsPast(Pushed(c, i))'
    BY <2>2, GradientTypes DEF NothingFromTheFuture, IsPast
  <2>6. QED
    BY <2>2, <2>4, <2>5 DEF StreamOrdered, StreamFresh
<1>2. \A g \in Taken' : IsPast(g)'
  BY GradientTypes DEF NothingFromTheFuture
<1>3. QED
  BY <1>1, <1>2 DEF StreamOrdered, StreamFresh, NothingFromTheFuture

\* The gradient that a submit() stores is new to the aggregator.
LEMMA StoredIsNew ==
    ASSUME WireTypeOK, ServerTypeOK, Conservation, NEW c \in Conns, Store(c)
    PROVE  /\ up[c] # <<>> /\ pc[c] = "recv"
           /\ 1 \in Pushes(c) /\ Pushed(c, 1) = Head(up[c]).gradients
           /\ Pushed(c, 1) \in Gradient /\ Pushed(c, 1).conn = c
           /\ IsPast(Pushed(c, 1))
           /\ Pushed(c, 1) \notin Taken
<1>1. up[c] # <<>> /\ pc[c] = "recv" /\ Head(up[c]).type = "PUSH_GRADIENTS"
  BY DEF Store, Requested
<1>2. 1 \in DOMAIN up[c] /\ Head(up[c]) = up[c][1]
  BY <1>1 DEF WireTypeOK
<1>3. 1 \in Pushes(c) /\ Pushed(c, 1) = Head(up[c]).gradients
  BY <1>1, <1>2 DEF Pushes, Pushed
<1>4. Pushed(c, 1) \in Gradient /\ Pushed(c, 1).conn = c /\ IsPast(Pushed(c, 1))
  BY <1>3, GradientTypes DEF Conservation, StreamOrdered, NothingFromTheFuture
<1>5. Pushed(c, 1) \notin Taken
  BY <1>3, <1>4, GradientTypes DEF Conservation, StreamFresh
<1>6. QED
  BY <1>1, <1>3, <1>4, <1>5
-----------------------------------------------------------------------------
(* The aggregator's books, across the steps of the threads.                 *)

Books == BufferKeyed /\ RoundInApply /\ Disjoint /\ EntriesAttended
Streams == StreamOrdered /\ StreamFresh /\ NothingFromTheFuture

LEMMA IInvParts == IInv <=> WireTypeOK /\ ServerTypeOK /\ WorkerTypeOK /\
                           faults \in 0 .. MaxFaults /\ LoopGuard /\ Books /\ Streams
BY DEF IInv, TypeOK, Conservation, Books, Streams

\* What the steps have in common that move no gradient.
Quiet == /\ UNCHANGED <<buffer, round, applied, dropped>>
         /\ UpShrinks
         /\ \A c \in Conns : /\ pc'[c] = "apply" <=> pc[c] = "apply"
                             /\ Attended(c) => Attended(c)'
         /\ \A c \in sockets' : c \in sockets \/ Attended(c)'

LEMMA QuietStep ==
    ASSUME WireTypeOK, WireTypeOK', ServerTypeOK, Books, Streams, Quiet,
           \A g \in Gradient : IsPast(g) => IsPast(g)'
    PROVE  Books' /\ Streams'
<1>1. Taken' = Taken
  BY DEF Quiet, Taken, InRound
<1>2. Streams'
  BY <1>1, StreamsKept DEF Streams, Quiet
<1>3. BufferKeyed' /\ Disjoint'
  BY DEF Books, Quiet, BufferKeyed, Keyed, Disjoint
<1>4. RoundInApply'
  BY DEF Books, Quiet, RoundInApply
<1>5. EntriesAttended'
  BY GradientTypes DEF Books, Quiet, EntriesAttended, ServerTypeOK
<1>6. QED
  BY <1>2, <1>3, <1>4, <1>5 DEF Books

\* The steps of a handler thread that only answer, wait, checkpoint or clean up.
LEMMA QuietHandler ==
    ASSUME WireTypeOK, ServerTypeOK, Books, NEW c \in Conns,
           \/ Accept(c) \/ Identify(c) \/ RegisterSocket(c)
           \/ HandlePull(c) \/ SendWeights(c) \/ HandleHeartbeat(c) \/ SendHeartbeatAck(c)
           \/ GetStep(c) \/ SendAck(c) \/ SkipCheckpoint(c) \/ DecideCheckpoint(c)
           \/ MarkCheckpoint(c) \/ SaveCheckpoint(c) \/ FailCheckpoint(c)
           \/ Disconnect(c) \/ MarkDead(c)
    PROVE  Quiet
<1> USE DEF Goto, Attended, Serving, ServerTypeOK, Quiet
<1>1. CASE Accept(c)
  BY <1>1, Shrinking DEF Accept, aggregatorVars, storeVars, wireVars
<1>2. CASE Identify(c)
  BY <1>2, Shrinking DEF Identify, aggregatorVars, storeVars, wireVars
<1>3. CASE RegisterSocket(c)
  BY <1>3, Shrinking DEF RegisterSocket, SocketsWithout, storeVars, wireVars
<1>4. CASE HandlePull(c)
  BY <1>4, Shrinking DEF HandlePull, aggregatorVars, storeVars, Requested
<1>5. CASE SendWeights(c)
  BY <1>5, Shrinking DEF SendWeights, aggregatorVars, storeVars
<1>6. CASE HandleHeartbeat(c)
  BY <1>6, Shrinking DEF HandleHeartbeat, aggregatorVars, storeVars, Requested
<1>7. CASE SendHeartbeatAck(c)
  BY <1>7, Shrinking DEF SendHeartbeatAck, aggregatorVars, storeVars
<1>8. CASE GetStep(c)
  BY <1>8, Shrinking DEF GetStep, wireVars, aggregatorVars, storeVars
<1>9. CASE SendAck(c)
  BY <1>9, Shrinking DEF SendAck, aggregatorVars, storeVars
<1>10. CASE SkipCheckpoint(c)
  BY <1>10, Shrinking DEF SkipCheckpoint, wireVars, aggregatorVars, storeVars
<1>11. CASE DecideCheckpoint(c)
  BY <1>11, Shrinking DEF DecideCheckpoint, wireVars, aggregatorVars, storeVars
<1>12. CASE MarkCheckpoint(c)
  BY <1>12, Shrinking DEF MarkCheckpoint, wireVars, aggregatorVars
<1>13. CASE SaveCheckpoint(c)
  BY <1>13, Shrinking DEF SaveCheckpoint, wireVars, aggregatorVars
<1>14. CASE FailCheckpoint(c)
  BY <1>14, Shrinking DEF FailCheckpoint, wireVars, aggregatorVars
<1>15. CASE Disconnect(c)
  BY <1>15, Shrinking DEF Disconnect, aggregatorVars, storeVars
<1>16. CASE MarkDead(c)
  BY <1>16, Shrinking DEF MarkDead, wireVars, aggregatorVars, storeVars
<1>17. QED
  BY <1>1, <1>2, <1>3, <1>4, <1>5, <1>6, <1>7, <1>8, <1>9, <1>10, <1>11, <1>12, <1>13, <1>14, <1>15, <1>16

\* submit() moves the head of the stream of c into the aggregator: the streams stay
\* ordered, and what is left in them is newer than what was taken.
LEMMA SubmitStreams ==
    ASSUME IInv, WireTypeOK', NEW c \in Conns, Store(c),
           Taken' \subseteq Taken \cup {Pushed(c, 1)},
           UNCHANGED <<inc, wpc, local_step>>
    PROVE  Streams'
<1> DEFINE g == Pushed(c, 1)
<1>0. WireTypeOK /\ ServerTypeOK /\ Conservation /\ Streams
  BY DEF IInv, TypeOK, Conservation, Streams
<1>1. 1 \in Pushes(c) /\ g \in Gradient /\ g.conn = c /\ IsPast(g) /\ up[c] # <<>>
  BY <1>0, StoredIsNew
<1>2. Shifted(c, 1)
  BY <1>0, <1>1 DEF WireTypeOK, Store, ServerRecv, Shifted, Pushes, Pushed
<1>3. \A d \in Conns : d # c => Pushes(d)' = Pushes(d) /\
                               \A i \in Pushes(d) : Pushed(d, i)' = Pushed(d, i)
  BY <1>0 DEF WireTypeOK, Store, ServerRecv, Pushes, Pushed
<1>4. \A i \in Pushes(c)' : g.step < Pushed(c, i)'.step
  <2>1. \A i \in Pushes(c)' : i \in Nat /\ i > 0
    BY DEF WireTypeOK, Pushes
  <2>2. QED
    BY <1>0, <1>1, <1>2, <2>1 DEF Shifted, Streams, StreamOrdered
<1>5. \A h : IsPast(h) => IsPast(h)'
  BY DEF IsPast, PushCount
<1>6. StreamOrdered'
  <2>1. \A i \in Pushes(c)' : i \in Nat
    BY DEF WireTypeOK, Pushes
  <2>2. ASSUME NEW i \in Pushes(c)'
        PROVE  /\ Pushed(c, i)'.conn = c
               /\ \A j \in Pushes(c)' : i < j =>
                    Pushed(c, i)'.step < Pushed(c, j)'.step
    BY <1>0, <1>2, <2>1 DEF Shifted, Streams, StreamOrdered
  <2>3. ASSUME NEW d \in Conns, d # c, NEW i \in Pushes(d)'
        PROVE  /\ Pushed(d, i)'.conn = d
               /\ \A j \in Pushes(d)' : i < j =>
                    Pushed(d, i)'.step < Pushed(d, j)'.step
    BY <1>0, <1>3, <2>3 DEF Streams, StreamOrdered
  <2>4. QED
    BY <2>2, <2>3 DEF StreamOrdered
<1>7. StreamFresh'
  <2>1. ASSUME NEW i \in Pushes(c)', NEW h \in Taken', h.conn = c
        PROVE  h.step < Pushed(c, i)'.step
    <3>1. CASE h = g
      BY <1>4, <3>1
    <3>2. CASE h \in Taken
      BY <1>0, <1>2, <2>1, <3>2 DEF Shifted, Streams, StreamFresh
    <3>3. QED
      BY <3>1, <3>2
  <2>2. ASSUME NEW d \in Conns, d # c, NEW i \in Pushes(d)',
               NEW h \in Taken', h.conn = d
        PROVE  h.step < Pushed(d, i)'.step
    BY <1>0, <1>1, <1>3, <2>2 DEF Streams, StreamFresh
  <2>3. QED
    BY <2>1, <2>2 DEF StreamFresh
<1>8. NothingFromTheFuture'
  <2>1. ASSUME NEW d \in Conns, NEW i \in Pushes(d)'
        PROVE  IsPast(Pushed(d, i))'
    <3>1. \E j \in Pushes(d) : Pushed(d, i)' = Pushed(d, j)
      BY <1>2, <1>3, <2>1 DEF Shifted
    <3>2. QED
      BY <1>0, <3>1 DEF Streams, NothingFromTheFuture, IsPast, PushCount
  <2>2. \A h \in Taken' : IsPast(h)'
    BY <1>0, <1>1, <1>5 DEF Streams, NothingFromTheFuture
  <2>3. QED
    BY <2>1, <2>2 DEF NothingFromTheFuture
<1>9. QED
  BY <1>6, <1>7, <1>8 DEF Streams

LEMMA SubmitStep ==
    ASSUME IInv, WireTypeOK', NEW c \in Conns, SubmitAndWait(c) \/ SubmitAndFire(c),
           UNCHANGED <<inc, wpc, local_step>>
    PROVE  Books' /\ Streams'
<1> DEFINE g == Pushed(c, 1)
           kept == BufferWithout(WorkerOf(c))
<1>0. WireTypeOK /\ ServerTypeOK /\ Conservation /\ Books
  BY DEF IInv, TypeOK, Conservation, Books
<1>1. Store(c)
  BY DEF SubmitAndWait, SubmitAndFire
<1>2. /\ g \in Gradient /\ g.conn = c /\ g \notin Taken /\ pc[c] = "recv"
      /\ BufferWith(c) = kept \cup {g}
      /\ kept \subseteq buffer
      /\ Keyed(BufferWith(c))
  <2>1. g \in Gradient /\ g.conn = c /\ g \notin Taken /\ pc[c] = "recv"
        /\ BufferWith(c) = kept \cup {g}
    BY <1>0, <1>1, StoredIsNew DEF BufferWith
  <2>2. QED
    BY <1>0, <2>1 DEF BufferWithout, Books, BufferKeyed, Keyed
<1>3. round[c] = {}
  BY <1>0, <1>2 DEF Books, RoundInApply
<1>4. \A d \in Conns : BufferWith(c) \cap round[d] = {}
  BY <1>0, <1>2, InRoundMembers DEF Books, Disjoint, Taken
<1>5. dropped' = dropped \cup (buffer \ BufferWith(c))
  BY <1>1 DEF Store
<1>6. CASE SubmitAndWait(c)
  <2>1. UNCHANGED <<pc, round, sockets, applied>> /\ buffer' = BufferWith(c)
    BY <1>6 DEF SubmitAndWait, threadVars, storeVars
  <2>2. Taken' \subseteq Taken \cup {g}
    BY <1>2, <1>5, <2>1 DEF Taken, InRound
  <2>3. EntriesAttended'
    BY <1>0, <1>2, <2>1 DEF Books, EntriesAttended, Attended, Serving
  <2>4. BufferKeyed' /\ RoundInApply' /\ Disjoint'
    BY <1>0, <1>2, <1>4, <2>1 DEF Books, BufferKeyed, Keyed, RoundInApply, Disjoint
  <2>5. QED
    BY <1>1, <2>2, <2>3, <2>4, SubmitStreams DEF Books
<1>7. CASE SubmitAndFire(c)
  <2>1. /\ UNCHANGED <<sockets, applied>> /\ buffer' = {}
        /\ round' = [round EXCEPT ![c] = BufferWith(c)]
        /\ pc' = [pc EXCEPT ![c] = "apply"]
    BY <1>7 DEF SubmitAndFire, Goto, storeVars
  <2>2. \A d \in Conns : round'[d] = IF d = c THEN BufferWith(c) ELSE round[d]
    BY <1>0, <2>1 DEF ServerTypeOK
  <2>3. \A d \in Conns : pc'[d] = IF d = c THEN "apply" ELSE pc[d]
    BY <1>0, <2>1 DEF ServerTypeOK
  <2>4. Taken' \subseteq Taken \cup {g}
    <3>1. \A h \in InRound' : h \in BufferWith(c) \cup InRound
      BY <2>2, InRoundMembers DEF InRound
    <3>2. QED
      BY <1>2, <1>5, <2>1, <3>1 DEF Taken
  <2>5. EntriesAttended'
    BY <1>0, <2>1, <2>3 DEF Books, EntriesAttended, Attended, Serving, ServerTypeOK
  <2>6. BufferKeyed'
    BY <1>0, <1>2, <2>1, <2>2 DEF Books, BufferKeyed, Keyed
  <2>7. RoundInApply'
    BY <1>0, <1>2, <2>2, <2>3 DEF Books, RoundInApply
  <2>8. Disjoint'
    BY <1>0, <1>4, <2>1, <2>2 DEF Books, Disjoint
  <2>9. QED
    BY <1>1, <2>4, <2>5, <2>6, <2>7, <2>8, SubmitStreams DEF Books
<1>8. QED
  BY <1>6, <1>7

\* apply_gradients moves a round into the weights.
LEMMA ApplyStep ==
    ASSUME IInv, WireTypeOK', NEW c \in Conns, ApplyGradients(c),
           UNCHANGED <<inc, wpc, local_step>>
    PROVE  Books' /\ Streams'
<1>0. WireTypeOK /\ ServerTypeOK /\ Books /\ Streams
  BY IInvParts
<1>1. /\ UNCHANGED <<up, buffer, sockets, dropped>>
      /\ applied' = applied \cup round[c]
      /\ \A d \in Conns : round'[d] = IF d = c THEN {} ELSE round[d]
      /\ \A d \in Conns : pc'[d] = IF d = c THEN "step" ELSE pc[d]
  BY <1>0 DEF ApplyGradients, Goto, wireVars, aggregatorVars, ServerTypeOK
<1>2. Taken' \subseteq Taken
  <2>1. \A g \in InRound' : g \in InRound
    BY <1>1, InRoundMembers DEF InRound
  <2>2. QED
    BY <1>1, <2>1, InRoundMembers DEF Taken
<1>3. Streams'
  <2>1. \A g \in Gradient : IsPast(g) => IsPast(g)'
    BY DEF IsPast, PushCount
  <2>2. QED
    BY <1>0, <1>1, <1>2, <2>1, Shrinking, StreamsKept DEF Streams
<1>4. BufferKeyed' /\ RoundInApply' /\ Disjoint'
  BY <1>0, <1>1 DEF Books, BufferKeyed, Keyed, RoundInApply, Disjoint
<1>5. EntriesAttended'
  BY <1>0, <1>1, GradientTypes
     DEF Books, EntriesAttended, Attended, Serving, ServerTypeOK
<1>6. QED
  BY <1>3, <1>4, <1>5 DEF Books

\* unregister() takes every entry of a worker out, the handler's own among them.
LEMMA UnregisterStep ==
    ASSUME IInv, WireTypeOK', NEW c \in Conns, Unregister(c),
           UNCHANGED <<inc, wpc, local_step>>
    PROVE  Books' /\ Streams'
<1>0. WireTypeOK /\ ServerTypeOK /\ Books /\ Streams
  BY IInvParts
<1>1. /\ UNCHANGED <<up, round, applied>>
      /\ buffer' = BufferWithout(WorkerOf(c))
      /\ sockets' = SocketsWithout(WorkerOf(c))
      /\ dropped' = dropped \cup (buffer \ buffer')
      /\ pc[c] = "unregister"
      /\ \A d \in Conns : pc'[d] = IF d = c THEN "closed" ELSE pc[d]
  BY <1>0 DEF Unregister, Goto, wireVars, storeVars, ServerTypeOK
<1>2. Taken' \subseteq Taken
  BY <1>1 DEF Taken, InRound, BufferWithout
<1>3. Streams'
  <2>1. \A g \in Gradient : IsPast(g) => IsPast(g)'
    BY DEF IsPast, PushCount
  <2>2. QED
    BY <1>0, <1>1, <1>2, <2>1, Shrinking, StreamsKept DEF Streams
<1>4. BufferKeyed' /\ RoundInApply' /\ Disjoint'
  BY <1>0, <1>1
     DEF Books, BufferWithout, BufferKeyed, Keyed, RoundInApply, Disjoint
<1>5. EntriesAttended'
  <2>1. \A d \in sockets' : d \in sockets /\ d # c
    BY <1>1 DEF SocketsWithout
  <2>2. \A g \in buffer' : g \in buffer /\ g.conn # c
    BY <1>1 DEF BufferWithout
  <2>3. \A d \in Conns : d # c /\ Attended(d) => Attended(d)'
    BY <1>1 DEF Attended, Serving
  <2>4. QED
    BY <1>0, <2>1, <2>2, <2>3, GradientTypes
       DEF Books, EntriesAttended, ServerTypeOK, Taken
<1>6. QED
  BY <1>3, <1>4, <1>5 DEF Books
-----------------------------------------------------------------------------
(* The steps of the workers.                                                *)

\* A new push is younger than everything its connection ever carried.
LEMMA PushStep ==
    ASSUME IInv, WireTypeOK', NEW w \in Workers, PushGradients(w), UNCHANGED serverVars
    PROVE  Streams'
<1>0. WireTypeOK /\ ServerTypeOK /\ WorkerTypeOK /\ Streams /\ ConnOf(w) \in Conns
  BY IInvParts, ConnFacts DEF IInv
<1>a. PICK c \in Conns : c = ConnOf(w)
  BY <1>0
<1>b. PICK g \in Gradient : g = Delta(w)
  BY <1>0, IInvParts, WireAssumption
     DEF PushGradients, Delta, Gradient, LoopGuard, WorkerTypeOK
<1>n. PICK n \in Nat : n = Len(up[c]) + 1
  BY <1>0 DEF WireTypeOK
<1>1. /\ wpc[w] = "rollout" /\ wpc' = [wpc EXCEPT ![w] = "ack"]
      /\ UNCHANGED <<inc, local_step>>
      /\ up' = [up EXCEPT ![c] = Append(@, Push(g))]
  BY <1>a, <1>b DEF PushGradients, MoveTo, Send, ClientSend
<1>2. g.conn = c /\ g.step = local_step[w] /\ WorkerOf(c) = w /\ c[2] = inc[w]
  BY <1>a, <1>b DEF Delta, ConnOf, WorkerOf
<1>3. Taken' = Taken
  BY DEF serverVars, Taken, InRound
<1>4. /\ Pushes(c)' = Pushes(c) \cup {n} /\ Pushed(c, n)' = g
      /\ \A i \in Pushes(c) : i < n /\ Pushed(c, i)' = Pushed(c, i)
  <2>1. up[c] \in Seq(Request) /\ up'[c] = Append(up[c], Push(g))
    BY <1>0, <1>1 DEF WireTypeOK
  <2>2. /\ DOMAIN up'[c] = DOMAIN up[c] \cup {n} /\ up'[c][n] = Push(g)
        /\ \A i \in DOMAIN up[c] : i < n /\ up'[c][i] = up[c][i]
    BY <1>n, <2>1
  <2>3. QED
    BY <2>2 DEF Pushes, Pushed, Push
<1>5. \A d \in Conns : d # c => Pushes(d)' = Pushes(d) /\
                               \A i \in Pushes(d) : Pushed(d, i)' = Pushed(d, i)
  BY <1>0, <1>1 DEF WireTypeOK, Pushes, Pushed
<1>6. \A h \in Gradient : IsPast(h) /\ h.conn = c => h.step < g.step
  BY <1>1, <1>2 DEF IsPast, PushCount
<1>7. \A h \in Gradient : IsPast(h) => IsPast(h)'
  BY <1>0, <1>1, GradientTypes DEF IsPast, PushCount, WorkerTypeOK
<1>8. IsPast(g)'
  <2>1. PushCount(w)' = local_step[w] + 1
    BY <1>0, <1>1 DEF PushCount, WorkerTypeOK
  <2>2. QED
    BY <1>0, <1>1, <1>2, <2>1 DEF IsPast, WorkerTypeOK
<1>9. StreamOrdered'
  <2>1. \A i \in Pushes(c) : Pushed(c, i).conn = c /\ Pushed(c, i).step < g.step
    BY <1>0, <1>6, GradientTypes DEF Streams, StreamOrdered, NothingFromTheFuture
  <2>2. ASSUME NEW i \in Pushes(c)'
        PROVE  /\ Pushed(c, i)'.conn = c
               /\ \A j \in Pushes(c)' : i < j =>
                    Pushed(c, i)'.step < Pushed(c, j)'.step
    BY <1>0, <1>2, <1>4, <2>1, GradientTypes DEF Streams, StreamOrdered
  <2>3. QED
    BY <1>0, <1>5, <2>2 DEF Streams, StreamOrdered
<1>10. StreamFresh'
  <2>1. \A h \in Taken : h.conn = c => h.step < g.step
    BY <1>0, <1>6, GradientTypes DEF Streams, NothingFromTheFuture
  <2>2. ASSUME NEW i \in Pushes(c)', NEW h \in Taken, h.conn = c
        PROVE  h.step < Pushed(c, i)'.step
    BY <1>0, <1>4, <2>1, <2>2 DEF Streams, StreamFresh
  <2>3. QED
    BY <1>0, <1>3, <1>5, <2>2 DEF Streams, StreamFresh
<1>11. NothingFromTheFuture'
  <2>1. ASSUME NEW d \in Conns, NEW i \in Pushes(d)'
        PROVE  IsPast(Pushed(d, i))'
    <3>1. CASE Pushed(d, i)' = g
      BY <1>8, <3>1 DEF IsPast
    <3>2. CASE i \in Pushes(d) /\ Pushed(d, i)' = Pushed(d, i)
      <4>1. IsPast(Pushed(d, i)) /\ Pushed(d, i) \in Gradient
        BY <1>0, <3>2, GradientTypes DEF Streams, NothingFromTheFuture
      <4>2. QED
        BY <1>7, <3>2, <4>1 DEF IsPast
    <3>3. QED
      BY <1>4, <1>5, <2>1, <3>1, <3>2
  <2>2. \A h \in Taken' : IsPast(h)'
    BY <1>0, <1>3, <1>7, GradientTypes DEF Streams, NothingFromTheFuture
  <2>3. QED
    BY <2>1, <2>2 DEF NothingFromTheFuture
<1>12. QED
  BY <1>9, <1>10, <1>11 DEF Streams

\* The other steps of a worker, and what may happen to it: nothing is pushed, and no
\* iteration is left before its push.
LEMMA OtherWorkerSteps ==
    ASSUME IInv, NEW w \in Workers,
           \/ Connect(w) \/ PullWeights(w) \/ RecvFirstWeights(w) \/ RecvAck(w)
           \/ Heartbeat(w) \/ SkipHeartbeat(w) \/ RecvHeartbeatAck(w)
           \/ RecvWeights(w) \/ Finish(w) \/ RecvUnexpected(w)
           \/ ConnectionLost(w) \/ Crash(w) \/ Restart(w)
    PROVE  UpShrinks /\ \A g \in Gradient : IsPast(g) => IsPast(g)'
<1>0. WireTypeOK /\ WorkerTypeOK /\ ConnOf(w) \in Conns /\
      \A g \in Gradient : /\ g.conn[2] \in Nat /\ g.step \in Nat
                          /\ WorkerOf(g.conn) \in Workers
  BY IInvParts, ConnFacts, GradientTypes, WireAssumption DEF IInv, Conns
<1>1. UpShrinks
  BY <1>0, Shrinking
     DEF Connect, PullWeights, RecvFirstWeights, RecvAck, Heartbeat, SkipHeartbeat,
         RecvHeartbeatAck, RecvWeights, Finish, RecvUnexpected, ConnectionLost, Crash,
         Restart, Send, wireVars
<1> USE <1>0 DEF MoveTo, IsPast, PushCount, WorkerTypeOK, Stopped, Awaiting, Reply
<1>2. CASE Connect(w)
  BY <1>1, <1>2 DEF Connect
<1>3. CASE PullWeights(w)
  BY <1>1, <1>3 DEF PullWeights
<1>4. CASE RecvFirstWeights(w)
  BY <1>1, <1>4 DEF RecvFirstWeights, Receive
<1>5. CASE RecvAck(w)
  BY <1>1, <1>5 DEF RecvAck, Receive
<1>6. CASE Heartbeat(w)
  BY <1>1, <1>6 DEF Heartbeat
<1>7. CASE SkipHeartbeat(w)
  BY <1>1, <1>7 DEF SkipHeartbeat
<1>8. CASE RecvHeartbeatAck(w)
  BY <1>1, <1>8 DEF RecvHeartbeatAck, Receive
<1>9. CASE RecvWeights(w)
  BY <1>1, <1>9 DEF RecvWeights, Receive
<1>10. CASE Finish(w)
  BY <1>1, <1>10 DEF Finish
<1>11. CASE RecvUnexpected(w)
  BY <1>1, <1>11 DEF RecvUnexpected, Receive
<1>12. CASE ConnectionLost(w)
  BY <1>1, <1>12 DEF ConnectionLost
<1>13. CASE Crash(w)
  BY <1>1, <1>13 DEF Crash
<1>14. CASE Restart(w)
  BY <1>1, <1>14 DEF Restart
<1>15. QED
  BY <1>2, <1>3, <1>4, <1>5, <1>6, <1>7, <1>8, <1>9, <1>10, <1>11, <1>12, <1>13, <1>14
-----------------------------------------------------------------------------
(* The invariant.                                                           *)

LEMMA IInvInit == Init => IInv
<1>1. Init => TypeOK /\ LoopGuard
  BY TypedInit DEF Typed
<1>2. Init => \A c \in Conns : Pushes(c) = {}
  BY DEF Init, WireInit, Pushes
<1>3. Init => Taken = {} /\ \A c \in Conns : round[c] = {}
  BY DEF Init, ServerInit, Taken, InRound
<1>4. Init => Conservation
  BY <1>2, <1>3
     DEF Conservation, BufferKeyed, Keyed, RoundInApply, Disjoint, StreamOrdered,
         StreamFresh, NothingFromTheFuture, Init, ServerInit
<1>5. Init => EntriesAttended
  BY DEF EntriesAttended, Init, ServerInit
<1>6. QED
  BY <1>1, <1>4, <1>5 DEF IInv

\* What a step of the server does to the books, when no worker moves.
LEMMA ServerStep ==
    ASSUME IInv, WireTypeOK', NEW c \in Conns, Handler(c) \/ FailCheckpoint(c),
           UNCHANGED workerVars
    PROVE  Books' /\ Streams'
<1>0. WireTypeOK /\ ServerTypeOK /\ Books /\ Streams /\ UNCHANGED <<inc, wpc, local_step>>
  BY IInvParts DEF workerVars
<1>1. CASE SubmitAndWait(c) \/ SubmitAndFire(c)
  BY <1>0, <1>1, SubmitStep
<1>2. CASE ApplyGradients(c)
  BY <1>0, <1>2, ApplyStep
<1>3. CASE Unregister(c)
  BY <1>0, <1>3, UnregisterStep
<1>4. CASE Quiet
  <2>1. \A g \in Gradient : IsPast(g) => IsPast(g)'
    BY <1>0 DEF IsPast, PushCount
  <2>2. QED
    BY <1>0, <1>4, <2>1, QuietStep
<1>5. QED
  BY <1>0, <1>1, <1>2, <1>3, <1>4, QuietHandler DEF Handler, Submit

LEMMA IInvStep == IInv /\ [Next]_vars => IInv'
<1> SUFFICES ASSUME IInv, [Next]_vars PROVE IInv'
  OBVIOUS
<1>0. WireTypeOK /\ ServerTypeOK /\ Books /\ Streams
  BY IInvParts
<1>1. TypeOK' /\ LoopGuard'
  BY TypedStep DEF IInv, Typed
<1>2. WireTypeOK'
  BY <1>1 DEF TypeOK
<1>3. Books' /\ Streams'
  <2>1. CASE Server
    BY <1>2, <2>1, ServerStep DEF Server
  <2>2. ASSUME NEW w \in Workers, PushGradients(w), UNCHANGED serverVars
        PROVE  Books' /\ Streams'
    <3>1. Books'
      BY <1>0, <2>2 DEF serverVars, Books, BufferKeyed, Keyed, RoundInApply, Disjoint,
                        EntriesAttended, Attended, Serving
    <3>2. QED
      BY <1>2, <2>2, <3>1, PushStep
  <2>3. ASSUME NEW w \in Workers, UNCHANGED serverVars,
               UpShrinks, \A g \in Gradient : IsPast(g) => IsPast(g)'
        PROVE  Books' /\ Streams'
    <3>1. Quiet
      BY <2>3 DEF Quiet, serverVars, Attended, Serving
    <3>2. QED
      BY <1>0, <1>2, <2>3, <3>1, QuietStep
  <2>4. CASE \E w \in Workers : WorkerProcess(w)
    BY <2>2, <2>3, <2>4, OtherWorkerSteps DEF WorkerProcess, WorkerStep, LoseConnection
  <2>5. CASE \E w \in Workers : Restart(w) /\ UNCHANGED <<serverVars, faults>>
    BY <2>3, <2>5, OtherWorkerSteps
  <2>6. CASE Faulty
    <3>1. CASE \E w \in Workers : Fault("crash") /\ Crash(w) /\ UNCHANGED serverVars
      BY <2>3, <3>1, OtherWorkerSteps
    <3>2. ASSUME NEW w \in Workers, Expire(w), UNCHANGED workerVars
          PROVE  Books' /\ Streams'
      <4>1. Quiet
        BY <1>0, <3>2, Shrinking DEF Expire, Quiet, wireVars, aggregatorVars, storeVars,
                                     threadVars, Attended, Serving
      <4>2. \A g \in Gradient : IsPast(g) => IsPast(g)'
        BY <3>2 DEF workerVars, IsPast, PushCount
      <4>3. QED
        BY <1>0, <1>2, <4>1, <4>2, QuietStep
    <3>3. CASE \E c \in Conns : Fault("disk") /\ FailCheckpoint(c) /\ UNCHANGED workerVars
      BY <1>2, <3>3, ServerStep
    <3>4. QED
      BY <2>6, <3>1, <3>2, <3>3 DEF Faulty
  <2>7. CASE UNCHANGED vars
    <3>1. Quiet
      BY <1>0, <2>7, Shrinking DEF vars, wireVars, serverVars, Quiet, Attended, Serving
    <3>2. \A g \in Gradient : IsPast(g) => IsPast(g)'
      BY <2>7 DEF vars, workerVars, IsPast, PushCount
    <3>3. QED
      BY <1>0, <1>2, <3>1, <3>2, QuietStep
  <2>8. QED
    BY <2>1, <2>4, <2>5, <2>6, <2>7 DEF Next
<1>4. QED
  BY <1>1, <1>3 DEF IInv, Conservation, Books, Streams

\* The invariant holds in every reachable state.
THEOREM Invariance == Spec => []IInv
BY IInvInit, IInvStep, PTL DEF Spec

\* A handler that has ended leaves nothing behind in the aggregator.
THEOREM NoLeftovers == Spec => []NothingLeftBehind
<1>1. IInv => NothingLeftBehind
  BY DEF IInv, EntriesAttended, NothingLeftBehind, Attended, Serving
<1>2. QED
  BY <1>1, Invariance, PTL

\* ALIVE workers are served: mark_dead and register bracket the life of a handler.
LEMMA AliveStep == TypeOK /\ AliveIsServed /\ [Next]_vars => AliveIsServed'
<1> SUFFICES ASSUME TypeOK, AliveIsServed, [Next]_vars PROVE AliveIsServed'
  OBVIOUS
<1>0. pc \in [Conns -> Control]
  BY DEF TypeOK, ServerTypeOK
<1>1. ASSUME alive' \subseteq alive, \A c \in Conns : Serving(c) => Serving(c)'
      PROVE  AliveIsServed'
  BY <1>1 DEF AliveIsServed
<1>2. ASSUME NEW c \in Conns, Handler(c) \/ FailCheckpoint(c) PROVE AliveIsServed'
  <2> USE <1>0 DEF Goto, Serving
  <2>1. CASE Identify(c)
    BY <2>1 DEF Identify, AliveIsServed
  <2>2. CASE HandleHeartbeat(c)
    BY <2>2 DEF HandleHeartbeat, AliveIsServed
  <2>3. CASE MarkDead(c)
    BY <2>3 DEF MarkDead, AliveIsServed
  <2>4. CASE Accept(c) \/ RegisterSocket(c) \/ HandlePull(c) \/ SendWeights(c)
             \/ SendHeartbeatAck(c) \/ Disconnect(c) \/ Unregister(c)
    BY <1>1, <2>4 DEF Accept, RegisterSocket, HandlePull, SendWeights, SendHeartbeatAck,
                      Disconnect, Unregister
  <2>5. CASE Submit(c) \/ FailCheckpoint(c)
    BY <1>1, <2>5 DEF Submit, SubmitAndWait, SubmitAndFire, Store, ApplyGradients, GetStep,
                      SendAck, SkipCheckpoint, DecideCheckpoint, MarkCheckpoint,
                      SaveCheckpoint, FailCheckpoint, threadVars
  <2>6. QED
    BY <1>2, <2>1, <2>2, <2>3, <2>4, <2>5 DEF Handler
<1>3. CASE UNCHANGED serverVars
  BY <1>1, <1>3 DEF serverVars, Serving
<1>4. ASSUME NEW w \in Workers, Expire(w) PROVE AliveIsServed'
  BY <1>1, <1>4 DEF Expire, threadVars, Serving
<1>5. QED
  BY <1>2, <1>3, <1>4 DEF Next, Server, WorkerProcess, Faulty, vars

\* The barrier never waits for a worker that no handler serves.
THEOREM NoGhosts == Spec => []AliveIsServed
<1>1. Init => AliveIsServed
  BY DEF Init, ServerInit, AliveIsServed
<1>2. QED
  BY <1>1, AliveStep, TypeCorrect, PTL DEF Spec
-----------------------------------------------------------------------------
(* Refinement.                                                              *)

LEMMA SubmitRefines ==
    ASSUME IInv, NEW c \in Conns, SubmitAndWait(c) \/ SubmitAndFire(c)
    PROVE  Rounds!Next
<1> DEFINE g == Head(up[c]).gradients
           P == buffer \cup InRound
<1>0. WireTypeOK /\ ServerTypeOK /\ Conservation
  BY DEF IInv, TypeOK
<1>1. Store(c)
  BY DEF SubmitAndWait, SubmitAndFire
<1>2. g \in Gradient /\ g \notin Taken /\ g.conn = c /\ pc[c] = "recv"
  BY <1>0, <1>1, StoredIsNew
<1>3. UNCHANGED <<applied, global_step>>
  BY DEF SubmitAndWait, SubmitAndFire, storeVars
<1>4. dropped' = dropped \cup (buffer \ BufferWith(c))
  BY <1>1 DEF Store
<1>5. P' = BufferWith(c) \cup InRound
  <2>1. CASE SubmitAndWait(c)
    BY <2>1 DEF SubmitAndWait, threadVars, InRound
  <2>2. CASE SubmitAndFire(c)
    <3>1. buffer' = {} /\ \A d \in Conns :
            round'[d] = IF d = c THEN BufferWith(c) ELSE round[d]
      BY <1>0, <2>2 DEF SubmitAndFire, ServerTypeOK
    <3>2. round[c] = {}
      BY <1>0, <1>2 DEF Conservation, RoundInApply
    <3>3. \A h : h \in InRound' <=> h \in BufferWith(c) \cup InRound
      BY <3>1, <3>2, InRoundMembers DEF InRound
    <3>4. QED
      BY <3>1, <3>3
  <2>3. QED
    BY <2>1, <2>2
<1>6. CASE \E old \in buffer : SenderOf(old) = SenderOf(g)
  <2>1. PICK old \in buffer : SenderOf(old) = SenderOf(g)
    BY <1>6
  <2>2. BufferWith(c) = (buffer \ {old}) \cup {g}
    BY <1>0, <1>2, <2>1 DEF BufferWith, BufferWithout, SenderOf, Conservation,
                            BufferKeyed, Keyed
  <2>3. old \notin InRound /\ old # g
    BY <1>0, <1>2, <2>1, InRoundMembers DEF Conservation, Disjoint, Taken
  <2>4. P' = (P \ {old}) \cup {g} /\ dropped' = dropped \cup {old}
    BY <1>4, <1>5, <2>1, <2>2, <2>3
  <2>5. Rounds!Replace(g, old)
    BY <1>2, <1>3, <2>1, <2>4 DEF Rounds!Replace, Rounds!IsNew, Taken
  <2>6. QED
    BY <1>2, <2>1, <2>5 DEF Rounds!Next
<1>7. CASE ~ \E old \in buffer : SenderOf(old) = SenderOf(g)
  <2>1. BufferWith(c) = buffer \cup {g}
    BY <1>2, <1>7 DEF BufferWith, BufferWithout, SenderOf
  <2>2. P' = P \cup {g} /\ dropped' = dropped
    BY <1>4, <1>5, <2>1
  <2>3. Rounds!Arrive(g)
    BY <1>2, <1>3, <2>2 DEF Rounds!Arrive, Rounds!IsNew, Taken
  <2>4. QED
    BY <1>2, <2>3 DEF Rounds!Next
<1>8. QED
  BY <1>6, <1>7

LEMMA ApplyRefines ==
    ASSUME IInv, NEW c \in Conns, ApplyGradients(c)
    PROVE  Rounds!Next
<1> DEFINE P == buffer \cup InRound
<1>0. ServerTypeOK /\ Conservation
  BY DEF IInv, TypeOK
<1>1. /\ UNCHANGED <<buffer, dropped>> /\ global_step' = global_step + 1
      /\ applied' = applied \cup round[c]
      /\ \A d \in Conns : round'[d] = IF d = c THEN {} ELSE round[d]
  BY <1>0 DEF ApplyGradients, aggregatorVars, ServerTypeOK
<1>2. round[c] # {} /\ round[c] \subseteq P
  BY <1>0, InRoundMembers DEF ApplyGradients, Conservation, RoundInApply
<1>3. P' = P \ round[c]
  <2>1. \A h : h \in InRound' <=> h \in InRound \ round[c]
    BY <1>0, <1>1, InRoundMembers DEF InRound, Conservation, Disjoint
  <2>2. QED
    BY <1>0, <1>1, <2>1 DEF Conservation, Disjoint
<1>4. Rounds!Round(round[c])
  BY <1>0, <1>1, <1>2, <1>3
     DEF Rounds!Round, SenderOf, Conservation, BufferKeyed, Keyed
<1>5. QED
  BY <1>2, <1>4 DEF Rounds!Next

LEMMA UnregisterRefines ==
    ASSUME IInv, NEW c \in Conns, Unregister(c)
    PROVE  [Rounds!Next]_(Rounds!vars)
<1> DEFINE P == buffer \cup InRound
<1>0. ServerTypeOK /\ Conservation
  BY DEF IInv, TypeOK
<1>1. /\ UNCHANGED <<round, applied, global_step>> /\ InRound' = InRound
      /\ buffer' = BufferWithout(WorkerOf(c))
      /\ dropped' = dropped \cup (buffer \ buffer')
  BY DEF Unregister, storeVars, InRound
<1>2. CASE buffer' = buffer
  BY <1>1, <1>2 DEF Rounds!vars
<1>3. CASE buffer' # buffer
  <2>1. PICK old \in buffer : WorkerOf(old.conn) = WorkerOf(c)
    BY <1>1, <1>3 DEF BufferWithout
  <2>2. buffer' = buffer \ {old}
    BY <1>0, <1>1, <2>1 DEF BufferWithout, Conservation, BufferKeyed, Keyed
  <2>3. old \notin InRound
    BY <1>0, <2>1, InRoundMembers DEF Conservation, Disjoint
  <2>4. P' = P \ {old} /\ dropped' = dropped \cup {old}
    BY <1>1, <2>1, <2>2, <2>3
  <2>5. Rounds!Discard(old)
    BY <1>1, <2>4 DEF Rounds!Discard
  <2>6. QED
    BY <2>1, <2>5 DEF Rounds!Next
<1>4. QED
  BY <1>2, <1>3

LEMMA StepRefines == IInv /\ [Next]_vars => [Rounds!Next]_(Rounds!vars)
<1> SUFFICES ASSUME IInv, [Next]_vars PROVE [Rounds!Next]_(Rounds!vars)
  OBVIOUS
<1>1. ASSUME UNCHANGED <<buffer, round, applied, dropped, global_step>>
      PROVE  [Rounds!Next]_(Rounds!vars)
  BY <1>1 DEF Rounds!vars, InRound
<1>2. ASSUME NEW c \in Conns, Handler(c) \/ FailCheckpoint(c)
      PROVE  [Rounds!Next]_(Rounds!vars)
  <2>1. CASE SubmitAndWait(c) \/ SubmitAndFire(c)
    BY <2>1, SubmitRefines
  <2>2. CASE ApplyGradients(c)
    BY <2>2, ApplyRefines
  <2>3. CASE Unregister(c)
    BY <2>3, UnregisterRefines
  <2>4. CASE Accept(c) \/ Identify(c) \/ RegisterSocket(c) \/ HandlePull(c)
             \/ SendWeights(c) \/ HandleHeartbeat(c) \/ SendHeartbeatAck(c)
             \/ Disconnect(c) \/ MarkDead(c)
    BY <1>1, <2>4 DEF Accept, Identify, RegisterSocket, HandlePull, SendWeights,
         HandleHeartbeat, SendHeartbeatAck, Disconnect, MarkDead, aggregatorVars, storeVars
  <2>5. CASE GetStep(c) \/ SendAck(c) \/ SkipCheckpoint(c) \/ DecideCheckpoint(c)
             \/ MarkCheckpoint(c) \/ SaveCheckpoint(c) \/ FailCheckpoint(c)
    BY <1>1, <2>5 DEF GetStep, SendAck, SkipCheckpoint, DecideCheckpoint, MarkCheckpoint,
         SaveCheckpoint, FailCheckpoint, aggregatorVars, storeVars
  <2>6. QED
    BY <1>2, <2>1, <2>2, <2>3, <2>4, <2>5 DEF Handler, Submit
<1>3. CASE UNCHANGED serverVars
  BY <1>1, <1>3 DEF serverVars
<1>4. ASSUME NEW w \in Workers, Expire(w) PROVE [Rounds!Next]_(Rounds!vars)
  BY <1>1, <1>4 DEF Expire, aggregatorVars, storeVars, threadVars
<1>5. QED
  BY <1>2, <1>3, <1>4 DEF Next, Server, WorkerProcess, Faulty, vars

\* The server implements the rounds, in every mode and under every fault: each pushed
\* delta is averaged into the weights at most once, or dropped for good.
THEOREM Refinement == Spec => ImplementsRounds
<1>1. Init => Rounds!Init
  BY DEF Init, ServerInit, Rounds!Init, InRound
<1>2. QED
  BY <1>1, StepRefines, Invariance, PTL DEF Spec, ImplementsRounds, Rounds!Spec
-----------------------------------------------------------------------------
(* A quorum that the workers cannot reach.                                  *)

Unacknowledging == {m \in Response : m.type # "ACK"}

\* Nothing was averaged, and no worker is past the wait for its first ACK.
NothingApplied ==
    /\ applied = {} /\ global_step = 0
    /\ \A w \in Workers : wpc[w] \notin {"acked", "beat", "pull", "weights", "done"}

ShutInv == /\ Typed
           /\ \A c \in Conns : ~InSubmit(c)
           /\ down \in [Conns -> Seq(Unacknowledging)]
           /\ NothingApplied

\* What waits at the barrier are never more workers than there are.
LEMMA TooFew ==
    ASSUME IsFiniteSet(Workers), MinReady > Cardinality(Workers), TypeOK
    PROVE  \A buf : ~ShouldApply(buf)
<1>1. TAKE buf
<1> DEFINE have == {WorkerOf(g.conn) : g \in buf}
<1>2. MinReady \in Nat
  BY ServerAssumption
<1>3. Cardinality(Workers) \in Nat
  BY FS_CardinalityType
<1>4. Cardinality(have \cap alive) <= Cardinality(Workers)
  BY FS_Subset DEF TypeOK, ServerTypeOK
<1>5. Cardinality(have \cap alive) \in Nat
  BY FS_Subset, FS_CardinalityType DEF TypeOK, ServerTypeOK
<1>6. ~(Cardinality(have \cap alive) >= MinReady) /\ ~(MinReady <= 0)
  BY <1>2, <1>3, <1>4, <1>5
<1>7. QED
  BY <1>6 DEF ShouldApply

LEMMA ShutHandler ==
    ASSUME ShutInv, NEW c \in Conns, Handler(c) \/ FailCheckpoint(c),
           \A buf : ~ShouldApply(buf)
    PROVE  /\ \A d \in Conns : ~InSubmit(d)'
           /\ down' \in [Conns -> Seq(Unacknowledging)]
           /\ UNCHANGED <<applied, global_step>>
<1> USE DEF ShutInv, Typed, TypeOK, ServerTypeOK, InSubmit, Goto
<1>1. \A v \in Nat : Weights(v) \in Unacknowledging
  BY MessageTypes DEF Unacknowledging, Weights
<1>2. Plain("HEARTBEAT_ACK") \in Unacknowledging
  BY MessageTypes DEF Unacknowledging, Plain
<1>3. CASE Accept(c) \/ Identify(c) \/ Disconnect(c) \/ MarkDead(c)
  BY <1>3 DEF Accept, Identify, Disconnect, MarkDead, storeVars, wireVars
<1>4. CASE RegisterSocket(c) \/ HandlePull(c) \/ HandleHeartbeat(c) \/ Unregister(c)
  BY <1>4 DEF RegisterSocket, HandlePull, HandleHeartbeat, Unregister, storeVars, wireVars
<1>5. CASE SendWeights(c)
  BY <1>5, <1>1 DEF SendWeights, ServerSend, storeVars
<1>6. CASE SendHeartbeatAck(c)
  BY <1>6, <1>2 DEF SendHeartbeatAck, ServerSend, storeVars
<1>7. CASE SubmitAndWait(c)
  BY <1>7 DEF SubmitAndWait, storeVars, threadVars
<1>8. ~SubmitAndFire(c) /\ ~ApplyGradients(c) /\ ~GetStep(c) /\ ~SendAck(c)
  BY DEF SubmitAndFire, ApplyGradients, GetStep, SendAck
<1>9. ~SkipCheckpoint(c) /\ ~DecideCheckpoint(c) /\ ~MarkCheckpoint(c)
        /\ ~SaveCheckpoint(c) /\ ~FailCheckpoint(c)
  BY DEF SkipCheckpoint, DecideCheckpoint, MarkCheckpoint, SaveCheckpoint, FailCheckpoint
<1>10. QED
  BY <1>3, <1>4, <1>5, <1>6, <1>7, <1>8, <1>9 DEF Handler, Submit

LEMMA ShutWorker ==
    ASSUME ShutInv, NEW w \in Workers,
           WorkerStep(w) \/ ConnectionLost(w) \/ Crash(w) \/ Restart(w)
    PROVE  /\ down' \in [Conns -> Seq(Unacknowledging)]
           /\ \A v \in Workers :
                wpc[v]' \notin {"acked", "beat", "pull", "weights", "done"}
<1> USE DEF ShutInv, Typed, TypeOK, WorkerTypeOK, NothingApplied, MoveTo
<1>w. ConnOf(w) \in Conns
  BY ConnFacts
<1>1. CASE Connect(w) \/ PullWeights(w) \/ PushGradients(w) \/ Restart(w)
  BY <1>1 DEF Connect, PullWeights, PushGradients, Restart, Send, wireVars
<1>2. CASE RecvFirstWeights(w)
  BY <1>2, <1>w DEF RecvFirstWeights, Receive, Responded, ClientRecv
<1>3. ~RecvAck(w)
  <2>1. SUFFICES ASSUME RecvAck(w) PROVE FALSE
    OBVIOUS
  <2>2. down[ConnOf(w)] # <<>> /\ Head(down[ConnOf(w)]).type = "ACK"
    BY <2>1 DEF RecvAck, Receive, Responded, Reply
  <2>3. Head(down[ConnOf(w)]) \in Unacknowledging
    BY <1>w, <2>2
  <2>4. QED
    BY <2>2, <2>3 DEF Unacknowledging
<1>4. ~Heartbeat(w) /\ ~SkipHeartbeat(w) /\ ~RecvHeartbeatAck(w) /\ ~RecvWeights(w)
        /\ ~Finish(w)
  BY DEF Heartbeat, SkipHeartbeat, RecvHeartbeatAck, RecvWeights, Finish, Receive
<1>5. CASE RecvUnexpected(w) \/ ConnectionLost(w) \/ Crash(w)
  <2>1. <<>> \in Seq(Unacknowledging)
    OBVIOUS
  <2>2. ClientClose(ConnOf(w)) /\ \E place \in {"failed", "crashed"} : MoveTo(w, place)
    BY <1>5 DEF RecvUnexpected, ConnectionLost, Crash
  <2>3. QED
    BY <1>w, <2>1, <2>2 DEF ClientClose
<1>6. QED
  BY <1>1, <1>2, <1>3, <1>4, <1>5 DEF WorkerStep

LEMMA ShutStep ==
    ASSUME IsFiniteSet(Workers), MinReady > Cardinality(Workers), ShutInv, [Next]_vars
    PROVE  ShutInv'
<1>1. Typed'
  BY TypedStep DEF ShutInv
<1>2. \A buf : ~ShouldApply(buf)
  BY TooFew DEF ShutInv, Typed
<1>3. ASSUME NEW c \in Conns, Handler(c) \/ FailCheckpoint(c), UNCHANGED workerVars
      PROVE  ShutInv'
  BY <1>1, <1>2, <1>3, ShutHandler DEF ShutInv, NothingApplied, workerVars
<1>4. ASSUME NEW w \in Workers,
             WorkerStep(w) \/ ConnectionLost(w) \/ Crash(w) \/ Restart(w),
             UNCHANGED serverVars
      PROVE  ShutInv'
  BY <1>1, <1>4, ShutWorker DEF ShutInv, NothingApplied, serverVars, InSubmit
<1>5. ASSUME NEW w \in Workers, Expire(w), UNCHANGED workerVars PROVE ShutInv'
  BY <1>1, <1>5 DEF ShutInv, NothingApplied, Expire, wireVars, storeVars, threadVars,
                    workerVars, InSubmit
<1>6. CASE UNCHANGED vars
  BY <1>1, <1>6 DEF ShutInv, NothingApplied, vars, wireVars, serverVars, workerVars,
                    InSubmit
<1>7. QED
  BY <1>3, <1>4, <1>5, <1>6 DEF Next, Server, WorkerProcess, LoseConnection, Faulty

\* A min_ready_workers above the number of workers, which no code refuses (__post_init__),
\* never opens the barrier: nothing is ever averaged and no worker ends its first
\* iteration.
THEOREM OversizedQuorum ==
    ASSUME IsFiniteSet(Workers), MinReady > Cardinality(Workers)
    PROVE  Spec => []NothingApplied
<1>1. Init => ShutInv
  <2>1. Init => Typed
    BY TypedInit
  <2>2. ASSUME Init PROVE /\ \A c \in Conns : ~InSubmit(c)
                          /\ down \in [Conns -> Seq(Unacknowledging)]
                          /\ NothingApplied
    BY <2>2 DEF Init, WireInit, ServerInit, WorkerInit, InSubmit, NothingApplied
  <2>3. QED
    BY <2>1, <2>2 DEF ShutInv
<1>2. ShutInv /\ [Next]_vars => ShutInv'
  BY ShutStep
<1>3. ShutInv => NothingApplied
  BY DEF ShutInv
<1>4. QED
  BY <1>1, <1>2, <1>3, PTL DEF Spec
=============================================================================
