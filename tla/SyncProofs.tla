----------------------------- MODULE SyncProofs -----------------------------
(***************************************************************************)
(* Proofs about synchronous training in which workers may be killed, but   *)
(* none is started again, for any set of workers, any number of steps and  *)
(* any checkpoint interval.                                                *)
(***************************************************************************)
EXTENDS SyncInvariant, TrainingProofs, SequenceTheorems

LEMMA MainFacts ==
    /\ \A w \in Workers : Main(w) \in Conns /\ WorkerOf(Main(w)) = w /\ Main(w)[2] = 0
    /\ \A c \in Conns : WorkerOf(c) \in Workers /\ (c[2] = 0 => c = Main(WorkerOf(c)))
    /\ \A v, w \in Workers : Main(v) = Main(w) => v = w
    /\ OneConnection =>
         /\ \A w \in Workers : ConnOf(w) = Main(w) /\ Delta(w).conn = Main(w)
         /\ \A c \in Conns : pc[c] # "off" \/ up[c] # <<>> \/ c \in open =>
                               c = Main(WorkerOf(c))
BY WireAssumption DEF Main, Conns, WorkerOf, OneConnection, ConnOf, Delta

\* A stream with one message, before and after the message is read.
LEMMA OneMessage ==
    ASSUME NEW S, NEW s \in Seq(S), Len(s) = 1
    PROVE  s # <<>> /\ Head(s) = s[1] /\ Tail(s) = <<>>
<1>1. s # <<>> /\ Head(s) = s[1] /\ Tail(s) \in Seq(S) /\ Len(Tail(s)) = 0
  OBVIOUS
<1>2. QED
  BY <1>1, EmptySeq

\* A message is sent on a silent stream.
LEMMA FirstMessage ==
    ASSUME NEW S, NEW m \in S
    PROVE  /\ Append(<<>>, m) = <<m>>
           /\ Len(<<m>>) = 1 /\ <<m>>[1] = m /\ <<m>> # <<>>
           /\ Head(<<m>>) = m /\ Tail(<<m>>) = <<>>
OBVIOUS

\* A stream with another request, or without any, has no push.
LEMMA NoPush ==
    \A g : /\ <<>> # <<Push(g)>>
          /\ \A type \in {"PULL_WEIGHTS", "HEARTBEAT"} : <<Plain(type)>> # <<Push(g)>>
<1>1. \A g : \A type \in {"PULL_WEIGHTS", "HEARTBEAT"} : Plain(type) # Push(g)
  BY DEF Plain, Push
<1>2. \A a, b : <<a>> = <<b>> => a = b
  OBVIOUS
<1>3. \A a : <<>> # <<a>>
  OBVIOUS
<1>4. QED
  BY <1>1, <1>2, <1>3

LEMMA SyncInit == Init => SyncInv
<1> SUFFICES ASSUME Init PROVE SyncInv
  OBVIOUS
<1> USE DEF Init, WireInit, ServerInit, WorkerInit
<1>1. OneConnection /\ Membership
  BY DEF OneConnection, Membership, NotEntered, InSubmit
<1>2. TakingTurns
  BY MainFacts DEF TakingTurns, Dialogue, Silent
<1>3. Barrier
  BY DEF Barrier, BufferWaits, RoundOwes, RoundOwed
<1>4. FreshWeights
  <2>1. \A c \in Conns : /\ pc[c] = "off" /\ Len(down[c]) = 0 /\ buffer = {}
                         /\ \A g : up[c] # <<Push(g)>>
    BY NoPush
  <2>2. \A w \in Workers : wpc[w] = "start"
    OBVIOUS
  <2>3. ASSUME NEW w \in Workers PROVE Fresh(w)
    <3>1. Main(w) \in Conns /\ wpc[w] = "start" /\ buffer = {}
      BY <2>1, <2>2, MainFacts
    <3>2. QED
      BY <2>1, <3>1 DEF Fresh, Answered
  <2>4. QED
    BY <2>3 DEF FreshWeights
<1>5. RoundsOneByOne /\ Losses /\ AckMeansApplied /\ StaleByAtMostOne
  BY DEF RoundsOneByOne, InSubmit, Losses, OnlyTheKilledLose, NobodyKilled, AckMeansApplied,
         StaleByAtMostOne
<1>6. QED
  BY <1>1, <1>2, <1>3, <1>4, <1>5 DEF SyncInv
-----------------------------------------------------------------------------
(* The steps of a worker.                                                   *)

\* What w takes with it from its own step: its dialogue with the server, the age of
\* the weights it holds, and what it may conclude from an ACK.
Own(w) == /\ Dialogue(w)
          /\ Fresh(w)
          /\ wpc[w] \in {"acked", "beat", "pull", "weights"} => Delta(w) \in applied

\* The step is one of w: the server and the other workers do not move.
Alone(w) == /\ \A v \in Workers \ {w} : UNCHANGED <<wpc[v], local_step[v], base[v]>>
            /\ \A c \in Conns \ {Main(w)} :
                 /\ UNCHANGED <<up[c], down[c]>>
                 /\ c \in open' <=> c \in open
            /\ UNCHANGED inc

\* No round and no buffer holds anything of a worker that can move.
LEMMA NothingOwed ==
    ASSUME TypeOK, SyncInv, NEW w \in Workers, wpc[w] # "done",
           wpc[w] \in {"ack", "crashed"} =>
             ~Silent(Main(w)) \/ pc[Main(w)] \in {"weights", "beat"}
    PROVE  /\ \A g \in buffer : WorkerOf(g.conn) # w
           /\ \A e, d \in Conns : d \in acks[e] => WorkerOf(d) # w
           /\ \A e \in Conns : \A g \in round[e] : WorkerOf(g.conn) # w
<1>1. \A g \in buffer : WorkerOf(g.conn) # w
  <2>1. ASSUME NEW g \in buffer, WorkerOf(g.conn) = w PROVE g.conn = Main(w)
    BY <2>1, MainFacts DEF SyncInv, Barrier, BufferWaits
  <2>2. QED
    BY <2>1 DEF SyncInv, Barrier, BufferWaits, Leaving
<1>2. ASSUME NEW e \in Conns, NEW d \in Conns, d \in acks[e], WorkerOf(d) = w
      PROVE  FALSE
  BY <1>2 DEF SyncInv, Barrier, RoundOwes, Leaving
<1>3. \A e \in Conns : \A g \in round[e] : WorkerOf(g.conn) # w
  <2>1. ASSUME NEW e \in Conns, NEW g \in round[e]
        PROVE  g.conn \in Conns /\ g.conn \in acks[e]
    BY <2>1, GradientTypes DEF SyncInv, Barrier, RoundOwed, TypeOK, ServerTypeOK
  <2>2. QED
    BY <2>1, <1>2
<1>4. QED
  BY <1>1, <1>2, <1>3

\* When w takes a step of its own, the others keep their part of the invariant.
LEMMA OthersKeep ==
    ASSUME TypeOK, SyncInv, NEW w \in Workers, Alone(w), UNCHANGED serverVars,
           wpc[w] \notin {"done", "crashed"}, wpc'[w] # "crashed",
           wpc[w] = "ack" => ~Silent(Main(w)), Own(w)',
           wpc[w] = "start" => up'[Main(w)] = <<>>
    PROVE  SyncInv'
<1>0. \A e \in Conns : \A g \in round[e] : WorkerOf(g.conn) \in Workers \ {w}
  <2>1. \A e \in Conns : \A g \in round[e] : g.conn \in Conns
    BY GradientTypes DEF TypeOK, ServerTypeOK
  <2>2. QED
    BY <2>1, NothingOwed, MainFacts
<1> USE DEF SyncInv, serverVars, Alone
<1>1. OneConnection'
  BY MainFacts DEF OneConnection
<1>2. Membership' /\ RoundsOneByOne' /\ Losses'
  <2>1. \A g \in dropped : WorkerOf(g.conn) \in Workers
    BY MainFacts, GradientTypes DEF TypeOK, ServerTypeOK
  <2>2. QED
    BY <2>1 DEF Membership, RoundsOneByOne, InSubmit, Losses, OnlyTheKilledLose, NobodyKilled
<1>3. ASSUME NEW v \in Workers \ {w}
      PROVE  Own(v)'
  <2>1. Main(v) \in Conns /\ Main(v) # Main(w)
    BY MainFacts
  <2>2. Own(v)
    BY DEF TakingTurns, FreshWeights, AckMeansApplied, Own
  <2>3. Delta(v)' = Delta(v)
    BY DEF Delta, ConnOf
  <2>4. Dialogue(v)'
    BY <2>1, <2>2, <2>3
       DEF Own, Dialogue, Exchange, Asked, Answered, Silent, Waiting, Owed, Left
  <2>5. Fresh(v)'
    BY <2>1, <2>2, <2>3 DEF Own, Fresh, UpToDate, Answered, Asked
  <2>6. QED
    BY <2>2, <2>3, <2>4, <2>5 DEF Own
<1>4. Barrier'
  <2>1. \A v \in Workers \ {w} : Delta(v)' = Delta(v)
    BY DEF Delta, ConnOf
  <2>2. BufferWaits'
    BY <2>1, NothingOwed, MainFacts, GradientTypes
       DEF Barrier, BufferWaits, Silent, Owed, TypeOK, ServerTypeOK
  <2>3. RoundOwes'
    BY <2>1, NothingOwed, MainFacts DEF Barrier, RoundOwes, Silent
  <2>4. RoundOwed'
    BY <1>0 DEF Barrier, RoundOwed
  <2>5. QED
    BY <2>2, <2>3, <2>4 DEF Barrier
<1>5. StaleByAtMostOne'
  BY <1>0 DEF StaleByAtMostOne
<1>6. QED
  BY <1>1, <1>2, <1>3, <1>4, <1>5 DEF Own, TakingTurns, FreshWeights, AckMeansApplied

\* One lemma for the eleven steps of worker_main, each against the turn that allows it.
LEMMA WorkerKeeps ==
    ASSUME TypeOK, SyncInv, NEW w \in Workers, WorkerStep(w) \/ LoseConnection(w),
           UNCHANGED serverVars
    PROVE  SyncInv'
<1> DEFINE c == Main(w)
<1>1. c \in Conns /\ ConnOf(w) = c /\ \A d \in Conns : d = c \/ WorkerOf(d) # w \/ d[2] # 0
  BY MainFacts DEF SyncInv
<1>2. Own(w)
  BY DEF SyncInv, TakingTurns, FreshWeights, AckMeansApplied, Own
<1>3. /\ wpc \in [Workers -> Places] /\ local_step \in [Workers -> 0 .. MaxSteps]
      /\ base \in [Workers -> Nat] /\ up \in [Conns -> Seq(Request)]
      /\ down \in [Conns -> Seq(Response)]
  BY DEF TypeOK, WireTypeOK, WorkerTypeOK
<1>4. Alone(w) => /\ UNCHANGED <<Main(w), ConnOf(w)>>
                  /\ local_step'[w] = local_step[w] => Delta(w)' = Delta(w)
  BY DEF Alone, ConnOf, Delta, Main
<1> USE DEF MoveTo, Send, ClientSend, Receive, Responded, ClientRecv, ClientClose, serverVars
<1>5. CASE Connect(w)
  <2>1. Alone(w)
    BY <1>1, <1>3, <1>5 DEF Connect, Alone
  <2>2. Own(w)'
    BY <1>1, <1>2, <1>3, <1>4, <1>5, <2>1, NoPush
       DEF Connect, Own, Dialogue, Fresh, Silent, Answered, Asked, UpToDate
  <2>3. QED
    BY <1>1, <1>2, <1>5, <2>1, <2>2, OthersKeep DEF Connect, Own, Dialogue, Silent
<1>6. CASE PullWeights(w)
  <2>1. Alone(w)
    BY <1>1, <1>3, <1>6 DEF PullWeights, Alone
  <2>2. Own(w)'
    <3>0. /\ wpc[w] \in {"connected", "pull"}
          /\ up' = [up EXCEPT ![c] = Append(@, Plain("PULL_WEIGHTS"))]
      BY <1>1, <1>6 DEF PullWeights
    <3>1. /\ up'[c] = <<Plain("PULL_WEIGHTS")>> /\ UNCHANGED <<down, pc, seen, global_step>>
          /\ c \in open /\ c \in open' /\ UNCHANGED <<base, buffer, applied>>
          /\ down[c] = <<>> /\ Delta(w)' = Delta(w)
      <4>1. c \in open /\ up[c] = <<>> /\ down[c] = <<>>
        BY <1>2, <3>0 DEF Own, Dialogue, Silent
      <4>2. UNCHANGED <<down, pc, seen, global_step, open, base, buffer, applied, local_step>>
        BY <1>6 DEF PullWeights
      <4>3. up'[c] = <<Plain("PULL_WEIGHTS")>>
        BY <1>1, <1>3, <3>0, <4>1
      <4>4. QED
        BY <1>4, <2>1, <4>1, <4>2, <4>3
    <3>2. CASE wpc[w] = "connected"
      <4>1. wpc'[w] = "first" /\ pc[c] \in Arriving
        BY <1>2, <1>3, <1>6, <3>2 DEF PullWeights, Own, Dialogue, Arriving
      <4>2. QED
        BY <1>1, <1>2, <1>4, <2>1, <3>1, <3>2, <4>1, NoPush
           DEF Own, Dialogue, Fresh, Answered, UpToDate, Exchange, Asked, Arriving
    <3>3. CASE wpc[w] = "pull"
      <4>1. wpc'[w] = "weights" /\ pc[c] \in Late
        BY <1>2, <1>3, <1>6, <3>3 DEF PullWeights, Own, Dialogue
      <4>2. QED
        BY <1>1, <1>2, <1>4, <2>1, <3>1, <3>3, <4>1, NoPush
           DEF Own, Dialogue, Fresh, Answered, UpToDate, Exchange, Asked, Late
    <3>4. QED
      BY <1>6, <3>2, <3>3 DEF PullWeights
  <2>3. QED
    BY <1>1, <1>2, <1>3, <1>6, <2>1, <2>2, OthersKeep DEF PullWeights
<1>7. CASE RecvFirstWeights(w)
  <2>1. Alone(w)
    BY <1>1, <1>3, <1>7 DEF RecvFirstWeights, Alone
  <2>2. Own(w)'
    BY <1>1, <1>2, <1>3, <1>4, <1>7, <2>1, OneMessage, NoPush
       DEF RecvFirstWeights, Own, Dialogue, Fresh, Silent, Answered, UpToDate, Exchange,
           Asked, Reply
  <2>3. QED
    BY <1>1, <1>2, <1>7, <2>1, <2>2, OthersKeep DEF RecvFirstWeights
<1>8. CASE PushGradients(w)
  <2>1. Alone(w)
    BY <1>1, <1>3, <1>8 DEF PushGradients, Alone
  <2>2. Own(w)'
    BY <1>1, <1>2, <1>3, <1>4, <1>8, <2>1
       DEF PushGradients, Own, Dialogue, Fresh, Silent, Answered, UpToDate, Asked, Waiting
  <2>3. QED
    BY <1>1, <1>2, <1>8, <2>1, <2>2, OthersKeep DEF PushGradients
<1>9. CASE RecvAck(w)
  <2>1. Alone(w)
    BY <1>1, <1>3, <1>9 DEF RecvAck, Alone
  <2>2. Own(w)'
    BY <1>1, <1>2, <1>3, <1>4, <1>9, <2>1, OneMessage, NoPush
       DEF RecvAck, Own, Dialogue, Fresh, Silent, Answered, UpToDate, Asked, Waiting, Reply
  <2>3. QED
    BY <1>1, <1>2, <1>9, <2>1, <2>2, OthersKeep DEF RecvAck, Silent
<1>10. CASE Heartbeat(w)
  <2>1. Alone(w)
    BY <1>1, <1>3, <1>10 DEF Heartbeat, Alone
  <2>2. Own(w)'
    BY <1>1, <1>2, <1>3, <1>4, <1>10, <2>1, NoPush
       DEF Heartbeat, Own, Dialogue, Fresh, Silent, Answered, UpToDate, Exchange, Asked
  <2>3. QED
    BY <1>1, <1>2, <1>10, <2>1, <2>2, OthersKeep DEF Heartbeat
<1>11. CASE SkipHeartbeat(w)
  <2>1. Alone(w)
    BY <1>1, <1>3, <1>11 DEF SkipHeartbeat, Alone, wireVars
  <2>2. Own(w)'
    BY <1>1, <1>2, <1>3, <1>4, <1>11, <2>1, NoPush
       DEF SkipHeartbeat, Own, Dialogue, Fresh, Silent, Answered, Asked, UpToDate, wireVars
  <2>3. QED
    BY <1>1, <1>2, <1>11, <2>1, <2>2, OthersKeep DEF SkipHeartbeat
<1>12. CASE RecvHeartbeatAck(w)
  <2>1. Alone(w)
    BY <1>1, <1>3, <1>12 DEF RecvHeartbeatAck, Alone
  <2>2. Own(w)'
    BY <1>1, <1>2, <1>3, <1>4, <1>12, <2>1, OneMessage, NoPush
       DEF RecvHeartbeatAck, Own, Dialogue, Fresh, Silent, Answered, UpToDate, Exchange,
           Asked, Reply, Late
  <2>3. QED
    BY <1>1, <1>2, <1>12, <2>1, <2>2, OthersKeep DEF RecvHeartbeatAck
<1>13. CASE RecvWeights(w)
  <2>1. Alone(w)
    BY <1>1, <1>3, <1>13 DEF RecvWeights, Alone
  <2>2. Own(w)'
    BY <1>1, <1>2, <1>3, <1>4, <1>13, <2>1, OneMessage, NoPush
       DEF RecvWeights, Own, Dialogue, Fresh, Silent, Answered, UpToDate, Exchange,
           Asked, Reply
  <2>3. QED
    BY <1>1, <1>2, <1>13, <2>1, <2>2, OthersKeep DEF RecvWeights
<1>14. CASE Finish(w)
  <2>1. Alone(w)
    BY <1>1, <1>3, <1>14 DEF Finish, Alone
  <2>2. Own(w)'
    BY <1>1, <1>2, <1>3, <1>4, <1>14, <2>1, OneMessage, NoPush
       DEF Finish, Own, Dialogue, Fresh, Silent, Answered, UpToDate, Exchange, Asked
  <2>3. QED
    BY <1>1, <1>2, <1>14, <2>1, <2>2, OthersKeep DEF Finish
<1>15. ~RecvUnexpected(w)
  BY <1>1, <1>2, <1>3, OneMessage
     DEF RecvUnexpected, Own, Dialogue, Exchange, Waiting, Silent, Asked, Answered, Awaiting, Reply
<1>16. ~LoseConnection(w)
  <2>1. wpc[w] = "ack" => pc[c] # "closed"
    BY <1>1, <1>2, MainFacts
       DEF Own, Dialogue, Waiting, Late, Owed, SyncInv, Barrier, BufferWaits, RoundOwes
  <2>2. QED
    BY <1>1, <1>2, <1>3, <2>1
     DEF LoseConnection, ConnectionLost, Own, Dialogue, Exchange, Waiting, Late, Arriving,
         Awaiting, Reply
<1>17. QED
  BY <1>5, <1>6, <1>7, <1>8, <1>9, <1>10, <1>11, <1>12, <1>13, <1>14, <1>15, <1>16
     DEF WorkerStep

\* A worker is killed: what it had asked for stays with its thread.
LEMMA CrashKeeps ==
    ASSUME TypeOK, SyncInv, NEW w \in Workers, Crash(w), UNCHANGED serverVars,
           FaultKinds # {}
    PROVE  SyncInv'
<1> DEFINE c == Main(w)
<1> USE DEF serverVars
<1>1. /\ c \in Conns /\ ConnOf(w) = c /\ wpc[w] \in Places
      /\ \A v \in Workers \ {w} : Main(v) \in Conns \ {c}
  BY MainFacts DEF SyncInv, TypeOK, WorkerTypeOK
<1>2. /\ wpc[w] \notin {"start", "done", "crashed"} /\ wpc'[w] = "crashed"
      /\ \A v \in Workers \ {w} : wpc'[v] = wpc[v]
      /\ down'[c] = <<>> /\ \A d \in Conns \ {c} : down'[d] = down[d]
      /\ c \notin open' /\ \A d \in Conns \ {c} : d \in open' <=> d \in open
      /\ UNCHANGED <<up, inc, local_step, base>>
  BY <1>1 DEF Crash, Stopped, MoveTo, ClientClose, TypeOK, WorkerTypeOK, WireTypeOK
<1>3. \A v \in Workers : Delta(v)' = Delta(v) /\ Delta(v).conn = Main(v)
  BY <1>2, MainFacts DEF Delta, ConnOf, SyncInv
<1>4. Dialogue(w) /\ Fresh(w)
  BY DEF SyncInv, TakingTurns, FreshWeights
<1>5. OneConnection' /\ Membership' /\ RoundsOneByOne'
  BY <1>2, MainFacts DEF SyncInv, OneConnection, Membership, RoundsOneByOne, InSubmit
<1>6. TakingTurns'
  <2>1. ASSUME NEW v \in Workers \ {w} PROVE Dialogue(v)'
    BY <1>1, <1>2, <1>3
       DEF SyncInv, TakingTurns, Dialogue, Exchange, Asked, Answered, Silent, Waiting,
           Owed, Left
  <2>2. Left(w)'
    BY <1>1, <1>2, <1>3, <1>4
       DEF Left, Dialogue, Exchange, Asked, Answered, Silent, Waiting, Places, Awaiting,
           Reply, Stopped
  <2>3. Dialogue(w)'
    BY <1>2, <2>2 DEF Dialogue
  <2>4. QED
    BY <2>1, <2>3 DEF TakingTurns
<1>7. Barrier'
  <2>1. BufferWaits'
    <3>1. ASSUME NEW g \in buffer
          PROVE  g.conn \in Conns /\ WorkerOf(g.conn) \in Workers
      BY MainFacts, GradientTypes DEF TypeOK, ServerTypeOK
    <3>2. ASSUME NEW g \in buffer PROVE Silent(g.conn)'
      BY <1>2, <3>1 DEF SyncInv, Barrier, BufferWaits, Silent
    <3>3. QED
      BY <1>2, <1>3, <3>1, <3>2 DEF SyncInv, Barrier, BufferWaits, Owed
  <2>2. RoundOwes'
    <3>1. ASSUME NEW e \in Conns, NEW d \in Conns, d \in acks[e]
          PROVE  /\ WorkerOf(d) \in Workers
                 /\ Silent(d) => Silent(d)'
      BY <1>2, <3>1, MainFacts DEF Silent
    <3>2. QED
      BY <1>2, <1>3, <3>1 DEF SyncInv, Barrier, RoundOwes, Main
  <2>3. RoundOwed'
    <3>1. ASSUME NEW e \in Conns, NEW g \in round[e] PROVE WorkerOf(g.conn) \in Workers
      BY MainFacts, GradientTypes DEF TypeOK, ServerTypeOK
    <3>2. QED
      BY <1>2, <3>1 DEF SyncInv, Barrier, RoundOwed
  <2>4. QED
    BY <2>1, <2>2, <2>3 DEF Barrier
<1>8. FreshWeights'
  <2>1. \A v : UpToDate(v)' <=> UpToDate(v)
    BY DEF UpToDate
  <2>2. ASSUME NEW v \in Workers PROVE Fresh(v)'
    <3>1. Answered(Main(v), "WEIGHTS_RESPONSE")' =>
            Answered(Main(v), "WEIGHTS_RESPONSE") /\ down'[Main(v)] = down[Main(v)]
      BY <1>1, <1>2 DEF Answered
    <3>2. Fresh(v) /\ (wpc'[v] = "rollout" => wpc[v] = "rollout")
      BY <1>2 DEF SyncInv, FreshWeights
    <3>3. QED
      BY <1>2, <1>3, <3>1, <3>2 DEF Fresh, UpToDate
  <2>3. QED
    BY <2>2 DEF FreshWeights
<1>9. StaleByAtMostOne' /\ Losses' /\ AckMeansApplied'
  <2>1. \A g \in dropped : WorkerOf(g.conn) \in Workers
    BY MainFacts, GradientTypes DEF TypeOK, ServerTypeOK
  <2>2. QED
    BY <1>2, <1>3, <2>1
       DEF SyncInv, StaleByAtMostOne, Losses, OnlyTheKilledLose, NobodyKilled, AckMeansApplied
<1>10. QED
  BY <1>5, <1>6, <1>7, <1>8, <1>9 DEF SyncInv
-----------------------------------------------------------------------------
(* The steps of a handler thread.                                           *)

\* What the place of a thread, or the message it is about to read, tells about its
\* worker.
LEMMA Turns ==
    ASSUME TypeOK, SyncInv, NEW w \in Workers
    PROVE  LET c == Main(w) IN
           /\ pc[c] \in {"off", "anon", "register"} =>
                wpc[w] \in {"start", "connected", "first", "crashed"}
           /\ pc[c] = "weights" => wpc[w] \in {"first", "weights", "crashed"} /\ Silent(c)
           /\ pc[c] = "beat" => wpc[w] \in {"beat", "crashed"} /\ Silent(c)
           /\ InSubmit(c) =>
                wpc[w] \in {"ack", "acked", "beat", "pull", "weights", "crashed"}
           /\ pc[c] \in {"dead", "unregister", "closed"} =>
                wpc[w] \in {"done", "crashed"} /\ Silent(c)
           /\ Requested(c, "PULL_WEIGHTS") =>
                wpc[w] \in {"first", "weights", "crashed"} /\ Asked(c, Plain("PULL_WEIGHTS"))
           /\ Requested(c, "HEARTBEAT") =>
                wpc[w] \in {"beat", "crashed"} /\ Asked(c, Plain("HEARTBEAT"))
           /\ Requested(c, "PUSH_GRADIENTS") =>
                wpc[w] \in {"ack", "crashed"} /\ Asked(c, Push(Delta(w)))
           /\ c \notin open => (wpc[w] = "start" /\ Silent(c)) \/ wpc[w] \in {"done", "crashed"}
           /\ wpc[w] = "done" => Silent(c)
<1> DEFINE c == Main(w)
<1>1. c \in Conns /\ wpc[w] \in Places /\ Dialogue(w)
  BY MainFacts DEF TypeOK, WorkerTypeOK, SyncInv, TakingTurns
<1>2. wpc[w] = "ack" => pc[c] = "recv" \/ InSubmit(c)
  BY <1>1, MainFacts
     DEF Dialogue, Waiting, Late, Owed, SyncInv, Barrier, BufferWaits, RoundOwes, InSubmit
<1>3. \A m \in Request : Asked(c, m) => Head(up[c]) = m
  BY DEF Asked
<1>4. /\ pc[c] \in {"off", "anon", "register"} =>
           wpc[w] \in {"start", "connected", "first", "crashed"}
      /\ pc[c] = "weights" => wpc[w] \in {"first", "weights", "crashed"}
      /\ pc[c] = "beat" => wpc[w] \in {"beat", "crashed"}
      /\ InSubmit(c) => wpc[w] \in {"ack", "acked", "beat", "pull", "weights", "crashed"}
      /\ pc[c] \in {"dead", "unregister", "closed"} => wpc[w] \in {"done", "crashed"}
      /\ c \notin open => (wpc[w] = "start" /\ Silent(c)) \/ wpc[w] \in {"done", "crashed"}
      /\ wpc[w] = "done" => Silent(c)
  BY <1>1, <1>2 DEF Dialogue, Exchange, Places, Awaiting, Reply, Stopped, Arriving, Late,
                    InSubmit
<1>5. pc[c] \in {"weights", "beat", "dead", "unregister", "closed"} => Silent(c)
  <2>1. wpc[w] = "crashed" /\ pc[c] \in {"weights", "beat", "dead", "unregister", "closed"}
          => Silent(c)
    BY <1>1 DEF Dialogue, Left, Arriving, Late, Silent
  <2>2. QED
    BY <1>1, <1>4, <2>1 DEF Dialogue, Exchange, Arriving, Late
<1>6. up[c] # <<>> =>
        \/ wpc[w] \in {"ack", "crashed"} /\ Asked(c, Push(Delta(w)))
        \/ wpc[w] \in {"beat", "crashed"} /\ Asked(c, Plain("HEARTBEAT"))
        \/ wpc[w] \in {"first", "weights", "crashed"} /\ Asked(c, Plain("PULL_WEIGHTS"))
  BY <1>1 DEF Dialogue, Exchange, Waiting, Silent, Answered, Left, Places, Awaiting,
              Reply, Stopped
<1>7. /\ Asked(c, Push(Delta(w))) => Head(up[c]).type = "PUSH_GRADIENTS"
      /\ Asked(c, Plain("HEARTBEAT")) => Head(up[c]).type = "HEARTBEAT"
      /\ Asked(c, Plain("PULL_WEIGHTS")) => Head(up[c]).type = "PULL_WEIGHTS"
  BY DEF Asked, Push, Plain
<1>8. QED
  BY <1>4, <1>5, <1>6, <1>7 DEF Requested

\* The thread of c moves on without a word to anybody.
LEMMA QuietMoveKeeps ==
    ASSUME TypeOK, TypeOK', SyncInv, NEW c \in Conns, c = Main(WorkerOf(c)),
           UNCHANGED <<down, open, global_step, applied, round, acks, workerVars>>,
           \A d \in Conns \ {c} : UNCHANGED <<up[d], seen[d]>>,
           up'[c] = up[c] \/ (up'[c] = <<>> /\ wpc[WorkerOf(c)] = "crashed"),
           buffer' \subseteq buffer,
           \A g \in buffer : WorkerOf(g.conn) # WorkerOf(c) => g \in buffer',
           \A g \in dropped' : g \in dropped \/ wpc[WorkerOf(g.conn)] = "crashed",
           NEW to, pc' = [pc EXCEPT ![c] = to], to \notin {"off", "weights", "apply", "step"},
           Membership', Dialogue(WorkerOf(c))', InSubmit(c)' => InSubmit(c),
           pc[c] \notin {"apply", "closed"}, acks[c] # {} => to = "ack",
           pc[c] = "recv" => wpc[WorkerOf(c)] \in {"done", "crashed"},
           pc[c] \in {"recv"} \cup Leaving => to \in {"closed"} \cup Leaving,
           to = "closed" => \A g \in buffer' : WorkerOf(g.conn) # WorkerOf(c)
    PROVE  SyncInv'
<1> DEFINE w == WorkerOf(c)
<1> USE DEF workerVars
<1>1. w \in Workers /\ c = Main(w) /\ \A v \in Workers \ {w} : Main(v) \in Conns \ {c}
  BY MainFacts
<1>2. /\ \A d \in Conns \ {c} : pc'[d] = pc[d]
      /\ pc'[c] = to /\ pc \in [Conns -> Control]
  BY DEF TypeOK, ServerTypeOK
<1>3. \A v \in Workers : Delta(v)' = Delta(v) /\ WorkerOf(Delta(v).conn) = v
  BY MainFacts DEF Delta, ConnOf, SyncInv
<1>4. \A v : UpToDate(v) => UpToDate(v)'
  BY <1>2 DEF UpToDate
<1>5. OneConnection'
  BY <1>1, <1>2, MainFacts DEF SyncInv, OneConnection
<1>6. TakingTurns'
  <2>1. ASSUME NEW v \in Workers \ {w} PROVE Dialogue(v)'
    <3>1. Delta(v) \in buffer => Delta(v) \in buffer'
      BY <1>3
    <3>2. QED
      BY <1>1, <1>2, <1>3, <3>1
         DEF SyncInv, TakingTurns, Dialogue, Exchange, Asked, Answered, Silent, Waiting,
             Owed, Left
  <2>2. QED
    BY <2>1 DEF TakingTurns
<1>7. Barrier'
  <2>1. BufferWaits'
    <3>1. ASSUME NEW g \in buffer'
          PROVE  /\ g \in buffer /\ g.conn \in Conns /\ WorkerOf(g.conn) \in Workers
                 /\ Silent(g.conn)'
      <4>1. g \in buffer /\ g.conn \in Conns /\ WorkerOf(g.conn) \in Workers
        BY MainFacts, GradientTypes DEF TypeOK, ServerTypeOK
      <4>2. Silent(g.conn)
        BY <4>1 DEF SyncInv, Barrier, BufferWaits
      <4>3. QED
        BY <4>1, <4>2 DEF Silent
    <3>2. ASSUME NEW g \in buffer'
          PROVE  LET v == WorkerOf(g.conn) IN
                 \/ wpc[v] = "ack" /\ pc'[g.conn] = "recv"
                 \/ wpc[v] = "crashed" /\ pc'[g.conn] \in {"recv"} \cup Leaving
      <4>1. LET v == WorkerOf(g.conn) IN
            \/ wpc[v] = "ack" /\ pc[g.conn] = "recv"
            \/ wpc[v] = "crashed" /\ pc[g.conn] \in {"recv"} \cup Leaving
        BY <3>1 DEF SyncInv, Barrier, BufferWaits
      <4>2. QED
        BY <1>2, <3>1, <4>1
    <3>3. QED
      BY <1>3, <3>1, <3>2 DEF SyncInv, Barrier, BufferWaits, Owed
  <2>2. RoundOwes'
    <3>1. RoundOwes
      BY DEF SyncInv, Barrier
    <3>2. ASSUME NEW e \in Conns, NEW d \in Conns, d \in acks[e]
          PROVE  /\ pc'[e] \in {"apply", "step", "ack"}
                 /\ pc'[e] = "apply" <=> pc[e] = "apply"
                 /\ wpc[WorkerOf(d)] = "ack" => pc'[d] = "recv" \/ d = e
                 /\ wpc[WorkerOf(d)] = "crashed" =>
                      pc'[d] \in {"recv", "closed"} \cup Leaving \/ d = e
      <4>1. /\ pc[e] \in {"apply", "step", "ack"}
            /\ wpc[WorkerOf(d)] = "ack" => pc[d] = "recv" \/ d = e
            /\ wpc[WorkerOf(d)] = "crashed" =>
                 pc[d] \in {"recv", "closed"} \cup Leaving \/ d = e
        BY <3>1, <3>2 DEF RoundOwes
      <4>2. e = c => to = "ack"
        BY <3>2
      <4>3. QED
        BY <1>2, <4>1, <4>2
    <3>3. ASSUME NEW d \in Conns
          PROVE  Delta(WorkerOf(d))' = Delta(WorkerOf(d)) /\ (Silent(d) => Silent(d)')
      BY <1>3, MainFacts DEF Silent
    <3>4. QED
      BY <3>1, <3>2, <3>3 DEF RoundOwes
  <2>3. RoundOwed'
    <3>1. RoundOwed
      BY DEF SyncInv, Barrier
    <3>2. ASSUME NEW e \in Conns PROVE pc'[e] \in {"apply", "step"} => e \in acks[e]
      BY <1>2, <3>1 DEF RoundOwed
    <3>3. QED
      BY <3>1, <3>2 DEF RoundOwed
  <2>4. QED
    BY <2>1, <2>2, <2>3 DEF Barrier
<1>8. RoundsOneByOne'
  BY <1>2 DEF SyncInv, RoundsOneByOne, InSubmit
<1>9. FreshWeights'
  <2>1. ASSUME NEW v \in Workers PROVE Fresh(v)'
    <3>1. Fresh(v) /\ (v = w => c = Main(v)) /\ (v # w => Main(v) \in Conns \ {c})
      BY <1>1 DEF SyncInv, FreshWeights
    <3>2. up'[Main(v)] = <<Push(Delta(v))>> => up[Main(v)] = <<Push(Delta(v))>>
      BY <3>1, NoPush
    <3>3. pc'[Main(v)] = "weights" => pc[Main(v)] = "weights" /\ seen'[Main(v)] = seen[Main(v)]
      BY <1>2, <3>1
    <3>4. Answered(Main(v), "WEIGHTS_RESPONSE")' => Answered(Main(v), "WEIGHTS_RESPONSE")
      <4>1. up'[Main(v)] = up[Main(v)] \/ Len(down[Main(v)]) = 0
        BY <1>1, <3>1 DEF SyncInv, TakingTurns, Dialogue, Left
      <4>2. QED
        BY <4>1 DEF Answered
    <3>5. QED
      BY <1>3, <1>4, <3>1, <3>2, <3>3, <3>4 DEF Fresh
  <2>2. QED
    BY <2>1 DEF FreshWeights
<1>10. Losses' /\ AckMeansApplied' /\ StaleByAtMostOne'
  BY <1>3 DEF SyncInv, Losses, OnlyTheKilledLose, NobodyKilled, AckMeansApplied,
             StaleByAtMostOne
<1>11. QED
  BY <1>5, <1>6, <1>7, <1>8, <1>9, <1>10 DEF SyncInv

\* The thread of c reads a request of its worker, or answers it.
LEMMA ExchangeKeeps ==
    ASSUME TypeOK, TypeOK', SyncInv, NEW c \in Conns, c = Main(WorkerOf(c)),
           UNCHANGED <<open, buffer, dropped, global_step, applied, round, acks, workerVars>>,
           NEW to \in {"recv", "weights", "beat"}, pc' = [pc EXCEPT ![c] = to],
           pc[c] \in {"recv", "weights", "beat"},
           \A d \in Conns \ {c} : UNCHANGED <<up[d], down[d], seen[d]>>,
           wpc[WorkerOf(c)] \in {"first", "beat", "weights", "crashed"},
           wpc[WorkerOf(c)] = "crashed" => ~Silent(c) \/ pc[c] \in {"weights", "beat"},
           Membership', Own(WorkerOf(c))'
    PROVE  SyncInv'
<1> DEFINE w == WorkerOf(c)
<1> USE DEF workerVars
<1>1. w \in Workers /\ c = Main(w) /\ \A v \in Workers \ {w} : Main(v) \in Conns \ {c}
  BY MainFacts
<1>2. /\ \A d \in Conns \ {c} : pc'[d] = pc[d]
      /\ pc'[c] = to /\ pc \in [Conns -> Control]
  BY DEF TypeOK, ServerTypeOK
<1>3. \A v \in Workers : Delta(v)' = Delta(v)
  BY DEF Delta, ConnOf
<1>4. \A v : UpToDate(v) => UpToDate(v)'
  BY <1>2 DEF UpToDate
<1>5. OneConnection'
  BY <1>1, <1>2, MainFacts DEF SyncInv, OneConnection
<1>6. TakingTurns'
  <2>1. ASSUME NEW v \in Workers \ {w} PROVE Dialogue(v)'
    BY <1>1, <1>2, <1>3
       DEF SyncInv, TakingTurns, Dialogue, Exchange, Asked, Answered, Silent, Waiting,
           Owed, Left
  <2>2. QED
    BY <2>1 DEF TakingTurns, Own
<1>7. Barrier'
  <2>0. /\ \A g \in buffer : WorkerOf(g.conn) # w
        /\ \A e, d \in Conns : d \in acks[e] => WorkerOf(d) # w
        /\ buffer \subseteq Gradient
    BY <1>1, NothingOwed DEF TypeOK, ServerTypeOK
  <2>1. BufferWaits'
    <3>1. ASSUME NEW g \in buffer
          PROVE  g.conn \in Conns \ {c} /\ WorkerOf(g.conn) \in Workers
      BY MainFacts, GradientTypes, <1>1, <2>0
    <3>2. QED
      BY <1>2, <1>3, <3>1 DEF SyncInv, Barrier, BufferWaits, Silent, Owed
  <2>2. RoundOwes'
    <3>1. RoundOwes
      BY DEF SyncInv, Barrier
    <3>2. ASSUME NEW e \in Conns, NEW d \in Conns, d \in acks[e]
          PROVE  pc'[e] = pc[e] /\ pc'[d] = pc[d] /\ UNCHANGED <<up[d], down[d]>>
      <4>1. pc[e] \in {"apply", "step", "ack"} /\ d # c
        BY <1>1, <2>0, <3>1, <3>2 DEF RoundOwes
      <4>2. QED
        BY <1>2, <4>1
    <3>3. ASSUME NEW d \in Conns PROVE Delta(WorkerOf(d))' = Delta(WorkerOf(d))
      BY <1>3, MainFacts
    <3>4. QED
      BY <3>1, <3>2, <3>3 DEF RoundOwes, Silent
  <2>3. RoundOwed'
    <3>1. RoundOwed
      BY DEF SyncInv, Barrier
    <3>2. ASSUME NEW e \in Conns
          PROVE  pc'[e] \in {"apply", "step"} => e \in acks[e]
      BY <1>2, <3>1 DEF RoundOwed
    <3>3. QED
      BY <3>1, <3>2 DEF RoundOwed
  <2>4. QED
    BY <2>1, <2>2, <2>3 DEF Barrier
<1>8. RoundsOneByOne'
  BY <1>2 DEF SyncInv, RoundsOneByOne, InSubmit
<1>9. FreshWeights'
  <2>1. ASSUME NEW v \in Workers \ {w} PROVE Fresh(v)'
    BY <1>1, <1>2, <1>3, <1>4 DEF SyncInv, FreshWeights, Fresh, Answered
  <2>2. QED
    BY <2>1 DEF FreshWeights, Own
<1>10. Losses' /\ AckMeansApplied' /\ StaleByAtMostOne'
  BY <1>3 DEF SyncInv, Losses, OnlyTheKilledLose, NobodyKilled, AckMeansApplied,
             StaleByAtMostOne
<1>11. QED
  BY <1>5, <1>6, <1>7, <1>8, <1>9, <1>10 DEF SyncInv

\* A thread that acts at all serves the one connection of its worker.
LEMMA HandlerOfMain ==
    ASSUME SyncInv, NEW c \in Conns, Handler(c)
    PROVE  c = Main(WorkerOf(c))
<1>1. pc[c] # "off" \/ up[c] # <<>> \/ c \in open
  BY DEF Handler, Accept, Identify, RegisterSocket, HandlePull, SendWeights,
         HandleHeartbeat, SendHeartbeatAck, Submit, SubmitAndWait, SubmitAndFire, Store,
         ApplyGradients, GetStep, SendAck, SkipCheckpoint, DecideCheckpoint,
         MarkCheckpoint, SaveCheckpoint, Disconnect, MarkDead, Unregister
<1>2. QED
  BY <1>1, MainFacts DEF SyncInv

\* Joining and leaving, and the end of a round.
LEMMA QuietHandlerKeeps ==
    ASSUME TypeOK, TypeOK', SyncInv, NEW c \in Conns, UNCHANGED workerVars,
           c = Main(WorkerOf(c)),
           \/ Accept(c) \/ Identify(c) \/ RegisterSocket(c)
           \/ GetStep(c) \/ SkipCheckpoint(c) \/ DecideCheckpoint(c)
           \/ MarkCheckpoint(c) \/ SaveCheckpoint(c)
           \/ Disconnect(c) \/ MarkDead(c) \/ Unregister(c)
    PROVE  SyncInv'
<1> DEFINE w == WorkerOf(c)
<1>1. /\ w \in Workers /\ c = Main(w) /\ Dialogue(w)
      /\ pc \in [Conns -> Control] /\ seen \in [Conns -> Nat]
  BY MainFacts DEF SyncInv, TakingTurns, TypeOK, ServerTypeOK
<1>2. /\ Membership /\ sockets \subseteq Conns /\ alive \subseteq Workers
      /\ \A d \in Conns \ {c} : pc[d] # "off" => WorkerOf(d) # w
      /\ \A d \in Conns \ {c} : d \in sockets => WorkerOf(d) # w
  BY <1>1, MainFacts DEF SyncInv, TypeOK, ServerTypeOK, Membership, NotEntered
<1>3. /\ OneConnection /\ RoundOwes /\ RoundOwed /\ BufferWaits
      /\ \A g \in buffer : WorkerOf(g.conn) = w => g.conn = c
  <2>1. OneConnection /\ RoundOwes /\ RoundOwed /\ BufferWaits
    BY DEF SyncInv, Barrier
  <2>2. Delta(w).conn = c
    BY <1>1, <2>1, MainFacts
  <2>3. QED
    BY <2>1, <2>2 DEF BufferWaits
<1>4. pc[c] \notin {"apply", "step", "ack"} => acks[c] = {}
  BY <1>3, MainFacts DEF RoundOwes, TypeOK, ServerTypeOK
<1> USE DEF Goto, wireVars, aggregatorVars, storeVars, workerVars
<1>5. CASE Accept(c)
  <2>1. Membership'
    BY <1>1, <1>2, <1>5 DEF Accept, Membership, NotEntered, InSubmit
  <2>2. Dialogue(w)'
    BY <1>1, <1>5, Turns
       DEF Accept, Dialogue, Exchange, Waiting, Asked, Silent, Answered, Arriving, Late,
           Owed, Delta, ConnOf, InSubmit, Left
  <2>3. QED
    BY <1>1, <1>4, <1>5, <2>1, <2>2, QuietMoveKeeps DEF Accept, InSubmit, Leaving
<1>6. CASE Identify(c)
  <2>1. Membership'
    BY <1>1, <1>2, <1>6 DEF Identify, Membership, NotEntered, InSubmit
  <2>2. Dialogue(w)'
    BY <1>1, <1>6, Turns
       DEF Identify, Dialogue, Exchange, Waiting, Asked, Silent, Answered, Arriving, Late,
           Owed, Delta, ConnOf, InSubmit, Left
  <2>3. QED
    BY <1>1, <1>4, <1>6, <2>1, <2>2, QuietMoveKeeps DEF Identify, InSubmit, Leaving
<1>7. CASE RegisterSocket(c)
  <2>1. Membership'
    <3>1. sockets' = sockets \cup {c}
      BY <1>1, <1>2, <1>7 DEF RegisterSocket, SocketsWithout
    <3>2. w \in alive
      BY <1>1, <1>2, <1>7 DEF RegisterSocket, Membership
    <3>3. QED
      BY <1>1, <1>2, <1>7, <3>1, <3>2 DEF RegisterSocket, Membership, NotEntered, InSubmit
  <2>2. Dialogue(w)'
    BY <1>1, <1>7, Turns
       DEF RegisterSocket, Dialogue, Exchange, Waiting, Asked, Silent, Answered, Arriving, Late,
           Owed, Delta, ConnOf, InSubmit, Left
  <2>3. QED
    BY <1>1, <1>4, <1>7, <2>1, <2>2, QuietMoveKeeps DEF RegisterSocket, InSubmit, Leaving
<1>8. CASE GetStep(c)
  <2>1. Membership'
    BY <1>1, <1>2, <1>8 DEF GetStep, Membership, NotEntered, InSubmit
  <2>2. Dialogue(w)'
    BY <1>1, <1>8, Turns
       DEF GetStep, Dialogue, Exchange, Waiting, Asked, Silent, Answered, Arriving, Late,
           Owed, Delta, ConnOf, InSubmit, Left
  <2>3. QED
    BY <1>1, <1>4, <1>8, <2>1, <2>2, QuietMoveKeeps DEF GetStep, InSubmit, Leaving
<1>9. CASE SkipCheckpoint(c)
  <2>1. Membership'
    BY <1>1, <1>2, <1>9 DEF SkipCheckpoint, Membership, NotEntered, InSubmit
  <2>2. Dialogue(w)'
    BY <1>1, <1>9, Turns
       DEF SkipCheckpoint, Dialogue, Exchange, Waiting, Asked, Silent, Answered, Arriving, Late,
           Owed, Delta, ConnOf, InSubmit, Left
  <2>3. QED
    BY <1>1, <1>4, <1>9, <2>1, <2>2, QuietMoveKeeps DEF SkipCheckpoint, InSubmit, Leaving
<1>10. CASE DecideCheckpoint(c)
  <2>1. Membership'
    BY <1>1, <1>2, <1>10 DEF DecideCheckpoint, Membership, NotEntered, InSubmit
  <2>2. Dialogue(w)'
    BY <1>1, <1>10, Turns
       DEF DecideCheckpoint, Dialogue, Exchange, Waiting, Asked, Silent, Answered, Arriving, Late,
           Owed, Delta, ConnOf, InSubmit, Left
  <2>3. QED
    BY <1>1, <1>4, <1>10, <2>1, <2>2, QuietMoveKeeps DEF DecideCheckpoint, InSubmit, Leaving
<1>11. CASE MarkCheckpoint(c)
  <2>1. Membership'
    BY <1>1, <1>2, <1>11 DEF MarkCheckpoint, Membership, NotEntered, InSubmit
  <2>2. Dialogue(w)'
    BY <1>1, <1>11, Turns
       DEF MarkCheckpoint, Dialogue, Exchange, Waiting, Asked, Silent, Answered, Arriving, Late,
           Owed, Delta, ConnOf, InSubmit, Left
  <2>3. QED
    BY <1>1, <1>4, <1>11, <2>1, <2>2, QuietMoveKeeps DEF MarkCheckpoint, InSubmit, Leaving
<1>12. CASE SaveCheckpoint(c)
  <2>1. Membership'
    BY <1>1, <1>2, <1>12 DEF SaveCheckpoint, Membership, NotEntered, InSubmit
  <2>2. Dialogue(w)'
    BY <1>1, <1>12, Turns
       DEF SaveCheckpoint, Dialogue, Exchange, Waiting, Asked, Silent, Answered, Arriving, Late,
           Owed, Delta, ConnOf, InSubmit, Left
  <2>3. QED
    BY <1>1, <1>4, <1>12, <2>1, <2>2, QuietMoveKeeps DEF SaveCheckpoint, InSubmit, Leaving
<1>13. CASE MarkDead(c)
  <2>1. Membership'
    BY <1>1, <1>2, <1>13 DEF MarkDead, Membership, NotEntered, InSubmit
  <2>2. Dialogue(w)'
    BY <1>1, <1>13, Turns
       DEF MarkDead, Dialogue, Exchange, Waiting, Asked, Silent, Answered, Arriving, Late,
           Owed, Delta, ConnOf, InSubmit, Left
  <2>3. QED
    BY <1>1, <1>4, <1>13, <2>1, <2>2, QuietMoveKeeps DEF MarkDead, InSubmit, Leaving
<1>14. CASE Disconnect(c)
  <2>1. /\ \/ wpc[w] = "done" /\ pc[c] = "recv" /\ Silent(c)
           \/ wpc[w] = "crashed" /\ Left(w)
        /\ down[c] = <<>> /\ c \notin open
    BY <1>1, <1>14, Turns DEF Disconnect, Silent, Dialogue, Left
  <2>2. PICK to : /\ pc' = [pc EXCEPT ![c] = to]
                  /\ \/ pc[c] = "anon" /\ to = "closed"
                     \/ pc[c] = "recv" /\ to = "dead"
    BY <1>14 DEF Disconnect
  <2>3. /\ up'[c] = <<>> /\ \A d \in Conns \ {c} : up'[d] = up[d]
        /\ up'[c] = up[c] \/ wpc[w] = "crashed"
        /\ pc'[c] = to /\ \A d \in Conns \ {c} : pc'[d] = pc[d]
    BY <1>1, <1>14, <2>1, <2>2 DEF Disconnect, Silent, TypeOK, WireTypeOK
  <2>4. Membership'
    BY <1>1, <1>2, <1>14, <2>2, <2>3 DEF Disconnect, Membership, NotEntered, InSubmit
  <2>5. Dialogue(w)'
    BY <1>1, <1>14, <2>1, <2>2, <2>3 DEF Disconnect, Dialogue, Silent, Left
  <2>6. to = "closed" => \A g \in buffer : WorkerOf(g.conn) # w
    BY <1>3, <2>2 DEF BufferWaits, Leaving
  <2>7. QED
    BY <1>1, <1>4, <1>14, <2>1, <2>2, <2>3, <2>4, <2>5, <2>6, QuietMoveKeeps
       DEF Disconnect, InSubmit, Leaving
<1>15. CASE Unregister(c)
  <2>1. /\ wpc[w] \in {"done", "crashed"} /\ pc[c] = "unregister" /\ Silent(c)
        /\ pc' = [pc EXCEPT ![c] = "closed"]
    BY <1>1, <1>15, Turns DEF Unregister
  <2>2. buffer' = {g \in buffer : WorkerOf(g.conn) # w}
    BY <1>15 DEF Unregister, BufferWithout
  <2>3. wpc[w] = "done" => buffer' = buffer
    BY <1>3, <2>2 DEF BufferWaits
  <2>4. \A g \in dropped' : g \in dropped \/ wpc[WorkerOf(g.conn)] = "crashed"
    BY <1>1, <1>15, <2>1, <2>2, <2>3 DEF Unregister
  <2>5. Membership'
    BY <1>1, <1>2, <1>15, <2>1 DEF Unregister, Membership, NotEntered, InSubmit, SocketsWithout
  <2>6. Dialogue(w)'
    BY <1>1, <1>15, <2>1 DEF Unregister, Dialogue, Silent, Left
  <2>7. QED
    BY <1>1, <1>4, <1>15, <2>1, <2>2, <2>4, <2>5, <2>6, QuietMoveKeeps
       DEF Unregister, InSubmit, Leaving
<1>16. QED
  BY <1>5, <1>6, <1>7, <1>8, <1>9, <1>10, <1>11, <1>12, <1>13, <1>14, <1>15

\* Requests and replies.
LEMMA ExchangeHandlerKeeps ==
    ASSUME TypeOK, TypeOK', SyncInv, NEW c \in Conns, UNCHANGED workerVars,
           c = Main(WorkerOf(c)),
           HandlePull(c) \/ SendWeights(c) \/ HandleHeartbeat(c) \/ SendHeartbeatAck(c)
    PROVE  SyncInv'
<1> DEFINE w == WorkerOf(c)
<1>1. /\ w \in Workers /\ c = Main(w) /\ Dialogue(w) /\ Fresh(w)
      /\ pc \in [Conns -> Control] /\ seen \in [Conns -> Nat] /\ global_step \in Nat
      /\ up \in [Conns -> Seq(Request)] /\ down \in [Conns -> Seq(Response)]
  BY MainFacts DEF SyncInv, TakingTurns, FreshWeights, TypeOK, ServerTypeOK, WireTypeOK
<1>2. /\ Membership
      /\ \A d \in Conns \ {c} : pc[d] # "off" => WorkerOf(d) # w
  BY <1>1, MainFacts DEF SyncInv
<1>3. (\/ wpc[w] \in {"first", "beat", "weights"}
       \/ wpc[w] = "crashed" /\ (~Silent(c) \/ pc[c] \in {"weights", "beat"})) =>
        /\ \A g \in buffer : WorkerOf(g.conn) # w
        /\ Delta(w) \notin buffer /\ wpc'[w] = wpc[w] /\ Delta(w)' = Delta(w)
  <2>1. Delta(w).conn = c /\ wpc'[w] = wpc[w] /\ Delta(w)' = Delta(w)
    BY <1>1, MainFacts DEF SyncInv, workerVars, Delta, ConnOf
  <2>2. QED
    BY <1>1, <2>1, NothingOwed
<1> USE DEF Goto, aggregatorVars, storeVars, workerVars
<1>4. CASE HandlePull(c)
  <2>1. /\ wpc[w] \in {"first", "weights", "crashed"} /\ pc[c] = "recv"
        /\ Asked(c, Plain("PULL_WEIGHTS")) /\ ~Silent(c)
    BY <1>1, <1>4, Turns DEF HandlePull, Silent, Requested
  <2>2. up'[c] = <<>> /\ down'[c] = <<>> /\ pc'[c] = "weights" /\ seen'[c] = global_step
    BY <1>1, <1>4, <2>1, FirstMessage, MessageTypes DEF HandlePull, ServerRecv, Asked
  <2>3. Own(w)'
    <3>1. Dialogue(w)'
      BY <1>1, <1>4, <2>1, <2>2 DEF HandlePull, Dialogue, Exchange, Silent, Left
    <3>2. UpToDate(global_step)'
      BY <1>1, <1>4 DEF HandlePull, UpToDate
    <3>3. Fresh(w)'
      <4>1. up'[c] # <<Push(Delta(w)')>> /\ ~Answered(c, "WEIGHTS_RESPONSE")'
        BY <2>2, NoPush DEF Answered
      <4>2. Delta(w)' \notin buffer' /\ wpc'[w] # "rollout"
        BY <1>3, <1>4, <2>1 DEF HandlePull
      <4>3. QED
        BY <1>1, <1>4, <2>2, <3>2, <4>1, <4>2 DEF HandlePull, Fresh
    <3>4. QED
      BY <1>1, <1>3, <1>4, <2>1, <3>1, <3>3 DEF HandlePull, Own, SyncInv, AckMeansApplied
  <2>4. Membership'
    BY <1>1, <1>2, <1>4 DEF HandlePull, Membership, NotEntered, InSubmit
  <2>5. \A d \in Conns \ {c} : UNCHANGED <<up[d], down[d], seen[d]>>
    BY <1>1, <1>4 DEF HandlePull, ServerRecv
  <2>6. QED
    BY <1>1, <1>4, <2>1, <2>3, <2>4, <2>5, ExchangeKeeps DEF HandlePull
<1>5. CASE SendWeights(c)
  <2>1. /\ \/ wpc[w] \in {"first", "weights"} /\ c \in open
           \/ wpc[w] = "crashed" /\ c \notin open
        /\ Silent(c) /\ pc[c] = "weights"
    BY <1>1, <1>5, Turns DEF SendWeights, Dialogue
  <2>2. up'[c] = <<>> /\ pc'[c] = "recv" /\ UNCHANGED open
    BY <1>1, <1>5, <2>1 DEF SendWeights, Silent
  <2>3. /\ down'[c] = IF wpc[w] = "crashed" THEN <<>> ELSE <<Weights(seen[c])>>
        /\ \A d \in Conns \ {c} : down'[d] = down[d]
    BY <1>1, <1>5, <2>1 DEF SendWeights, ServerSend, Silent
  <2>4. wpc[w] # "crashed" =>
          Len(down'[c]) = 1 /\ down'[c][1].type = "WEIGHTS_RESPONSE"
            /\ down'[c][1].weights = seen[c]
    BY <2>3 DEF Weights
  <2>5. Own(w)'
    <3>1. Dialogue(w)'
      BY <1>1, <1>5, <2>1, <2>2, <2>3, <2>4
         DEF SendWeights, Dialogue, Exchange, Answered, Left
    <3>2. /\ UpToDate(seen[c]) /\ UNCHANGED global_step
          /\ \A e \in Conns : pc'[e] = "apply" => pc[e] = "apply"
      BY <1>1, <1>5, <2>1 DEF SendWeights, Fresh
    <3>3. global_step' <= seen[c] + 1 /\
          (global_step' = seen[c] + 1 => \A e \in Conns : pc'[e] # "apply")
      BY <3>2 DEF UpToDate
    <3>4. Fresh(w)'
      <4>1. Answered(c, "WEIGHTS_RESPONSE")' => down'[c][1].weights = seen[c]
        BY <2>3, <2>4 DEF Answered
      <4>2. QED
        BY <1>1, <1>3, <1>5, <2>1, <2>2, <3>3, <4>1, NoPush DEF SendWeights, Fresh, UpToDate
    <3>5. QED
      BY <1>1, <1>3, <1>5, <2>1, <3>1, <3>4 DEF SendWeights, Own, SyncInv, AckMeansApplied
  <2>6. Membership'
    BY <1>1, <1>2, <1>5 DEF SendWeights, Membership, NotEntered, InSubmit
  <2>7. \A d \in Conns \ {c} : UNCHANGED <<up[d], down[d], seen[d]>>
    BY <1>1, <1>5, <2>3 DEF SendWeights
  <2>8. QED
    BY <1>1, <1>5, <2>1, <2>5, <2>6, <2>7, ExchangeKeeps DEF SendWeights
<1>6. CASE HandleHeartbeat(c)
  <2>1. /\ wpc[w] \in {"beat", "crashed"} /\ pc[c] = "recv"
        /\ Asked(c, Plain("HEARTBEAT")) /\ ~Silent(c)
    BY <1>1, <1>6, Turns DEF HandleHeartbeat, Silent, Requested
  <2>2. up'[c] = <<>> /\ down'[c] = <<>> /\ pc'[c] = "beat"
    BY <1>1, <1>6, <2>1, FirstMessage, MessageTypes DEF HandleHeartbeat, ServerRecv, Asked
  <2>3. Own(w)'
    <3>1. Dialogue(w)'
      BY <1>1, <1>6, <2>1, <2>2 DEF HandleHeartbeat, Dialogue, Exchange, Silent, Left
    <3>2. Fresh(w)'
      <4>1. up'[c] # <<Push(Delta(w)')>> /\ ~Answered(c, "WEIGHTS_RESPONSE")'
        BY <2>2, NoPush DEF Answered
      <4>2. Delta(w)' \notin buffer' /\ wpc'[w] # "rollout"
        BY <1>3, <1>6, <2>1 DEF HandleHeartbeat
      <4>3. QED
        BY <1>1, <2>2, <4>1, <4>2 DEF Fresh
    <3>3. QED
      BY <1>1, <1>3, <1>6, <2>1, <3>1, <3>2
         DEF HandleHeartbeat, Own, SyncInv, AckMeansApplied
  <2>4. Membership'
    BY <1>1, <1>2, <1>6 DEF HandleHeartbeat, Membership, NotEntered, InSubmit
  <2>5. \A d \in Conns \ {c} : UNCHANGED <<up[d], down[d], seen[d]>>
    BY <1>1, <1>6 DEF HandleHeartbeat, ServerRecv
  <2>6. QED
    BY <1>1, <1>6, <2>1, <2>3, <2>4, <2>5, ExchangeKeeps DEF HandleHeartbeat
<1>7. CASE SendHeartbeatAck(c)
  <2>1. /\ \/ wpc[w] = "beat" /\ c \in open
           \/ wpc[w] = "crashed" /\ c \notin open
        /\ Silent(c) /\ pc[c] = "beat"
    BY <1>1, <1>7, Turns DEF SendHeartbeatAck, Dialogue
  <2>2. up'[c] = <<>> /\ pc'[c] = "recv" /\ UNCHANGED open
    BY <1>1, <1>7, <2>1 DEF SendHeartbeatAck, Silent
  <2>3. /\ down'[c] = IF wpc[w] = "crashed" THEN <<>> ELSE <<Plain("HEARTBEAT_ACK")>>
        /\ \A d \in Conns \ {c} : down'[d] = down[d]
    BY <1>1, <1>7, <2>1 DEF SendHeartbeatAck, ServerSend, Silent
  <2>4. /\ wpc[w] # "crashed" => Len(down'[c]) = 1 /\ down'[c][1].type = "HEARTBEAT_ACK"
        /\ ~Answered(c, "WEIGHTS_RESPONSE")'
    BY <2>3 DEF Plain, Answered
  <2>5. Own(w)'
    <3>1. Dialogue(w)'
      BY <1>1, <1>7, <2>1, <2>2, <2>3, <2>4
         DEF SendHeartbeatAck, Dialogue, Exchange, Answered, Left
    <3>2. Fresh(w)'
      BY <1>1, <1>3, <1>7, <2>1, <2>2, <2>4, NoPush DEF SendHeartbeatAck, Fresh
    <3>3. QED
      BY <1>1, <1>3, <1>7, <2>1, <3>1, <3>2
         DEF SendHeartbeatAck, Own, SyncInv, AckMeansApplied
  <2>6. Membership'
    BY <1>1, <1>2, <1>7 DEF SendHeartbeatAck, Membership, NotEntered, InSubmit
  <2>7. \A d \in Conns \ {c} : UNCHANGED <<up[d], down[d], seen[d]>>
    BY <1>1, <1>7, <2>3 DEF SendHeartbeatAck
  <2>8. QED
    BY <1>1, <1>7, <2>1, <2>5, <2>6, <2>7, ExchangeKeeps DEF SendHeartbeatAck
<1>8. QED
  BY <1>4, <1>5, <1>6, <1>7
-----------------------------------------------------------------------------
(* The steps of submit().                                                   *)

\* What submit() stores, and that it overwrites nothing.
LEMMA PushRead ==
    ASSUME TypeOK, LoopGuard, SyncInv, NEW w \in Workers, Store(Main(w))
    PROVE  LET c == Main(w) IN
           /\ wpc[w] \in {"ack", "crashed"} /\ pc[c] = "recv"
           /\ Asked(c, Push(Delta(w))) /\ up[c] # <<>> /\ down[c] = <<>>
           /\ Delta(w).conn = c /\ Delta(w) \in Gradient
           /\ BufferWith(c) = buffer \cup {Delta(w)}
           /\ \A g \in buffer : WorkerOf(g.conn) # w
           /\ \A e, d \in Conns : d \in acks[e] => WorkerOf(d) # w
           /\ dropped' = dropped /\ up' = [up EXCEPT ![c] = <<>>]
<1> DEFINE c == Main(w)
<1>1. c \in Conns /\ pc[c] = "recv" /\ Delta(w).conn = c
  BY MainFacts DEF Store, SyncInv
<1>2. wpc[w] \in {"ack", "crashed"} /\ Asked(c, Push(Delta(w)))
  BY Turns DEF Store
<1>3. Delta(w) \in Gradient
  BY <1>1, <1>2, WireAssumption DEF Delta, Gradient, TypeOK, WorkerTypeOK, LoopGuard
<1>4. Head(up[c]) = Push(Delta(w)) /\ Tail(up[c]) = <<>> /\ up[c] # <<>>
  BY <1>2 DEF Asked
<1>5. Head(up[c]).gradients = Delta(w)
  BY <1>4 DEF Push
<1>6. /\ \A g \in buffer : WorkerOf(g.conn) # w
      /\ \A e, d \in Conns : d \in acks[e] => WorkerOf(d) # w
  BY <1>2, <1>4, NothingOwed DEF Silent
<1>7. BufferWith(c) = buffer \cup {Delta(w)}
  BY <1>5, <1>6, MainFacts DEF BufferWith, BufferWithout
<1>8. QED
  BY <1>1, <1>2, <1>3, <1>4, <1>6, <1>7 DEF Store, ServerRecv, Asked

\* A delta that waits for others.
LEMMA SubmitAndWaitKeeps ==
    ASSUME TypeOK, LoopGuard, SyncInv, NEW c \in Conns, UNCHANGED workerVars,
           c = Main(WorkerOf(c)), SubmitAndWait(c)
    PROVE  SyncInv'
<1> DEFINE w == WorkerOf(c)
<1>1. w \in Workers /\ c = Main(w) /\ \A v \in Workers \ {w} : Main(v) \in Conns \ {c}
  BY MainFacts
<1>2. /\ wpc[w] \in {"ack", "crashed"} /\ pc[c] = "recv"
      /\ up[c] = <<Push(Delta(w))>> /\ up[c] # <<>> /\ down[c] = <<>>
      /\ Delta(w).conn = c /\ Delta(w) \in Gradient
      /\ buffer' = buffer \cup {Delta(w)}
      /\ \A g \in buffer : WorkerOf(g.conn) # w
      /\ \A e, d \in Conns : d \in acks[e] => WorkerOf(d) # w
      /\ dropped' = dropped /\ up' = [up EXCEPT ![c] = <<>>]
  BY <1>1, PushRead DEF SubmitAndWait, Asked
<1>3. /\ UNCHANGED <<down, open, alive, sockets, pc, round, acks, seen, global_step, applied>>
      /\ up'[c] = <<>> /\ \A d \in Conns \ {c} : up'[d] = up[d]
  BY <1>2 DEF SubmitAndWait, storeVars, threadVars, TypeOK, WireTypeOK
<1>4. \A v \in Workers : Delta(v)' = Delta(v) /\ Delta(v).conn = Main(v)
  BY MainFacts DEF Delta, ConnOf, workerVars, SyncInv
<1>5. \A v \in Workers \ {w} : Delta(v) \in buffer' <=> Delta(v) \in buffer
  BY <1>1, <1>2, <1>4
<1> USE DEF workerVars
<1>6. OneConnection' /\ Membership' /\ RoundsOneByOne'
  BY <1>1, <1>2, <1>3, MainFacts DEF SyncInv, OneConnection, Membership, RoundsOneByOne, InSubmit
<1>7. TakingTurns'
  <2>1. ASSUME NEW v \in Workers \ {w} PROVE Dialogue(v)'
    BY <1>1, <1>3, <1>4, <1>5
       DEF SyncInv, TakingTurns, Dialogue, Exchange, Asked, Answered, Silent, Waiting,
           Owed, Left
  <2>2. Dialogue(w)'
    BY <1>1, <1>2, <1>3, <1>4 DEF SyncInv, TakingTurns, Dialogue, Waiting, Silent, Left
  <2>3. QED
    BY <2>1, <2>2 DEF TakingTurns
<1>8. Barrier'
  <2>1. BufferWaits'
    <3>1. ASSUME NEW g \in buffer
          PROVE  g.conn \in Conns \ {c} /\ WorkerOf(g.conn) \in Workers
      BY MainFacts, GradientTypes, <1>1, <1>2 DEF TypeOK, ServerTypeOK
    <3>2. ASSUME NEW g \in buffer
          PROVE  LET v == WorkerOf(g.conn) IN
                 /\ g = Delta(v)' /\ Silent(g.conn)' /\ ~Owed(g.conn)'
                 /\ \/ wpc'[v] = "ack" /\ pc'[g.conn] = "recv"
                    \/ wpc'[v] = "crashed" /\ pc'[g.conn] \in {"recv"} \cup Leaving
      BY <1>3, <1>4, <3>1 DEF SyncInv, Barrier, BufferWaits, Silent, Owed
    <3>3. /\ WorkerOf(Delta(w).conn) = w
          /\ Delta(w) = Delta(w)' /\ wpc'[w] \in {"ack", "crashed"}
          /\ Silent(c)' /\ pc'[c] = "recv" /\ ~Owed(c)'
      BY <1>1, <1>2, <1>3, <1>4 DEF Silent, Owed
    <3>4. QED
      BY <1>2, <3>2, <3>3 DEF BufferWaits
  <2>2. RoundOwes'
    <3>1. ASSUME NEW d \in Conns, NEW e \in Conns, d \in acks[e]
          PROVE  d # c /\ WorkerOf(d) \in Workers
      BY <1>1, <1>2, <3>1, MainFacts
    <3>2. QED
      BY <1>3, <1>4, <3>1 DEF SyncInv, Barrier, RoundOwes, Silent
  <2>3. RoundOwed'
    BY <1>3 DEF SyncInv, Barrier, RoundOwed
  <2>4. QED
    BY <2>1, <2>2, <2>3 DEF Barrier
<1>9. FreshWeights'
  <2>1. \A v : UpToDate(v)' <=> UpToDate(v)
    BY <1>3 DEF UpToDate
  <2>2. ASSUME NEW v \in Workers \ {w} PROVE Fresh(v)'
    BY <1>1, <1>3, <1>4, <1>5, <2>1 DEF SyncInv, FreshWeights, Fresh, Answered
  <2>3. Fresh(w)'
    <3>1. UpToDate(base[w]) /\ up'[c] # <<Push(Delta(w)')>>
      BY <1>1, <1>2, <1>3, NoPush DEF SyncInv, FreshWeights, Fresh
    <3>2. QED
      BY <1>1, <1>2, <1>3, <1>4, <2>1, <3>1 DEF SyncInv, FreshWeights, Fresh, Answered
  <2>4. QED
    BY <2>2, <2>3 DEF FreshWeights
<1>10. Losses' /\ AckMeansApplied' /\ StaleByAtMostOne'
  BY <1>2, <1>3, <1>4 DEF SyncInv, Losses, OnlyTheKilledLose, NobodyKilled, AckMeansApplied,
                             StaleByAtMostOne
<1>11. QED
  BY <1>6, <1>7, <1>8, <1>9, <1>10 DEF SyncInv

\* When a round opens in synchronous mode, whoever is registered waits for it or is
\* gone, no other round is under way, and nobody holds weights without having pushed.
LEMMA RoundOpens ==
    ASSUME MinReady = 0, TypeOK, LoopGuard, SyncInv, NEW w \in Workers, SubmitAndFire(Main(w))
    PROVE  LET c == Main(w) IN
           /\ \A e \in Conns : ~InSubmit(e) /\ acks[e] = {} /\ round[e] = {}
           /\ \A g \in buffer \cup {Delta(w)} : g.conn \in sockets
           /\ \A d \in sockets : LET v == WorkerOf(d) IN
                /\ d = Main(v)
                /\ \/ wpc[v] = "done"
                   \/ /\ wpc[v] = "ack" /\ Silent(d)' /\ pc[d] = "recv"
                      /\ Delta(v) \in buffer \cup {Delta(w)}
                   \/ /\ wpc[v] = "crashed" /\ Silent(d)'
                      /\ pc[d] \in {"recv"} \cup Leaving
           /\ \A v \in Workers : pc[Main(v)] \in {"recv", "weights", "beat"} =>
                /\ wpc[v] \in {"ack", "crashed"} /\ pc[Main(v)] = "recv"
                /\ Silent(Main(v))'
<1> DEFINE c == Main(w)
<1>1. c \in Conns /\ WorkerOf(c) = w /\ Store(c) /\ ShouldApply(BufferWith(c))
  BY MainFacts DEF SubmitAndFire
<1>2. /\ wpc[w] \in {"ack", "crashed"} /\ pc[c] = "recv" /\ down[c] = <<>>
      /\ Delta(w).conn = c
      /\ BufferWith(c) = buffer \cup {Delta(w)}
      /\ up' = [up EXCEPT ![c] = <<>>] /\ down' = down
  BY <1>1, PushRead DEF SubmitAndFire
<1>3. up'[c] = <<>> /\ \A d \in Conns \ {c} : up'[d] = up[d]
  BY <1>2, MainFacts DEF TypeOK, WireTypeOK
<1>4. \A g \in buffer : LET v == WorkerOf(g.conn) IN
        /\ g.conn \in Conns /\ g.conn = Main(v) /\ g = Delta(v) /\ v \in Workers
        /\ Silent(g.conn)
        /\ \/ wpc[v] = "ack" /\ pc[g.conn] = "recv"
           \/ wpc[v] = "crashed" /\ pc[g.conn] \in {"recv"} \cup Leaving
  <2>1. ASSUME NEW g \in buffer PROVE g.conn \in Conns
    BY GradientTypes DEF TypeOK, ServerTypeOK
  <2>2. ASSUME NEW g \in buffer
        PROVE  LET v == WorkerOf(g.conn) IN
               /\ g = Delta(v) /\ Silent(g.conn)
               /\ \/ wpc[v] = "ack" /\ pc[g.conn] = "recv"
                  \/ wpc[v] = "crashed" /\ pc[g.conn] \in {"recv"} \cup Leaving
    BY DEF SyncInv, Barrier, BufferWaits
  <2>3. QED
    BY <2>1, <2>2, MainFacts DEF SyncInv
<1>5. \A d \in sockets : d \in Conns /\ d = Main(WorkerOf(d)) /\ WorkerOf(d) \in Workers
  BY MainFacts DEF SyncInv, Membership, NotEntered, TypeOK, ServerTypeOK
<1>6. ASSUME NEW d \in sockets, WorkerOf(d) \in alive
      PROVE  d = c \/ \E g \in buffer : g.conn = d
  <2>1. WorkerOf(d) \in {WorkerOf(g.conn) : g \in BufferWith(c)}
    BY <1>1, <1>6 DEF ShouldApply
  <2>2. PICK g \in buffer \cup {Delta(w)} : WorkerOf(g.conn) = WorkerOf(d)
    BY <1>2, <2>1
  <2>3. CASE g \in buffer
    BY <1>4, <1>5, <2>2, <2>3
  <2>4. CASE g = Delta(w)
    BY <1>1, <1>2, <1>5, <2>2, <2>4
  <2>5. QED
    BY <2>3, <2>4
<1>7. ASSUME NEW d \in Conns, pc[d] \in {"recv", "weights", "beat"} \/ InSubmit(d)
      PROVE  /\ wpc[WorkerOf(d)] \in {"ack", "crashed"} /\ Silent(d)' /\ pc[d] = "recv"
             /\ Delta(WorkerOf(d)) \in buffer \cup {Delta(w)}
  <2>1. d \in sockets /\ WorkerOf(d) \in alive
    BY <1>7 DEF SyncInv, Membership, NotEntered, InSubmit
  <2>2. CASE d = c
    BY <1>1, <1>2, <1>3, <2>2 DEF Silent
  <2>3. CASE d # c /\ \E g \in buffer : g.conn = d
    BY <1>2, <1>3, <1>4, <1>7, <2>3 DEF Silent, Leaving, InSubmit
  <2>4. QED
    BY <1>6, <2>1, <2>2, <2>3
<1>8. ASSUME NEW e \in Conns
      PROVE  ~InSubmit(e) /\ acks[e] = {} /\ round[e] = {}
  <2>1. ~InSubmit(e)
    BY <1>7 DEF InSubmit
  <2>2. acks[e] = {}
    BY <2>1 DEF SyncInv, Barrier, RoundOwes, InSubmit, TypeOK, ServerTypeOK
  <2>3. round[e] = {}
    BY <2>2 DEF SyncInv, Barrier, RoundOwed
  <2>4. QED
    BY <2>1, <2>2, <2>3
<1>9. \A g \in buffer \cup {Delta(w)} : g.conn \in sockets
  <2>1. \A g \in buffer \cup {Delta(w)} :
          g.conn \in Conns /\ pc[g.conn] \in {"recv"} \cup Leaving
    BY <1>1, <1>2, <1>4
  <2>2. QED
    BY <2>1 DEF SyncInv, Membership, NotEntered, Leaving
<1>10. ASSUME NEW d \in sockets, pc[d] \notin {"recv", "weights", "beat"}
       PROVE  /\ wpc[WorkerOf(d)] \in {"done", "crashed"}
              /\ Silent(d)' /\ pc[d] \in Leaving
  <2>1. pc[d] \in {"dead", "unregister"} /\ d # c
    BY <1>2, <1>5, <1>8, <1>10
       DEF SyncInv, Membership, NotEntered, InSubmit, TypeOK, ServerTypeOK, Control
  <2>2. QED
    BY <1>2, <1>3, <1>5, <2>1, Turns DEF Silent, Leaving
<1>11. \A v \in Workers : pc[Main(v)] \in {"recv", "weights", "beat"} =>
         /\ wpc[v] \in {"ack", "crashed"} /\ pc[Main(v)] = "recv"
         /\ Silent(Main(v))'
  BY <1>7, MainFacts
<1>12. QED
  BY <1>5, <1>7, <1>8, <1>9, <1>10, <1>11

\* The delta that opens a round.
LEMMA SubmitAndFireKeeps ==
    ASSUME MinReady = 0, TypeOK, LoopGuard, SyncInv, NEW c \in Conns, UNCHANGED workerVars,
           c = Main(WorkerOf(c)), SubmitAndFire(c)
    PROVE  SyncInv'
<1> DEFINE w == WorkerOf(c)
           all == buffer \cup {Delta(w)}
<1>1. w \in Workers /\ c = Main(w) /\ \A v \in Workers \ {w} : Main(v) \in Conns \ {c}
  BY MainFacts
<1>2. /\ wpc[w] \in {"ack", "crashed"} /\ pc[c] = "recv"
      /\ up[c] = <<Push(Delta(w))>> /\ down[c] = <<>>
      /\ Delta(w).conn = c /\ BufferWith(c) = all
      /\ dropped' = dropped /\ up' = [up EXCEPT ![c] = <<>>]
  BY <1>1, PushRead DEF SubmitAndFire, Asked
<1>3. /\ UNCHANGED <<down, open, alive, sockets, seen, global_step, applied>>
      /\ buffer' = {} /\ pc' = [pc EXCEPT ![c] = "apply"]
      /\ round' = [round EXCEPT ![c] = all] /\ acks' = [acks EXCEPT ![c] = sockets]
      /\ up'[c] = <<>> /\ \A d \in Conns \ {c} : up'[d] = up[d]
  BY <1>2 DEF SubmitAndFire, storeVars, Goto, TypeOK, WireTypeOK
<1>4. /\ round'[c] = all /\ acks'[c] = sockets /\ pc'[c] = "apply"
      /\ \A e \in Conns \ {c} : round'[e] = {} /\ acks'[e] = {} /\ pc'[e] = pc[e] /\ ~InSubmit(e)
      /\ \A g \in all : g.conn \in sockets
      /\ \A d \in sockets : LET v == WorkerOf(d) IN
           /\ d = Main(v)
           /\ \/ wpc[v] = "done"
              \/ wpc[v] = "ack" /\ Silent(d)' /\ pc[d] = "recv" /\ Delta(v) \in all
              \/ /\ wpc[v] = "crashed" /\ Silent(d)'
                 /\ pc[d] \in {"recv"} \cup Leaving
      /\ \A v \in Workers : pc[Main(v)] \in {"recv", "weights", "beat"} =>
           /\ wpc[v] \in {"ack", "crashed"} /\ pc[Main(v)] = "recv"
           /\ Silent(Main(v))'
  BY <1>1, <1>3, RoundOpens DEF TypeOK, ServerTypeOK
<1>5. \A v \in Workers : Delta(v)' = Delta(v) /\ Delta(v).conn = Main(v)
  BY MainFacts DEF Delta, ConnOf, workerVars, SyncInv
<1>6. c \in sockets
  BY <1>2, <1>4
<1> USE DEF workerVars
<1>7. OneConnection'
  BY <1>1, <1>3, <1>4, MainFacts DEF SyncInv, OneConnection
<1>8. Membership'
  BY <1>2, <1>3, <1>4 DEF SyncInv, Membership, NotEntered, InSubmit
<1>9. RoundsOneByOne'
  BY <1>4 DEF RoundsOneByOne, InSubmit
<1>10. TakingTurns'
  <2>1. Dialogue(w)'
    <3>1. Silent(c)' /\ Owed(c)'
      BY <1>2, <1>3, <1>4, <1>6 DEF Silent, Owed
    <3>2. QED
      BY <1>1, <1>2, <1>3, <3>1 DEF SyncInv, TakingTurns, Dialogue, Waiting, Left, Silent
  <2>2. ASSUME NEW v \in Workers \ {w} PROVE Dialogue(v)'
    <3>1. /\ Dialogue(v) /\ Main(v) \in Conns \ {c} /\ pc'[Main(v)] = pc[Main(v)]
          /\ UNCHANGED <<up[Main(v)], down[Main(v)]>>
      BY <1>1, <1>3, <1>4 DEF SyncInv, TakingTurns
    <3>2. ~Owed(Main(v))
      BY <1>1, <1>4, <3>1, RoundOpens DEF Owed
    <3>3. Waiting(v) => Waiting(v)'
      <4>1. Delta(v) \in buffer => Owed(Main(v))'
        BY <1>4, <1>5 DEF Owed
      <4>2. QED
        BY <1>3, <1>5, <3>1, <3>2, <4>1 DEF Waiting, Silent, Asked, Answered
    <3>4. QED
      BY <1>3, <1>5, <3>1, <3>3 DEF Dialogue, Exchange, Silent, Asked, Answered, Left
  <2>3. QED
    BY <2>1, <2>2 DEF TakingTurns
<1>11. Barrier'
  <2>1. BufferWaits'
    BY <1>3 DEF BufferWaits
  <2>2. RoundOwes'
    <3>1. ASSUME NEW d \in sockets
          PROVE  /\ d = Main(WorkerOf(d))
                 /\ \/ wpc'[WorkerOf(d)] = "done"
                    \/ /\ wpc'[WorkerOf(d)] = "ack" /\ Silent(d)' /\ (pc'[d] = "recv" \/ d = c)
                       /\ Delta(WorkerOf(d))' \in round'[c]
                    \/ /\ wpc'[WorkerOf(d)] = "crashed" /\ Silent(d)'
                       /\ pc'[d] \in {"recv", "closed"} \cup Leaving \/ d = c
      BY <1>4, <1>5, MainFacts DEF TypeOK, ServerTypeOK
    <3>2. QED
      BY <1>4, <3>1 DEF RoundOwes, Main, WorkerOf
  <2>3. RoundOwed'
    <3>1. ASSUME NEW g \in all PROVE wpc[WorkerOf(g.conn)] \in {"ack", "crashed"}
      BY <1>1, <1>2 DEF SyncInv, Barrier, BufferWaits
    <3>2. QED
      BY <1>4, <1>6, <3>1 DEF RoundOwed, InSubmit
  <2>4. QED
    BY <2>1, <2>2, <2>3 DEF Barrier
<1>12. FreshWeights'
  <2>1. ASSUME NEW v \in Workers
        PROVE  /\ pc'[Main(v)] # "weights" /\ ~Answered(Main(v), "WEIGHTS_RESPONSE")'
               /\ wpc[v] # "rollout" /\ up'[Main(v)] # <<Push(Delta(v))>>
    <3>1. /\ Dialogue(v) /\ wpc[v] \in Places /\ Main(v) \in Conns
          /\ WorkerOf(Main(v)) = v /\ pc'[c] = "apply"
          /\ Main(v) # c => UNCHANGED <<up[Main(v)], down[Main(v)], pc[Main(v)]>>
      BY <1>3, <1>4, MainFacts DEF SyncInv, TakingTurns, TypeOK, WorkerTypeOK
    <3>2. pc'[Main(v)] # "weights"
      BY <1>4, <3>1
    <3>3. wpc[v] # "rollout"
      BY <1>4, <3>1 DEF Dialogue
    <3>4. ~Answered(Main(v), "WEIGHTS_RESPONSE")
      BY <1>4, <3>1, <3>3 DEF Dialogue, Exchange, Waiting, Answered, Asked, Silent, Places,
                              Awaiting, Reply, Stopped, Left
    <3>5. ~Answered(Main(v), "WEIGHTS_RESPONSE")'
      BY <1>1, <1>2, <1>3, <3>4 DEF Answered
    <3>6. up'[Main(v)] # <<Push(Delta(v))>>
      <4>1. CASE Main(v) = c
        BY <1>3, <4>1, NoPush
      <4>2. CASE Main(v) # c /\ up[Main(v)] = <<Push(Delta(v))>>
        <5>1. Requested(Main(v), "PUSH_GRADIENTS")
          BY <4>2 DEF Requested, Push
        <5>2. wpc[v] \in {"ack", "crashed"}
          BY <5>1, Turns
        <5>3. pc[Main(v)] = "recv"
          BY <3>1, <4>2, <5>2, NoPush
             DEF Dialogue, Waiting, Left, Asked, Silent, Answered
        <5>4. Silent(Main(v))'
          BY <1>4, <5>3
        <5>5. QED
          BY <5>4, NoPush DEF Silent
      <4>3. QED
        BY <3>1, <4>1, <4>2
    <3>7. QED
      BY <3>2, <3>3, <3>5, <3>6
  <2>2. QED
    BY <1>3, <1>5, <2>1 DEF FreshWeights, Fresh
<1>13. StaleByAtMostOne'
  <2>1. ASSUME NEW g \in all PROVE global_step - base[WorkerOf(g.conn)] <= 1
    <3>1. ASSUME NEW v \in Workers, UpToDate(base[v]) PROVE global_step - base[v] <= 1
      BY <3>1 DEF UpToDate, TypeOK, ServerTypeOK, WorkerTypeOK
    <3>2. CASE g = Delta(w)
      BY <1>1, <1>2, <3>1, <3>2 DEF SyncInv, FreshWeights, Fresh
    <3>3. CASE g \in buffer
      <4>1. g = Delta(WorkerOf(g.conn)) /\ WorkerOf(g.conn) \in Workers
        BY <3>3, MainFacts, GradientTypes
           DEF SyncInv, Barrier, BufferWaits, TypeOK, ServerTypeOK
      <4>2. QED
        BY <3>1, <3>3, <4>1 DEF SyncInv, FreshWeights, Fresh
    <3>4. QED
      BY <3>2, <3>3
  <2>2. QED
    BY <1>3, <1>4, <2>1 DEF StaleByAtMostOne
<1>14. Losses' /\ AckMeansApplied'
  BY <1>2, <1>3, <1>5 DEF SyncInv, Losses, OnlyTheKilledLose, NobodyKilled, AckMeansApplied
<1>15. QED
  BY <1>7, <1>8, <1>9, <1>10, <1>11, <1>12, <1>13, <1>14 DEF SyncInv

\* apply_gradients: the weights of everybody who has pushed nothing yet grow older.
LEMMA ApplyKeeps ==
    ASSUME TypeOK, RoundInApply, SyncInv, NEW c \in Conns, UNCHANGED workerVars,
           c = Main(WorkerOf(c)), ApplyGradients(c)
    PROVE  SyncInv'
<1>1. /\ pc[c] = "apply" /\ pc' = [pc EXCEPT ![c] = "step"]
      /\ global_step \in Nat /\ global_step' = global_step + 1
      /\ applied' = applied \cup round[c] /\ round' = [round EXCEPT ![c] = {}]
      /\ UNCHANGED <<up, down, open, alive, sockets, buffer, dropped, acks, seen>>
  BY DEF ApplyGradients, Goto, wireVars, aggregatorVars, TypeOK, ServerTypeOK
<1>2. /\ pc'[c] = "step" /\ round'[c] = {}
      /\ \A e \in Conns \ {c} : /\ pc'[e] = pc[e] /\ ~InSubmit(e)
                                /\ round[e] = {} /\ round'[e] = {} /\ acks[e] = {}
  <2>1. ASSUME NEW e \in Conns \ {c} PROVE ~InSubmit(e)
    BY <1>1 DEF SyncInv, RoundsOneByOne, InSubmit
  <2>2. ASSUME NEW e \in Conns \ {c} PROVE round[e] = {} /\ acks[e] = {}
    BY <2>1 DEF RoundInApply, SyncInv, Barrier, RoundOwes, InSubmit, TypeOK, ServerTypeOK
  <2>3. QED
    BY <1>1, <2>1, <2>2 DEF TypeOK, ServerTypeOK
<1>3. \A v \in Workers : /\ Delta(v)' = Delta(v) /\ Main(v) \in Conns
                         /\ WorkerOf(Main(v)) = v /\ UNCHANGED <<wpc[v], base[v]>>
  BY MainFacts DEF Delta, ConnOf, workerVars, SyncInv
<1>4. \A v \in Nat : UpToDate(v) => UpToDate(v)'
  BY <1>1, <1>2 DEF UpToDate, InSubmit
<1>5. OneConnection' /\ Membership' /\ RoundsOneByOne'
  <2>1. OneConnection'
    BY <1>1, <1>2, MainFacts DEF SyncInv, OneConnection, workerVars
  <2>2. Membership'
    BY <1>1, <1>2 DEF SyncInv, Membership, NotEntered, InSubmit
  <2>3. RoundsOneByOne'
    BY <1>2 DEF RoundsOneByOne, InSubmit
  <2>4. QED
    BY <2>1, <2>2, <2>3
<1>6. TakingTurns'
  <2>1. ASSUME NEW v \in Workers PROVE Dialogue(v)'
    <3>1. Dialogue(v) /\ (Waiting(v) => Waiting(v)')
      BY <1>1, <1>2, <1>3
         DEF SyncInv, TakingTurns, Waiting, Silent, Asked, Answered, Owed, Late
    <3>2. QED
      BY <1>1, <1>2, <1>3, <3>1
         DEF Dialogue, Exchange, Silent, Asked, Answered, Late, Arriving, Left
  <2>2. QED
    BY <2>1 DEF TakingTurns
<1>7. Barrier'
  <2>1. BufferWaits'
    <3>1. ASSUME NEW g \in buffer
          PROVE  g.conn \in Conns \ {c} /\ WorkerOf(g.conn) \in Workers
      BY <1>1, MainFacts, GradientTypes
         DEF SyncInv, Barrier, BufferWaits, Leaving, TypeOK, ServerTypeOK
    <3>2. QED
      BY <1>1, <1>2, <1>3, <3>1 DEF SyncInv, Barrier, BufferWaits, Silent, Owed
  <2>2. RoundOwes'
    <3>1. ASSUME NEW d \in Conns, d \in acks[c]
          PROVE  LET v == WorkerOf(d) IN
                 /\ d = Main(v)
                 /\ \/ wpc'[v] = "done"
                    \/ /\ wpc'[v] = "ack" /\ Silent(d)' /\ (pc'[d] = "recv" \/ d = c)
                       /\ Delta(v)' \in applied'
                    \/ /\ wpc'[v] = "crashed" /\ Silent(d)'
                       /\ pc'[d] \in {"recv", "closed"} \cup Leaving \/ d = c
      <4>1. LET v == WorkerOf(d) IN
            /\ d = Main(v) /\ v \in Workers
            /\ \/ wpc[v] = "done"
               \/ /\ wpc[v] = "ack" /\ Silent(d) /\ (pc[d] = "recv" \/ d = c)
                  /\ Delta(v) \in round[c]
               \/ /\ wpc[v] = "crashed" /\ Silent(d)
                  /\ pc[d] \in {"recv", "closed"} \cup Leaving \/ d = c
        BY <1>1, <3>1, MainFacts DEF SyncInv, Barrier, RoundOwes
      <4>2. QED
        BY <1>1, <1>2, <1>3, <4>1 DEF Silent
    <3>2. QED
      BY <1>1, <1>2, <3>1 DEF RoundOwes
  <2>3. RoundOwed'
    BY <1>1, <1>2 DEF SyncInv, Barrier, RoundOwed
  <2>4. QED
    BY <2>1, <2>2, <2>3 DEF Barrier
<1>8. FreshWeights'
  <2>1. ASSUME NEW v \in Workers PROVE Fresh(v)'
    <3>1. seen[Main(v)] \in Nat /\ base[v] \in Nat
      BY <1>3 DEF TypeOK, ServerTypeOK, WorkerTypeOK
    <3>2. Answered(Main(v), "WEIGHTS_RESPONSE") => down[Main(v)][1].weights \in Nat
      BY <1>3, MessageTypes DEF Answered, TypeOK, WireTypeOK
    <3>3. pc'[Main(v)] = "weights" => pc[Main(v)] = "weights"
      BY <1>2, <1>3
    <3>4. QED
      BY <1>1, <1>3, <1>4, <3>1, <3>2, <3>3 DEF SyncInv, FreshWeights, Fresh, Answered
  <2>2. QED
    BY <2>1 DEF FreshWeights
<1>9. StaleByAtMostOne'
  BY <1>2 DEF StaleByAtMostOne
<1>10. Losses' /\ AckMeansApplied'
  BY <1>1, <1>3
     DEF SyncInv, Losses, OnlyTheKilledLose, NobodyKilled, AckMeansApplied, workerVars
<1>11. QED
  BY <1>5, <1>6, <1>7, <1>8, <1>9, <1>10 DEF SyncInv

\* One ACK of a round.
LEMMA SendAckKeeps ==
    ASSUME TypeOK, RoundInApply, SyncInv, NEW c \in Conns, UNCHANGED workerVars,
           c = Main(WorkerOf(c)), SendAck(c)
    PROVE  SyncInv'
<1>1. PICK d \in acks[c] : /\ acks' = [acks EXCEPT ![c] = @ \ {d}]
                           /\ ServerSend(d, Plain("ACK"))
  BY DEF SendAck
<1> DEFINE w == WorkerOf(d)
<1>2. /\ pc[c] = "ack" /\ d \in Conns
      /\ UNCHANGED <<up, open, alive, sockets, buffer, dropped, global_step, applied>>
      /\ UNCHANGED <<pc, round, seen>>
  BY DEF SendAck, aggregatorVars, storeVars, TypeOK, ServerTypeOK
<1>3. /\ \A e \in Conns \ {c} : ~InSubmit(e) /\ acks[e] = {} /\ acks'[e] = {}
      /\ acks'[c] = acks[c] \ {d}
      /\ \A e \in Conns : round[e] = {}
  <2>1. ASSUME NEW e \in Conns \ {c} PROVE ~InSubmit(e)
    BY <1>2 DEF SyncInv, RoundsOneByOne, InSubmit
  <2>2. ASSUME NEW e \in Conns \ {c} PROVE acks[e] = {}
    BY <2>1 DEF SyncInv, Barrier, RoundOwes, InSubmit, TypeOK, ServerTypeOK
  <2>3. ASSUME NEW e \in Conns PROVE round[e] = {}
    BY <1>2, <2>1 DEF RoundInApply, InSubmit
  <2>4. QED
    BY <1>1, <2>1, <2>2, <2>3 DEF TypeOK, ServerTypeOK
<1>4. /\ d = Main(w) /\ w \in Workers
      /\ \/ wpc[w] = "done"
         \/ /\ wpc[w] = "ack" /\ Silent(d) /\ (pc[d] = "recv" \/ d = c)
            /\ Delta(w) \in applied
         \/ wpc[w] = "crashed" /\ Silent(d)
  BY <1>1, <1>2, MainFacts DEF SyncInv, Barrier, RoundOwes
<1>5. /\ \A e \in Conns \ {d} : down'[e] = down[e]
      /\ wpc[w] \in {"done", "crashed"} => down'[d] = down[d]
      /\ wpc[w] = "ack" => Answered(d, "ACK")'
  <2>1. d \in open <=> wpc[w] \notin {"start", "done", "crashed"}
    BY <1>4 DEF SyncInv, TakingTurns, Dialogue
  <2>2. \A e \in Conns \ {d} : down'[e] = down[e]
    BY <1>1, <1>2 DEF ServerSend, TypeOK, WireTypeOK
  <2>3. wpc[w] \in {"done", "crashed"} => down'[d] = down[d]
    BY <1>1, <2>1 DEF ServerSend
  <2>4. ASSUME wpc[w] = "ack" PROVE Answered(d, "ACK")'
    <3>1. down'[d] = <<Plain("ACK")>> /\ up'[d] = <<>>
      BY <1>1, <1>2, <1>4, <2>1, <2>4 DEF ServerSend, Silent, TypeOK, WireTypeOK
    <3>2. QED
      BY <3>1 DEF Answered, Plain
  <2>5. QED
    BY <2>2, <2>3, <2>4
<1>6. \A v \in Workers : /\ Delta(v)' = Delta(v) /\ Main(v) \in Conns
                         /\ WorkerOf(Main(v)) = v /\ UNCHANGED <<wpc[v], base[v]>>
  BY MainFacts DEF Delta, ConnOf, workerVars, SyncInv
<1>7. \A v \in Workers \ {w} : Main(v) # d /\ (Owed(Main(v)) => Owed(Main(v))')
  BY <1>3, <1>4, <1>6 DEF Owed
<1>8. OneConnection' /\ Membership' /\ RoundsOneByOne'
  BY <1>2 DEF SyncInv, OneConnection, Membership, RoundsOneByOne, InSubmit, workerVars
<1>9. TakingTurns'
  <2>1. ASSUME NEW v \in Workers \ {w} PROVE Dialogue(v)'
    <3>1. /\ Dialogue(v) /\ UNCHANGED <<up[Main(v)], down[Main(v)], pc[Main(v)]>>
          /\ Waiting(v) => Waiting(v)'
      BY <1>2, <1>5, <1>6, <1>7
         DEF SyncInv, TakingTurns, Waiting, Silent, Asked, Answered, Owed
    <3>2. QED
      BY <1>2, <1>6, <3>1 DEF Dialogue, Exchange, Silent, Asked, Answered, Left
  <2>2. Dialogue(w)'
    <3>1. CASE wpc[w] \in {"done", "crashed"}
      BY <1>2, <1>4, <1>5, <1>6, <3>1 DEF SyncInv, TakingTurns, Dialogue, Silent, Left
    <3>2. CASE wpc[w] = "ack"
      <4>1. Waiting(w)'
        BY <1>2, <1>4, <1>5, <1>6, <3>2 DEF Waiting, Late
      <4>2. QED
        BY <1>2, <1>4, <1>6, <3>2, <4>1 DEF SyncInv, TakingTurns, Dialogue
    <3>3. QED
      BY <1>4, <3>1, <3>2
  <2>3. QED
    BY <2>1, <2>2 DEF TakingTurns
<1>10. Barrier'
  <2>1. BufferWaits'
    <3>1. ASSUME NEW g \in buffer
          PROVE  g.conn \in Conns \ {d} /\ WorkerOf(g.conn) \in Workers
      BY <1>1, MainFacts, GradientTypes
         DEF SyncInv, Barrier, BufferWaits, Owed, TypeOK, ServerTypeOK
    <3>2. ASSUME NEW g \in buffer PROVE ~Owed(g.conn)'
      BY <1>3 DEF SyncInv, Barrier, BufferWaits, Owed
    <3>3. QED
      BY <1>2, <1>5, <1>6, <3>1, <3>2 DEF SyncInv, Barrier, BufferWaits, Silent
  <2>2. RoundOwes'
    <3>1. ASSUME NEW e \in Conns, NEW b \in Conns, b \in acks'[e]
          PROVE  e = c /\ b \in acks[c] /\ b # d
      BY <1>3, <3>1
    <3>2. ASSUME NEW b \in Conns, b \in acks[c], b # d
          PROVE  LET v == WorkerOf(b) IN
                 /\ b = Main(v)
                 /\ \/ wpc'[v] = "done"
                    \/ /\ wpc'[v] = "ack" /\ Silent(b)' /\ (pc'[b] = "recv" \/ b = c)
                       /\ Delta(v)' \in applied'
                    \/ /\ wpc'[v] = "crashed" /\ Silent(b)'
                       /\ pc'[b] \in {"recv", "closed"} \cup Leaving \/ b = c
      <4>1. LET v == WorkerOf(b) IN
            /\ b = Main(v) /\ v \in Workers
            /\ \/ wpc[v] = "done"
               \/ /\ wpc[v] = "ack" /\ Silent(b) /\ (pc[b] = "recv" \/ b = c)
                  /\ Delta(v) \in applied
               \/ /\ wpc[v] = "crashed" /\ Silent(b)
                  /\ pc[b] \in {"recv", "closed"} \cup Leaving \/ b = c
        BY <1>2, <3>2, MainFacts DEF SyncInv, Barrier, RoundOwes
      <4>2. QED
        BY <1>2, <1>5, <1>6, <3>2, <4>1 DEF Silent
    <3>3. QED
      BY <1>2, <3>1, <3>2 DEF RoundOwes
  <2>3. RoundOwed'
    BY <1>2, <1>3 DEF RoundOwed, InSubmit
  <2>4. QED
    BY <2>1, <2>2, <2>3 DEF Barrier
<1>11. FreshWeights'
  <2>1. \A v : UpToDate(v)' <=> UpToDate(v)
    BY <1>2 DEF UpToDate
  <2>2. ASSUME NEW v \in Workers
        PROVE  Answered(Main(v), "WEIGHTS_RESPONSE")' =>
                 Answered(Main(v), "WEIGHTS_RESPONSE") /\ UNCHANGED down[Main(v)]
    BY <1>2, <1>4, <1>5, <1>6, <1>7 DEF Answered
  <2>3. ASSUME NEW v \in Workers PROVE Fresh(v)'
    BY <1>2, <1>6, <2>1, <2>2 DEF SyncInv, FreshWeights, Fresh
  <2>4. QED
    BY <2>3 DEF FreshWeights
<1>12. Losses' /\ AckMeansApplied' /\ StaleByAtMostOne'
  BY <1>2, <1>3, <1>6
     DEF SyncInv, Losses, OnlyTheKilledLose, NobodyKilled, AckMeansApplied,
         StaleByAtMostOne, workerVars
<1>13. QED
  BY <1>8, <1>9, <1>10, <1>11, <1>12 DEF SyncInv
-----------------------------------------------------------------------------
(* Every step, and what follows.                                            *)

LEMMA SyncStep == CrashStop /\ IInv /\ IInv' /\ SyncInv /\ [Next]_vars => SyncInv'
<1> SUFFICES ASSUME CrashStop, IInv, IInv', SyncInv, [Next]_vars PROVE SyncInv'
  OBVIOUS
<1>1. TypeOK /\ TypeOK' /\ LoopGuard /\ RoundInApply
  BY DEF IInv, Conservation
<1>2. ASSUME NEW c \in Conns, Handler(c), UNCHANGED <<workerVars, faults>> PROVE SyncInv'
  <2>1. c = Main(WorkerOf(c)) /\ UNCHANGED workerVars
    BY <1>2, HandlerOfMain
  <2>2. MinReady = 0
    BY DEF CrashStop
  <2>3. QED
    BY <1>1, <1>2, <2>1, <2>2, QuietHandlerKeeps, ExchangeHandlerKeeps, SubmitAndWaitKeeps,
       SubmitAndFireKeeps, ApplyKeeps, SendAckKeeps DEF Handler, Submit
<1>3. ASSUME NEW w \in Workers, WorkerProcess(w) PROVE SyncInv'
  BY <1>1, <1>3, WorkerKeeps DEF WorkerProcess
<1>4. ASSUME NEW w \in Workers, Restart(w) PROVE FALSE
  <2>1. wpc[w] = "crashed" /\ inc[w] = 0 /\ inc[w] < MaxRestarts
    BY <1>4 DEF Restart, SyncInv, TakingTurns, Dialogue, OneConnection
  <2>2. MaxRestarts # 0
    <3>1. 0 < MaxRestarts
      BY <2>1
    <3>2. QED
      BY <3>1, WireAssumption
  <2>3. FaultKinds # {}
    BY <2>1 DEF SyncInv, Losses, NobodyKilled
  <2>4. QED
    BY <2>2, <2>3 DEF CrashStop
<1>5. ASSUME Faulty PROVE SyncInv'
  <2>1. PICK w \in Workers : Fault("crash") /\ Crash(w) /\ UNCHANGED serverVars
    BY <1>5 DEF Faulty, Fault, CrashStop
  <2>2. QED
    BY <1>1, <2>1, CrashKeeps DEF Fault
<1>6. CASE UNCHANGED vars
  <2> USE <1>6 DEF vars, wireVars, serverVars, workerVars
  <2>1. \A w \in Workers : UNCHANGED <<Main(w), Delta(w)>>
    BY DEF Main, Delta, ConnOf
  <2>2. TakingTurns'
    <3>1. ASSUME NEW w \in Workers PROVE Dialogue(w)'
      BY <2>1 DEF SyncInv, TakingTurns, Dialogue, Exchange, Silent, Asked, Answered, Waiting,
                   Owed, Left
    <3>2. QED
      BY <3>1 DEF TakingTurns
  <2>3. OneConnection' /\ Membership' /\ RoundsOneByOne'
    BY DEF SyncInv, OneConnection, Membership, RoundsOneByOne, InSubmit
  <2>4. Barrier'
    <3>1. BufferWaits'
      BY DEF SyncInv, Barrier, BufferWaits, Silent, Owed, Delta, ConnOf
    <3>2. RoundOwes'
      BY DEF SyncInv, Barrier, RoundOwes, Silent, Delta, ConnOf
    <3>3. RoundOwed'
      BY DEF SyncInv, Barrier, RoundOwed
    <3>4. QED
      BY <3>1, <3>2, <3>3 DEF Barrier
  <2>5. FreshWeights'
    <3>1. ASSUME NEW w \in Workers PROVE Fresh(w)'
      BY <2>1 DEF SyncInv, FreshWeights, Fresh, Answered, UpToDate
    <3>2. QED
      BY <3>1 DEF FreshWeights
  <2>6. Losses' /\ AckMeansApplied' /\ StaleByAtMostOne'
    BY <2>1 DEF SyncInv, Losses, OnlyTheKilledLose, NobodyKilled, AckMeansApplied,
             StaleByAtMostOne
  <2>7. QED
    BY <2>2, <2>3, <2>4, <2>5, <2>6 DEF SyncInv
<1>7. QED
  BY <1>2, <1>3, <1>4, <1>5, <1>6 DEF Next, Server

\* In synchronous mode the workers, their threads and the barrier take turns, even if
\* workers are killed for good: the inductive invariant.
THEOREM Synchronous == ASSUME CrashStop PROVE Spec => []SyncInv
BY SyncInit, SyncStep, Invariance, PTL DEF Spec

\* An ACK means that the delta is in the weights that the worker is going to pull.
THEOREM AckedIsApplied == ASSUME CrashStop PROVE Spec => []AckMeansApplied
<1>1. SyncInv => AckMeansApplied
  BY DEF SyncInv
<1>2. QED
  BY <1>1, Synchronous, PTL

\* A clean-up after a killed worker discards nobody else's delta, and no push overwrites
\* one (unregister, submit).
THEOREM SurvivorsLoseNothing == ASSUME CrashStop PROVE Spec => []OnlyTheKilledLose
<1>1. SyncInv => OnlyTheKilledLose
  BY DEF SyncInv, Losses
<1>2. QED
  BY <1>1, Synchronous, PTL

\* Without faults no pushed delta is overwritten or discarded at all.
THEOREM NothingLost == ASSUME Sync PROVE Spec => []NoLostGradient
<1>1. CrashStop /\ FaultKinds = {}
  BY DEF Sync, CrashStop
<1>2. TypeOK /\ SyncInv => NoLostGradient
  <2>1. TypeOK => \A g \in dropped : WorkerOf(g.conn) \in Workers
    BY MainFacts, GradientTypes DEF TypeOK, ServerTypeOK
  <2>2. QED
    BY <1>1, <2>1 DEF SyncInv, Losses, OnlyTheKilledLose, NobodyKilled, NoLostGradient
<1>3. QED
  BY <1>1, <1>2, Synchronous, TypeCorrect, PTL

\* No assertion of client.py fails, and no worker finds its connection closed.
THEOREM NobodyFails == ASSUME CrashStop PROVE Spec => []NoWorkerFails
<1>1. SyncInv => NoWorkerFails
  BY DEF SyncInv, TakingTurns, Dialogue, NoWorkerFails
<1>2. QED
  BY <1>1, Synchronous, PTL

\* At most one thread is in the part of submit() that no lock covers.
THEOREM OneRoundAtATime == ASSUME CrashStop PROVE Spec => []RoundsOneByOne
<1>1. SyncInv => RoundsOneByOne
  BY DEF SyncInv
<1>2. QED
  BY <1>1, Synchronous, PTL

\* No two threads write to one socket.
THEOREM OneWriter == ASSUME CrashStop PROVE Spec => []OneWriterPerSocket
<1>1. TypeOK /\ SyncInv => OneWriterPerSocket
  <2> SUFFICES ASSUME TypeOK, SyncInv, NEW c \in Conns, NEW d \in Conns,
                      d \in acks[c], pc[c] = "ack"
               PROVE  /\ pc[d] \notin {"weights", "beat"}
                      /\ \A e \in Conns \ {c} : pc[e] = "ack" => d \notin acks[e]
    BY DEF OneWriterPerSocket
  <2>1. /\ d = Main(WorkerOf(d)) /\ WorkerOf(d) \in Workers
        /\ \/ wpc[WorkerOf(d)] \in {"ack", "done"}
           \/ pc[d] \in {"recv", "closed", "ack"} \cup Leaving
    BY MainFacts DEF SyncInv, Barrier, RoundOwes
  <2>2. pc[d] \notin {"weights", "beat"}
    BY <2>1, Turns DEF Leaving
  <2>3. \A e \in Conns \ {c} : pc[e] # "ack"
    BY DEF SyncInv, RoundsOneByOne, InSubmit
  <2>4. QED
    BY <2>2, <2>3
<1>2. QED
  BY <1>1, Synchronous, TypeCorrect, PTL

\* Once all workers have finished, no thread is in a round any more.
THEOREM QuietEnd == ASSUME CrashStop PROVE Spec => []QuietAtTheEnd
<1>1. TypeOK /\ SyncInv => QuietAtTheEnd
  <2> SUFFICES ASSUME TypeOK, SyncInv, AllDone, NEW c \in Conns, InSubmit(c)
               PROVE  FALSE
    BY DEF QuietAtTheEnd
  <2>1. c = Main(WorkerOf(c)) /\ WorkerOf(c) \in Workers
    BY MainFacts DEF SyncInv, InSubmit
  <2>2. QED
    BY <2>1, Turns DEF AllDone
<1>2. QED
  BY <1>1, Synchronous, TypeCorrect, PTL

\* A delta is at most one update old when it is averaged.
THEOREM StaleByOne == ASSUME CrashStop PROVE Spec => []StaleByAtMostOne
<1>1. SyncInv => StaleByAtMostOne
  BY DEF SyncInv
<1>2. QED
  BY <1>1, Synchronous, PTL
=============================================================================
