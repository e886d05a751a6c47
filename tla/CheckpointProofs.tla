-------------------------- MODULE CheckpointProofs --------------------------
(***************************************************************************)
(* The checkpoint cadence, for every mode, any number of concurrent rounds *)
(* and any interval, as long as the disk accepts the writes.               *)
(***************************************************************************)
EXTENDS TrainingProofs

\* What the steps have in common that neither make, mark nor save a step.
Aside == /\ UNCHANGED <<global_step, last_checkpoint_step, checkpoint>>
         /\ \A c \in Conns :
              /\ pc[c] \in {"step", "save"} => pc'[c] = pc[c]
              /\ pc[c] \in {"ack", "mark"} => pc'[c] \in {"ack", "mark"} /\ seen'[c] = seen[c]
              /\ seen'[c] \in {seen[c], global_step, 0}

LEMMA AsideStep ==
    ASSUME ServerTypeOK, CheckpointInv, Aside
    PROVE  CheckpointInv'
<1>1. StoreOrder'
  BY DEF CheckpointInv, StoreOrder, Aside, ServerTypeOK
<1>2. MarkIsBacked'
  BY DEF CheckpointInv, MarkIsBacked, Aside
<1>3. StepIsWatched'
  BY DEF CheckpointInv, StepIsWatched, Aside
<1>4. QED
  BY <1>1, <1>2, <1>3 DEF CheckpointInv

\* A thread that has ended its round, saved or not, is not missed: the newest step is
\* watched by another thread, or it has just been compared with the mark.
LEMMA HandlerCheckpoints ==
    ASSUME ServerTypeOK, CheckpointInv, NEW c \in Conns, Handler(c)
    PROVE  CheckpointInv'
<1> USE DEF Goto
<1>0. /\ global_step \in Nat /\ last_checkpoint_step \in Nat /\ checkpoint \in Nat
      /\ CheckpointInterval \in Nat \ {0}
      /\ \A d \in Conns : seen[d] \in Nat
  BY ServerAssumption DEF ServerTypeOK
<1>1. CASE ApplyGradients(c)
  <2>1. /\ global_step' = global_step + 1 /\ pc'[c] = "step"
        /\ \A d \in Conns : pc[d] = "save" => pc'[d] = "save"
        /\ UNCHANGED <<last_checkpoint_step, checkpoint, seen>>
    BY <1>1 DEF ApplyGradients, ServerTypeOK
  <2>2. QED
    BY <1>0, <2>1 DEF CheckpointInv, StoreOrder, MarkIsBacked, StepIsWatched
<1>2. CASE GetStep(c)
  <2>1. /\ UNCHANGED <<global_step, last_checkpoint_step, checkpoint>>
        /\ pc'[c] = "ack" /\ seen'[c] = global_step
        /\ \A d \in Conns : d # c => pc'[d] = pc[d] /\ seen'[d] = seen[d]
        /\ pc[c] # "save"
    BY <1>2 DEF GetStep, storeVars, ServerTypeOK
  <2>2. QED
    BY <1>0, <2>1 DEF CheckpointInv, StoreOrder, MarkIsBacked, StepIsWatched
<1>3. CASE SkipCheckpoint(c)
  <2>1. /\ UNCHANGED <<global_step, last_checkpoint_step, checkpoint>>
        /\ seen[c] - last_checkpoint_step < CheckpointInterval
        /\ pc[c] = "ack" /\ seen'[c] = 0
        /\ \A d \in Conns : d # c => pc'[d] = pc[d] /\ seen'[d] = seen[d]
    BY <1>0, <1>3 DEF SkipCheckpoint, CheckpointDue, storeVars, ServerTypeOK
  <2>2. StoreOrder' /\ MarkIsBacked'
    BY <1>0, <2>1 DEF CheckpointInv, StoreOrder, MarkIsBacked
  <2>3. StepIsWatched'
    <3>1. CASE \E d \in Conns : pc[d] \in {"step", "save"}
      BY <2>1, <3>1 DEF StepIsWatched
    <3>2. CASE \A d \in Conns : pc[d] # "save" /\ pc[d] # "step"
      <4>1. last_checkpoint_step <= checkpoint
        BY <3>2 DEF CheckpointInv, MarkIsBacked
      <4>2. CASE seen[c] = global_step
        BY <1>0, <2>1, <4>1, <4>2 DEF StepIsWatched
      <4>3. CASE seen[c] # global_step
        BY <2>1, <3>2, <4>3 DEF CheckpointInv, StepIsWatched
      <4>4. QED
        BY <4>2, <4>3
    <3>3. QED
      BY <3>1, <3>2
  <2>4. QED
    BY <2>2, <2>3 DEF CheckpointInv
<1>4. CASE MarkCheckpoint(c)
  <2>1. /\ UNCHANGED <<global_step, checkpoint, seen>>
        /\ last_checkpoint_step' = seen[c] /\ pc'[c] = "save"
    BY <1>4 DEF MarkCheckpoint, ServerTypeOK
  <2>2. QED
    BY <1>0, <2>1 DEF CheckpointInv, StoreOrder, MarkIsBacked, StepIsWatched
<1>5. CASE SaveCheckpoint(c)
  <2>1. /\ UNCHANGED <<global_step, last_checkpoint_step>> /\ checkpoint' = global_step
        /\ \A d \in Conns : seen'[d] \in {seen[d], 0}
    BY <1>5 DEF SaveCheckpoint, ServerTypeOK
  <2>2. QED
    BY <1>0, <2>1 DEF CheckpointInv, StoreOrder, MarkIsBacked, StepIsWatched
<1>6. CASE SubmitAndWait(c) \/ SubmitAndFire(c)
  <2>1. Aside
    BY <1>6 DEF SubmitAndWait, SubmitAndFire, Store, Aside, storeVars, threadVars,
                ServerTypeOK
  <2>2. QED
    BY <2>1, AsideStep
<1>7. CASE SendAck(c) \/ DecideCheckpoint(c)
  <2>1. Aside
    BY <1>7 DEF SendAck, DecideCheckpoint, Aside, storeVars, ServerTypeOK
  <2>2. QED
    BY <2>1, AsideStep
<1>8. CASE Accept(c) \/ Identify(c) \/ RegisterSocket(c) \/ HandlePull(c)
           \/ SendWeights(c) \/ HandleHeartbeat(c) \/ SendHeartbeatAck(c)
           \/ Disconnect(c) \/ MarkDead(c) \/ Unregister(c)
  <2>1. Aside
    BY <1>8 DEF Accept, Identify, RegisterSocket, HandlePull, SendWeights,
                HandleHeartbeat, SendHeartbeatAck, Disconnect, MarkDead, Unregister,
                Aside, storeVars, ServerTypeOK
  <2>2. QED
    BY <2>1, AsideStep
<1>9. QED
  BY <1>1, <1>2, <1>3, <1>4, <1>5, <1>6, <1>7, <1>8 DEF Handler, Submit

LEMMA CheckpointStep ==
    ASSUME "disk" \notin FaultKinds, TypeOK, CheckpointInv, [Next]_vars
    PROVE  CheckpointInv' /\ checkpoint' >= checkpoint
<1>0. ServerTypeOK
  BY DEF TypeOK
<1>1. ASSUME NEW c \in Conns, Handler(c) PROVE CheckpointInv' /\ checkpoint' >= checkpoint
  <2>1. CheckpointInv'
    BY <1>0, <1>1, HandlerCheckpoints
  <2>2. checkpoint' = checkpoint \/ checkpoint' = global_step
    BY <1>1 DEF Handler, Submit, Accept, Identify, RegisterSocket, HandlePull,
         SendWeights, HandleHeartbeat, SendHeartbeatAck, Disconnect, MarkDead, Unregister,
         SubmitAndWait, SubmitAndFire, ApplyGradients, GetStep, SendAck, SkipCheckpoint,
         DecideCheckpoint, MarkCheckpoint, SaveCheckpoint, storeVars
  <2>3. QED
    BY <1>0, <2>1, <2>2 DEF CheckpointInv, StoreOrder, ServerTypeOK
<1>2. ASSUME UNCHANGED <<global_step, last_checkpoint_step, checkpoint, pc, seen>>
      PROVE  CheckpointInv' /\ checkpoint' >= checkpoint
  BY <1>0, <1>2, AsideStep DEF Aside, ServerTypeOK
<1>3. CASE UNCHANGED serverVars
  BY <1>2, <1>3 DEF serverVars
<1>4. ASSUME NEW w \in Workers, Expire(w)
      PROVE  CheckpointInv' /\ checkpoint' >= checkpoint
  BY <1>2, <1>4 DEF Expire, storeVars, threadVars
<1>5. QED
  BY <1>1, <1>3, <1>4 DEF Next, Server, WorkerProcess, Faulty, Fault, vars

LEMMA CheckpointInit == Init => CheckpointInv
BY ServerAssumption
   DEF Init, ServerInit, CheckpointInv, StoreOrder, MarkIsBacked, StepIsWatched

\* With a disk that works, the rounds under way and the mark account for whatever the
\* file is behind the step counter, however the handlers interleave (_checkpoint).
THEOREM CheckpointInvariant ==
    ASSUME "disk" \notin FaultKinds
    PROVE  Spec => []CheckpointInv
<1>1. TypeOK /\ CheckpointInv /\ [Next]_vars => CheckpointInv'
  BY CheckpointStep
<1>2. QED
  BY <1>1, CheckpointInit, TypeCorrect, PTL DEF Spec

\* With a disk that works, the file is never more than the interval behind once no
\* round is under way, although the rounds share last_checkpoint_step without a lock.
THEOREM Cadence ==
    ASSUME "disk" \notin FaultKinds
    PROVE  Spec => []CheckpointCadence
<1>1. CheckpointInv => CheckpointCadence
  BY DEF CheckpointInv, StepIsWatched, CheckpointCadence, MidRound
<1>2. QED
  BY <1>1, CheckpointInvariant, PTL

\* With a disk that works, the file never goes back to an older step.
THEOREM Monotone ==
    ASSUME "disk" \notin FaultKinds
    PROVE  Spec => CheckpointMonotone
<1>1. TypeOK /\ CheckpointInv /\ [Next]_vars =>
        CheckpointInv' /\ [checkpoint' >= checkpoint]_vars
  BY CheckpointStep
<1>2. QED
  BY <1>1, CheckpointInit, TypeCorrect, PTL DEF Spec, CheckpointMonotone
=============================================================================
