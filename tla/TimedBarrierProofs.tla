------------------------- MODULE TimedBarrierProofs -------------------------
(***************************************************************************)
(* The barrier and the monitor together: for any number of workers and any *)
(* timing that fits, the silence at the barrier makes nobody DEAD, and so  *)
(* every round opens with everybody in it.                                 *)
(***************************************************************************)
EXTENDS TimedBarrier, FiniteSetTheorems, TLAPS

Heart == INSTANCE HeartbeatProofs WITH MaxIteration <- LongestIteration, MaxLinger <- 0

\* Each iteration of a round begins at most one computation after another one, so the
\* chain of all workers is as long as their number times one computation.
LEMMA Chains ==
    /\ Cardinality(Workers) \in Nat \ {0}
    /\ Cardinality(Workers) * MaxCompute \in Nat
    /\ LongestIteration \in Nat
    /\ LongestIteration >= JoinWithin + MaxCompute
    /\ LongestIteration >= MaxCompute
    /\ \A n \in 0 .. Cardinality(Workers) : MaxCompute * n <= LongestIteration
    /\ \A n \in Nat : /\ MaxCompute * n \in Nat
                      /\ MaxCompute * n = MaxCompute * (n - 1) + MaxCompute
                      /\ n > 0 => MaxCompute * (n - 1) >= 0
<1> USE BarrierAssumption
<1>1. Cardinality(Workers) \in Nat \ {0}
  BY FS_CardinalityType, FS_EmptySet
<1>2. Cardinality(Workers) * MaxCompute \in Nat
  BY <1>1
<1>3. /\ LongestIteration \in Nat
      /\ LongestIteration >= JoinWithin + MaxCompute
      /\ LongestIteration >= Cardinality(Workers) * MaxCompute
  BY <1>2 DEF LongestIteration
<1>4. LongestIteration >= MaxCompute
  BY <1>3
<1>5. ASSUME NEW n \in 0 .. Cardinality(Workers) PROVE MaxCompute * n <= LongestIteration
  <2>1. MaxCompute * n <= MaxCompute * Cardinality(Workers)
    BY <1>1
  <2>2. MaxCompute * Cardinality(Workers) = Cardinality(Workers) * MaxCompute
    BY <1>1
  <2>3. MaxCompute * n \in Nat
    BY <1>1
  <2>4. QED
    BY <1>2, <1>3, <2>1, <2>2, <2>3
<1>6. ASSUME NEW n \in Nat
      PROVE  /\ MaxCompute * n \in Nat
             /\ MaxCompute * n = MaxCompute * (n - 1) + MaxCompute
             /\ n > 0 => MaxCompute * (n - 1) >= 0
  OBVIOUS
<1>7. QED
  BY <1>1, <1>2, <1>3, <1>4, <1>5, <1>6

\* The assumption of the monitor's proofs, about the longest iteration that the barrier
\* makes.
LEMMA Timing == Monitor!TimingAssumption /\ Heart!TimingAssumption
BY BarrierAssumption, Chains DEF Monitor!TimingAssumption, Heart!TimingAssumption

\* The monitor keeps its own invariant in every step that it can tell.
LEMMA MonitorStep ==
    ASSUME Monitor!MonitorInv, [Monitor!Next]_(Monitor!vars)
    PROVE  Monitor!MonitorInv'
<1>1. Heart!MonitorInv
  BY DEF Monitor!MonitorInv, Heart!MonitorInv, Monitor!TypeOK, Heart!TypeOK,
         Monitor!LoopOnTime, Heart!LoopOnTime, Monitor!LoopersSeen, Heart!LoopersSeen,
         Monitor!ScannedRecently, Heart!ScannedRecently,
         Monitor!DeadOnlyIfStruck, Heart!DeadOnlyIfStruck
<1>2. [Heart!Next]_(Heart!vars)
  BY DEF Monitor!Next, Heart!Next, Monitor!vars, Heart!vars,
         Monitor!monitorVars, Heart!monitorVars, Monitor!loopVars, Heart!loopVars,
         Monitor!workerVars, Heart!workerVars, Monitor!ReadClock, Heart!ReadClock,
         Monitor!Scan, Heart!Scan, Monitor!Overdue, Heart!Overdue,
         Monitor!Tick, Heart!Tick, Monitor!WorkerNext, Heart!WorkerNext,
         Monitor!Register, Heart!Register, Monitor!EndIteration, Heart!EndIteration,
         Monitor!Seen, Heart!Seen, Monitor!HeartbeatDue, Heart!HeartbeatDue,
         Monitor!FallSilent, Heart!FallSilent, Monitor!Break, Heart!Break,
         Monitor!Forget, Heart!Forget, Monitor!BeatLate, Heart!BeatLate,
         Monitor!MarkDead, Heart!MarkDead, Monitor!oldVars, Heart!oldVars
<1>3. Heart!MonitorInv'
  BY <1>1, <1>2, Timing, Heart!NextInv
<1>4. QED
  BY <1>3
     DEF Monitor!MonitorInv, Heart!MonitorInv, Monitor!TypeOK, Heart!TypeOK,
         Monitor!LoopOnTime, Heart!LoopOnTime, Monitor!LoopersSeen, Heart!LoopersSeen,
         Monitor!ScannedRecently, Heart!ScannedRecently,
         Monitor!DeadOnlyIfStruck, Heart!DeadOnlyIfStruck

\* The monitor starts in its invariant.
LEMMA MonitorInit == Monitor!Init => Monitor!MonitorInv
<1>1. Monitor!Init => Heart!Init
  BY DEF Monitor!Init, Heart!Init, Monitor!Boot, Heart!Boot
<1>2. Heart!Init => Heart!MonitorInv
  BY Timing, Heart!InitInv
<1>3. Heart!MonitorInv => Monitor!MonitorInv
  BY DEF Monitor!MonitorInv, Heart!MonitorInv, Monitor!TypeOK, Heart!TypeOK,
         Monitor!LoopOnTime, Heart!LoopOnTime, Monitor!LoopersSeen, Heart!LoopersSeen,
         Monitor!ScannedRecently, Heart!ScannedRecently,
         Monitor!DeadOnlyIfStruck, Heart!DeadOnlyIfStruck
<1>4. QED
  BY <1>1, <1>2, <1>3

\* Those who joined are a finite set, none when nobody has.
LEMMA JoinedFacts ==
    /\ Cardinality(Joined) \in 0 .. Cardinality(Workers)
    /\ IsFiniteSet(Joined)
    /\ \A w \in Joined : Cardinality(Joined) > 0
<1>1. Joined \subseteq Workers
  BY DEF Joined
<1>2. IsFiniteSet(Joined) /\ Cardinality(Joined) <= Cardinality(Workers)
      /\ Cardinality(Joined) \in Nat
  BY <1>1, BarrierAssumption, FS_Subset, FS_CardinalityType
<1>3. Joined # {} => Cardinality(Joined) > 0
  BY <1>2, FS_EmptySet
<1>4. QED
  BY <1>2, <1>3, Chains

\* When the timing fits, the monitor finds alive whoever joined, and no iteration is
\* longer than LongestIteration.
LEMMA AliveFacts ==
    ASSUME TimingFits, BarrierInv
    PROVE  /\ Joined \subseteq Alive
           /\ clock \in Nat /\ started \in [Workers -> Nat]
           /\ life \in [Workers -> {"new", "looping", "silent", "gone"}]
           /\ \A w \in Joined : clock - started[w] <= LongestIteration
<1>1. \A w \in Workers : life[w] = "looping" => status[w] = "ALIVE"
  BY DEF BarrierInv, Stages, TimingFits, Monitor!MonitorInv, Monitor!DeadOnlyIfStruck
<1>2. \A w \in Joined : life[w] = "looping"
  BY DEF BarrierInv, Stages, Joined
<1>3. Joined \subseteq Alive
  BY <1>1, <1>2 DEF Joined, Alive
<1>4. clock \in Nat /\ started \in [Workers -> Nat]
      /\ life \in [Workers -> {"new", "looping", "silent", "gone"}]
  BY DEF BarrierInv, Monitor!MonitorInv, Monitor!TypeOK
<1>5. \A w \in Joined : clock - started[w] <= LongestIteration
  BY <1>2 DEF BarrierInv, Monitor!MonitorInv, Monitor!LoopersSeen, Joined
<1>6. QED
  BY <1>3, <1>4, <1>5

\* Nobody is struck by the message that w is seen.
LEMMA SeenStrikesNobody ==
    ASSUME BarrierInv, NEW w \in Workers,
           struck' = [struck EXCEPT ![w] = FALSE] \/ struck' = struck
    PROVE  \A v \in Workers : ~struck'[v]
<1>1. struck \in [Workers -> BOOLEAN] /\ \A v \in Workers : ~struck[v]
  BY DEF BarrierInv, Stages, Monitor!MonitorInv, Monitor!TypeOK
<1>2. QED
  BY <1>1
-----------------------------------------------------------------------------
\* The barrier keeps what the monitor relies on: when time passes, whoever loops has
\* been in its iteration for less than LongestIteration.
LEMMA TickIsBounded ==
    ASSUME TimingFits, EverybodyCounts, BarrierInv, Tick
    PROVE  Monitor!Tick
<1> DEFINE n == Cardinality(Joined)
<1>1. ASSUME NEW w \in Workers, life[w] = "looping"
      PROVE  clock - started[w] < LongestIteration
  <2>0. clock \in Nat /\ started \in [Workers -> Nat] /\ w \in Joined /\ w \in InRound
    BY <1>1, AliveFacts DEF BarrierInv, Stages, Joined, InRound, Tick
  <2>1. \A v \in Workers : at[v] = "compute" => clock - started[v] < MaxCompute
    BY DEF Tick
  <2>2. CASE at[w] = "compute"
    BY <2>0, <2>1, <2>2, Chains, BarrierAssumption
  <2>3. CASE at[w] = "barrier" /\ \E v \in Workers : at[v] = "compute"
    <3>1. PICK v \in Workers : at[v] = "compute"
      BY <2>3
    <3>2. v \in InRound
      BY <3>1 DEF InRound
    <3>3. CASE min_ready = 0
      <4>1. started[v] - started[w] <= MaxCompute * (n - 1)
        BY <2>0, <3>2, <3>3 DEF BarrierInv, Spread
      <4>2. n \in 0 .. Cardinality(Workers)
        BY JoinedFacts
      <4>3. MaxCompute * n = MaxCompute * (n - 1) + MaxCompute /\ MaxCompute * n <= LongestIteration
        BY <4>2, Chains
      <4>4. MaxCompute * (n - 1) \in Int /\ MaxCompute \in Nat /\ LongestIteration \in Nat
        BY <4>2, Chains, BarrierAssumption
      <4>5. clock - started[v] < MaxCompute
        BY <2>1, <3>1
      <4> HIDE DEF n
      <4>6. QED
        BY <2>0, <3>1, <4>1, <4>3, <4>4, <4>5
    <3>4. CASE min_ready # 0
      <4>1. started[v] - started[w] <= JoinWithin
        BY <2>0, <3>2, <3>4 DEF BarrierInv, Spread
      <4>2. clock - started[v] < MaxCompute
        BY <2>1, <3>1
      <4>3. QED
        BY <2>0, <4>1, <4>2, Chains, BarrierAssumption
    <3>5. QED
      BY <3>3, <3>4
  <2>4. CASE at[w] = "barrier" /\ ~\E v \in Workers : at[v] = "compute"
    <3>1. \A v \in Workers : at[v] \in {"away", "barrier"}
      BY <2>4 DEF BarrierInv, Stages, Tick
    <3>2. min_ready > 0
      BY <2>4, <3>1, BarrierAssumption DEF BarrierInv, SomebodyOut, Stages
    <3>3. ~AllJoined
      BY <3>1 DEF BarrierInv, SomebodyOut, AllJoined, Joined
    <3>4. clock < Monitor!Boot + JoinWithin
      BY <2>0, <3>2, <3>3, BarrierAssumption DEF Tick, AllJoined, Monitor!Boot
    <3>5. started[w] >= Monitor!Boot
      BY <2>0, <3>2, <3>3 DEF BarrierInv, QuorumJoins
    <3>6. QED
      BY <2>0, <3>4, <3>5, Chains, BarrierAssumption DEF Monitor!Boot
  <2>5. QED
    BY <2>0, <2>2, <2>3, <2>4 DEF InRound
<1>2. QED
  BY <1>1 DEF Tick, Monitor!Tick, Monitor!monitorVars, Monitor!loopVars, Monitor!workerVars, Monitor!oldVars

\* Every step of the two together is one of the monitor's, or none that it can tell.
LEMMA StepIsMonitored ==
    ASSUME TimingFits, EverybodyCounts, BarrierInv, [Next]_vars
    PROVE  [Monitor!Next]_(Monitor!vars)
<1>1. CASE Scanning
  BY <1>1 DEF Scanning, Monitor!Next
<1>2. CASE Tick
  BY <1>2, TickIsBounded DEF Monitor!Next
<1>3. ASSUME NEW w \in Workers, Join(w) PROVE [Monitor!Next]_(Monitor!vars)
  BY <1>3 DEF Join, Monitor!Next, Monitor!WorkerNext
<1>4. ASSUME NEW w \in Workers, Submit(w) PROVE [Monitor!Next]_(Monitor!vars)
  BY <1>4 DEF Submit, monitorVars, Monitor!vars, Monitor!monitorVars, Monitor!loopVars,
              Monitor!workerVars, Monitor!oldVars
<1>5. ASSUME NEW w \in Workers, EndIteration(w) PROVE [Monitor!Next]_(Monitor!vars)
  BY <1>5 DEF EndIteration, Monitor!Next, Monitor!WorkerNext
<1>6. CASE UNCHANGED vars
  BY <1>6 DEF vars, monitorVars, Monitor!vars, Monitor!monitorVars, Monitor!loopVars,
              Monitor!workerVars, Monitor!oldVars
<1>7. QED
  BY <1>1, <1>2, <1>3, <1>4, <1>5, <1>6 DEF Next
-----------------------------------------------------------------------------
\* What the rounds add to the monitor's invariant.
RoundsInv == Stages /\ ReadingAcks /\ SomebodyOut /\ Spread /\ QuorumJoins

\* A scan tells the rounds nothing.
LEMMA ScanKeeps ==
    ASSUME BarrierInv, UNCHANGED <<clock, life, started, struck, min_ready, buffer, at>>
    PROVE  RoundsInv'
BY DEF BarrierInv, RoundsInv, Stages, ReadingAcks, SomebodyOut, Spread, QuorumJoins,
       InRound, AllJoined, Joined

\* Time passes only while no ACK waits to be read, no computation takes longer than
\* it may, and those who have to join in time have joined.
LEMMA TickKeeps == ASSUME TimingFits, BarrierInv, Tick PROVE RoundsInv'
<1>0. clock \in Nat /\ started \in [Workers -> Nat]
  BY AliveFacts
<1> USE <1>0, BarrierAssumption DEF BarrierInv, Tick, Monitor!Boot
<1>1. Stages'
  BY DEF Stages
<1>2. ReadingAcks'
  BY DEF ReadingAcks
<1>3. SomebodyOut' /\ Spread'
  BY DEF SomebodyOut, Spread, InRound, Joined
<1>4. QuorumJoins'
  BY DEF QuorumJoins, AllJoined, Joined
<1>5. QED
  BY <1>1, <1>2, <1>3, <1>4 DEF RoundsInv

\* Who comes to the barrier either waits there while somebody is out, or opens it for
\* all who joined.
LEMMA SubmitKeeps ==
    ASSUME TimingFits, EverybodyCounts, BarrierInv, NEW w \in Workers, Submit(w)
    PROVE  RoundsInv'
<1> DEFINE have == buffer \cup {w}
<1>0. /\ Stages /\ ReadingAcks /\ SomebodyOut /\ Spread /\ QuorumJoins
      /\ Joined \subseteq Alive /\ clock \in Nat /\ started \in [Workers -> Nat]
      /\ at[w] = "compute" /\ have \subseteq Joined
      /\ UNCHANGED <<clock, life, started, struck, min_ready>>
  BY AliveFacts DEF BarrierInv, Submit, Stages, Joined, monitorVars
<1>1. CASE ShouldApply(have)
  <2>1. buffer' = {} /\ at' = [v \in Workers |-> IF v \in have THEN "acked"
                                    ELSE IF v \in Joined THEN "stray" ELSE at[v]]
    BY <1>1 DEF Submit
  <2>2. Joined \subseteq have /\ (min_ready > 0 => AllJoined)
    <3>1. CASE min_ready = 0
      BY <1>0, <1>1, <3>1 DEF ShouldApply
    <3>2. CASE min_ready # 0
      <4>1. min_ready = Cardinality(Workers)
        BY <1>0, <3>2 DEF EverybodyCounts, Stages
      <4>2. Cardinality(have \cap Alive) >= Cardinality(Workers)
        BY <1>1, <3>2, <4>1 DEF ShouldApply
      <4>3. (have \cap Alive) \in SUBSET Workers
        BY <1>0 DEF Joined
      <4>4. IsFiniteSet(have \cap Alive)
            /\ Cardinality(have \cap Alive) <= Cardinality(Workers)
            /\ (Cardinality(Workers) = Cardinality(have \cap Alive) => Workers = have \cap Alive)
        BY <4>3, FS_Subset, BarrierAssumption
      <4>5. Workers = have \cap Alive
        <5>1. Cardinality(have \cap Alive) \in Nat /\ Cardinality(Workers) \in Nat
          BY <4>4, Chains, FS_CardinalityType
        <5>2. Cardinality(Workers) = Cardinality(have \cap Alive)
          BY <4>2, <4>4, <5>1
        <5>3. QED
          BY <4>4, <5>2
      <4>6. QED
        BY <1>0, <4>5 DEF AllJoined, Joined
    <3>3. QED
      BY <3>1, <3>2
  <2>3. /\ \A v \in Workers : at'[v] = IF at[v] = "away" THEN "away" ELSE "acked"
        /\ at' \in [Workers -> {"away", "compute", "barrier", "acked"}]
    BY <1>0, <2>1, <2>2 DEF Joined, Stages
  <2>4. InRound' = {} /\ Joined' = Joined
    BY <2>3 DEF InRound, Joined
  <2>5. Stages'
    BY <1>0, <2>1, <2>3 DEF Stages, Monitor!Boot
  <2>6. ReadingAcks' /\ QuorumJoins'
    BY <1>0, <2>2, <2>4 DEF ReadingAcks, QuorumJoins, AllJoined
  <2>7. SomebodyOut'
    BY <1>0, <2>1, <2>3 DEF SomebodyOut
  <2>8. Spread'
    BY <2>4 DEF Spread
  <2>9. QED
    BY <2>5, <2>6, <2>7, <2>8 DEF RoundsInv
<1>2. CASE ~ShouldApply(have)
  <2>1. buffer' = have /\ at' = [at EXCEPT ![w] = "barrier"]
    BY <1>2 DEF Submit
  <2>2. /\ at'[w] = "barrier" /\ \A v \in Workers : v # w => at'[v] = at[v]
        /\ at' \in [Workers -> {"away", "compute", "barrier", "acked"}]
    BY <1>0, <2>1 DEF Stages
  <2>3. InRound' = InRound /\ Joined' = Joined
    BY <1>0, <2>2 DEF InRound, Joined
  <2>4. Stages'
    BY <1>0, <2>1, <2>2 DEF Stages, Monitor!Boot
  <2>5. ReadingAcks' /\ QuorumJoins' /\ Spread'
    BY <1>0, <2>2, <2>3 DEF ReadingAcks, QuorumJoins, Spread, AllJoined, Monitor!Boot
  <2>6. SomebodyOut'
    <3>1. CASE min_ready = 0
      <4>1. PICK v \in Joined : v \notin have
        BY <1>2, <3>1 DEF ShouldApply
      <4>2. v \in Workers /\ v # w /\ at[v] \in {"compute", "acked"}
        BY <1>0, <4>1 DEF Joined, Stages
      <4>3. QED
        BY <2>2, <4>2 DEF SomebodyOut
    <3>2. CASE min_ready # 0
      <4>1. min_ready = Cardinality(Workers)
        BY <1>0, <3>2 DEF EverybodyCounts, Stages
      <4>2. have \cap Alive = have
        BY <1>0
      <4>3. have # Workers
        <5>1. ~(Cardinality(have \cap Alive) >= Cardinality(Workers))
          BY <1>2, <3>2, <4>1 DEF ShouldApply
        <5>2. SUFFICES ASSUME have = Workers PROVE FALSE
          OBVIOUS
        <5>3. have \cap Alive = Workers
          BY <4>2, <5>2
        <5>4. Cardinality(have \cap Alive) = Cardinality(Workers)
          BY <5>3
        <5>5. QED
          BY <5>1, <5>4, Chains
      <4>4. PICK v \in Workers : v \notin have
        BY <1>0, <4>3 DEF Joined
      <4>5. v # w /\ at[v] # "barrier"
        BY <1>0, <4>4 DEF Stages
      <4>6. QED
        BY <1>0, <2>2, <3>2, <4>5 DEF SomebodyOut
    <3>3. QED
      BY <3>1, <3>2
  <2>7. QED
    BY <2>4, <2>5, <2>6 DEF RoundsInv
<1>3. QED
  BY <1>1, <1>2

\* The iterations of a round begin together, when the ACKs are read.
LEMMA EndKeeps ==
    ASSUME TimingFits, BarrierInv, NEW w \in Workers, EndIteration(w)
    PROVE  RoundsInv'
<1>0. /\ Stages /\ ReadingAcks /\ SomebodyOut /\ Spread /\ QuorumJoins
      /\ clock \in Nat /\ started \in [Workers -> Nat] /\ at[w] = "acked"
      /\ UNCHANGED <<clock, life, min_ready, buffer>>
  BY AliveFacts DEF BarrierInv, EndIteration, Monitor!EndIteration
<1>1. /\ at'[w] = "compute" /\ \A v \in Workers : v # w => at'[v] = at[v]
      /\ at' \in [Workers -> {"away", "compute", "barrier", "acked"}]
  BY <1>0 DEF EndIteration, Stages
<1>2. started'[w] = clock /\ \A v \in Workers : v # w => started'[v] = started[v]
  BY <1>0 DEF EndIteration, Monitor!EndIteration
<1>3. InRound' = InRound \cup {w} /\ Joined' = Joined /\ w \in Joined
  BY <1>0, <1>1 DEF InRound, Joined
<1>4. \A v \in InRound' : started'[v] = clock
  BY <1>0, <1>2, <1>3 DEF ReadingAcks, InRound
<1>5. Stages'
  <2>1. \A v \in Workers : ~struck'[v]
    BY SeenStrikesNobody DEF EndIteration, Monitor!EndIteration, Monitor!Seen
  <2>2. QED
    BY <1>0, <1>1, <1>2, <2>1, BarrierAssumption DEF Stages, Monitor!Boot
<1>6. ReadingAcks' /\ QuorumJoins'
  BY <1>0, <1>3, <1>4 DEF ReadingAcks, QuorumJoins, AllJoined
<1>7. SomebodyOut'
  BY <1>1 DEF SomebodyOut
<1>8. Spread'
  <2>1. MaxCompute * (Cardinality(Joined) - 1) >= 0
    BY <1>3, JoinedFacts, Chains
  <2>2. QED
    BY <1>0, <1>3, <1>4, <2>1, BarrierAssumption DEF Spread
<1>9. QED
  BY <1>5, <1>6, <1>7, <1>8 DEF RoundsInv

\* A worker that joins finds another one in its rollout, so it adds at most one
\* computation to how far the round is stretched.
LEMMA JoinKeeps ==
    ASSUME TimingFits, EverybodyCounts, BarrierInv, NEW w \in Workers, Join(w)
    PROVE  RoundsInv'
<1> DEFINE n == Cardinality(Joined)
<1>0. /\ Stages /\ ReadingAcks /\ SomebodyOut /\ Spread /\ QuorumJoins
      /\ clock \in Nat /\ started \in [Workers -> Nat] /\ at[w] = "away"
      /\ life \in [Workers -> {"new", "looping", "silent", "gone"}]
      /\ UNCHANGED <<clock, min_ready, buffer>>
  BY AliveFacts DEF BarrierInv, Join, Monitor!Register
<1>1. /\ at'[w] = "compute" /\ \A v \in Workers : v # w => at'[v] = at[v]
      /\ at' \in [Workers -> {"away", "compute", "barrier", "acked"}]
  BY <1>0 DEF Join, Stages
<1>2. /\ started'[w] = clock /\ \A v \in Workers : v # w => started'[v] = started[v]
      /\ life'[w] = "looping" /\ \A v \in Workers : v # w => life'[v] = life[v]
  BY <1>0 DEF Join, Monitor!Register
<1>3. /\ InRound' = InRound \cup {w} /\ w \notin InRound
      /\ Joined' = Joined \cup {w} /\ w \notin Joined /\ ~AllJoined
      /\ InRound \subseteq Workers
  BY <1>0, <1>1 DEF InRound, Joined, AllJoined
<1>4. Cardinality(Joined') = n + 1 /\ n \in Nat
  <2>1. IsFiniteSet(Joined) /\ n \in Nat
    BY JoinedFacts
  <2>2. Cardinality(Joined \cup {w}) = n + 1
    BY <1>3, <2>1, FS_AddElement
  <2>3. QED
    BY <1>3, <2>1, <2>2
<1>5. Stages'
  <2>1. \A v \in Workers : ~struck'[v]
    BY SeenStrikesNobody DEF Join, Monitor!Register, Monitor!Seen
  <2>2. QED
    BY <1>0, <1>1, <1>2, <2>1, BarrierAssumption DEF Stages, Monitor!Boot
<1>6. ReadingAcks'
  <2>1. SUFFICES ASSUME NEW v \in Workers, at'[v] = "acked"
                 PROVE  (\A u \in InRound' : started'[u] = clock) /\ ~(min_ready > 0)
    BY <1>0 DEF ReadingAcks
  <2>2. at[v] = "acked"
    BY <1>1, <2>1
  <2>3. QED
    BY <1>0, <1>2, <1>3, <2>2 DEF ReadingAcks
<1>7. SomebodyOut'
  BY <1>1 DEF SomebodyOut
<1>8. CASE min_ready = 0
  <2>1. MaxCompute * n \in Nat /\ MaxCompute * (n - 1) \in Int
        /\ MaxCompute * n = MaxCompute * (n - 1) + MaxCompute /\ MaxCompute \in Nat
    BY <1>4, Chains, BarrierAssumption
  <2>2. ASSUME NEW u \in InRound PROVE clock - started[u] <= MaxCompute * n
    <3>0. u \in Workers /\ u \in Joined /\ n > 0
      BY <1>4, JoinedFacts DEF InRound, Joined
    <3>1. MaxCompute <= MaxCompute * n
      BY <1>4, <2>1, <3>0, Chains
    <3>2. CASE \E v \in Workers : at[v] = "acked"
      BY <1>0, <2>1, <3>0, <3>2 DEF ReadingAcks
    <3>3. CASE ~\E v \in Workers : at[v] = "acked"
      <4>1. PICK v \in Workers : at[v] = "compute" /\ (u = v \/ at[u] = "barrier")
        BY <1>0, <1>8, <3>0, <3>3 DEF SomebodyOut, Stages, InRound
      <4>2. clock - started[v] <= MaxCompute
        BY <1>0, <4>1 DEF Stages
      <4>3. started[v] - started[u] <= MaxCompute * (n - 1)
        BY <1>0, <1>8, <4>1 DEF Spread, InRound
      <4> HIDE DEF n
      <4>4. QED
        BY <1>0, <2>1, <3>0, <4>1, <4>2, <4>3
    <3>4. QED
      BY <3>2, <3>3
  <2>3. Spread'
    <3>1. SUFFICES ASSUME NEW v \in InRound', NEW u \in InRound'
                   PROVE  started'[v] - started'[u] <= MaxCompute * n
      BY <1>0, <1>4, <1>8 DEF Spread
    <3>2. CASE v = w /\ u = w
      BY <1>0, <1>2, <2>1, <3>2
    <3>3. CASE v = w /\ u # w
      BY <1>2, <1>3, <2>2, <3>3
    <3>4. CASE v # w /\ u = w
      BY <1>0, <1>2, <1>3, <2>1, <3>4 DEF Stages
    <3>5. CASE v # w /\ u # w
      <4>1. started[v] - started[u] <= MaxCompute * (n - 1)
        BY <1>0, <1>3, <1>8, <3>5 DEF Spread
      <4>2. started'[v] = started[v] /\ started'[u] = started[u]
            /\ started[v] \in Nat /\ started[u] \in Nat
        BY <1>0, <1>2, <1>3, <3>5
      <4> HIDE DEF n
      <4>3. QED
        BY <2>1, <4>1, <4>2
    <3>6. QED
      BY <3>2, <3>3, <3>4, <3>5
  <2>4. QuorumJoins'
    BY <1>0, <1>8 DEF QuorumJoins
  <2>5. QED
    BY <1>5, <1>6, <1>7, <2>3, <2>4 DEF RoundsInv
<1>9. CASE min_ready # 0
  <2>1. min_ready > 0
    BY <1>0, <1>9, BarrierAssumption DEF Stages
  <2>2. clock <= Monitor!Boot + JoinWithin /\ clock >= Monitor!Boot /\ Monitor!Boot \in Nat
    BY <1>0, <2>1, BarrierAssumption DEF Join, Stages, Monitor!Boot
  <2>3. \A v \in Joined' : /\ started'[v] >= Monitor!Boot /\ started'[v] <= clock
                           /\ started'[v] \in Nat
    BY <1>0, <1>2, <1>3, <2>1, <2>2 DEF QuorumJoins, Stages, Joined
  <2>4. QuorumJoins'
    BY <1>0, <2>2, <2>3 DEF QuorumJoins, Monitor!Boot
  <2>5. InRound' \subseteq Joined'
    BY DEF InRound, Joined
  <2>6. Spread'
    BY <1>0, <1>9, <2>2, <2>3, <2>5, BarrierAssumption DEF Spread
  <2>7. QED
    BY <1>5, <1>6, <1>7, <2>4, <2>6 DEF RoundsInv
<1>10. QED
  BY <1>8, <1>9
-----------------------------------------------------------------------------
\* Before anybody joins, the barrier is empty and the monitor knows nobody.
LEMMA BarrierInit == Init => BarrierInv
<1> SUFFICES ASSUME Init PROVE BarrierInv
  OBVIOUS
<1>1. Monitor!MonitorInv
  BY MonitorInit DEF Init
<1>2. /\ at = [w \in Workers |-> "away"] /\ buffer = {} /\ min_ready \in MinReadies
      /\ clock = Monitor!Boot /\ life = [w \in Workers |-> "new"]
      /\ started = [w \in Workers |-> 0] /\ Monitor!Boot \in Nat
      /\ struck = [w \in Workers |-> FALSE]
  BY BarrierAssumption DEF Init, Monitor!Init, Monitor!Boot
<1>3. Stages /\ ReadingAcks /\ QuorumJoins
  BY <1>2, BarrierAssumption DEF Stages, ReadingAcks, QuorumJoins, Joined
<1>4. SomebodyOut /\ Spread
  BY <1>2, BarrierAssumption DEF SomebodyOut, Spread, InRound
<1>5. QED
  BY <1>1, <1>3, <1>4 DEF BarrierInv

\* The two halves of the invariant support each other: the rounds bound the iterations
\* that the monitor judges, and the monitor keeps alive whom the barrier counts.
LEMMA BarrierStep ==
    ASSUME TimingFits, EverybodyCounts, BarrierInv, [Next]_vars
    PROVE  BarrierInv'
<1>1. Monitor!MonitorInv'
  BY MonitorStep, StepIsMonitored DEF BarrierInv
<1>2. CASE Scanning
  <2>1. UNCHANGED <<clock, life, started, struck, min_ready, buffer, at>>
    BY <1>2 DEF Scanning, Monitor!ReadClock, Monitor!Scan, Monitor!workerVars, Monitor!oldVars
  <2>2. QED
    BY <1>1, <2>1, ScanKeeps DEF BarrierInv, RoundsInv
<1>3. CASE Tick
  BY <1>1, <1>3, TickKeeps DEF BarrierInv, RoundsInv
<1>4. ASSUME NEW w \in Workers, Join(w) \/ Submit(w) \/ EndIteration(w) PROVE BarrierInv'
  BY <1>1, <1>4, JoinKeeps, SubmitKeeps, EndKeeps DEF BarrierInv, RoundsInv
<1>5. CASE UNCHANGED vars
  <2>1. UNCHANGED <<clock, life, started, struck, min_ready, buffer, at>>
    BY <1>5 DEF vars, monitorVars
  <2>2. QED
    BY <1>1, <2>1, ScanKeeps DEF BarrierInv, RoundsInv
<1>6. QED
  BY <1>2, <1>3, <1>4, <1>5 DEF Next

\* For any number of workers, when the timing fits and everybody counts, the barrier
\* and the monitor keep the invariant that the properties below follow from.
THEOREM BarrierInvariant ==
    ASSUME TimingFits, EverybodyCounts
    PROVE  Spec => []BarrierInv
<1>1. BarrierInv /\ [Next]_vars => BarrierInv'
  BY BarrierStep
<1>2. QED
  BY BarrierInit, <1>1, PTL DEF Spec

\* The barrier implements what HeartbeatMonitor assumes of it: no worker is in one
\* iteration for longer than LongestIteration, waiting for late joiners included
\* (submit, should_apply, worker_main).
THEOREM BoundedIterations ==
    ASSUME TimingFits, EverybodyCounts
    PROVE  Spec => IterationsBounded
<1>1. Init => Monitor!Init
  BY DEF Init
<1>2. BarrierInv /\ [Next]_vars => [Monitor!Next]_(Monitor!vars)
  BY StepIsMonitored
<1>3. QED
  BY BarrierInvariant, <1>1, <1>2, PTL DEF Spec, IterationsBounded, Monitor!Spec

\* When the timing fits, waiting at the barrier makes no working worker DEAD, so no
\* round leaves one out and surprises it with an ACK (submit, alive_workers).
THEOREM NobodyStray == ASSUME EverybodyCounts PROVE Spec => []NoStrayAck
<1>1. CASE TimingFits
  <2>1. BarrierInv => NoStrayAck
    BY DEF BarrierInv, Stages, NoStrayAck
  <2>2. QED
    BY <1>1, <2>1, BarrierInvariant, PTL
<1>2. CASE ~TimingFits
  <2>1. NoStrayAck
    BY <1>2 DEF NoStrayAck
  <2>2. QED
    BY <2>1, PTL
<1>3. QED
  BY <1>1, <1>2

\* When the timing fits, the workers never all wait for each other (submit,
\* ready_count).
THEOREM NeverAll == ASSUME EverybodyCounts PROVE Spec => []NeverAllWaiting
<1>1. CASE TimingFits
  <2>1. BarrierInv => NeverAllWaiting
    BY DEF BarrierInv, SomebodyOut, NeverAllWaiting
  <2>2. QED
    BY <1>1, <2>1, BarrierInvariant, PTL
<1>2. CASE ~TimingFits
  <2>1. NeverAllWaiting
    BY <1>2 DEF NeverAllWaiting
  <2>2. QED
    BY <2>1, PTL
<1>3. QED
  BY <1>1, <1>2
=============================================================================
