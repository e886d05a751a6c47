---------------------------- MODULE RolloutProofs ----------------------------
(***************************************************************************)
(* For every configuration: the learning rate stays in its range, each PPO *)
(* epoch trains on every sample of the rollout exactly once, the           *)
(* advantages are the discounted sums they stand for, and the returns that *)
(* a worker reports are those of whole episodes.                           *)
(***************************************************************************)
EXTENDS Rollout, FiniteSetTheorems, SequenceTheorems, WellFoundedInduction, TLAPS

\* What scheduled_lr returns in an iteration of the loop.
LEMMA RateOfIteration ==
    ASSUME NEW kind \in Schedules, NEW step \in 0 .. MaxSteps - 1
    PROVE  LET r == ScheduledLr(kind, step)
           IN  r.num \in 0 .. r.den /\ (r.num = 0 => step = 0 /\ WarmupSteps > 0)
<1> USE Schedulable DEF ScheduleAssumption, Fraction
<1>1. CASE step < WarmupSteps
  BY <1>1 DEF ScheduledLr
<1>2. CASE ~(step < WarmupSteps)
  <2>1. /\ Span \in 1 .. MaxSteps
        /\ Gone(step) \in 0 .. Span - 1
    BY <1>2 DEF Span, Gone
  <2>2. CASE kind = "constant"
    BY <1>2, <2>2 DEF ScheduledLr, Decay
  <2>3. CASE kind = "linear"
    BY <1>2, <2>1, <2>3 DEF ScheduledLr, Decay
  <2>4. CASE kind = "cosine"
    <3>1. [num |-> Gone(step), den |-> Span] \in [num : 0 .. MaxSteps, den : 1 .. MaxSteps]
      BY <2>1
    <3>2. /\ HalfCosine([num |-> Gone(step), den |-> Span]).den \in Nat
          /\ HalfCosine([num |-> Gone(step), den |-> Span]).num
               \in 1 .. HalfCosine([num |-> Gone(step), den |-> Span]).den
      BY <2>1, <3>1
    <3> QED BY <1>2, <2>4, <3>2 DEF ScheduledLr, Decay
  <2> QED BY <2>2, <2>3, <2>4 DEF Schedules
<1> QED BY <1>1, <1>2
-----------------------------------------------------------------------------
\* Inside the loop the worker has iterations left, and the rate is that of one of them.
RateInv == /\ schedule \in Schedules
           /\ local_step \in 0 .. MaxSteps
           /\ phase # "done" => local_step < MaxSteps
           /\ RateInRange

\* The learning rate never leaves [0, base_lr], and is 0 only in the first iteration
\* of a warmup, for every schedule, length and warmup (scheduled_lr).
THEOREM Rates == Spec => []RateInRange
<1>1. Init => RateInv
  BY Schedulable DEF Init, RateInv, RateInRange, ScheduleAssumption
<1>2. RateInv /\ [Next]_vars => RateInv'
  <2> SUFFICES ASSUME RateInv, [Next]_vars PROVE RateInv'
    OBVIOUS
  <2> USE Schedulable DEF RateInv, RateInRange, ScheduleAssumption
  <2>1. CASE Collect
    BY <2>1 DEF Collect, updateVars
  <2>2. CASE ComputeGae
    <3>1. local_step \in 0 .. MaxSteps - 1
      BY <2>2 DEF ComputeGae
    <3>2. /\ lr'.num \in 0 .. lr'.den
          /\ lr'.num = 0 => local_step = 0 /\ WarmupSteps > 0
      BY <2>2, <3>1, RateOfIteration DEF ComputeGae
    <3> QED BY <2>2, <3>2 DEF ComputeGae
  <2>3. CASE Train
    BY <2>3 DEF Train
  <2>4. CASE FinishEpoch
    BY <2>4 DEF FinishEpoch
  <2>5. CASE Ship
    BY <2>5 DEF Ship
  <2>6. CASE UNCHANGED vars
    BY <2>6 DEF vars, updateVars
  <2> QED BY <2>1, <2>2, <2>3, <2>4, <2>5, <2>6 DEF Next
<1>3. RateInv => RateInRange
  BY DEF RateInv
<1> QED BY <1>1, <1>2, <1>3, PTL DEF Spec
-----------------------------------------------------------------------------
LEMMA SampleCount == NumSamples \in Nat
BY EnvAssumption, RolloutAssumption DEF NumSamples

\* A shuffle reaches every sample, and none twice.
LEMMA Shuffling ==
    ASSUME NEW f \in Shuffles
    PROVE  /\ \A k \in 1 .. NumSamples : f[k] \in 1 .. NumSamples
           /\ \A j, k \in 1 .. NumSamples : f[j] = f[k] => j = k
           /\ \A s \in 1 .. NumSamples : \E k \in 1 .. NumSamples : f[k] = s
<1>1. f \in Bijection(1 .. NumSamples, 1 .. NumSamples)
  BY RolloutAssumption
<1> QED BY <1>1 DEF Bijection, Injection, Surjection, IsInjective

\* In an epoch the samples before start were trained on once more than the others.
EpochInv ==
    /\ phase \in {"collect", "update", "ship", "done"}
    /\ phase = "update" =>
         /\ idx \in Shuffles
         /\ start \in Nat
         /\ epoch \in 0 .. PpoEpochs - 1
         /\ trained \in [1 .. NumSamples -> Nat]
         /\ \A k \in 1 .. NumSamples :
              trained[idx[k]] = IF k <= start THEN epoch + 1 ELSE epoch
    /\ EachSampleEachEpoch

\* Every epoch trains on every sample of the rollout exactly once, for every number of
\* samples, minibatch size and shuffle (get_minibatches and the loop over it).
THEOREM EpochsComplete == Spec => []EachSampleEachEpoch
<1> USE SampleCount, RolloutAssumption
<1>1. Init => EpochInv
  BY DEF Init, EpochInv, EachSampleEachEpoch
<1>2. EpochInv /\ [Next]_vars => EpochInv'
  <2> SUFFICES ASSUME EpochInv, [Next]_vars PROVE EpochInv'
    OBVIOUS
  <2>1. CASE Collect
    BY <2>1 DEF Collect, updateVars, EpochInv, EachSampleEachEpoch
  <2>2. CASE ComputeGae
    <3>1. /\ idx' \in Shuffles /\ start' = 0 /\ epoch' = 0 /\ phase' = "update"
          /\ trained' = [s \in 1 .. NumSamples |-> 0]
      BY <2>2 DEF ComputeGae, Shuffle
    <3>2. \A k \in 1 .. NumSamples : trained'[idx'[k]] = 0
      BY <3>1, Shuffling
    <3> QED BY <3>1, <3>2 DEF EpochInv, EachSampleEachEpoch
  <2>3. CASE Train
    <3>1. /\ phase = "update" /\ phase' = "update" /\ idx' = idx /\ epoch' = epoch
          /\ start' = start + MinibatchSize
          /\ trained' = [s \in 1 .. NumSamples |->
                           IF s \in Slice(start) THEN trained[s] + 1 ELSE trained[s]]
      BY <2>3 DEF Train
    <3>2. ASSUME NEW k \in 1 .. NumSamples
          PROVE  trained'[idx[k]] = IF k <= start' THEN epoch + 1 ELSE epoch
      <4>1. idx[k] \in Slice(start) <=> start < k /\ k <= start + MinibatchSize
        <5>1. \A j \in 1 .. NumSamples : idx[j] = idx[k] => j = k
          BY <3>1, Shuffling DEF EpochInv
        <5> QED BY <3>1, <5>1 DEF Slice, EpochInv
      <4>2. idx[k] \in 1 .. NumSamples
        BY <3>1, Shuffling DEF EpochInv
      <4> QED BY <3>1, <4>1, <4>2 DEF EpochInv
    <3> QED BY <3>1, <3>2 DEF EpochInv, EachSampleEachEpoch
  <2>4. CASE FinishEpoch
    <3>1. /\ phase = "update" /\ start >= NumSamples
          /\ epoch' = epoch + 1 /\ trained' = trained
      BY <2>4 DEF FinishEpoch
    <3>2. ASSUME NEW s \in 1 .. NumSamples PROVE trained[s] = epoch + 1
      <4>1. PICK k \in 1 .. NumSamples : idx[k] = s
        BY <3>1, Shuffling DEF EpochInv
      <4>2. k <= start
        BY <3>1 DEF EpochInv
      <4> QED BY <3>1, <4>1, <4>2 DEF EpochInv
    <3>3. CASE epoch' < PpoEpochs
      <4>1. idx' \in Shuffles /\ start' = 0 /\ phase' = "update"
        BY <2>4, <3>1, <3>3 DEF FinishEpoch, Shuffle
      <4>2. \A k \in 1 .. NumSamples : trained'[idx'[k]] = epoch'
        BY <3>1, <3>2, <4>1, Shuffling
      <4> QED BY <3>1, <3>3, <4>1, <4>2 DEF EpochInv, EachSampleEachEpoch
    <3>4. CASE ~(epoch' < PpoEpochs)
      <4>1. phase' = "ship"
        BY <2>4, <3>4 DEF FinishEpoch
      <4> QED BY <3>1, <3>2, <3>4, <4>1 DEF EpochInv, EachSampleEachEpoch
    <3> QED BY <3>3, <3>4
  <2>5. CASE Ship
    BY <2>5 DEF Ship, EpochInv, EachSampleEachEpoch
  <2>6. CASE UNCHANGED vars
    BY <2>6 DEF vars, updateVars, EpochInv, EachSampleEachEpoch
  <2> QED BY <2>1, <2>2, <2>3, <2>4, <2>5, <2>6 DEF Next
<1>3. EpochInv => EachSampleEachEpoch
  BY DEF EpochInv
<1> QED BY <1>1, <1>2, <1>3, PTL DEF Spec
-----------------------------------------------------------------------------
\* A row of the buffer: what add() is given for one timestep.
Observations == {Observe(i, [episode |-> e, step_count |-> k]) :
                   i \in Envs, e \in Nat, k \in Nat}
Row == [obs : [Envs -> Observations], rewards : [Envs -> Int], dones : [Envs -> BOOLEAN],
        values : [Envs -> {Critic(n, o) : n \in Nat, o \in Observations}]]

\* The buffer holds rows only, so that a step adds one to its length.
RowsInv == /\ TypeOK
           /\ rows \in Seq(Row)
           /\ obs \in [Envs -> Observations]
           /\ phase # "done" => local_step < MaxSteps
           /\ phase = "update" => epoch < PpoEpochs

\* Stepping the environments: a finished one begins its next episode, and no episode
\* outlasts the step limit.
LEMMA Lockstep ==
    ASSUME envs \in [Envs -> [episode : Nat \ {0}, step_count : 0 .. StepLimit - 1]],
           task \in DOMAIN ENVS, NEW outcome \in [Envs -> ENVS[task]]
    PROVE  /\ VecStep(outcome).envs
                \in [Envs -> [episode : Nat \ {0}, step_count : 0 .. StepLimit - 1]]
           /\ VecStep(outcome).obs \in [Envs -> Observations]
           /\ VecStep(outcome).dones \in [Envs -> BOOLEAN]
           /\ \A i \in Envs : outcome[i].reward \in Int
<1> USE EnvAssumption
<1>1. ENVS[task] \subseteq [reward : Int, over : BOOLEAN]
  <2>1. ENVS[task] \in {SwingBot, CartPole, MountainCar, Acrobot}
    BY DEF ENVS
  <2>2. /\ SwingBot \subseteq [reward : Int, over : BOOLEAN]
        /\ CartPole \subseteq [reward : Int, over : BOOLEAN]
        /\ MountainCar \subseteq [reward : Int, over : BOOLEAN]
        /\ Acrobot \subseteq [reward : Int, over : BOOLEAN]
    <3>1. SwingBot \subseteq [reward : Int, over : BOOLEAN]
      <4>1. SUFFICES ASSUME NEW posture \in {-1, 1}
                     PROVE  [reward |-> posture, over |-> FALSE] \in [reward : Int, over : BOOLEAN]
        BY DEF SwingBot
      <4>2. posture \in Int
        OBVIOUS
      <4>3. QED
        BY <4>2
    <3>2. CartPole \subseteq [reward : Int, over : BOOLEAN]
      BY DEF CartPole
    <3>3. MountainCar \subseteq [reward : Int, over : BOOLEAN]
      BY DEF MountainCar
    <3>4. Acrobot \subseteq [reward : Int, over : BOOLEAN]
      BY DEF Acrobot
    <3>5. QED
      BY <3>1, <3>2, <3>3, <3>4
  <2>3. QED
    BY <2>1, <2>2
<1>2. \A i \in Envs : outcome[i] \in [reward : Int, over : BOOLEAN]
  BY <1>1
<1> DEFINE next == [i \in Envs |-> Stepped(envs[i])]
           dones == [i \in Envs |-> Done(next[i], outcome[i])]
           after == [i \in Envs |-> IF dones[i] THEN Reset(next[i]) ELSE next[i]]
<1>3. next \in [Envs -> [episode : Nat \ {0}, step_count : 1 .. StepLimit]]
  BY DEF Stepped
<1>4. dones \in [Envs -> BOOLEAN]
  BY <1>2, <1>3 DEF Done
<1>5. after \in [Envs -> [episode : Nat \ {0}, step_count : 0 .. StepLimit - 1]]
  <2>1. SUFFICES ASSUME NEW i \in Envs
                 PROVE  after[i] \in [episode : Nat \ {0}, step_count : 0 .. StepLimit - 1]
    OBVIOUS
  <2>2. CASE dones[i]
    BY <1>3, <2>2 DEF Reset
  <2>3. CASE ~dones[i]
    <3>1. ~(next[i].step_count >= StepLimit)
      BY <1>2, <1>3, <2>3 DEF Done
    <3>2. QED
      BY <1>3, <2>3, <3>1
  <2>4. QED
    BY <2>2, <2>3
<1>6. [i \in Envs |-> Observe(i, after[i])] \in [Envs -> Observations]
  <2>1. SUFFICES ASSUME NEW i \in Envs PROVE Observe(i, after[i]) \in Observations
    OBVIOUS
  <2>2. after[i].episode \in Nat /\ after[i].step_count \in Nat
    BY <1>5
  <2>3. Observe(i, after[i])
          = Observe(i, [episode |-> after[i].episode, step_count |-> after[i].step_count])
    BY DEF Observe
  <2>4. QED
    BY <2>2, <2>3 DEF Observations
<1>7. VecStep(outcome) = [envs |-> after, obs |-> [i \in Envs |-> Observe(i, after[i])],
                          dones |-> dones]
  BY DEF VecStep
<1>8. QED
  BY <1>2, <1>4, <1>5, <1>6, <1>7

\* The loops begin with an empty buffer and the first episode of each environment.
LEMMA RowsInit == Init => RowsInv
<1> SUFFICES ASSUME Init PROVE RowsInv
  OBVIOUS
<1> USE EnvAssumption, RolloutAssumption, Schedulable DEF Init, ScheduleAssumption
<1>1. TypeOK
  <2>1. Len(rows) <= RolloutLength
    OBVIOUS
  <2>2. QED
    BY <2>1, SampleCount DEF TypeOK
<1>2. obs \in [Envs -> Observations]
  <2>1. SUFFICES ASSUME NEW i \in Envs PROVE Observe(i, envs[i]) \in Observations
    OBVIOUS
  <2>2. Observe(i, envs[i]) = Observe(i, [episode |-> 1, step_count |-> 0])
    OBVIOUS
  <2>3. \A e, k \in Nat : Observe(i, [episode |-> e, step_count |-> k]) \in Observations
    BY DEF Observations
  <2>4. QED
    BY <2>2, <2>3
<1>3. rows \in Seq(Row)
  BY EmptySeq
<1>4. QED
  BY <1>1, <1>2, <1>3 DEF RowsInv

\* Collecting adds a row, the other steps keep the buffer or begin an empty one.
LEMMA RowsStep == ASSUME RowsInv, [Next]_vars PROVE RowsInv'
<1> USE EnvAssumption, RolloutAssumption, Schedulable, SampleCount DEF ScheduleAssumption
<1>1. CASE Collect
  <2>1. PICK outcome \in [Envs -> ENVS[task]] :
          LET step == VecStep(outcome)
              rewards == [i \in Envs |-> outcome[i].reward]
              returns == [i \in Envs |-> ep_returns[i] + rewards[i]]
          IN  /\ envs' = step.envs
              /\ obs' = step.obs
              /\ rows' = Append(rows, [obs |-> obs, rewards |-> rewards, dones |-> step.dones,
                                       values |-> [i \in Envs |-> Critic(local_step, obs[i])]])
              /\ ep_returns' = [i \in Envs |-> IF step.dones[i] THEN 0 ELSE returns[i]]
              /\ unreported' = unreported + Cardinality({i \in Envs : step.dones[i]})
    BY <1>1, Zenon DEF Collect
  <2>2. /\ Len(rows) < RolloutLength /\ phase = "collect"
        /\ UNCHANGED <<task, schedule, local_step, phase, start, epoch, trained>>
    BY <1>1 DEF Collect, updateVars
  <2>3. /\ envs' \in [Envs -> [episode : Nat \ {0}, step_count : 0 .. StepLimit - 1]]
        /\ obs' \in [Envs -> Observations]
        /\ VecStep(outcome).dones \in [Envs -> BOOLEAN]
        /\ \A i \in Envs : outcome[i].reward \in Int
    BY <2>1, Lockstep DEF RowsInv, TypeOK
  <2>4. rows' \in Seq(Row) /\ Len(rows') = Len(rows) + 1
    <3>1. [i \in Envs |-> Critic(local_step, obs[i])]
            \in [Envs -> {Critic(n, o) : n \in Nat, o \in Observations}]
      BY DEF RowsInv, TypeOK
    <3>2. [obs |-> obs, rewards |-> [i \in Envs |-> outcome[i].reward],
           dones |-> VecStep(outcome).dones,
           values |-> [i \in Envs |-> Critic(local_step, obs[i])]] \in Row
      BY <2>3, <3>1 DEF Row, RowsInv
    <3>3. QED
      BY <2>1, <3>2 DEF RowsInv
  <2>5. unreported' \in Nat
    <3>1. IsFiniteSet({i \in Envs : VecStep(outcome).dones[i]})
      BY FS_Interval, FS_Subset DEF Envs
    <3>2. QED
      BY <2>1, <3>1, FS_CardinalityType DEF RowsInv, TypeOK
  <2>6. ep_returns' \in [Envs -> Int]
    BY <2>1, <2>3 DEF RowsInv, TypeOK
  <2>7. QED
    BY <2>2, <2>3, <2>4, <2>5, <2>6 DEF RowsInv, TypeOK
<1>2. CASE ComputeGae
  BY <1>2 DEF ComputeGae, Shuffle, RowsInv, TypeOK, envVars
<1>3. CASE Train
  BY <1>3 DEF Train, RowsInv, TypeOK, envVars
<1>4. CASE FinishEpoch
  BY <1>4 DEF FinishEpoch, Shuffle, RowsInv, TypeOK, envVars
<1>5. CASE Ship
  BY <1>5, EmptySeq DEF Ship, RowsInv, TypeOK
<1>6. CASE UNCHANGED vars
  BY <1>6 DEF vars, envVars, updateVars, RowsInv, TypeOK
<1>7. QED
  BY <1>1, <1>2, <1>3, <1>4, <1>5, <1>6 DEF Next

\* The buffer never holds more than rollout_length timesteps, no episode outlasts the
\* step limit across rollouts, and the counters keep their ranges.
THEOREM RolloutTypes == Spec => []TypeOK
<1>1. RowsInv => TypeOK
  BY DEF RowsInv
<1>2. RowsInv /\ [Next]_vars => RowsInv'
  BY RowsStep
<1>3. QED
  BY RowsInit, <1>1, <1>2, PTL DEF Spec
-----------------------------------------------------------------------------
(* Induction, and what a loop computes.                                     *)

\* A nonempty set of natural numbers has a least element: < is well-founded.
LEMMA LeastNumber ==
    ASSUME NEW T \in SUBSET Nat, T # {}
    PROVE  \E n \in T : \A m \in T : n <= m
<1>1. PICK n \in T : \A m \in T : <<m, n>> \notin OpToRel(<, Nat)
  BY NatLessThanWellFounded, WFMin
<1>2. \A m \in T : ~ (m < n)
  BY <1>1 DEF OpToRel
<1>3. QED
  BY <1>2

\* Induction over the natural numbers, for the set of those a formula holds for.
LEMMA Induction ==
    ASSUME NEW S, 0 \in S, \A n \in Nat : n \in S => n + 1 \in S
    PROVE  Nat \subseteq S
<1>1. SUFFICES ASSUME Nat \ S # {} PROVE FALSE
  OBVIOUS
<1>2. PICK n \in Nat \ S : \A m \in Nat \ S : n <= m
  BY <1>1, LeastNumber
<1>3. n - 1 \in Nat /\ n - 1 \in S
  BY <1>2
<1>4. QED
  BY <1>2, <1>3

\* f holds the values of a loop that runs N times from b on: step[k] is its kth round.
Iteration(f, N, T, b, step) ==
    /\ f \in [0 .. N -> T]
    /\ f[0] = b
    /\ \A k \in 1 .. N : f[k] = step[k][f[k - 1]]

\* A loop has a result, whatever it runs over and however often.
LEMMA Iterates ==
    ASSUME NEW N \in Nat, NEW T, NEW b \in T, NEW step \in [1 .. N -> [T -> T]]
    PROVE  \E f : Iteration(f, N, T, b, step)
                                    /\ \A k \in 1 .. N : f[k] = step[k][f[k - 1]]
<1> DEFINE Upto(n) == \E f \in [0 .. N -> T] :
             /\ f[0] = b
             /\ \A k \in 1 .. N : k <= n => f[k] = step[k][f[k - 1]]
           S == {n \in Nat : Upto(n)}
<1>1. 0 \in S
  <2> DEFINE f == [k \in 0 .. N |-> b]
  <2>1. /\ f \in [0 .. N -> T] /\ f[0] = b
        /\ \A k \in 1 .. N : k <= 0 => f[k] = step[k][f[k - 1]]
    OBVIOUS
  <2>2. Upto(0)
    BY <2>1
  <2>3. QED
    BY <2>2
<1>2. ASSUME NEW n \in Nat, n \in S PROVE n + 1 \in S
  <2>1. PICK f \in [0 .. N -> T] :
           /\ f[0] = b
           /\ \A k \in 1 .. N : k <= n => f[k] = step[k][f[k - 1]]
    BY <1>2
  <2> DEFINE g == [k \in 0 .. N |-> IF k = n + 1 THEN step[k][f[k - 1]] ELSE f[k]]
  <2>2. g \in [0 .. N -> T]
    <3>1. ASSUME NEW k \in 0 .. N, k = n + 1 PROVE step[k][f[k - 1]] \in T
      <4>1. k \in 1 .. N /\ f[k - 1] \in T
        BY <3>1
      <4>2. QED
        BY <4>1
    <3>2. QED
      BY <3>1
  <2>3. g[0] = b
    BY <2>1
  <2>4. ASSUME NEW k \in 1 .. N, k <= n + 1 PROVE g[k] = step[k][g[k - 1]]
    <3>1. g[k - 1] = f[k - 1]
      BY <2>4
    <3>2. g[k] = step[k][f[k - 1]]
      BY <2>1, <2>4
    <3>3. QED
      BY <3>1, <3>2
  <2>5. Upto(n + 1)
    BY <2>2, <2>3, <2>4
  <2>6. QED
    BY <2>5
<1>3. N \in S
  <2> HIDE DEF S
  <2>1. QED
    BY <1>1, <1>2, Induction
<1>4. QED
  BY <1>3 DEF Iteration

\* Whatever satisfies the loop's equations has its values.
LEMMA SameIteration ==
    ASSUME NEW N \in Nat, NEW T, NEW b, NEW step, NEW f, Iteration(f, N, T, b, step),
           NEW e, e[0] = b, \A k \in 1 .. N : e[k] = step[k][e[k - 1]]
    PROVE  \A k \in 0 .. N : e[k] = f[k]
<1> DEFINE S == {k \in Nat : k <= N => e[k] = f[k]}
<1>1. f[0] = b /\ \A k \in 1 .. N : f[k] = step[k][f[k - 1]]
  BY DEF Iteration
<1>2. 0 \in S
  BY <1>1
<1>3. ASSUME NEW k \in Nat, k \in S PROVE k + 1 \in S
  <2>1. SUFFICES ASSUME k + 1 <= N PROVE e[k + 1] = f[k + 1]
    OBVIOUS
  <2>2. k + 1 \in 1 .. N /\ (k + 1) - 1 = k /\ k <= N
    BY <2>1
  <2>3. e[k + 1] = step[k + 1][e[k]] /\ f[k + 1] = step[k + 1][f[k]]
    BY <1>1, <2>2
  <2>4. QED
    BY <1>3, <2>2, <2>3
<1>4. ASSUME NEW k \in 0 .. N PROVE e[k] = f[k]
  <2>1. k \in S
    <3> HIDE DEF S
    <3>1. k \in Nat
      OBVIOUS
    <3>2. QED
      BY <1>2, <1>3, <3>1, Induction
  <2>2. QED
    BY <2>1
<1>5. QED
  BY <1>4
-----------------------------------------------------------------------------
(* Sums over finite sets.                                                   *)

\* The element that a sum over s takes out first.
Some(s) == CHOOSE x \in s : TRUE

\* f[s] is the sum of g over s, by the recurrence of MapThenSumSet.
Sums(f, g, S) == f = [s \in SUBSET S |-> IF s = {} THEN 0 ELSE g[Some(s)] + f[s \ {Some(s)}]]

\* A subset is smaller by one without one of its elements.
LEMMA Parts ==
    ASSUME NEW S, IsFiniteSet(S), NEW s \in SUBSET S
    PROVE  /\ Cardinality(s) \in Nat
           /\ Cardinality(s) <= Cardinality(S)
           /\ Cardinality(s) = 0 <=> s = {}
           /\ \A x \in s : Cardinality(s \ {x}) = Cardinality(s) - 1
           /\ s # {} => Some(s) \in s
<1>1. IsFiniteSet(s) /\ Cardinality(s) \in Nat /\ Cardinality(s) <= Cardinality(S)
  BY FS_Subset, FS_CardinalityType
<1>2. \A x \in s : Cardinality(s \ {x}) = Cardinality(s) - 1
  BY <1>1, FS_RemoveElement
<1>3. Cardinality(s) = 0 <=> s = {}
  BY <1>1, FS_EmptySet
<1>4. s # {} => Some(s) \in s
  BY DEF Some
<1>5. QED
  BY <1>1, <1>2, <1>3, <1>4

\* There are such sums over every finite set.
LEMMA SumsExist ==
    ASSUME NEW S, IsFiniteSet(S), NEW g, \A x \in S : g[x] \in Int
    PROVE  \E f : Sums(f, g, S)
<1> DEFINE Value(f, s) == IF s = {} THEN 0 ELSE g[Some(s)] + f[s \ {Some(s)}]
           Upto(n) == \E f \in [SUBSET S -> Int] : \A s \in SUBSET S :
                        Cardinality(s) <= n => f[s] = Value(f, s)
           N == {n \in Nat : Upto(n)}
<1>1. 0 \in N
  <2> DEFINE f == [s \in SUBSET S |-> 0]
  <2>1. f \in [SUBSET S -> Int]
    OBVIOUS
  <2>2. ASSUME NEW s \in SUBSET S, Cardinality(s) <= 0 PROVE f[s] = Value(f, s)
    BY <2>2, Parts
  <2>3. Upto(0)
    <3> HIDE DEF f, Value
    <3>1. QED
      BY <2>1, <2>2
  <2>4. QED
    BY <2>3
<1>2. ASSUME NEW n \in Nat, n \in N PROVE n + 1 \in N
  <2>1. PICK f \in [SUBSET S -> Int] : \A s \in SUBSET S :
                Cardinality(s) <= n => f[s] = Value(f, s)
    BY <1>2
  <2> DEFINE h == [s \in SUBSET S |-> IF Cardinality(s) = n + 1 THEN Value(f, s) ELSE f[s]]
  <2>2. ASSUME NEW s \in SUBSET S PROVE Value(f, s) \in Int
    BY Parts
  <2>3. h \in [SUBSET S -> Int]
    <3> HIDE DEF Value
    <3>1. QED
      BY <2>2
  <2>4. ASSUME NEW s \in SUBSET S, Cardinality(s) <= n + 1 PROVE h[s] = Value(h, s)
    <3>1. h[s] = Value(f, s)
      <4> HIDE DEF Value
      <4>1. QED
        BY <2>1, <2>4, Parts
    <3>2. CASE s = {}
      BY <3>1, <3>2
    <3>3. CASE s # {}
      <4> DEFINE r == s \ {Some(s)}
      <4>1. r \in SUBSET S /\ Cardinality(r) # n + 1
        BY <2>4, <3>3, Parts
      <4>2. h[r] = f[r]
        <5> HIDE DEF r, Value
        <5>1. QED
          BY <4>1
      <4>3. QED
        <5> HIDE DEF h
        <5>1. QED
          BY <3>1, <3>3, <4>2
    <3>4. QED
      BY <3>2, <3>3
  <2>5. Upto(n + 1)
    <3> HIDE DEF h, Value
    <3>1. QED
      BY <2>3, <2>4
  <2>6. QED
    BY <2>5
<1>3. Cardinality(S) \in N
  <2>1. Cardinality(S) \in Nat
    BY Parts
  <2> HIDE DEF N
  <2>2. QED
    BY <1>1, <1>2, <2>1, Induction
<1>4. PICK f \in [SUBSET S -> Int] : \A s \in SUBSET S :
          Cardinality(s) <= Cardinality(S) => f[s] = Value(f, s)
  BY <1>3
<1>5. \A s \in SUBSET S : f[s] = Value(f, s)
  <2> HIDE DEF Value
  <2>1. QED
    BY <1>4, Parts
<1>6. Sums(f, g, S)
  BY <1>5 DEF Sums
<1>7. QED
  BY <1>6

\* Integers add up to an integer.
LEMMA SumsType ==
    ASSUME NEW S, IsFiniteSet(S), NEW g, \A x \in S : g[x] \in Int, NEW f, Sums(f, g, S)
    PROVE  f[{}] = 0 /\ \A s \in SUBSET S : f[s] \in Int
<1> DEFINE N == {n \in Nat : \A s \in SUBSET S : Cardinality(s) = n => f[s] \in Int}
<1>1. f[{}] = 0
  BY DEF Sums
<1>2. 0 \in N
  <2>1. ASSUME NEW s \in SUBSET S, Cardinality(s) = 0 PROVE f[s] \in Int
    <3>1. s = {}
      BY <2>1, Parts
    <3>2. QED
      BY <1>1, <3>1
  <2>2. QED
    BY <2>1
<1>3. ASSUME NEW n \in Nat, n \in N PROVE n + 1 \in N
  <2>1. ASSUME NEW s \in SUBSET S, Cardinality(s) = n + 1 PROVE f[s] \in Int
    <3>1. s # {} /\ Some(s) \in s
      BY <2>1, Parts
    <3>2. f[s] = g[Some(s)] + f[s \ {Some(s)}]
      BY <3>1 DEF Sums
    <3>3. s \ {Some(s)} \in SUBSET S /\ Cardinality(s \ {Some(s)}) = n
      BY <2>1, <3>1, Parts
    <3>4. f[s \ {Some(s)}] \in Int
      BY <1>3, <3>3
    <3>5. QED
      BY <3>1, <3>2, <3>4
  <2>2. QED
    BY <2>1
<1>4. ASSUME NEW s \in SUBSET S PROVE f[s] \in Int
  <2>1. Cardinality(s) \in Nat
    BY Parts
  <2>2. Cardinality(s) \in N
    <3> HIDE DEF N
    <3>1. QED
      BY <1>2, <1>3, <2>1, Induction
  <2>3. QED
    BY <2>2
<1>5. QED
  BY <1>1, <1>4

\* The sum is the same whichever element is added first.
LEMMA SumsPick ==
    ASSUME NEW S, IsFiniteSet(S), NEW g, \A x \in S : g[x] \in Int, NEW f, Sums(f, g, S)
    PROVE  \A s \in SUBSET S : \A x \in s : f[s] = g[x] + f[s \ {x}]
<1> DEFINE Picked(s) == \A x \in s : f[s] = g[x] + f[s \ {x}]
           N == {n \in Nat : \A s \in SUBSET S : Cardinality(s) = n => Picked(s)}
<1>1. 0 \in N
  <2>1. ASSUME NEW s \in SUBSET S, Cardinality(s) = 0 PROVE Picked(s)
    <3>1. s = {}
      BY <2>1, Parts
    <3>2. QED
      BY <3>1
  <2>2. QED
    BY <2>1
<1>2. ASSUME NEW n \in Nat, n \in N PROVE n + 1 \in N
  <2>1. ASSUME NEW s \in SUBSET S, Cardinality(s) = n + 1, NEW x \in s
        PROVE  f[s] = g[x] + f[s \ {x}]
    <3> DEFINE c == Some(s)
    <3>1. s # {} /\ c \in s
      BY <2>1, Parts
    <3>2. f[s] = g[c] + f[s \ {c}]
      BY <3>1 DEF Sums
    <3> HIDE DEF c
    <3>3. CASE x = c
      BY <3>2, <3>3
    <3>4. CASE x # c
      <4> DEFINE r == (s \ {c}) \ {x}
      <4>1. /\ s \ {c} \in SUBSET S /\ Cardinality(s \ {c}) = n
            /\ s \ {x} \in SUBSET S /\ Cardinality(s \ {x}) = n
        <5>1. ASSUME NEW y \in s PROVE s \ {y} \in SUBSET S /\ Cardinality(s \ {y}) = n
          BY <2>1, Parts
        <5>2. QED
          BY <3>1, <5>1
      <4>2. Picked(s \ {c}) /\ Picked(s \ {x})
        <5> HIDE DEF Picked
        <5>1. QED
          BY <1>2, <4>1
      <4>3. f[s \ {c}] = g[x] + f[r]
        BY <3>1, <3>4, <4>2
      <4>4. f[s \ {x}] = g[c] + f[r]
        <5>1. (s \ {x}) \ {c} = r
          OBVIOUS
        <5>2. f[s \ {x}] = g[c] + f[(s \ {x}) \ {c}]
          BY <3>1, <3>4, <4>2
        <5>3. QED
          BY <5>1, <5>2
      <4>5. g[c] \in Int /\ g[x] \in Int /\ f[r] \in Int
        <5>1. r \in SUBSET S
          OBVIOUS
        <5> HIDE DEF r
        <5>2. QED
          BY <3>1, <5>1, SumsType
      <4>6. QED
        <5> HIDE DEF r
        <5>1. QED
          BY <3>2, <4>3, <4>4, <4>5
    <3>5. QED
      BY <3>3, <3>4
  <2>2. QED
    BY <2>1
<1>3. ASSUME NEW s \in SUBSET S PROVE Picked(s)
  <2>1. Cardinality(s) \in Nat
    BY Parts
  <2>2. Cardinality(s) \in N
    <3> HIDE DEF N
    <3>1. QED
      BY <1>1, <1>2, <2>1, Induction
  <2>3. QED
    <3> HIDE DEF Picked
    <3>1. QED
      BY <2>2
<1>4. QED
  BY <1>3

\* The sum over a set depends on the summands in that set only.
LEMMA SumsAgree ==
    ASSUME NEW S, IsFiniteSet(S), NEW g, NEW f, Sums(f, g, S),
           NEW T, IsFiniteSet(T), NEW h, NEW e, Sums(e, h, T),
           NEW U, U \subseteq S, U \subseteq T, \A x \in U : g[x] = h[x]
    PROVE  f[U] = e[U]
<1> DEFINE N == {n \in Nat : \A s \in SUBSET U : Cardinality(s) = n => f[s] = e[s]}
<1>1. 0 \in N
  <2>1. ASSUME NEW s \in SUBSET U, Cardinality(s) = 0 PROVE f[s] = e[s]
    <3>1. s = {}
      BY <2>1, Parts
    <3>2. f[{}] = 0 /\ e[{}] = 0
      BY DEF Sums
    <3>3. QED
      BY <3>1, <3>2
  <2>2. QED
    BY <2>1
<1>2. ASSUME NEW n \in Nat, n \in N PROVE n + 1 \in N
  <2>1. ASSUME NEW s \in SUBSET U, Cardinality(s) = n + 1 PROVE f[s] = e[s]
    <3>1. s \in SUBSET S /\ s \in SUBSET T
      OBVIOUS
    <3>2. s # {} /\ Some(s) \in s
      BY <2>1, <3>1, Parts
    <3>3. f[s] = g[Some(s)] + f[s \ {Some(s)}] /\ e[s] = h[Some(s)] + e[s \ {Some(s)}]
      BY <3>1, <3>2 DEF Sums
    <3>4. s \ {Some(s)} \in SUBSET U /\ Cardinality(s \ {Some(s)}) = n
      BY <2>1, <3>1, <3>2, Parts
    <3>5. f[s \ {Some(s)}] = e[s \ {Some(s)}]
      BY <1>2, <3>4
    <3>6. QED
      BY <3>2, <3>3, <3>5
  <2>2. QED
    BY <2>1
<1>3. Cardinality(U) \in N
  <2>1. Cardinality(U) \in Nat
    BY Parts
  <2> HIDE DEF N
  <2>2. QED
    BY <1>1, <1>2, <2>1, Induction
<1>4. QED
  BY <1>3

\* The sum of g over S.
Sum(g, S) == (CHOOSE f : Sums(f, g, S))[S]

\* What the proofs use of a sum: it takes out any one element, and every function that
\* satisfies the recurrence of MapThenSumSet computes it.
LEMMA SumFacts ==
    ASSUME NEW S, IsFiniteSet(S), NEW g, \A x \in S : g[x] \in Int
    PROVE  /\ Sum(g, S) \in Int
           /\ S = {} => Sum(g, S) = 0
           /\ \A x \in S : Sum(g, S) = g[x] + Sum(g, S \ {x})
           /\ \A f : Sums(f, g, S) => f[S] = Sum(g, S)
<1> DEFINE f == CHOOSE f : Sums(f, g, S)
<1>1. Sums(f, g, S)
  BY SumsExist
<1>2. Sum(g, S) = f[S]
  BY DEF Sum
<1> HIDE DEF f
<1>3. Sum(g, S) \in Int /\ (S = {} => Sum(g, S) = 0)
  BY <1>1, <1>2, SumsType
<1>4. ASSUME NEW x \in S PROVE Sum(g, S) = g[x] + Sum(g, S \ {x})
  <2> DEFINE r == S \ {x}
             e == CHOOSE e : Sums(e, g, r)
  <2>1. IsFiniteSet(r) /\ r \subseteq S
    BY FS_Subset
  <2>2. \A y \in r : g[y] \in Int
    OBVIOUS
  <2> HIDE DEF r
  <2>3. Sums(e, g, r)
    BY <2>1, <2>2, SumsExist
  <2>4. Sum(g, r) = e[r]
    BY DEF Sum
  <2> HIDE DEF e
  <2>5. e[r] = f[r]
    BY <1>1, <2>1, <2>3, SumsAgree
  <2>6. f[S] = g[x] + f[r]
    BY <1>1, SumsPick DEF r
  <2>7. QED
    BY <1>2, <2>4, <2>5, <2>6 DEF r
<1>5. ASSUME NEW e, Sums(e, g, S) PROVE e[S] = Sum(g, S)
  BY <1>1, <1>2, <1>5, SumsAgree
<1>6. QED
  BY <1>3, <1>4, <1>5

\* Equal summands, equal sums.
LEMMA SumCongruence ==
    ASSUME NEW S, IsFiniteSet(S), NEW g, NEW h,
           \A x \in S : g[x] \in Int /\ h[x] = g[x]
    PROVE  Sum(h, S) = Sum(g, S)
<1>1. PICK f : Sums(f, g, S)
  BY SumsExist
<1>2. PICK e : Sums(e, h, S)
  BY SumsExist
<1>3. f[S] = Sum(g, S) /\ e[S] = Sum(h, S)
  BY <1>1, <1>2, SumFacts
<1>4. QED
  BY <1>1, <1>2, <1>3, SumsAgree
-----------------------------------------------------------------------------
(* Advantages.                                                              *)

\* The values of the critic are numbers.
IntegerCritic == \A n \in Nat, o \in Observations : Critic(n, o) \in Int

\* One round of compute_gae's loop: the advantages of step t from those of step t + 1.
GaeStep(lastValues, t, following) ==
    [i \in Envs |->
       LET next == IF t = Len(rows) THEN lastValues[i] ELSE rows[t + 1].values[i]
           live == IF rows[t].dones[i] THEN 0 ELSE 1
           delta == rows[t].rewards[i] + Gamma * next * live - rows[t].values[i]
       IN  delta + IF t = Len(rows) THEN 0 ELSE Gamma * Lambda * live * following[i]]

\* compute_gae's loop is well-defined: its values are numbers, and each step is computed
\* from the next one as the code computes it.
LEMMA GaeEquation ==
    ASSUME IntegerCritic, rows \in Seq(Row), NEW last \in [Envs -> Int]
    PROVE  /\ Gae(last) \in [1 .. Len(rows) -> [Envs -> Int]]
           /\ \A t \in 1 .. Len(rows) : Gae(last)[t] = GaeStep(last, t, Gae(last)[t + 1])
<1> USE RolloutAssumption
<1> DEFINE N == Len(rows)
           Values == [Envs -> Int]
           back == [k \in 1 .. N |-> [v \in Values |-> GaeStep(last, N + 1 - k, v)]]
           Solves(f) == f = [t \in 1 .. Len(rows) |-> GaeStep(last, t, f[t + 1])]
<1>1. N \in Nat
  OBVIOUS
<1>2. ASSUME NEW t \in 1 .. N, NEW v \in Values PROVE GaeStep(last, t, v) \in Values
  <2>1. /\ rows[t] \in Row
        /\ t # N => rows[t + 1] \in Row
    OBVIOUS
  <2>2. SUFFICES ASSUME NEW i \in Envs PROVE GaeStep(last, t, v)[i] \in Int
    BY DEF GaeStep
  <2>3. /\ rows[t].values[i] \in Int /\ rows[t].rewards[i] \in Int
        /\ t # N => rows[t + 1].values[i] \in Int
    <3>1. {Critic(n, o) : n \in Nat, o \in Observations} \subseteq Int
      BY DEF IntegerCritic
    <3>2. \A r \in Row : r.values[i] \in Int /\ r.rewards[i] \in Int
      BY <3>1 DEF Row
    <3>3. QED
      BY <2>1, <3>2
  <2>4. last[i] \in Int /\ v[i] \in Int
    OBVIOUS
  <2> DEFINE next == IF t = Len(rows) THEN last[i] ELSE rows[t + 1].values[i]
             live == IF rows[t].dones[i] THEN 0 ELSE 1
             delta == rows[t].rewards[i] + Gamma * next * live - rows[t].values[i]
  <2>5. next \in Int /\ live \in Int
    BY <2>3, <2>4
  <2>6. GaeStep(last, t, v)[i]
          = delta + IF t = Len(rows) THEN 0 ELSE Gamma * Lambda * live * v[i]
    BY DEF GaeStep
  <2> HIDE DEF next, live
  <2>7. delta \in Int /\ Gamma * Lambda * live * v[i] \in Int
    <3>1. \A a, b \in Int : a * b \in Int
      OBVIOUS
    <3>2. Gamma * next \in Int /\ Gamma * Lambda \in Int
      BY <2>5, <3>1
    <3>3. Gamma * next * live \in Int /\ Gamma * Lambda * live \in Int
      BY <2>5, <3>1, <3>2
    <3>4. Gamma * Lambda * live * v[i] \in Int
      BY <2>4, <3>1, <3>3
    <3>5. delta \in Int
      BY <2>3, <3>3
    <3>6. QED
      BY <3>4, <3>5
  <2> HIDE DEF delta
  <2>8. QED
    BY <2>6, <2>7
<1>3. back \in [1 .. N -> [Values -> Values]]
  <2> HIDE DEF Values
  <2>1. ASSUME NEW k \in 1 .. N, NEW v \in Values
        PROVE  GaeStep(last, N + 1 - k, v) \in Values
    <3>1. N + 1 - k \in 1 .. N
      BY <1>1
    <3> HIDE DEF N
    <3>2. QED
      BY <1>2, <3>1
  <2>2. QED
    BY <2>1
<1> DEFINE zero == [i \in Envs |-> 0]
<1>4. zero \in Values
  OBVIOUS
<1>5. PICK b \in [0 .. N -> Values] :
         \A k \in 1 .. N : b[k] = back[k][b[k - 1]]
  <2> HIDE DEF N, Values, back, zero
  <2>1. PICK b : Iteration(b, N, Values, zero, back)
    BY <1>1, <1>3, <1>4, Iterates
  <2>2. QED
    BY <2>1 DEF Iteration
<1> DEFINE f == [t \in 1 .. N |-> b[N + 1 - t]]
<1>6. f \in [1 .. N -> Values]
  <2> HIDE DEF Values
  <2>1. QED
    BY <1>1
<1>7. ASSUME NEW t \in 1 .. N PROVE f[t] = GaeStep(last, t, f[t + 1])
  <2> DEFINE k == N + 1 - t
  <2>1. k \in 1 .. N /\ N + 1 - k = t /\ b[k - 1] \in Values
    <3> HIDE DEF Values
    <3>1. QED
      BY <1>1
  <2>2. b[k] = GaeStep(last, t, b[k - 1])
    <3>1. b[k] = back[k][b[k - 1]]
      BY <1>5, <2>1
    <3> HIDE DEF N, Values
    <3>2. back[k][b[k - 1]] = GaeStep(last, N + 1 - k, b[k - 1])
      BY <2>1
    <3>3. QED
      BY <2>1, <3>1, <3>2
  <2>3. CASE t = N
    <3>1. GaeStep(last, t, b[k - 1]) = GaeStep(last, t, f[t + 1])
      BY <2>3 DEF GaeStep
    <3>2. QED
      BY <2>2, <3>1
  <2>4. CASE t # N
    <3>1. f[t + 1] = b[k - 1]
      BY <1>1, <2>4
    <3>2. QED
      BY <2>2, <3>1
  <2>5. QED
    BY <2>3, <2>4
<1>8. Solves(f)
  <2> HIDE DEF GaeStep
  <2>1. QED
    BY <1>7
<1>9. Gae(last) = (CHOOSE g : Solves(g))
  BY DEF Gae, GaeStep
<1>10. Solves(Gae(last))
  <2> HIDE DEF Solves, f
  <2>1. QED
    BY <1>8, <1>9
<1> HIDE DEF GaeStep
<1>11. \A t \in 1 .. N : Gae(last)[t] = GaeStep(last, t, Gae(last)[t + 1])
  BY <1>10
<1>12. Gae(last) \in [1 .. N -> Values]
  <2> DEFINE e == Gae(last)
             S == {k \in Nat : k < N => e[N - k] \in Values}
  <2>1. e = [t \in 1 .. N |-> e[t]]
    BY <1>10
  <2> HIDE DEF e, Values
  <2>2. 0 \in S
    <3>1. CASE N = 0
      BY <3>1
    <3>2. CASE N # 0
      <4>1. N \in 1 .. N /\ f[N + 1] = f[N + 1]
        BY <1>1, <3>2
      <4>2. PICK v \in Values : TRUE
        BY <1>4
      <4>3. e[N] = GaeStep(last, N, v)
        BY <1>11, <4>1 DEF e, GaeStep
      <4>4. QED
        BY <1>1, <1>2, <4>1, <4>2, <4>3
    <3>3. QED
      BY <3>1, <3>2
  <2>3. ASSUME NEW k \in Nat, k \in S PROVE k + 1 \in S
    <3>1. SUFFICES ASSUME k + 1 < N PROVE e[N - (k + 1)] \in Values
      OBVIOUS
    <3>2. /\ N - (k + 1) \in 1 .. N /\ N - (k + 1) + 1 = N - k
          /\ e[N - k] \in Values
      BY <1>1, <2>3, <3>1
    <3>3. e[N - (k + 1)] = GaeStep(last, N - (k + 1), e[N - k])
      BY <1>11, <3>2 DEF e
    <3>4. QED
      BY <1>2, <3>2, <3>3
  <2>4. ASSUME NEW t \in 1 .. N PROVE e[t] \in Values
    <3>1. N - t \in Nat /\ N - t < N /\ N - (N - t) = t
      BY <1>1
    <3>2. N - t \in S
      <4> HIDE DEF S
      <4>1. QED
        BY <2>2, <2>3, <3>1, Induction
    <3>3. QED
      BY <3>1, <3>2
  <2>5. e \in [1 .. N -> Values]
    BY <2>1, <2>4
  <2>6. QED
    BY <2>5 DEF e
<1>13. QED
  BY <1>11, <1>12

\* What Discounting needs of the numbers it is about.
Discounts(t, m, c, D, error, A) ==
    /\ t \in Nat /\ m \in Nat /\ t <= m
    /\ c \in Int
    /\ D \in [0 .. m - t -> Int]
    /\ D[0] = 1
    /\ \A n \in 1 .. m - t : D[n] = c * D[n - 1]
    /\ error \in [t .. m -> Int]
    /\ A \in [t .. m -> Int]
    /\ A[m] = error[m]
    /\ \A k \in t .. m - 1 : A[k] = error[k] + c * A[k + 1]

\* A backward recurrence A[k] = error[k] + c * A[k + 1] that ends in m is the sum of the
\* errors up to m, each discounted by a power of c.
LEMMA Discounting ==
    ASSUME NEW t, NEW m, NEW c, NEW D, NEW error, NEW A, Discounts(t, m, c, D, error, A),
           NEW g, g = [k \in t .. m |-> D[k - t] * error[k]]
    PROVE  Sum(g, t .. m) = A[t]
<1> USE DEF Discounts
<1> DEFINE Holds(n) == n <= m - t => Sum(g, (m - n) .. m) = D[m - n - t] * A[m - n]
           S == {n \in Nat : Holds(n)}
<1>1. \A a, b \in Int : a * b \in Int
  OBVIOUS
<1>2. ASSUME NEW k \in t .. m PROVE g[k] = D[k - t] * error[k] /\ g[k] \in Int
  <2>1. k - t \in 0 .. m - t
    OBVIOUS
  <2>2. D[k - t] \in Int /\ error[k] \in Int
    BY <2>1
  <2>3. g[k] = D[k - t] * error[k]
    OBVIOUS
  <2>4. QED
    BY <1>1, <2>2, <2>3
<1>3. ASSUME NEW j \in t .. m
      PROVE  /\ IsFiniteSet(j .. m) /\ \A k \in j .. m : g[k] \in Int
             /\ Sum(g, j .. m) = g[j] + Sum(g, (j + 1) .. m)
  <2>1. IsFiniteSet(j .. m) /\ j \in j .. m
    BY FS_Interval
  <2>2. \A k \in j .. m : g[k] \in Int
    <3>1. \A k \in j .. m : k \in t .. m
      OBVIOUS
    <3>2. QED
      BY <1>2, <3>1
  <2>3. (j .. m) \ {j} = (j + 1) .. m
    <3>1. j \in Int /\ m \in Int
      OBVIOUS
    <3>2. \A x \in j .. m : x # j => x \in (j + 1) .. m
      BY <3>1
    <3>3. \A x \in (j + 1) .. m : x \in j .. m /\ x # j
      BY <3>1
    <3>4. QED
      BY <3>2, <3>3
  <2>4. Sum(g, j .. m) = g[j] + Sum(g, (j .. m) \ {j})
    BY <2>1, <2>2, SumFacts
  <2>5. QED
    BY <2>1, <2>2, <2>3, <2>4
<1>4. 0 \in S
  <2>1. m \in t .. m /\ m - t \in 0 .. m - t
    OBVIOUS
  <2>2. Sum(g, m .. m) = g[m] + Sum(g, (m + 1) .. m)
    BY <1>3, <2>1
  <2>3. Sum(g, (m + 1) .. m) = 0
    <3>1. (m + 1) .. m = {} /\ IsFiniteSet({})
      BY FS_EmptySet
    <3>2. \A x \in {} : g[x] \in Int
      OBVIOUS
    <3>3. QED
      BY <3>1, <3>2, SumFacts
  <2>4. g[m] = D[m - t] * A[m] /\ g[m] \in Int
    BY <1>2, <2>1
  <2>5. m - 0 = m /\ m - 0 - t = m - t
    OBVIOUS
  <2>6. Holds(0)
    BY <2>2, <2>3, <2>4, <2>5
  <2>7. QED
    BY <2>6
<1>5. ASSUME NEW n \in Nat, n \in S PROVE n + 1 \in S
  <2>1. SUFFICES ASSUME n + 1 <= m - t PROVE Holds(n + 1)
    <3>1. n + 1 \in Nat
      OBVIOUS
    <3>2. ~(n + 1 <= m - t) => Holds(n + 1)
      OBVIOUS
    <3> HIDE DEF Holds
    <3>3. QED
      BY <3>1, <3>2
  <2> DEFINE j == m - (n + 1)
  <2>2. /\ j \in t .. m - 1 /\ j \in t .. m /\ j + 1 = m - n /\ j + 1 \in t .. m
        /\ j - t \in 0 .. m - t /\ m - n - t \in 1 .. m - t /\ m - n - t - 1 = j - t
    BY <2>1
  <2>3. Sum(g, (m - n) .. m) = D[m - n - t] * A[m - n]
    BY <1>5, <2>1
  <2> HIDE DEF j
  <2>4. Sum(g, j .. m) = g[j] + Sum(g, (j + 1) .. m)
    BY <1>3, <2>2
  <2>5. D[m - n - t] = c * D[j - t] /\ A[j] = error[j] + c * A[j + 1]
    BY <2>2
  <2>6. D[j - t] \in Int /\ error[j] \in Int /\ A[j + 1] \in Int
    BY <2>2
  <2>7. \A a, b, d \in Int : a * b + (c * a) * d = a * (b + c * d)
    OBVIOUS
  <2>8. g[j] = D[j - t] * error[j]
    BY <1>2, <2>2
  <2>9. Sum(g, j .. m) = D[j - t] * A[j]
    <3>1. Sum(g, j .. m) = D[j - t] * error[j] + (c * D[j - t]) * A[j + 1]
      BY <2>2, <2>3, <2>4, <2>5, <2>8
    <3>2. D[j - t] * error[j] + (c * D[j - t]) * A[j + 1]
            = D[j - t] * (error[j] + c * A[j + 1])
      BY <2>6, <2>7
    <3>3. QED
      BY <2>5, <3>1, <3>2
  <2>10. QED
    BY <2>9 DEF j
<1>6. m - t \in S
  <2> HIDE DEF S
  <2>1. m - t \in Nat
    OBVIOUS
  <2>2. QED
    BY <1>4, <1>5, <2>1, Induction
<1>7. m - (m - t) = t /\ t - t = 0
  OBVIOUS
<1>8. Sum(g, t .. m) = D[0] * A[t]
  <2>1. Sum(g, (m - (m - t)) .. m) = D[m - (m - t) - t] * A[m - (m - t)]
    BY <1>6
  <2>2. QED
    BY <1>7, <2>1
<1>9. A[t] \in Int
  OBVIOUS
<1>10. QED
  BY <1>8, <1>9

\* The powers of gamma * lambda.
LEMMA DiscountFacts ==
    /\ Discount \in [0 .. RolloutLength -> Int]
    /\ Discount[0] = 1
    /\ \A n \in 1 .. RolloutLength : Discount[n] = Gamma * Lambda * Discount[n - 1]
<1> USE RolloutAssumption
<1> DEFINE Solves(f) == f = [n \in 0 .. RolloutLength |->
                               IF n = 0 THEN 1 ELSE Gamma * Lambda * f[n - 1]]
           step == [n \in 1 .. RolloutLength |-> [v \in Int |-> Gamma * Lambda * v]]
<1>1. RolloutLength \in Nat /\ step \in [1 .. RolloutLength -> [Int -> Int]]
  <2>1. \A a, b \in Int : a * b \in Int
    OBVIOUS
  <2>2. Gamma * Lambda \in Int
    BY <2>1
  <2>3. \A v \in Int : Gamma * Lambda * v \in Int
    BY <2>1, <2>2
  <2>4. QED
    BY <2>3
<1>2. PICK f : Iteration(f, RolloutLength, Int, 1, step)
  <2>1. 1 \in Int
    OBVIOUS
  <2> HIDE DEF step
  <2>2. QED
    BY <1>1, <2>1, Iterates
<1>3. /\ f \in [0 .. RolloutLength -> Int] /\ f[0] = 1
      /\ \A n \in 1 .. RolloutLength : f[n] = Gamma * Lambda * f[n - 1]
  <2>1. /\ f \in [0 .. RolloutLength -> Int] /\ f[0] = 1
        /\ \A n \in 1 .. RolloutLength : f[n] = step[n][f[n - 1]]
    BY <1>2 DEF Iteration
  <2>2. ASSUME NEW n \in 1 .. RolloutLength PROVE step[n][f[n - 1]] = Gamma * Lambda * f[n - 1]
    <3>1. f[n - 1] \in Int
      BY <2>1
    <3>2. QED
      BY <3>1
  <2> HIDE DEF step
  <2>3. QED
    BY <2>1, <2>2
<1>4. Solves(f)
  <2>1. \A n \in 0 .. RolloutLength : n # 0 => n \in 1 .. RolloutLength
    OBVIOUS
  <2>2. QED
    BY <1>3, <2>1
<1>5. Discount = CHOOSE e : Solves(e)
  BY DEF Discount
<1>6. Solves(Discount)
  <2> HIDE DEF Solves
  <2>1. QED
    BY <1>4, <1>5
<1>7. Discount[0] = 1 /\ \A n \in 1 .. RolloutLength : Discount[n] = Gamma * Lambda * Discount[n - 1]
  BY <1>6
<1>8. ASSUME NEW n \in 0 .. RolloutLength PROVE Discount[n] = f[n]
  <2> DEFINE S == {k \in Nat : k <= RolloutLength => Discount[k] = f[k]}
  <2>1. 0 \in S
    BY <1>3, <1>7
  <2>2. ASSUME NEW k \in Nat, k \in S PROVE k + 1 \in S
    <3>1. SUFFICES ASSUME k + 1 <= RolloutLength PROVE Discount[k + 1] = f[k + 1]
      OBVIOUS
    <3>2. k + 1 \in 1 .. RolloutLength /\ (k + 1) - 1 = k /\ k <= RolloutLength
      BY <3>1
    <3>3. Discount[k + 1] = Gamma * Lambda * Discount[k] /\ f[k + 1] = Gamma * Lambda * f[k]
      BY <1>3, <1>7, <3>2
    <3>4. QED
      BY <2>2, <3>2, <3>3
  <2>3. n \in S
    <3> HIDE DEF S
    <3>1. n \in Nat
      OBVIOUS
    <3>2. QED
      BY <2>1, <2>2, <3>1, Induction
  <2>4. QED
    BY <2>3
<1>9. Discount = [n \in 0 .. RolloutLength |-> Discount[n]]
  BY <1>6
<1>10. Discount \in [0 .. RolloutLength -> Int]
  BY <1>3, <1>8, <1>9
<1>11. QED
  BY <1>7, <1>10

\* The observations after row k: those of the next row, or the current ones.
After(k) == IF k = Len(rows) THEN obs ELSE rows[k + 1].obs

\* Each row holds the critic's values of its observations under the weights of this
\* iteration and is followed by what the environments showed next; the advantages are
\* those of compute_gae.
FollowedInv ==
    /\ RowsInv
    /\ \A i \in Envs : obs[i] = Observe(i, envs[i])
    /\ phase \in {"collect", "update"} =>
         \A k \in 1 .. Len(rows), i \in Envs :
           /\ rows[k].values[i] = Critic(local_step, rows[k].obs[i])
           /\ ~ rows[k].dones[i] => After(k)[i] = [rows[k].obs[i] EXCEPT !.step = @ + 1]
    /\ phase = "update" => /\ Len(rows) = RolloutLength
                           /\ advantages = Gae([i \in Envs |-> Critic(local_step, obs[i])])

\* compute_gae's recurrence stops at the first done after a step, or at the end of the
\* rollout, and its errors are those of the observations that the environment made.
LEMMA SumOfAdvantages ==
    ASSUME IntegerCritic, FollowedInv, phase = "update" PROVE AdvantagesPerEnv
<1> USE RolloutAssumption
<1> DEFINE last == [i \in Envs |-> Critic(local_step, obs[i])]
           N == RolloutLength
<1>1. SUFFICES ASSUME NEW t \in 1 .. RolloutLength, NEW i \in Envs
      PROVE  LET V(k) == Critic(local_step, rows[k].obs[i])
                 VNext(k) == IF rows[k].dones[i] THEN 0
                             ELSE Critic(local_step, [rows[k].obs[i] EXCEPT !.step = @ + 1])
                 ends == {k \in t .. RolloutLength : rows[k].dones[i]} \cup {RolloutLength}
                 Term(k) == Discount[k - t]
                              * (rows[k].rewards[i] + Gamma * VNext(k) - V(k))
             IN  advantages[t][i] = MapThenSumSet(Term, t .. Min(ends))
  BY Zenon DEF AdvantagesPerEnv
<1> DEFINE V(k) == Critic(local_step, rows[k].obs[i])
           VNext(k) == IF rows[k].dones[i] THEN 0
                       ELSE Critic(local_step, [rows[k].obs[i] EXCEPT !.step = @ + 1])
           ends == {k \in t .. RolloutLength : rows[k].dones[i]} \cup {RolloutLength}
           Error(k) == rows[k].rewards[i] + Gamma * VNext(k) - V(k)
           Term(k) == Discount[k - t] * Error(k)
           m == Min(ends)
           g == [k \in t .. m |-> Discount[k - t] * Error(k)]
<1>2. N \in Nat \ {0} /\ Len(rows) = N /\ local_step \in Nat
  BY DEF FollowedInv, RowsInv, TypeOK
<1>3. last \in [Envs -> Int]
  BY <1>2 DEF FollowedInv, RowsInv, IntegerCritic
<1>4. /\ advantages = Gae(last)
      /\ Gae(last) \in [1 .. N -> [Envs -> Int]]
      /\ \A k \in 1 .. N : Gae(last)[k] = GaeStep(last, k, Gae(last)[k + 1])
  <2>1. advantages = Gae(last) /\ rows \in Seq(Row)
    BY DEF FollowedInv, RowsInv
  <2> HIDE DEF last
  <2>2. QED
    BY <1>2, <1>3, <2>1, GaeEquation
<1>5. /\ m \in t .. N
      /\ m # N => rows[m].dones[i]
      /\ \A k \in t .. m - 1 : ~ rows[k].dones[i]
  <2>1. ends \subseteq Nat /\ ends # {}
    BY <1>2
  <2>2. PICK n \in ends : \A k \in ends : n <= k
    <3> HIDE DEF ends
    <3>1. QED
      BY <2>1, LeastNumber
  <2>3. m \in ends /\ \A k \in ends : m <= k
    <3> HIDE DEF ends
    <3>1. QED
      BY <2>2 DEF Min
  <2> HIDE DEF m
  <2>4. m \in t .. N /\ (m # N => rows[m].dones[i])
    BY <1>2, <2>3
  <2>5. ASSUME NEW k \in t .. m - 1 PROVE ~ rows[k].dones[i]
    <3>1. k \in t .. N /\ ~ (m <= k)
      BY <1>2, <2>4
    <3>2. k \notin ends
      <4> HIDE DEF ends
      <4>1. QED
        BY <2>3, <3>1
    <3>3. QED
      BY <3>1, <3>2
  <2>6. QED
    BY <2>4, <2>5
<1> HIDE DEF m
<1>6. t \in Nat /\ m \in Nat /\ t <= m /\ m <= N
  BY <1>2, <1>5
<1>7. ASSUME NEW k \in 1 .. N
      PROVE  /\ rows[k].obs[i] \in Observations
             /\ rows[k].rewards[i] \in Int
             /\ rows[k].values[i] = V(k)
             /\ V(k) \in Int
             /\ ~ rows[k].dones[i] => /\ After(k)[i] = [rows[k].obs[i] EXCEPT !.step = @ + 1]
                                      /\ After(k)[i] \in Observations
                                      /\ VNext(k) = IF k = N THEN last[i] ELSE rows[k + 1].values[i]
             /\ VNext(k) \in Int
  <2>1. rows[k] \in Row /\ (k # N => rows[k + 1] \in Row)
    BY <1>2 DEF FollowedInv, RowsInv
  <2>2. rows[k].obs[i] \in Observations /\ rows[k].rewards[i] \in Int
    BY <2>1 DEF Row
  <2>3. /\ rows[k].values[i] = V(k)
        /\ ~ rows[k].dones[i] => After(k)[i] = [rows[k].obs[i] EXCEPT !.step = @ + 1]
    BY <1>2 DEF FollowedInv
  <2>4. V(k) \in Int
    BY <1>2, <2>2 DEF IntegerCritic
  <2>5. After(k)[i] \in Observations
    <3>1. obs[i] \in Observations
      BY DEF FollowedInv, RowsInv
    <3>2. k # N => rows[k + 1].obs[i] \in Observations
      BY <2>1 DEF Row
    <3>3. QED
      BY <1>2, <3>1, <3>2 DEF After
  <2>6. Critic(local_step, After(k)[i]) = IF k = N THEN last[i] ELSE rows[k + 1].values[i]
    <3>1. CASE k = N
      BY <1>2, <3>1 DEF After
    <3>2. CASE k # N
      <4>1. k + 1 \in 1 .. Len(rows)
        BY <1>2, <3>2
      <4>2. rows[k + 1].values[i] = Critic(local_step, rows[k + 1].obs[i])
        BY <4>1 DEF FollowedInv
      <4>3. QED
        BY <1>2, <3>2, <4>2 DEF After
    <3>3. QED
      BY <3>1, <3>2
  <2>7. ~ rows[k].dones[i] => VNext(k) = Critic(local_step, After(k)[i])
    BY <2>3
  <2>8. VNext(k) \in Int
    <3>1. Critic(local_step, After(k)[i]) \in Int
      BY <1>2, <2>5 DEF IntegerCritic
    <3>2. rows[k].dones[i] => VNext(k) = 0
      OBVIOUS
    <3> HIDE DEF VNext
    <3>3. QED
      BY <2>7, <3>1, <3>2
  <2> HIDE DEF V, VNext, last
  <2>9. QED
    BY <2>2, <2>3, <2>4, <2>5, <2>6, <2>7, <2>8
<1>8. ASSUME NEW k \in 1 .. N
      PROVE  /\ Error(k) \in Int
             /\ k = N \/ rows[k].dones[i] => Gae(last)[k][i] = Error(k)
             /\ k # N /\ ~ rows[k].dones[i] =>
                  Gae(last)[k][i] = Error(k) + Gamma * Lambda * Gae(last)[k + 1][i]
  <2> DEFINE next == IF k = Len(rows) THEN last[i] ELSE rows[k + 1].values[i]
             live == IF rows[k].dones[i] THEN 0 ELSE 1
             delta == rows[k].rewards[i] + Gamma * next * live - rows[k].values[i]
             rest == IF k = Len(rows) THEN 0 ELSE Gamma * Lambda * live * Gae(last)[k + 1][i]
  <2>1. Gae(last)[k][i] = delta + rest
    <3> HIDE DEF last
    <3>1. Gae(last)[k] = GaeStep(last, k, Gae(last)[k + 1])
      BY <1>4
    <3>2. QED
      BY <3>1 DEF GaeStep
  <2>2. VNext(k) \in Int /\ rows[k].rewards[i] \in Int /\ V(k) \in Int
    BY <1>7
  <2>3. \A a, b \in Int : a * b \in Int
    OBVIOUS
  <2>4. Gamma * VNext(k) \in Int /\ Gamma * Lambda \in Int
    BY <2>2, <2>3
  <2>5. Error(k) \in Int
    <3> HIDE DEF V, VNext
    <3>1. QED
      BY <2>2, <2>4
  <2>6. next \in Int
    <3>1. last[i] \in Int
      BY <1>3
    <3>2. k # N => rows[k + 1].values[i] \in Int
      <4>1. k # N => k + 1 \in 1 .. N
        BY <1>2
      <4>2. k # N => rows[k + 1].values[i] = V(k + 1) /\ V(k + 1) \in Int
        <5> HIDE DEF V, VNext
        <5>1. QED
          BY <1>7, <4>1
      <4>3. QED
        BY <4>2
    <3>3. QED
      BY <1>2, <3>1, <3>2
  <2>7. delta = Error(k)
    <3>1. CASE rows[k].dones[i]
      <4>1. live = 0 /\ VNext(k) = 0
        BY <3>1
      <4>2. \A a \in Int : a * 0 = 0
        OBVIOUS
      <4>3. Gamma * next * live = 0 /\ Gamma * VNext(k) = 0
        <5>1. Gamma * next \in Int
          BY <2>3, <2>6
        <5> HIDE DEF next, VNext, live
        <5>2. QED
          BY <4>1, <4>2, <5>1
      <4>4. rows[k].values[i] = V(k)
        BY <1>7
      <4> HIDE DEF next, live, V, VNext
      <4>5. QED
        BY <4>3, <4>4
    <3>2. CASE ~ rows[k].dones[i]
      <4>1. live = 1 /\ VNext(k) = next /\ rows[k].values[i] = V(k)
        BY <1>2, <1>7, <3>2
      <4>2. \A a \in Int : a * 1 = a
        OBVIOUS
      <4>3. Gamma * next * live = Gamma * VNext(k)
        <5> HIDE DEF next, VNext, live
        <5>1. QED
          BY <2>4, <4>1, <4>2
      <4> HIDE DEF next, live, V, VNext
      <4>4. QED
        BY <4>1, <4>3
    <3>3. QED
      BY <3>1, <3>2
  <2>8. ASSUME k = N \/ rows[k].dones[i] PROVE rest = 0
    <3>1. CASE k = N
      BY <1>2, <3>1
    <3>2. CASE k # N
      <4>1. k + 1 \in 1 .. N /\ live = 0
        BY <1>2, <2>8, <3>2
      <4>2. Gae(last)[k + 1][i] \in Int
        <5> HIDE DEF last
        <5>1. QED
          BY <1>4, <4>1
      <4>3. \A a, b \in Int : a * 0 * b = 0
        OBVIOUS
      <4> HIDE DEF live, last
      <4>4. Gamma * Lambda * live * Gae(last)[k + 1][i] = 0
        BY <2>4, <4>1, <4>2, <4>3
      <4>5. QED
        BY <4>4
    <3>3. QED
      BY <3>1, <3>2
  <2>9. ASSUME k # N, ~ rows[k].dones[i]
        PROVE  rest = Gamma * Lambda * Gae(last)[k + 1][i]
    <3>1. live = 1 /\ k # Len(rows)
      BY <1>2, <2>9
    <3>2. \A a \in Int : a * 1 = a
      OBVIOUS
    <3> HIDE DEF live, last
    <3>3. QED
      BY <2>4, <3>1, <3>2
  <2> HIDE DEF delta, rest, Error, last
  <2>10. QED
    BY <2>1, <2>5, <2>7, <2>8, <2>9
<1> DEFINE D == [n \in 0 .. m - t |-> Discount[n]]
           error == [k \in t .. m |-> Error(k)]
           A == [k \in t .. m |-> Gae(last)[k][i]]
           c == Gamma * Lambda
<1>9. g = [k \in t .. m |-> D[k - t] * error[k]]
  <2>1. \A k \in t .. m : k - t \in 0 .. m - t
    BY <1>6
  <2> HIDE DEF Error
  <2>2. QED
    BY <2>1
<1>10. Sum(g, t .. m) = A[t]
  <2>1. c \in Int
    <3>1. \A a, b \in Int : a * b \in Int
      OBVIOUS
    <3>2. QED
      BY <3>1
  <2>2. /\ D \in [0 .. m - t -> Int] /\ D[0] = 1
        /\ \A n \in 1 .. m - t : D[n] = c * D[n - 1]
    <3>1. \A n \in 0 .. m - t : n \in 0 .. RolloutLength
      BY <1>6
    <3>2. \A n \in 1 .. m - t : n \in 1 .. RolloutLength /\ n \in 0 .. m - t /\ n - 1 \in 0 .. m - t
      BY <1>6
    <3>3. 0 \in 0 .. m - t
      BY <1>6
    <3>4. QED
      BY <3>1, <3>2, <3>3, DiscountFacts
  <2>3. \A k \in t .. m : k \in 1 .. N
    BY <1>6
  <2>4. error \in [t .. m -> Int] /\ A \in [t .. m -> Int]
    <3> HIDE DEF Error, last
    <3>1. QED
      BY <1>4, <1>8, <2>3
  <2>5. A[m] = error[m]
    <3>1. m \in t .. m
      BY <1>6
    <3> HIDE DEF Error, last
    <3>2. QED
      BY <1>5, <1>8, <2>3, <3>1
  <2>6. ASSUME NEW k \in t .. m - 1 PROVE A[k] = error[k] + c * A[k + 1]
    <3>1. k \in t .. m /\ k + 1 \in t .. m /\ k \in 1 .. N /\ k # N /\ ~ rows[k].dones[i]
      BY <1>5, <1>6
    <3> HIDE DEF Error, last
    <3>2. QED
      BY <1>8, <3>1
  <2> HIDE DEF D, error, A, c, g
  <2>7. Discounts(t, m, c, D, error, A)
    BY <1>6, <2>1, <2>2, <2>4, <2>5, <2>6 DEF Discounts
  <2>8. QED
    BY <1>9, <2>7, Discounting
<1>11. advantages[t][i] = Sum(g, t .. m)
  <2>1. t \in t .. m
    BY <1>6
  <2>2. A[t] = Gae(last)[t][i]
    BY <2>1
  <2> HIDE DEF g, last, A, D, error
  <2>3. QED
    BY <1>4, <1>10, <2>2
<1>12. MapThenSumSet(Term, t .. m) = Sum(g, t .. m)
  <2> DEFINE S == t .. m
             Adds(f) == f = [s \in SUBSET S |-> IF s = {} THEN 0
                               ELSE Discount[Some(s) - t] * Error(Some(s)) + f[s \ {Some(s)}]]
             f == CHOOSE f : Adds(f)
  <2>1. MapThenSumSet(Term, S) = f[S]
    <3> HIDE DEF Error, S
    <3>1. QED
      BY DEF MapThenSumSet, MapThenFoldSet, Some
  <2>2. \A e : Adds(e) <=> Sums(e, g, S)
    <3>1. \A s \in SUBSET S : s # {} => Some(s) \in S
      BY DEF Some
    <3>2. \A s \in SUBSET S : s # {} => g[Some(s)] = Discount[Some(s) - t] * Error(Some(s))
      <4> HIDE DEF Error
      <4>1. QED
        BY <3>1
    <3> HIDE DEF g, S, Error
    <3>3. ASSUME NEW e PROVE Adds(e) <=> Sums(e, g, S)
      <4>1. [s \in SUBSET S |-> IF s = {} THEN 0
                      ELSE Discount[Some(s) - t] * Error(Some(s)) + e[s \ {Some(s)}]]
              = [s \in SUBSET S |-> IF s = {} THEN 0 ELSE g[Some(s)] + e[s \ {Some(s)}]]
        BY <3>2
      <4>2. QED
        BY <4>1 DEF Sums
    <3>4. QED
      BY <3>3
  <2>3. IsFiniteSet(S) /\ \A k \in S : g[k] \in Int
    <3>1. IsFiniteSet(S)
      BY <1>6, FS_Interval
    <3>2. \A k \in S : k - t \in 0 .. m - t /\ k \in 1 .. N /\ k - t \in 0 .. RolloutLength
      BY <1>6
    <3>3. \A a, b \in Int : a * b \in Int
      OBVIOUS
    <3>4. ASSUME NEW k \in S PROVE g[k] \in Int
      <4>1. Discount[k - t] \in Int
        BY <3>2, DiscountFacts
      <4>2. Error(k) \in Int
        BY <1>8, <3>2
      <4>3. g[k] = Discount[k - t] * Error(k)
        <5> HIDE DEF Error
        <5>1. QED
          OBVIOUS
      <4> HIDE DEF g, Error
      <4>4. QED
        BY <3>3, <4>1, <4>2, <4>3
    <3>5. QED
      BY <3>1, <3>4
  <2> HIDE DEF S, g, Adds
  <2>4. PICK e : Sums(e, g, S)
    BY <2>3, SumsExist
  <2>5. Sums(f, g, S)
    BY <2>2, <2>4
  <2>6. f[S] = Sum(g, S)
    BY <2>3, <2>5, SumFacts
  <2>7. QED
    BY <2>1, <2>6 DEF S
<1>13. advantages[t][i] = MapThenSumSet(Term, t .. m)
  BY <1>11, <1>12
<1>14. QED
  BY <1>13 DEF m

\* The first rollout begins with an empty buffer.
LEMMA FollowedInit == Init => FollowedInv
<1> SUFFICES ASSUME Init PROVE FollowedInv
  OBVIOUS
<1>1. RowsInv
  BY RowsInit
<1>2. rows = <<>> /\ phase = "collect" /\ \A i \in Envs : obs[i] = Observe(i, envs[i])
  BY DEF Init
<1>3. Len(rows) = 0
  BY <1>2
<1>4. QED
  BY <1>1, <1>2, <1>3 DEF FollowedInv

\* A row added to the buffer follows the row before it.
LEMMA FollowedCollect == ASSUME FollowedInv, Collect PROVE FollowedInv'
<1>1. PICK outcome \in [Envs -> ENVS[task]] :
        /\ envs' = VecStep(outcome).envs
        /\ obs' = VecStep(outcome).obs
        /\ rows' = Append(rows, [obs |-> obs, rewards |-> [i \in Envs |-> outcome[i].reward],
                                 dones |-> VecStep(outcome).dones,
                                 values |-> [i \in Envs |-> Critic(local_step, obs[i])]])
  BY Zenon DEF Collect
<1>2. phase = "collect" /\ phase' = phase /\ local_step' = local_step
  BY DEF Collect
<1>3. RowsInv /\ RowsInv'
  <2>1. [Next]_vars
    BY DEF Next
  <2>2. QED
    BY <2>1, RowsStep DEF FollowedInv
<1> DEFINE next == [i \in Envs |-> Stepped(envs[i])]
           dones == [i \in Envs |-> Done(next[i], outcome[i])]
           after == [i \in Envs |-> IF dones[i] THEN Reset(next[i]) ELSE next[i]]
           row == [obs |-> obs, rewards |-> [i \in Envs |-> outcome[i].reward],
                   dones |-> dones, values |-> [i \in Envs |-> Critic(local_step, obs[i])]]
           n == Len(rows)
<1>4. VecStep(outcome) = [envs |-> after, obs |-> [i \in Envs |-> Observe(i, after[i])],
                          dones |-> dones]
  BY DEF VecStep
<1>5. /\ envs' = after /\ obs' = [i \in Envs |-> Observe(i, after[i])]
      /\ rows' = Append(rows, row)
  <2> HIDE DEF after, dones
  <2>1. QED
    BY <1>1, <1>4
<1>6. /\ n \in Nat /\ Len(rows') = n + 1 /\ rows'[n + 1] = row
      /\ \A k \in 1 .. n : rows'[k] = rows[k]
  <2> HIDE DEF row
  <2>1. QED
    BY <1>3, <1>5 DEF RowsInv
<1>7. \A i \in Envs : obs'[i] = Observe(i, envs'[i])
  BY <1>5
<1>8. ASSUME NEW i \in Envs, ~ dones[i]
      PROVE  obs'[i] = [obs[i] EXCEPT !.step = @ + 1]
  <2>1. obs[i] = Observe(i, envs[i]) /\ obs'[i] = Observe(i, Stepped(envs[i]))
    BY <1>5, <1>8 DEF FollowedInv
  <2>2. envs[i] \in [episode : Nat \ {0}, step_count : 0 .. StepLimit - 1]
    BY <1>3 DEF RowsInv, TypeOK
  <2>3. QED
    BY <2>1, <2>2 DEF Observe, Stepped
<1>9. ASSUME NEW k \in 1 .. n + 1, NEW i \in Envs
      PROVE  /\ rows'[k].values[i] = Critic(local_step, rows'[k].obs[i])
             /\ ~ rows'[k].dones[i] => (After(k)')[i] = [rows'[k].obs[i] EXCEPT !.step = @ + 1]
  <2>1. CASE k = n + 1
    <3>1. rows'[k] = row /\ After(k)' = obs'
      BY <1>6, <2>1 DEF After
    <3>2. /\ row.values[i] = Critic(local_step, row.obs[i])
          /\ row.dones[i] = dones[i] /\ row.obs[i] = obs[i]
      OBVIOUS
    <3> HIDE DEF row, dones
    <3>3. QED
      BY <1>8, <3>1, <3>2
  <2>2. CASE k # n + 1
    <3>1. k \in 1 .. n /\ rows'[k] = rows[k]
      BY <1>6, <2>2
    <3>2. (After(k)')[i] = After(k)[i]
      <4>1. CASE k = n
        <5>1. After(k)' = row.obs
          BY <1>6, <4>1 DEF After
        <5>2. QED
          BY <4>1, <5>1 DEF After
      <4>2. CASE k # n
        <5>1. k + 1 \in 1 .. n
          BY <1>6, <3>1, <4>2
        <5> HIDE DEF row
        <5>2. QED
          BY <1>6, <3>1, <4>2, <5>1 DEF After
      <4>3. QED
        BY <4>1, <4>2
    <3>3. /\ rows[k].values[i] = Critic(local_step, rows[k].obs[i])
          /\ ~ rows[k].dones[i] => After(k)[i] = [rows[k].obs[i] EXCEPT !.step = @ + 1]
      BY <1>2, <3>1 DEF FollowedInv
    <3>4. QED
      BY <3>1, <3>2, <3>3
  <2>3. QED
    BY <2>1, <2>2
<1>10. QED
  <2> HIDE DEF n, row
  <2>1. phase' # "update"
    BY <1>2
  <2>2. \A k \in 1 .. Len(rows'), i \in Envs :
          /\ rows'[k].values[i] = Critic(local_step', rows'[k].obs[i])
          /\ ~ rows'[k].dones[i] => (After(k)')[i] = [rows'[k].obs[i] EXCEPT !.step = @ + 1]
    BY <1>2, <1>6, <1>9
  <2>3. QED
    BY <1>3, <1>7, <2>1, <2>2 DEF FollowedInv

\* The update leaves the rows alone, and the next rollout begins with an empty buffer.
LEMMA FollowedStep == ASSUME FollowedInv, [Next]_vars PROVE FollowedInv'
<1>1. RowsInv'
  BY RowsStep DEF FollowedInv
<1>2. CASE Collect
  BY <1>2, FollowedCollect
<1>3. CASE ComputeGae
  <2>1. /\ phase = "collect" /\ phase' = "update" /\ Len(rows) = RolloutLength
        /\ advantages' = Gae([i \in Envs |-> Critic(local_step, obs[i])])
    BY <1>3 DEF ComputeGae
  <2>2. UNCHANGED <<envs, obs, rows, local_step>>
    BY <1>3 DEF ComputeGae, envVars
  <2>3. (Gae([i \in Envs |-> Critic(local_step, obs[i])]))'
          = Gae([i \in Envs |-> Critic(local_step, obs[i])])
    BY <2>2 DEF Gae
  <2>4. \A k : After(k)' = After(k)
    BY <2>2 DEF After
  <2>5. QED
    BY <1>1, <2>1, <2>2, <2>3, <2>4 DEF FollowedInv
<1>4. CASE Train \/ FinishEpoch \/ UNCHANGED vars
  <2>1. /\ UNCHANGED <<envs, obs, rows, advantages, local_step>>
        /\ phase' = phase \/ phase' = "ship"
    BY <1>4 DEF Train, FinishEpoch, vars, envVars, updateVars
  <2>2. (Gae([i \in Envs |-> Critic(local_step, obs[i])]))'
          = Gae([i \in Envs |-> Critic(local_step, obs[i])])
    BY <2>1 DEF Gae
  <2>3. \A k : After(k)' = After(k)
    BY <2>1 DEF After
  <2>4. QED
    BY <1>1, <2>1, <2>2, <2>3 DEF FollowedInv
<1>5. CASE Ship
  <2>1. rows' = <<>> /\ UNCHANGED <<envs, obs>> /\ phase' # "update"
    BY <1>5 DEF Ship
  <2>2. Len(rows') = 0
    BY <2>1
  <2>3. QED
    BY <1>1, <2>1, <2>2 DEF FollowedInv
<1>6. QED
  BY <1>2, <1>3, <1>4, <1>5 DEF Next

\* Every advantage is the discounted sum of the errors of its own environment up to the
\* end of its episode or of the rollout, for every length, number of environments,
\* gamma and lambda, and every critic whose values are numbers (add, compute_gae).
THEOREM Advantages == ASSUME IntegerCritic PROVE Spec => []AdvantagesPerEnv
<1>1. FollowedInv /\ [Next]_vars => FollowedInv'
  BY FollowedStep
<1>2. FollowedInv => AdvantagesPerEnv
  BY SumOfAdvantages DEF AdvantagesPerEnv
<1>3. QED
  BY FollowedInit, <1>1, <1>2, PTL DEF Spec
-----------------------------------------------------------------------------
(* Episodes.                                                                *)

\* A nonempty set of numbers up to n has a greatest element, which Max chooses.
LEMMA GreatestNumber ==
    ASSUME NEW n \in Nat, NEW T \in SUBSET (0 .. n), T # {}
    PROVE  Max(T) \in T /\ \A k \in T : k <= Max(T)
<1> DEFINE S == {n - k : k \in T}
<1>1. S \in SUBSET Nat /\ S # {}
  <2>1. \A k \in T : n - k \in Nat
    OBVIOUS
  <2>2. QED
    BY <2>1
<1>2. PICK j \in S : \A k \in S : j <= k
  <2> HIDE DEF S
  <2>1. QED
    BY <1>1, LeastNumber
<1>3. PICK m \in T : j = n - m
  OBVIOUS
<1>4. \A k \in T : m >= k
  <2>1. ASSUME NEW k \in T PROVE m >= k
    <3>1. n - m <= n - k
      BY <1>2, <1>3
    <3>2. QED
      BY <3>1
  <2>2. QED
    BY <2>1
<1>5. \E x \in T : \A k \in T : x >= k
  BY <1>4
<1>6. Max(T) \in T /\ \A k \in T : Max(T) >= k
  BY <1>5 DEF Max
<1>7. QED
  BY <1>6

\* An entry of the log.
Step == [rewards : [Envs -> Int], dones : [Envs -> BOOLEAN]]

\* The step that the episode of step t began with, and the rewards of an environment.
First(steps, t, i) == 1 + Max({0} \cup {k \in 1 .. t - 1 : steps[k].dones[i]})
Paid(steps, i) == [k \in DOMAIN steps |-> steps[k].rewards[i]]
\* The return so far of the episode that environment i is in after these steps.
Open(steps, i) == Sum(Paid(steps, i), First(steps, Len(steps) + 1, i) .. Len(steps))

\* An episode begins after the last step that ended one.
LEMMA FirstFacts ==
    ASSUME NEW steps \in Seq(Step), NEW t \in 1 .. Len(steps) + 1, NEW i \in Envs
    PROVE  First(steps, t, i) \in 1 .. t
<1> DEFINE T == {0} \cup {k \in 1 .. t - 1 : steps[k].dones[i]}
<1>1. T \in SUBSET (0 .. t - 1) /\ T # {} /\ t - 1 \in Nat
  OBVIOUS
<1>2. Max(T) \in 0 .. t - 1
  <2> HIDE DEF T
  <2>1. Max(T) \in T
    BY <1>1, GreatestNumber
  <2>2. QED
    BY <1>1, <2>1
<1>3. QED
  BY <1>2 DEF First

\* What an episode paid is the sum of the rewards from its first step on.
LEMMA TotalIsSum ==
    ASSUME NEW steps \in Seq(Step), NEW t \in 1 .. Len(steps), NEW i \in Envs
    PROVE  Total(steps, t, i) = Sum(Paid(steps, i), First(steps, t, i) .. t)
<1> DEFINE S == First(steps, t, i) .. t
           g == Paid(steps, i)
           Term(k) == steps[k].rewards[i]
           Adds(f) == f = [s \in SUBSET S |-> IF s = {} THEN 0
                             ELSE steps[Some(s)].rewards[i] + f[s \ {Some(s)}]]
           f == CHOOSE f : Adds(f)
<1>1. Total(steps, t, i) = MapThenSumSet(Term, S)
  BY DEF Total, First
<1>2. MapThenSumSet(Term, S) = f[S]
  <2> HIDE DEF S
  <2>1. QED
    BY DEF MapThenSumSet, MapThenFoldSet, Some
<1>3. S \subseteq 1 .. Len(steps) /\ IsFiniteSet(S) /\ t \in Int
  <2>1. First(steps, t, i) \in 1 .. t
    BY FirstFacts
  <2>2. t \in Int /\ First(steps, t, i) \in Int /\ S \subseteq 1 .. Len(steps)
    BY <2>1
  <2>3. IsFiniteSet(S)
    BY <2>2, FS_Interval
  <2>4. QED
    BY <2>2, <2>3
<1>4. \A k \in S : g[k] = steps[k].rewards[i] /\ g[k] \in Int
  <2> HIDE DEF S
  <2>1. \A k \in 1 .. Len(steps) : k \in DOMAIN steps /\ steps[k] \in Step
    OBVIOUS
  <2>2. QED
    BY <1>3, <2>1 DEF Paid, Step
<1> HIDE DEF S, g
<1>5. \A e : Adds(e) <=> Sums(e, g, S)
  <2>1. \A s \in SUBSET S : s # {} => g[Some(s)] = steps[Some(s)].rewards[i]
    BY <1>4 DEF Some
  <2>2. ASSUME NEW e PROVE Adds(e) <=> Sums(e, g, S)
    <3>1. [s \in SUBSET S |-> IF s = {} THEN 0
                    ELSE steps[Some(s)].rewards[i] + e[s \ {Some(s)}]]
            = [s \in SUBSET S |-> IF s = {} THEN 0 ELSE g[Some(s)] + e[s \ {Some(s)}]]
      BY <2>1
    <3>2. QED
      BY <3>1 DEF Sums
  <2>3. QED
    BY <2>2
<1> HIDE DEF Adds
<1>6. PICK e : Sums(e, g, S)
  BY <1>3, <1>4, SumsExist
<1>7. Sums(f, g, S)
  BY <1>5, <1>6
<1>8. f[S] = Sum(g, S)
  BY <1>3, <1>4, <1>7, SumFacts
<1>9. QED
  BY <1>1, <1>2, <1>8 DEF S, g

\* One step more leaves the episodes that have ended as they were; it adds its reward to
\* the open episode, and closes it if it is done.
LEMMA AppendedStep ==
    ASSUME NEW steps \in Seq(Step), NEW e \in Step, NEW i \in Envs,
           NEW more, more = Append(steps, e)
    PROVE  /\ \A t \in 1 .. Len(steps) : Total(more, t, i) = Total(steps, t, i)
           /\ Total(more, Len(steps) + 1, i) = Open(steps, i) + e.rewards[i]
           /\ Open(more, i) = IF e.dones[i] THEN 0 ELSE Open(steps, i) + e.rewards[i]
           /\ Open(steps, i) \in Int
<1> DEFINE n == Len(steps)
<1>1. /\ n \in Nat /\ more \in Seq(Step) /\ Len(more) = n + 1 /\ more[n + 1] = e
      /\ \A k \in 1 .. n : more[k] = steps[k]
      /\ DOMAIN steps = 1 .. n /\ DOMAIN more = 1 .. n + 1
  OBVIOUS
<1> HIDE DEF n
<1>2. \A t \in 1 .. n + 1 : First(more, t, i) = First(steps, t, i)
  <2>1. ASSUME NEW t \in 1 .. n + 1 PROVE First(more, t, i) = First(steps, t, i)
    <3>1. {k \in 1 .. t - 1 : more[k].dones[i]} = {k \in 1 .. t - 1 : steps[k].dones[i]}
      <4>1. \A k \in 1 .. t - 1 : more[k] = steps[k]
        BY <1>1
      <4>2. QED
        BY <4>1
    <3>2. QED
      BY <3>1 DEF First
  <2>2. QED
    BY <2>1
<1>3. \A k \in 1 .. n : Paid(steps, i)[k] \in Int /\ Paid(more, i)[k] = Paid(steps, i)[k]
  <2>1. \A k \in 1 .. n : steps[k] \in Step /\ k \in 1 .. n + 1
    BY <1>1 DEF n
  <2>2. QED
    BY <1>1, <2>1 DEF Paid, Step
<1>4. Paid(more, i)[n + 1] = e.rewards[i] /\ e.rewards[i] \in Int
  <2>1. n + 1 \in 1 .. n + 1
    BY <1>1
  <2>2. QED
    BY <1>1, <2>1 DEF Paid, Step
<1>5. ASSUME NEW S \in SUBSET (1 .. n)
      PROVE  /\ IsFiniteSet(S) /\ Sum(Paid(steps, i), S) \in Int
             /\ Sum(Paid(more, i), S) = Sum(Paid(steps, i), S)
  <2>1. IsFiniteSet(1 .. n)
    <3>1. 1 \in Int /\ n \in Int
      BY <1>1
    <3>2. QED
      BY <3>1, FS_Interval
  <2>2. IsFiniteSet(S)
    BY <2>1, FS_Subset
  <2>3. \A k \in S : Paid(steps, i)[k] \in Int /\ Paid(more, i)[k] = Paid(steps, i)[k]
    BY <1>3
  <2>4. Sum(Paid(steps, i), S) \in Int
    BY <2>2, <2>3, SumFacts
  <2>5. Sum(Paid(more, i), S) = Sum(Paid(steps, i), S)
    BY <2>2, <2>3, SumCongruence
  <2>6. QED
    BY <2>2, <2>4, <2>5
<1>6. ASSUME NEW t \in 1 .. n PROVE Total(more, t, i) = Total(steps, t, i)
  <2>1. First(steps, t, i) .. t \in SUBSET (1 .. n) /\ First(more, t, i) = First(steps, t, i)
    <3>1. First(steps, t, i) \in 1 .. t
      BY <1>1, FirstFacts DEF n
    <3>2. QED
      BY <1>1, <1>2, <3>1
  <2>2. /\ Total(steps, t, i) = Sum(Paid(steps, i), First(steps, t, i) .. t)
        /\ Total(more, t, i) = Sum(Paid(more, i), First(more, t, i) .. t)
    <3>1. t \in 1 .. Len(steps) /\ t \in 1 .. Len(more)
      BY <1>1 DEF n
    <3>2. QED
      BY <1>1, <3>1, TotalIsSum
  <2>3. QED
    BY <1>5, <2>1, <2>2
<1> DEFINE first == First(steps, n + 1, i)
           S == first .. n
<1>7. first \in 1 .. n + 1 /\ S \in SUBSET (1 .. n) /\ first .. n + 1 = S \cup {n + 1}
      /\ n + 1 \in first .. n + 1 /\ (first .. n + 1) \ {n + 1} = S
  <2>1. first \in 1 .. n + 1
    <3>1. n + 1 \in 1 .. n + 1
      BY <1>1
    <3>2. QED
      BY <3>1, FirstFacts DEF n
  <2> HIDE DEF first
  <2>2. QED
    BY <1>1, <2>1
<1>8. Open(steps, i) = Sum(Paid(steps, i), S) /\ Open(steps, i) \in Int
  BY <1>5, <1>7 DEF Open, n
<1>9. Sum(Paid(more, i), first .. n + 1) = Open(steps, i) + e.rewards[i]
  <2> DEFINE U == first .. n + 1
             g == Paid(more, i)
  <2>1. IsFiniteSet(U) /\ n + 1 \in U /\ U \ {n + 1} = S
    <3>1. first \in Int /\ n + 1 \in Int
      BY <1>1, <1>7
    <3>2. IsFiniteSet(first .. n + 1)
      <4> HIDE DEF first
      <4>1. QED
        BY <3>1, FS_Interval
    <3>3. QED
      BY <1>7, <3>2
  <2>2. \A k \in U : g[k] \in Int
    <3>1. \A k \in S : g[k] \in Int
      <4> HIDE DEF S
      <4>1. QED
        BY <1>3, <1>7
    <3>2. QED
      BY <1>4, <1>7, <3>1
  <2> HIDE DEF U, S, g
  <2>3. Sum(g, U) = g[n + 1] + Sum(g, S)
    BY <2>1, <2>2, SumFacts
  <2>4. Sum(g, S) = Open(steps, i)
    BY <1>5, <1>7, <1>8 DEF g
  <2>5. QED
    BY <1>4, <1>8, <2>3, <2>4 DEF U, g
<1>10. Total(more, n + 1, i) = Open(steps, i) + e.rewards[i]
  <2>1. n + 1 \in 1 .. Len(more) /\ n + 1 \in 1 .. n + 1
    BY <1>1
  <2>2. QED
    BY <1>1, <1>2, <1>9, <2>1, TotalIsSum
<1>11. Open(more, i) = IF e.dones[i] THEN 0 ELSE Open(steps, i) + e.rewards[i]
  <2> DEFINE T == {k \in 1 .. n + 1 : more[k].dones[i]}
             B == {k \in 1 .. n : steps[k].dones[i]}
  <2>1. /\ First(more, n + 2, i) = 1 + Max({0} \cup T)
        /\ first = 1 + Max({0} \cup B)
    <3>1. (n + 2) - 1 = n + 1 /\ (n + 1) - 1 = n
      BY <1>1
    <3>2. QED
      BY <3>1 DEF First
  <2>2. Open(more, i) = Sum(Paid(more, i), First(more, n + 2, i) .. n + 1)
    <3>1. Len(more) = n + 1 /\ (n + 1) + 1 = n + 2
      BY <1>1
    <3>2. QED
      BY <3>1 DEF Open
  <2>3. CASE e.dones[i]
    <3>1. {0} \cup T \in SUBSET (0 .. n + 1) /\ {0} \cup T # {} /\ n + 1 \in {0} \cup T
      BY <1>1, <2>3
    <3>2. Max({0} \cup T) = n + 1
      <4> HIDE DEF T
      <4>1. n + 1 \in Nat
        BY <1>1
      <4>2. Max({0} \cup T) \in {0} \cup T /\ \A k \in {0} \cup T : k <= Max({0} \cup T)
        BY <3>1, <4>1, GreatestNumber
      <4>3. Max({0} \cup T) \in 0 .. n + 1 /\ n + 1 <= Max({0} \cup T)
        BY <3>1, <4>2
      <4>4. QED
        BY <1>1, <4>3
    <3>3. First(more, n + 2, i) .. n + 1 = {}
      <4>1. First(more, n + 2, i) = n + 2
        <5> HIDE DEF T, first
        <5>1. QED
          BY <1>1, <2>1, <3>2
      <4>2. (n + 2) .. n + 1 = {}
        BY <1>1
      <4>3. QED
        BY <4>1, <4>2
    <3>4. Sum(Paid(more, i), {}) = 0
      <4>1. IsFiniteSet({}) /\ \A k \in {} : Paid(more, i)[k] \in Int
        BY FS_EmptySet
      <4>2. QED
        BY <4>1, SumFacts
    <3>5. QED
      BY <2>2, <2>3, <3>3, <3>4
  <2>4. CASE ~ e.dones[i]
    <3>1. T = B
      BY <1>1, <2>4
    <3>2. First(more, n + 2, i) = first
      BY <2>1, <3>1
    <3>3. QED
      BY <1>9, <2>2, <2>4, <3>2
  <2>5. QED
    BY <2>3, <2>4
<1>12. QED
  BY <1>6, <1>8, <1>10, <1>11 DEF n
\* FlattenSeq concatenates from the left.
Concatenating(seqs, T) == [k \in 1 .. Len(seqs) |-> [v \in Seq(T) |-> v \o seqs[k]]]

\* The concatenation of a sequence of sequences is the result of a loop ...
LEMMA FlatIterates ==
    ASSUME NEW T, NEW seqs \in Seq(Seq(T))
    PROVE  \E f : Iteration(f, Len(seqs), Seq(T), <<>>, Concatenating(seqs, T))
<1> DEFINE step == Concatenating(seqs, T)
           V == Seq(T)
<1>1. step \in [1 .. Len(seqs) -> [V -> V]]
  <2>1. ASSUME NEW k \in 1 .. Len(seqs), NEW v \in V PROVE v \o seqs[k] \in V
    <3>1. seqs[k] \in Seq(T)
      OBVIOUS
    <3>2. QED
      BY <3>1, ConcatProperties
  <2>2. QED
    BY <2>1 DEF Concatenating
<1>2. Len(seqs) \in Nat /\ <<>> \in V
  BY EmptySeq
<1> HIDE DEF step, V
<1>3. \E f : Iteration(f, Len(seqs), V, <<>>, step)
  BY <1>1, <1>2, Iterates
<1>4. QED
  BY <1>3 DEF step, V

\* ... and FlattenSeq returns that result.
LEMMA FlatIs ==
    ASSUME NEW T, NEW seqs \in Seq(Seq(T)),
           NEW f, Iteration(f, Len(seqs), Seq(T), <<>>, Concatenating(seqs, T))
    PROVE  FlattenSeq(seqs) = f[Len(seqs)] /\ FlattenSeq(seqs) \in Seq(T)
<1> DEFINE N == Len(seqs)
           step == Concatenating(seqs, T)
           Solves(e) == e = [i \in 1 .. N |-> IF i = 1 THEN seqs[i] ELSE e[i - 1] \o seqs[i]]
<1>1. N \in Nat
  OBVIOUS
<1>2. /\ f \in [0 .. N -> Seq(T)] /\ f[0] = <<>>
      /\ \A k \in 1 .. N : f[k] = f[k - 1] \o seqs[k]
  <2>1. /\ f \in [0 .. N -> Seq(T)] /\ f[0] = <<>>
        /\ \A k \in 1 .. N : f[k] = step[k][f[k - 1]]
    BY DEF Iteration
  <2>2. ASSUME NEW k \in 1 .. N PROVE step[k][f[k - 1]] = f[k - 1] \o seqs[k]
    <3>1. k - 1 \in 0 .. N
      BY <1>1
    <3>2. f[k - 1] \in Seq(T)
      <4> HIDE DEF N, step
      <4>1. QED
        BY <2>1, <3>1
    <3>3. QED
      BY <3>2 DEF Concatenating
  <2> HIDE DEF step, N
  <2>3. QED
    BY <2>1, <2>2
<1>3. f[N] \in Seq(T)
  BY <1>1, <1>2
<1>4. CASE N = 0
  <2>1. FlattenSeq(seqs) = <<>>
    BY <1>4 DEF FlattenSeq
  <2>2. QED
    BY <1>2, <1>4, <2>1, EmptySeq
<1>5. CASE N # 0
  <2> DEFINE e == CHOOSE e : Solves(e)
             g == [i \in 1 .. N |-> f[i]]
  <2>1. FlattenSeq(seqs) = e[N]
    BY <1>5 DEF FlattenSeq
  <2>2. ASSUME NEW i \in 1 .. N
        PROVE  g[i] = IF i = 1 THEN seqs[i] ELSE g[i - 1] \o seqs[i]
    <3>1. CASE i = 1
      <4>1. seqs[1] \in Seq(T) /\ f[1] = <<>> \o seqs[1]
        BY <1>2, <3>1
      <4>2. <<>> \o seqs[1] = seqs[1]
        BY <4>1, ConcatEmptySeq
      <4>3. QED
        BY <3>1, <4>1, <4>2
    <3>2. CASE i # 1
      <4>1. i - 1 \in 1 .. N
        BY <1>1, <3>2
      <4>2. QED
        BY <1>2, <3>2, <4>1
    <3>3. QED
      BY <3>1, <3>2
  <2>3. Solves(g)
    <3> HIDE DEF N
    <3>1. QED
      BY <2>2
  <2>4. Solves(e)
    <3> HIDE DEF Solves, g
    <3>1. QED
      BY <2>3
  <2>5. \A i \in 1 .. N : e[i] = IF i = 1 THEN seqs[i] ELSE e[i - 1] \o seqs[i]
    <3> HIDE DEF e
    <3>1. QED
      BY <2>4
  <2> DEFINE h == [k \in 0 .. N |-> IF k = 0 THEN <<>> ELSE e[k]]
             S == {k \in Nat : k + 1 <= N => e[k + 1] = f[k + 1]}
  <2> HIDE DEF e
  <2>6. 0 \in S
    <3>1. 1 \in 1 .. N
      BY <1>1, <1>5
    <3>2. g[1] = f[1]
      BY <3>1
    <3> HIDE DEF N, g
    <3>3. e[1] = seqs[1] /\ g[1] = seqs[1]
      BY <2>2, <2>5, <3>1
    <3>4. 0 + 1 = 1
      OBVIOUS
    <3>5. QED
      BY <3>2, <3>3, <3>4
  <2>7. ASSUME NEW k \in Nat, k \in S PROVE k + 1 \in S
    <3>1. SUFFICES ASSUME k + 2 <= N PROVE e[k + 2] = f[k + 2]
      <4>1. k + 1 + 1 = k + 2
        OBVIOUS
      <4>2. QED
        BY <4>1
    <3>2. k + 2 \in 1 .. N /\ k + 2 # 1 /\ (k + 2) - 1 = k + 1 /\ k + 1 <= N
      BY <3>1
    <3>3. e[k + 2] = e[k + 1] \o seqs[k + 2] /\ f[k + 2] = f[k + 1] \o seqs[k + 2]
      <4> HIDE DEF N
      <4>1. QED
        BY <1>2, <2>5, <3>2
    <3>4. QED
      BY <2>7, <3>2, <3>3
  <2>8. N - 1 \in S
    <3> HIDE DEF S
    <3>1. N - 1 \in Nat
      BY <1>1, <1>5
    <3>2. QED
      BY <2>6, <2>7, <3>1, Induction
  <2>9. e[N] = f[N]
    <3>1. (N - 1) + 1 = N
      BY <1>1
    <3> HIDE DEF N
    <3>2. QED
      BY <1>1, <2>8, <3>1
  <2>10. QED
    BY <1>3, <2>1, <2>9
<1>6. QED
  BY <1>4, <1>5

\* One sequence more is concatenated at the end.
LEMMA FlattenAppend ==
    ASSUME NEW T, NEW seqs \in Seq(Seq(T)), NEW s \in Seq(T)
    PROVE  /\ FlattenSeq(seqs) \in Seq(T)
           /\ FlattenSeq(Append(seqs, s)) = FlattenSeq(seqs) \o s
<1> DEFINE more == Append(seqs, s)
           N == Len(seqs)
<1>1. /\ N \in Nat /\ more \in Seq(Seq(T)) /\ Len(more) = N + 1 /\ more[N + 1] = s
      /\ \A k \in 1 .. N : more[k] = seqs[k]
  OBVIOUS
<1> HIDE DEF more
<1>2. PICK f : Iteration(f, Len(seqs), Seq(T), <<>>, Concatenating(seqs, T))
  BY FlatIterates
<1>3. PICK g : Iteration(g, Len(more), Seq(T), <<>>, Concatenating(more, T))
  BY <1>1, FlatIterates
<1>4. /\ FlattenSeq(seqs) = f[N] /\ FlattenSeq(seqs) \in Seq(T)
      /\ FlattenSeq(more) = g[N + 1]
  <2>1. FlattenSeq(more) = g[Len(more)]
    BY <1>1, <1>3, FlatIs
  <2>2. QED
    BY <1>1, <1>2, <2>1, FlatIs
<1>5. /\ g \in [0 .. N + 1 -> Seq(T)] /\ g[0] = <<>>
      /\ \A k \in 1 .. N + 1 : g[k] = Concatenating(more, T)[k][g[k - 1]]
  BY <1>1, <1>3 DEF Iteration
<1>6. ASSUME NEW k \in 1 .. N + 1
      PROVE  g[k - 1] \in Seq(T) /\ g[k] = g[k - 1] \o more[k]
  <2>1. k - 1 \in 0 .. N + 1 /\ k \in 1 .. Len(more)
    BY <1>1
  <2>2. g[k - 1] \in Seq(T)
    BY <1>5, <2>1
  <2>3. Concatenating(more, T)[k][g[k - 1]] = g[k - 1] \o more[k]
    BY <2>1, <2>2 DEF Concatenating
  <2>4. QED
    BY <1>5, <2>2, <2>3
<1>7. \A k \in 1 .. N : g[k] = Concatenating(seqs, T)[k][g[k - 1]]
  <2>1. ASSUME NEW k \in 1 .. N PROVE g[k] = Concatenating(seqs, T)[k][g[k - 1]]
    <3>1. k \in 1 .. N + 1 /\ more[k] = seqs[k]
      BY <1>1
    <3>2. Concatenating(seqs, T)[k][g[k - 1]] = g[k - 1] \o seqs[k]
      BY <1>6, <3>1 DEF Concatenating
    <3>3. QED
      BY <1>6, <3>1, <3>2
  <2>2. QED
    BY <2>1
<1>8. g[N] = f[N]
  <2>1. N \in Nat /\ N \in 0 .. N /\ g[0] = <<>>
    BY <1>1, <1>5
  <2>2. \A k \in 0 .. N : g[k] = f[k]
    <3> DEFINE step == Concatenating(seqs, T)
    <3>1. Iteration(f, N, Seq(T), <<>>, step) /\ \A k \in 1 .. N : g[k] = step[k][g[k - 1]]
      BY <1>2, <1>7
    <3> HIDE DEF step, N
    <3>2. QED
      BY <2>1, <3>1, SameIteration
  <2>3. QED
    BY <2>1, <2>2
<1>9. g[N + 1] = g[N] \o s
  <2>1. N + 1 \in 1 .. N + 1 /\ (N + 1) - 1 = N
    BY <1>1
  <2>2. QED
    BY <1>1, <1>6, <2>1
<1>10. QED
  BY <1>4, <1>8, <1>9 DEF more

\* What one step adds for each environment.
Returned(returns, dones) == [i \in Envs |-> IF dones[i] THEN <<returns[i]>> ELSE <<>>]

\* The loop of worker_main over the environments returns one return for each that is
\* done, in their order.
LEMMA FinishedIsFlat ==
    ASSUME NEW returns \in [Envs -> Int], NEW dones \in [Envs -> BOOLEAN]
    PROVE  /\ Finished(returns, dones) = FlattenSeq(Returned(returns, dones))
           /\ Finished(returns, dones) \in Seq(Int)
           /\ Len(Finished(returns, dones)) = Cardinality({i \in Envs : dones[i]})
<1> DEFINE seqs == Returned(returns, dones)
           step == Concatenating(seqs, Int)
           N == NumEnvs
           Solves(e) == e = [i \in 0 .. NumEnvs |-> IF i = 0 THEN <<>>
                              ELSE IF dones[i] THEN Append(e[i - 1], returns[i]) ELSE e[i - 1]]
           e == CHOOSE e : Solves(e)
<1>1. N \in Nat /\ Envs = 1 .. N
  BY EnvAssumption DEF Envs
<1>2. seqs \in Seq(Seq(Int)) /\ Len(seqs) = N
  <2>1. \A i \in 1 .. N : returns[i] \in Int /\ seqs[i] = IF dones[i] THEN <<returns[i]>> ELSE <<>>
    BY <1>1 DEF Returned
  <2>2. <<>> \in Seq(Int) /\ \A v \in Int : <<v>> \in Seq(Int)
    BY EmptySeq
  <2>3. \A i \in 1 .. N : seqs[i] \in Seq(Int)
    BY <2>1, <2>2
  <2>4. seqs \in [1 .. N -> Seq(Int)]
    BY <1>1, <2>3 DEF Returned
  <2> HIDE DEF seqs, N
  <2>5. QED
    BY <1>1, <2>4
<1>3. PICK f : Iteration(f, N, Seq(Int), <<>>, step)
  <2> HIDE DEF seqs
  <2>1. QED
    BY <1>2, FlatIterates
<1>4. FlattenSeq(seqs) = f[N] /\ f[N] \in Seq(Int)
  <2> HIDE DEF seqs
  <2>1. QED
    BY <1>2, <1>3, FlatIs
<1>5. /\ f \in [0 .. N -> Seq(Int)] /\ f[0] = <<>>
      /\ \A k \in 1 .. N : f[k] = step[k][f[k - 1]]
  <2> HIDE DEF step
  <2>1. QED
    BY <1>3 DEF Iteration
<1>6. ASSUME NEW k \in 1 .. N, NEW v \in Seq(Int)
      PROVE  step[k][v] = IF dones[k] THEN Append(v, returns[k]) ELSE v
  <2>1. step[k][v] = v \o seqs[k]
    <3> HIDE DEF seqs
    <3>1. QED
      BY <1>2 DEF Concatenating
  <2>2. seqs[k] = (IF dones[k] THEN <<returns[k]>> ELSE <<>>) /\ returns[k] \in Int
    BY <1>1 DEF Returned
  <2>3. v \o <<>> = v /\ v \o <<returns[k]>> = Append(v, returns[k])
    <3>1. returns[k] \in Int
      BY <2>2
    <3>2. v \o <<>> = v
      BY ConcatEmptySeq
    <3>3. v \o <<returns[k]>> = Append(v, returns[k])
      BY <3>1
    <3>4. QED
      BY <3>2, <3>3
  <2> HIDE DEF step, seqs
  <2>4. QED
    BY <2>1, <2>2, <2>3
<1>7. ASSUME NEW k \in 1 .. N
      PROVE  /\ k - 1 \in 0 .. N /\ f[k - 1] \in Seq(Int)
             /\ f[k] = IF dones[k] THEN Append(f[k - 1], returns[k]) ELSE f[k - 1]
  <2>1. k - 1 \in 0 .. N
    BY <1>1
  <2> HIDE DEF step, N
  <2>2. QED
    BY <1>5, <1>6, <2>1
<1>8. Finished(returns, dones) = f[N]
  <2>1. Finished(returns, dones) = e[N]
    BY DEF Finished
  <2>2. Solves(f)
    <3>1. \A i \in 0 .. N : i # 0 => i \in 1 .. N
      BY <1>1
    <3>2. QED
      BY <1>5, <1>7, <3>1
  <2>3. Solves(e)
    <3> HIDE DEF Solves
    <3>1. QED
      BY <2>2
  <2>4. \A i \in 0 .. N : e[i] = IF i = 0 THEN <<>> ELSE
                            IF dones[i] THEN Append(e[i - 1], returns[i]) ELSE e[i - 1]
    <3> HIDE DEF e
    <3>1. QED
      BY <2>3
  <2> DEFINE S == {k \in Nat : k <= N => e[k] = f[k]}
  <2> HIDE DEF e
  <2>5. 0 \in S
    <3>1. 0 \in 0 .. N
      BY <1>1
    <3>2. QED
      BY <1>5, <2>4, <3>1
  <2>6. ASSUME NEW k \in Nat, k \in S PROVE k + 1 \in S
    <3>1. SUFFICES ASSUME k + 1 <= N PROVE e[k + 1] = f[k + 1]
      OBVIOUS
    <3>2. /\ k + 1 \in 1 .. N /\ k + 1 \in 0 .. N /\ k + 1 # 0 /\ (k + 1) - 1 = k
          /\ k <= N
      BY <1>1, <3>1
    <3>3. /\ e[k + 1] = IF dones[k + 1] THEN Append(e[k], returns[k + 1]) ELSE e[k]
          /\ f[k + 1] = IF dones[k + 1] THEN Append(f[k], returns[k + 1]) ELSE f[k]
      <4> HIDE DEF N
      <4>1. QED
        BY <1>7, <2>4, <3>2
    <3>4. QED
      BY <2>6, <3>2, <3>3
  <2>7. N \in S
    <3> HIDE DEF S
    <3>1. QED
      BY <1>1, <2>5, <2>6, Induction
  <2>8. QED
    BY <1>1, <2>1, <2>7
<1>9. Len(f[N]) = Cardinality({i \in Envs : dones[i]})
  <2> DEFINE D(k) == {i \in 1 .. k : i <= N /\ dones[i]}
             S == {k \in Nat : k <= N => Len(f[k]) = Cardinality(D(k)) /\ IsFiniteSet(D(k))}
  <2>1. 0 \in S
    <3>1. D(0) = {}
      OBVIOUS
    <3>2. Len(f[0]) = 0
      BY <1>5
    <3>3. QED
      BY <3>1, <3>2, FS_EmptySet
  <2>2. ASSUME NEW k \in Nat, k \in S PROVE k + 1 \in S
    <3>1. SUFFICES ASSUME k + 1 <= N
          PROVE  Len(f[k + 1]) = Cardinality(D(k + 1)) /\ IsFiniteSet(D(k + 1))
      <4>1. k + 1 \in Nat
        OBVIOUS
      <4> HIDE DEF D
      <4>2. QED
        BY <4>1
    <3>2. k + 1 \in 1 .. N /\ (k + 1) - 1 = k /\ k <= N
      BY <1>1, <3>1
    <3>3. Len(f[k]) = Cardinality(D(k)) /\ IsFiniteSet(D(k))
      BY <2>2, <3>2
    <3>4. /\ f[k] \in Seq(Int)
          /\ f[k + 1] = IF dones[k + 1] THEN Append(f[k], returns[k + 1]) ELSE f[k]
      BY <1>7, <3>2
    <3>5. CASE dones[k + 1]
      <4>1. D(k + 1) = D(k) \cup {k + 1} /\ k + 1 \notin D(k)
        BY <3>2, <3>5
      <4>2. Len(f[k + 1]) = Len(f[k]) + 1
        <5>1. returns[k + 1] \in Int
          BY <1>1, <3>2
        <5>2. QED
          BY <3>4, <3>5, <5>1
      <4> HIDE DEF D
      <4>3. Cardinality(D(k + 1)) = Cardinality(D(k)) + 1 /\ IsFiniteSet(D(k + 1))
        BY <3>3, <4>1, FS_AddElement
      <4>4. QED
        BY <3>3, <4>2, <4>3
    <3>6. CASE ~ dones[k + 1]
      <4>1. D(k + 1) = D(k)
        <5>1. \A x \in 1 .. k + 1 : x \in 1 .. k \/ x = k + 1
          OBVIOUS
        <5>2. \A x \in 1 .. k : x \in 1 .. k + 1
          OBVIOUS
        <5>3. QED
          BY <3>6, <5>1, <5>2
      <4> HIDE DEF D
      <4>2. QED
        BY <3>3, <3>4, <3>6, <4>1
    <3>7. QED
      BY <3>5, <3>6
  <2>3. N \in S
    <3> HIDE DEF S
    <3>1. QED
      BY <1>1, <2>1, <2>2, Induction
  <2>4. D(N) = {i \in Envs : dones[i]}
    BY <1>1
  <2> HIDE DEF D
  <2>5. QED
    BY <1>1, <2>3, <2>4
<1>10. QED
  BY <1>4, <1>8, <1>9

\* What IsSuffix says, element by element.
LEMMA SuffixMeans ==
    ASSUME NEW T, NEW s \in Seq(T), NEW t \in Seq(T)
    PROVE  IsSuffix(s, t) <=> /\ Len(s) <= Len(t)
                              /\ \A k \in 1 .. Len(s) : s[k] = t[Len(t) - Len(s) + k]
<1> DEFINE m == Len(s)
           n == Len(t)
           p == SubSeq(Reverse(s), 1, m)
           q == SubSeq(Reverse(t), 1, m)
<1>1. m \in Nat /\ n \in Nat
  OBVIOUS
<1>2. /\ Reverse(s) \in Seq(T) /\ Len(Reverse(s)) = m
      /\ \A k \in 1 .. m : Reverse(s)[k] = s[(m - k) + 1]
      /\ Reverse(t) \in Seq(T) /\ Len(Reverse(t)) = n
      /\ \A k \in 1 .. n : Reverse(t)[k] = t[(n - k) + 1]
  <2>1. \A k \in 1 .. m : s[(m - k) + 1] \in T
    OBVIOUS
  <2>2. \A k \in 1 .. n : t[(n - k) + 1] \in T
    OBVIOUS
  <2>3. /\ Reverse(s) \in Seq(T) /\ Len(Reverse(s)) = m
        /\ \A k \in 1 .. m : Reverse(s)[k] = s[(m - k) + 1]
    BY <2>1 DEF Reverse
  <2>4. /\ Reverse(t) \in Seq(T) /\ Len(Reverse(t)) = n
        /\ \A k \in 1 .. n : Reverse(t)[k] = t[(n - k) + 1]
    BY <2>2 DEF Reverse
  <2>5. QED
    BY <2>3, <2>4
<1>3. IsSuffix(s, t) <=> m <= n /\ p = q
  BY <1>2 DEF IsSuffix, IsPrefix
<1>4. ASSUME m <= n
      PROVE  p = q <=> \A k \in 1 .. m : s[k] = t[n - m + k]
  <2>1. /\ p \in Seq(T) /\ Len(p) = m /\ \A k \in 1 .. m : p[k] = s[(m - k) + 1]
        /\ q \in Seq(T) /\ Len(q) = m /\ \A k \in 1 .. m : q[k] = t[(n - k) + 1]
    <3> DEFINE a == Reverse(s)
               b == Reverse(t)
    <3>1. /\ a \in Seq(T) /\ Len(a) = m /\ \A k \in 1 .. m : a[k] = s[(m - k) + 1]
          /\ b \in Seq(T) /\ Len(b) = n /\ \A k \in 1 .. n : b[k] = t[(n - k) + 1]
      BY <1>2
    <3> HIDE DEF a, b, m, n
    <3>2. /\ SubSeq(a, 1, m) \in Seq(T) /\ Len(SubSeq(a, 1, m)) = m
          /\ \A k \in 1 .. m : SubSeq(a, 1, m)[k] = a[k]
      BY <1>1, <3>1
    <3>3. /\ SubSeq(b, 1, m) \in Seq(T) /\ Len(SubSeq(b, 1, m)) = m
          /\ \A k \in 1 .. m : SubSeq(b, 1, m)[k] = b[k]
      BY <1>1, <1>4, <3>1
    <3>4. \A k \in 1 .. m : k \in 1 .. n
      BY <1>1, <1>4
    <3>5. QED
      BY <3>1, <3>2, <3>3, <3>4 DEF a, b
  <2> HIDE DEF p, q, m, n
  <2>2. p = q <=> \A k \in 1 .. m : p[k] = q[k]
    <3>1. (\A k \in 1 .. m : p[k] = q[k]) => p = q
      BY <2>1, SeqEqual
    <3>2. QED
      BY <3>1
  <2>3. (\A k \in 1 .. m : p[k] = q[k]) <=> \A k \in 1 .. m : s[k] = t[n - m + k]
    <3>1. ASSUME \A k \in 1 .. m : p[k] = q[k], NEW k \in 1 .. m PROVE s[k] = t[n - m + k]
      <4>1. /\ (m - k) + 1 \in 1 .. m /\ (m - ((m - k) + 1)) + 1 = k
            /\ (n - ((m - k) + 1)) + 1 = n - m + k
        BY <1>1
      <4>2. QED
        BY <2>1, <3>1, <4>1
    <3>2. ASSUME \A k \in 1 .. m : s[k] = t[n - m + k], NEW k \in 1 .. m PROVE p[k] = q[k]
      <4>1. (m - k) + 1 \in 1 .. m /\ n - m + ((m - k) + 1) = (n - k) + 1
        BY <1>1
      <4>2. QED
        BY <2>1, <3>2, <4>1
    <3>3. QED
      BY <3>1, <3>2
  <2>4. QED
    BY <2>2, <2>3
<1>5. QED
  BY <1>3, <1>4

\* What is appended to both sequences keeps a suffix a suffix.
LEMMA SuffixGrows ==
    ASSUME NEW T, NEW s \in Seq(T), NEW t \in Seq(T), NEW u \in Seq(T), IsSuffix(s, t)
    PROVE  IsSuffix(s \o u, t \o u)
<1> DEFINE a == s \o u
           b == t \o u
<1>1. /\ Len(s) <= Len(t) /\ \A k \in 1 .. Len(s) : s[k] = t[Len(t) - Len(s) + k]
      /\ Len(s) \in Nat /\ Len(t) \in Nat /\ Len(u) \in Nat
  BY SuffixMeans
<1>2. /\ a \in Seq(T) /\ Len(a) = Len(s) + Len(u)
      /\ \A k \in 1 .. Len(s) + Len(u) :
           a[k] = IF k <= Len(s) THEN s[k] ELSE u[k - Len(s)]
      /\ b \in Seq(T) /\ Len(b) = Len(t) + Len(u)
      /\ \A k \in 1 .. Len(t) + Len(u) :
           b[k] = IF k <= Len(t) THEN t[k] ELSE u[k - Len(t)]
  BY ConcatProperties
<1> HIDE DEF a, b
<1>3. ASSUME NEW k \in 1 .. Len(a) PROVE a[k] = b[Len(b) - Len(a) + k]
  <2>1. Len(b) - Len(a) + k = Len(t) - Len(s) + k /\ Len(t) - Len(s) + k \in 1 .. Len(t) + Len(u)
    BY <1>1, <1>2
  <2>2. CASE k <= Len(s)
    <3> DEFINE j == Len(t) - Len(s) + k
    <3>1. /\ k \in 1 .. Len(s) /\ k \in 1 .. Len(s) + Len(u)
          /\ j \in 1 .. Len(t) + Len(u) /\ j <= Len(t)
      BY <1>1, <1>2, <2>1, <2>2
    <3>2. a[k] = t[j]
      BY <1>1, <1>2, <2>2, <3>1
    <3> HIDE DEF j
    <3>3. b[j] = t[j]
      BY <1>2, <3>1
    <3>4. QED
      BY <2>1, <3>2, <3>3 DEF j
  <2>3. CASE ~ (k <= Len(s))
    <3> DEFINE j == Len(t) - Len(s) + k
    <3>1. /\ j \in 1 .. Len(t) + Len(u) /\ ~ (j <= Len(t)) /\ j - Len(t) = k - Len(s)
          /\ k \in 1 .. Len(s) + Len(u)
      BY <1>1, <1>2, <2>1, <2>3
    <3> HIDE DEF j
    <3>2. a[k] = u[k - Len(s)] /\ b[j] = u[j - Len(t)]
      BY <1>2, <2>3, <3>1
    <3>3. a[k] = b[j]
      BY <3>1, <3>2
    <3>4. QED
      BY <2>1, <3>3 DEF j
  <2>4. QED
    BY <2>2, <2>3
<1>4. Len(a) <= Len(b)
  BY <1>1, <1>2
<1>5. IsSuffix(a, b)
  BY <1>2, <1>3, <1>4, SuffixMeans
<1>6. QED
  BY <1>5 DEF a, b

\* Trimming recent_episode_returns to its last n keeps it a suffix.
LEMMA LatestIsSuffix ==
    ASSUME NEW T, NEW s \in Seq(T), NEW t \in Seq(T), NEW n \in Nat, IsSuffix(s, t)
    PROVE  Latest(s, n) \in Seq(T) /\ IsSuffix(Latest(s, n), t)
<1>1. CASE Len(s) <= n
  BY <1>1 DEF Latest
<1>2. CASE ~ (Len(s) <= n)
  <2> DEFINE r == SubSeq(s, Len(s) - n + 1, Len(s))
  <2>1. /\ Len(s) <= Len(t) /\ \A k \in 1 .. Len(s) : s[k] = t[Len(t) - Len(s) + k]
        /\ Len(s) \in Nat /\ Len(t) \in Nat
    BY SuffixMeans
  <2>2. /\ r \in Seq(T) /\ Len(r) = n
        /\ \A k \in 1 .. n : r[k] = s[Len(s) - n + k]
    <3>1. \A k \in Len(s) - n + 1 .. Len(s) : s[k] \in T
      BY <1>2, <2>1
    <3>2. /\ SubSeq(s, Len(s) - n + 1, Len(s)) \in Seq(T)
          /\ Len(SubSeq(s, Len(s) - n + 1, Len(s))) = n
          /\ \A k \in 1 .. n : SubSeq(s, Len(s) - n + 1, Len(s))[k] = s[Len(s) - n + k]
      BY <1>2, <2>1, <3>1
    <3>3. QED
      BY <3>2
  <2> HIDE DEF r
  <2>3. \A k \in 1 .. n : r[k] = t[Len(t) - n + k]
    <3>1. ASSUME NEW k \in 1 .. n PROVE r[k] = t[Len(t) - n + k]
      <4>1. /\ Len(s) - n + k \in 1 .. Len(s)
            /\ Len(t) - Len(s) + (Len(s) - n + k) = Len(t) - n + k
        BY <1>2, <2>1
      <4>2. QED
        BY <2>1, <2>2, <4>1
    <3>2. QED
      BY <3>1
  <2>4. Len(r) <= Len(t)
    BY <1>2, <2>1, <2>2
  <2>5. IsSuffix(r, t)
    BY <2>2, <2>3, <2>4, SuffixMeans
  <2>6. Latest(s, n) = r
    BY <1>2 DEF Latest, r
  <2>7. QED
    BY <2>2, <2>5, <2>6
<1>3. QED
  BY <1>1, <1>2

\* The returns of the episodes that end with a step are those the loop appends.
LEMMA EndedIs ==
    ASSUME NEW steps \in Seq(Step), NEW t \in 1 .. Len(steps),
           NEW returns \in [Envs -> Int], \A i \in Envs : Total(steps, t, i) = returns[i]
    PROVE  Ended(steps, t) = Finished(returns, steps[t].dones) /\ Ended(steps, t) \in Seq(Int)
<1>1. steps[t].dones \in [Envs -> BOOLEAN]
  <2>1. steps[t] \in Step
    OBVIOUS
  <2>2. QED
    BY <2>1 DEF Step
<1>2. Ended(steps, t) = FlattenSeq(Returned(returns, steps[t].dones))
  <2>1. [i \in Envs |-> IF steps[t].dones[i] THEN <<Total(steps, t, i)>> ELSE <<>>]
          = Returned(returns, steps[t].dones)
    BY DEF Returned
  <2>2. QED
    BY <2>1 DEF Ended
<1>3. QED
  BY <1>1, <1>2, FinishedIsFlat

\* What an episode paid is a number.
LEMMA TotalType ==
    ASSUME NEW steps \in Seq(Step), NEW t \in 1 .. Len(steps), NEW i \in Envs
    PROVE  Total(steps, t, i) \in Int
<1> DEFINE g == Paid(steps, i)
           S == First(steps, t, i) .. t
<1>1. IsFiniteSet(S) /\ S \subseteq 1 .. Len(steps)
  <2>1. First(steps, t, i) \in 1 .. t
    BY FirstFacts
  <2>2. t \in Int /\ First(steps, t, i) \in Int /\ S \subseteq 1 .. Len(steps)
    BY <2>1
  <2>3. QED
    BY <2>2, FS_Interval
<1>2. \A k \in 1 .. Len(steps) : g[k] \in Int
  <2>1. \A k \in 1 .. Len(steps) : k \in DOMAIN steps /\ steps[k] \in Step
    OBVIOUS
  <2>2. QED
    BY <2>1 DEF Paid, Step
<1> HIDE DEF g, S
<1>3. Sum(g, S) \in Int
  BY <1>1, <1>2, SumFacts
<1>4. QED
  BY <1>3, TotalIsSum DEF g, S

\* One step more adds the returns of the episodes it ends, and changes no other.
LEMMA TotalsAppended ==
    ASSUME NEW steps \in Seq(Step), NEW e \in Step,
           NEW returns, returns = [i \in Envs |-> Open(steps, i) + e.rewards[i]]
    PROVE  /\ Totals(steps) \in Seq(Int)
           /\ Totals(Append(steps, e)) = Totals(steps) \o Finished(returns, e.dones)
<1> DEFINE more == Append(steps, e)
           n == Len(steps)
           old == [t \in DOMAIN steps |-> Ended(steps, t)]
           new == [t \in DOMAIN more |-> Ended(more, t)]
<1>1. /\ n \in Nat /\ more \in Seq(Step) /\ Len(more) = n + 1 /\ more[n + 1] = e
      /\ \A k \in 1 .. n : more[k] = steps[k]
      /\ DOMAIN steps = 1 .. n /\ DOMAIN more = 1 .. n + 1
  OBVIOUS
<1>2. more = Append(steps, e)
  OBVIOUS
<1> HIDE DEF more
<1>3. ASSUME NEW t \in 1 .. n
      PROVE  Ended(more, t) = Ended(steps, t) /\ Ended(steps, t) \in Seq(Int)
  <2> DEFINE r == [i \in Envs |-> Total(steps, t, i)]
  <2>1. r \in [Envs -> Int]
    BY TotalType
  <2>2. t \in 1 .. Len(more) /\ more[t] = steps[t]
    BY <1>1
  <2>3. \A i \in Envs : Total(steps, t, i) = r[i] /\ Total(more, t, i) = r[i]
    BY <1>2, AppendedStep
  <2> HIDE DEF r
  <2>4. Ended(steps, t) = Finished(r, steps[t].dones) /\ Ended(steps, t) \in Seq(Int)
    BY <2>1, <2>3, EndedIs
  <2>5. Ended(more, t) = Finished(r, more[t].dones)
    BY <1>1, <2>1, <2>2, <2>3, EndedIs
  <2>6. QED
    BY <2>2, <2>4, <2>5
<1>4. Ended(more, n + 1) = Finished(returns, e.dones) /\ Ended(more, n + 1) \in Seq(Int)
  <2>1. returns \in [Envs -> Int]
    <3>1. \A i \in Envs : Open(steps, i) \in Int /\ e.rewards[i] \in Int
      BY <1>2, AppendedStep DEF Step
    <3>2. QED
      BY <3>1
  <2>2. \A i \in Envs : Total(more, n + 1, i) = returns[i]
    BY <1>2, AppendedStep
  <2>3. n + 1 \in 1 .. Len(more)
    BY <1>1
  <2>4. QED
    BY <1>1, <2>1, <2>2, <2>3, EndedIs
<1>5. old \in Seq(Seq(Int)) /\ Len(old) = n
  <2>1. old \in [1 .. n -> Seq(Int)]
    BY <1>1, <1>3
  <2> HIDE DEF old, n
  <2>2. QED
    BY <1>1, <2>1
<1>6. new = Append(old, Ended(more, n + 1))
  <2>1. Ended(more, n + 1) \in Seq(Int)
    BY <1>4
  <2> DEFINE s == Ended(more, n + 1)
             both == Append(old, s)
  <2>2. both \in [1 .. n + 1 -> Seq(Int)]
    <3> HIDE DEF old, n, s
    <3>1. s \in Seq(Int)
      BY <2>1 DEF s
    <3>2. both \in Seq(Seq(Int)) /\ Len(both) = n + 1
      BY <1>5, <3>1
    <3> HIDE DEF both
    <3>3. QED
      BY <3>2, LenProperties
  <2>3. new \in [1 .. n + 1 -> Seq(Int)]
    <3>1. \A t \in 1 .. n + 1 : t \in 1 .. n \/ t = n + 1
      BY <1>1
    <3>2. \A t \in 1 .. n + 1 : Ended(more, t) \in Seq(Int)
      <4> HIDE DEF n
      <4>1. QED
        BY <1>3, <2>1, <3>1
    <3>3. QED
      BY <1>1, <3>2
  <2>4. ASSUME NEW t \in 1 .. n + 1 PROVE new[t] = Append(old, Ended(more, n + 1))[t]
    <3>1. new[t] = Ended(more, t)
      BY <1>1
    <3>2. CASE t = n + 1
      <4> HIDE DEF old, n, new
      <4>1. QED
        BY <1>5, <2>1, <3>1, <3>2
    <3>3. CASE t # n + 1
      <4>1. t \in 1 .. n
        BY <1>1, <3>3
      <4>2. old[t] = Ended(steps, t)
        BY <1>1, <4>1
      <4> HIDE DEF old, n, new
      <4>3. Append(old, Ended(more, n + 1))[t] = old[t]
        BY <1>5, <2>1, <4>1
      <4>4. QED
        BY <1>3, <3>1, <4>1, <4>2, <4>3
    <3>4. QED
      BY <3>2, <3>3
  <2>5. \A t \in 1 .. n + 1 : new[t] = both[t]
    BY <2>4
  <2> HIDE DEF both, new, n
  <2>6. new = both
    <3>1. new = [t \in 1 .. n + 1 |-> new[t]] /\ both = [t \in 1 .. n + 1 |-> both[t]]
      BY <2>2, <2>3
    <3>2. QED
      BY <2>5, <3>1
  <2>7. QED
    BY <2>6 DEF both
<1>7. Totals(steps) = FlattenSeq(old) /\ Totals(more) = FlattenSeq(new)
  BY DEF Totals
<1> HIDE DEF old, new
<1>8. QED
  BY <1>2, <1>4, <1>5, <1>6, <1>7, FlattenAppend

\* ep_returns holds the return so far of every open episode.
EpisodesInv ==
    /\ RowsInv
    /\ log \in Seq(Step)
    /\ recent \in Seq(Int)
    /\ \A i \in Envs : ep_returns[i] = Open(log, i)
    /\ ReturnsAreEpisodes

\* The returns are a sequence of numbers.
LEMMA TotalsType == ASSUME NEW steps \in Seq(Step) PROVE Totals(steps) \in Seq(Int)
<1> DEFINE e == [rewards |-> [i \in Envs |-> 0], dones |-> [i \in Envs |-> FALSE]]
           returns == [i \in Envs |-> Open(steps, i) + e.rewards[i]]
<1>1. e \in Step
  BY DEF Step
<1>2. returns = [i \in Envs |-> Open(steps, i) + e.rewards[i]]
  OBVIOUS
<1> HIDE DEF e, returns
<1>3. QED
  BY <1>1, <1>2, TotalsAppended

\* The worker begins with open episodes that have paid nothing.
LEMMA EpisodesInit == Init => EpisodesInv
<1> SUFFICES ASSUME Init PROVE EpisodesInv
  OBVIOUS
<1>1. RowsInv
  BY RowsInit
<1>2. log = <<>> /\ recent = <<>> /\ unreported = 0 /\ ep_returns = [i \in Envs |-> 0]
  BY DEF Init
<1>3. log \in Seq(Step) /\ recent \in Seq(Int) /\ Len(log) = 0 /\ Len(recent) = 0
  BY <1>2, EmptySeq
<1>4. ASSUME NEW i \in Envs PROVE ep_returns[i] = Open(log, i)
  <2>1. First(log, 1, i) \in 1 .. 1
    <3>1. 1 \in 1 .. Len(log) + 1
      BY <1>3
    <3>2. QED
      BY <1>3, <3>1, FirstFacts
  <2>2. First(log, Len(log) + 1, i) .. Len(log) = {}
    <3>1. First(log, 1, i) = 1 /\ Len(log) + 1 = 1
      BY <1>3, <2>1
    <3>2. QED
      BY <1>3, <3>1
  <2>3. Sum(Paid(log, i), {}) = 0
    <3>1. IsFiniteSet({}) /\ \A k \in {} : Paid(log, i)[k] \in Int
      BY FS_EmptySet
    <3>2. QED
      BY <3>1, SumFacts
  <2>4. QED
    BY <1>2, <2>2, <2>3 DEF Open
<1>5. IsSuffix(recent, Totals(log))
  <2>1. Totals(log) \in Seq(Int)
    BY <1>3, TotalsType
  <2>2. Len(recent) <= Len(Totals(log)) /\ \A k \in 1 .. Len(recent) :
          recent[k] = Totals(log)[Len(Totals(log)) - Len(recent) + k]
    BY <1>3, <2>1
  <2>3. QED
    BY <1>3, <2>1, <2>2, SuffixMeans
<1>6. QED
  BY <1>1, <1>2, <1>3, <1>4, <1>5 DEF EpisodesInv, ReturnsAreEpisodes

\* A step of the environments adds to ep_returns, or closes the episode and reports it.
LEMMA EpisodesCollect == ASSUME EpisodesInv, Collect PROVE EpisodesInv'
<1>1. PICK outcome \in [Envs -> ENVS[task]] :
        LET step == VecStep(outcome)
            rewards == [i \in Envs |-> outcome[i].reward]
            returns == [i \in Envs |-> ep_returns[i] + rewards[i]]
        IN  /\ ep_returns' = [i \in Envs |-> IF step.dones[i] THEN 0 ELSE returns[i]]
            /\ recent' = recent \o Finished(returns, step.dones)
            /\ log' = Append(log, [rewards |-> rewards, dones |-> step.dones])
            /\ unreported' = unreported + Cardinality({i \in Envs : step.dones[i]})
  BY Zenon DEF Collect
<1> DEFINE dones == VecStep(outcome).dones
           rewards == [i \in Envs |-> outcome[i].reward]
           returns == [i \in Envs |-> ep_returns[i] + rewards[i]]
           e == [rewards |-> rewards, dones |-> dones]
           fin == Finished(returns, dones)
           count == Cardinality({i \in Envs : dones[i]})
<1>2. /\ ep_returns' = [i \in Envs |-> IF dones[i] THEN 0 ELSE returns[i]]
      /\ recent' = recent \o fin
      /\ log' = Append(log, e)
      /\ unreported' = unreported + count
  BY <1>1, Zenon
<1>3. RowsInv /\ RowsInv'
  <2>1. [Next]_vars
    BY DEF Next
  <2>2. QED
    BY <2>1, RowsStep DEF EpisodesInv
<1>4. dones \in [Envs -> BOOLEAN] /\ rewards \in [Envs -> Int]
  <2>1. dones \in [Envs -> BOOLEAN] /\ \A i \in Envs : outcome[i].reward \in Int
    BY <1>3, Lockstep DEF RowsInv, TypeOK
  <2> HIDE DEF dones
  <2>2. QED
    BY <2>1
<1> HIDE DEF dones, rewards
<1>5. returns \in [Envs -> Int]
  BY <1>3, <1>4 DEF RowsInv, TypeOK
<1>6. e \in Step /\ e.rewards = rewards /\ e.dones = dones
  BY <1>4 DEF Step
<1>7. returns = [i \in Envs |-> Open(log, i) + e.rewards[i]]
  BY <1>6 DEF EpisodesInv
<1>8. /\ fin \in Seq(Int) /\ Len(fin) = count
  <2> HIDE DEF returns
  <2>1. QED
    BY <1>4, <1>5, FinishedIsFlat
<1> HIDE DEF e, fin, count
<1>9. log' \in Seq(Step)
  BY <1>2, <1>6 DEF EpisodesInv
<1>10. recent' \in Seq(Int) /\ Len(recent') = Len(recent) + Len(fin)
  <2>1. recent \in Seq(Int)
    BY DEF EpisodesInv
  <2>2. QED
    BY <1>2, <1>8, <2>1, ConcatProperties
<1>11. ASSUME NEW i \in Envs PROVE ep_returns'[i] = Open(log', i)
  <2>1. Open(log', i) = IF e.dones[i] THEN 0 ELSE Open(log, i) + e.rewards[i]
    BY <1>2, <1>6, AppendedStep DEF EpisodesInv
  <2>2. QED
    BY <1>2, <1>6, <1>7, <2>1
<1>12. Totals(log) \in Seq(Int) /\ Totals(log') = Totals(log) \o fin
  <2> HIDE DEF returns
  <2>1. QED
    BY <1>2, <1>6, <1>7, TotalsAppended DEF EpisodesInv, fin
<1>13. IsSuffix(recent', Totals(log'))
  <2>1. IsSuffix(recent, Totals(log)) /\ recent \in Seq(Int)
    BY DEF EpisodesInv, ReturnsAreEpisodes
  <2>2. QED
    BY <1>2, <1>8, <1>12, <2>1, SuffixGrows
<1>14. Len(recent') >= unreported'
  <2>1. /\ Len(recent) \in Nat /\ unreported \in Nat /\ Len(recent) >= unreported
        /\ Len(fin) \in Nat
    BY <1>3, <1>8 DEF EpisodesInv, ReturnsAreEpisodes, RowsInv, TypeOK
  <2>2. QED
    BY <1>2, <1>8, <1>10, <2>1
<1>15. QED
  BY <1>3, <1>9, <1>10, <1>11, <1>13, <1>14 DEF EpisodesInv, ReturnsAreEpisodes

\* The other steps leave the episodes alone; a heartbeat trims recent_episode_returns.
LEMMA EpisodesStep == ASSUME EpisodesInv, [Next]_vars PROVE EpisodesInv'
<1>1. RowsInv'
  BY RowsStep DEF EpisodesInv
<1>2. CASE Collect
  BY <1>2, EpisodesCollect
<1>3. CASE ComputeGae \/ Train \/ FinishEpoch \/ UNCHANGED vars
  <2>1. UNCHANGED <<log, recent, ep_returns, unreported>>
    BY <1>3 DEF ComputeGae, Train, FinishEpoch, vars, envVars
  <2>2. Totals(log)' = Totals(log) /\ \A i \in Envs : Open(log, i)' = Open(log, i)
    BY <2>1
  <2>3. QED
    BY <1>1, <2>1, <2>2 DEF EpisodesInv, ReturnsAreEpisodes
<1>4. CASE Ship
  <2>1. /\ UNCHANGED <<log, ep_returns>>
        /\ \/ recent' = Latest(recent, Window) /\ unreported' = 0
           \/ UNCHANGED <<recent, unreported>>
    BY <1>4 DEF Ship
  <2>2. log \in Seq(Step) /\ recent \in Seq(Int) /\ Totals(log) \in Seq(Int)
    BY TotalsType DEF EpisodesInv
  <2>3. /\ IsSuffix(recent, Totals(log)) /\ Len(recent) >= unreported
        /\ \A i \in Envs : ep_returns[i] = Open(log, i)
    BY DEF EpisodesInv, ReturnsAreEpisodes
  <2>4. /\ recent' \in Seq(Int) /\ IsSuffix(recent', Totals(log))
        /\ Len(recent') >= unreported'
    <3>1. CASE recent' = Latest(recent, Window) /\ unreported' = 0
      <4>1. Window \in Nat
        BY RolloutAssumption
      <4>2. Latest(recent, Window) \in Seq(Int) /\ IsSuffix(Latest(recent, Window), Totals(log))
        BY <2>2, <2>3, <4>1, LatestIsSuffix
      <4>3. QED
        BY <3>1, <4>2
    <3>2. CASE UNCHANGED <<recent, unreported>>
      BY <2>2, <2>3, <3>2
    <3>3. QED
      BY <2>1, <3>1, <3>2
  <2>5. QED
    BY <1>1, <2>1, <2>2, <2>3, <2>4 DEF EpisodesInv, ReturnsAreEpisodes
<1>5. QED
  BY <1>2, <1>3, <1>4 DEF Next

\* The returns a worker averages for its heartbeat are those of whole episodes, the
\* latest ones in their order, and none finished since the last heartbeat is missing,
\* for every number of environments, rollout length and window.
THEOREM WholeEpisodes == Spec => []ReturnsAreEpisodes
<1>1. EpisodesInv /\ [Next]_vars => EpisodesInv'
  BY EpisodesStep
<1>2. EpisodesInv => ReturnsAreEpisodes
  BY DEF EpisodesInv
<1>3. QED
  BY EpisodesInit, <1>1, <1>2, PTL DEF Spec
=============================================================================
