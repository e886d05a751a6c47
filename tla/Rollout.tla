------------------------------- MODULE Rollout -------------------------------
(***************************************************************************)
(* What one worker computes between two pulls: it steps its environments   *)
(* in lockstep for rollout_length steps, stores the rows, computes the     *)
(* advantages, and runs its PPO epochs over shuffled minibatches.  Worker  *)
(* has all of this in one step; the environments and the unfinished        *)
(* episodes live on from one rollout to the next.                          *)
(***************************************************************************)
EXTENDS Environments, Schedule, SequencesExt, FiniteSetsExt

CONSTANTS RolloutLength, PpoEpochs, MinibatchSize,  \* of the configuration
          Gamma, Lambda,   \* integers for the code's fractions: the recurrence and
                           \* its reference are polynomials in them
          Critic(_, _),    \* V(obs) under the weights of an iteration
          Window,          \* episodes kept after a heartbeat (20)
          Shuffles         \* bound: what np.random.permutation may return

\* The buffer, flattened: row t of environment i is sample (t - 1) * NumEnvs + i.
NumSamples == RolloutLength * NumEnvs

ASSUME RolloutAssumption ==
    /\ RolloutLength \in Nat \ {0}
    /\ PpoEpochs \in Nat \ {0}
    /\ MinibatchSize \in Nat \ {0}
    /\ Gamma \in Int /\ Lambda \in Int
    /\ Window \in Nat
    /\ Shuffles \subseteq Bijection(1 .. NumSamples, 1 .. NumSamples)

VARIABLES task, schedule,  \* what the worker was started with
          envs,            \* envs[i]: the state of environment i
          obs,             \* worker_main's obs, one per environment
          rows,            \* RolloutBuffer: the timesteps added so far
          advantages,      \* advantages[t][i], once compute_gae has run
          ep_returns,      \* return of the unfinished episode of each environment
          recent,          \* recent_episode_returns
          idx, start,      \* get_minibatches: the permutation, and how far it is
          epoch,           \* epochs finished
          lr,              \* the rate in the optimizer's parameter groups
          local_step,      \* worker_main's global_step
          phase,           \* "collect", "update", "ship", "done"
          log,             \* history: every step of every environment
          trained,         \* history: how often each sample was trained on
          unreported       \* history: episodes finished since the last heartbeat

envVars == <<envs, obs, ep_returns, recent, log, unreported>>
updateVars == <<idx, start, epoch, lr, trained>>
vars == <<task, schedule, envVars, updateVars, rows, advantages, local_step, phase>>

\* idx = np.random.permutation(n)
Shuffle == /\ idx' \in Shuffles
           /\ start' = 0

Init == /\ task \in DOMAIN ENVS
        /\ schedule \in Schedules
        /\ envs = [i \in Envs |-> [episode |-> 1, step_count |-> 0]]
        /\ obs = [i \in Envs |-> Observe(i, envs[i])]
        /\ rows = <<>>
        /\ advantages = <<>>
        /\ ep_returns = [i \in Envs |-> 0]
        /\ recent = <<>>
        /\ idx = <<>>
        /\ start = 0
        /\ epoch = 0
        /\ lr = Fraction(1, 1)
        /\ local_step = 0
        /\ phase = "collect"
        /\ log = <<>>
        /\ trained = [s \in 1 .. NumSamples |-> 0]
        /\ unreported = 0
-----------------------------------------------------------------------------
(* Collecting.                                                              *)

\* seq[-n:]
Latest(seq, n) == IF Len(seq) <= n THEN seq ELSE SubSeq(seq, Len(seq) - n + 1, Len(seq))

\* VectorizedEnv.step: a finished environment is reset, and its first observation
\* takes the place of the last one.
VecStep(outcome) ==
    LET next == [i \in Envs |-> Stepped(envs[i])]
        dones == [i \in Envs |-> Done(next[i], outcome[i])]
        after == [i \in Envs |-> IF dones[i] THEN Reset(next[i]) ELSE next[i]]
    IN  [envs |-> after, obs |-> [i \in Envs |-> Observe(i, after[i])], dones |-> dones]

\* Seeded fault: the loop over the environments ends with the first that is done.
FinishedFirst(returns, dones) ==
    LET over == {i \in Envs : dones[i]}
    IN  IF over = {} THEN <<>> ELSE <<returns[Min(over)]>>

\* The returns of the episodes that end with this step, in the order of the loop.
Finished(returns, dones) ==
    LET loop[i \in 0 .. NumEnvs] ==
          IF i = 0 THEN <<>>
          ELSE IF dones[i] THEN Append(loop[i - 1], returns[i]) ELSE loop[i - 1]
    IN  loop[NumEnvs]

Collect ==
    /\ phase = "collect"
    /\ Len(rows) < RolloutLength
    /\ \E outcome \in [Envs -> ENVS[task]] :
         LET step == VecStep(outcome)
             rewards == [i \in Envs |-> outcome[i].reward]
             returns == [i \in Envs |-> ep_returns[i] + rewards[i]]
         IN  /\ envs' = step.envs
             /\ rows' = Append(rows, [obs |-> obs, rewards |-> rewards, dones |-> step.dones,
                                      values |-> [i \in Envs |-> Critic(local_step, obs[i])]])
             /\ ep_returns' = [i \in Envs |-> IF step.dones[i] THEN 0 ELSE returns[i]]
             /\ recent' = recent \o Finished(returns, step.dones)
             /\ obs' = step.obs
             /\ log' = Append(log, [rewards |-> rewards, dones |-> step.dones])
             /\ unreported' = unreported + Cardinality({i \in Envs : step.dones[i]})
    /\ UNCHANGED <<task, schedule, updateVars, advantages, local_step, phase>>
-----------------------------------------------------------------------------
(* Advantages.                                                              *)

\* Seeded fault: the recurrence runs on through the end of an episode.
GaeRunsOn(lastValues) ==
    LET gae[t \in 1 .. Len(rows)] ==
          [i \in Envs |->
             LET next == IF t = Len(rows) THEN lastValues[i] ELSE rows[t + 1].values[i]
                 live == IF rows[t].dones[i] THEN 0 ELSE 1
                 delta == rows[t].rewards[i] + Gamma * next * live - rows[t].values[i]
             IN  delta + IF t = Len(rows) THEN 0 ELSE Gamma * Lambda * gae[t + 1][i]]
    IN  gae

\* compute_gae, backwards in time, for all environments at once.
Gae(lastValues) ==
    LET gae[t \in 1 .. Len(rows)] ==
          [i \in Envs |->
             LET next == IF t = Len(rows) THEN lastValues[i] ELSE rows[t + 1].values[i]
                 live == IF rows[t].dones[i] THEN 0 ELSE 1
                 delta == rows[t].rewards[i] + Gamma * next * live - rows[t].values[i]
             IN  delta + IF t = Len(rows) THEN 0 ELSE Gamma * Lambda * live * gae[t + 1][i]]
    IN  gae

\* The bootstrap, the advantages, and the learning rate of the update that begins.
ComputeGae ==
    /\ phase = "collect"
    /\ Len(rows) = RolloutLength
    /\ advantages' = Gae([i \in Envs |-> Critic(local_step, obs[i])])
    /\ lr' = ScheduledLr(schedule, local_step)
    /\ epoch' = 0
    /\ Shuffle
    /\ trained' = [s \in 1 .. NumSamples |-> 0]
    /\ phase' = "update"
    /\ UNCHANGED <<task, schedule, envVars, rows, local_step>>
-----------------------------------------------------------------------------
(* The local PPO update.                                                    *)

\* Seeded fault: a last minibatch that is not full is dropped.
SliceFull(from) == IF from + MinibatchSize <= NumSamples
                   THEN {idx[k] : k \in from + 1 .. from + MinibatchSize} ELSE {}

\* idx[start : start + minibatch_size]; the last one may be short.
Slice(from) == {idx[k] : k \in {j \in 1 .. NumSamples : from < j /\ j <= from + MinibatchSize}}

\* One minibatch: compute_gradients, clip, optimizer.step.
Train ==
    /\ phase = "update"
    /\ start < NumSamples
    /\ trained' = [s \in 1 .. NumSamples |->
                     IF s \in Slice(start) THEN trained[s] + 1 ELSE trained[s]]
    /\ start' = start + MinibatchSize
    /\ UNCHANGED <<task, schedule, envVars, idx, epoch, lr, rows, advantages, local_step, phase>>

\* The generator is exhausted: the next epoch shuffles anew, or the delta goes out.
FinishEpoch ==
    /\ phase = "update"
    /\ start >= NumSamples
    /\ epoch' = epoch + 1
    /\ IF epoch' < PpoEpochs THEN Shuffle /\ phase' = phase
                             ELSE UNCHANGED <<idx, start>> /\ phase' = "ship"
    /\ UNCHANGED <<task, schedule, envVars, lr, trained, rows, advantages, local_step>>

\* push_gradients, perhaps a heartbeat (in the first iteration always), pull_weights;
\* the next rollout begins with a buffer of its own.
Ship ==
    /\ phase = "ship"
    /\ \/ /\ recent' = Latest(recent, Window)
          /\ unreported' = 0
       \/ local_step > 0 /\ UNCHANGED <<recent, unreported>>
    /\ local_step' = local_step + 1
    /\ rows' = <<>>
    /\ advantages' = <<>>
    /\ idx' = <<>>
    /\ phase' = IF local_step' < MaxSteps THEN "collect" ELSE "done"
    /\ UNCHANGED <<task, schedule, envs, obs, ep_returns, log, start, epoch, lr, trained>>

Next == Collect \/ ComputeGae \/ Train \/ FinishEpoch \/ Ship

Spec == Init /\ [][Next]_vars

TypeOK == /\ task \in DOMAIN ENVS
          /\ schedule \in Schedules
          /\ envs \in [Envs -> [episode : Nat \ {0}, step_count : 0 .. StepLimit - 1]]
          /\ Len(rows) <= RolloutLength
          /\ ep_returns \in [Envs -> Int]
          /\ start \in Nat
          /\ epoch \in 0 .. PpoEpochs
          /\ local_step \in 0 .. MaxSteps
          /\ phase \in {"collect", "update", "ship", "done"}
          /\ trained \in [1 .. NumSamples -> Nat]
          /\ unreported \in Nat
-----------------------------------------------------------------------------
\* (gamma * lambda) to the power n.
Discount[n \in 0 .. RolloutLength] == IF n = 0 THEN 1 ELSE Gamma * Lambda * Discount[n - 1]

\* Every advantage is the discounted sum of the errors of its own environment up to
\* the end of its episode or of the rollout, each error taken from the observations
\* the environment really made (add, compute_gae, the last_values of worker_main).
AdvantagesPerEnv ==
    phase = "update" => \A t \in 1 .. RolloutLength, i \in Envs :
      LET V(k) == Critic(local_step, rows[k].obs[i])
          VNext(k) == IF rows[k].dones[i] THEN 0
                      ELSE Critic(local_step, [rows[k].obs[i] EXCEPT !.step = @ + 1])
          ends == {k \in t .. RolloutLength : rows[k].dones[i]} \cup {RolloutLength}
          Term(k) == Discount[k - t]
                       * (rows[k].rewards[i] + Gamma * VNext(k) - V(k))
      IN  advantages[t][i] = MapThenSumSet(Term, t .. Min(ends))

\* What the episode paid in all that environment i ended with step t of a log, and
\* these sums for every step that ended episodes, in order.
Total(steps, t, i) ==
    LET first == 1 + Max({0} \cup {k \in 1 .. t - 1 : steps[k].dones[i]})
        Paid(k) == steps[k].rewards[i]
    IN  MapThenSumSet(Paid, first .. t)
Ended(steps, t) ==
    FlattenSeq([i \in Envs |-> IF steps[t].dones[i] THEN <<Total(steps, t, i)>> ELSE <<>>])
Totals(steps) == FlattenSeq([t \in DOMAIN steps |-> Ended(steps, t)])

\* The returns that a worker averages for its heartbeat are those of whole episodes,
\* also of episodes that span rollouts, and none finished since the last heartbeat
\* is missing (ep_returns, recent_episode_returns).
ReturnsAreEpisodes ==
    IsSuffix(recent, Totals(log)) /\ Len(recent) >= unreported

\* When the delta goes out, every sample was trained on once in every epoch, whether
\* or not the minibatch size divides their number (get_minibatches).
EachSampleEachEpoch ==
    phase = "ship" => \A s \in 1 .. NumSamples : trained[s] = PpoEpochs

\* The rate never exceeds the base rate, is never negative, and only the first
\* iteration of a warmup learns nothing (scheduled_lr).
RateInRange ==
    phase \in {"update", "ship"} => /\ lr.num \in 0 .. lr.den
                                    /\ lr.num = 0 => local_step = 0 /\ WarmupSteps > 0
=============================================================================
