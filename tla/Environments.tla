---------------------------- MODULE Environments ----------------------------
(***************************************************************************)
(* The tasks of env/ as the rollout sees them: what a step may pay and     *)
(* whether it ends the episode.  The physics decides between the outcomes; *)
(* here each is possible in every state.  Rewards are small integers that  *)
(* keep the code's distinctions.                                           *)
(***************************************************************************)
EXTENDS Integers

CONSTANTS NumEnvs,   \* config.envs_per_worker
          StepLimit  \* max_steps of the environment

ASSUME EnvAssumption == NumEnvs \in Nat \ {0} /\ StepLimit \in Nat \ {0}

Envs == 1 .. NumEnvs

\* One point per step, the last one included; over when the pole falls.
CartPole == {[reward |-> 1, over |-> failed] : failed \in BOOLEAN}

\* Minus one per step until the tip is raised.
Acrobot == {[reward |-> IF raised THEN 0 ELSE -1, over |-> raised] : raised \in BOOLEAN}

\* The throttle costs; the goal pays a hundred (here 10) and ends the episode.
MountainCar == {[reward |-> IF reached THEN 9 ELSE -1, over |-> reached] : reached \in BOOLEAN}

\* The posture pays or costs; nothing but the step limit ends the episode.
SwingBot == {[reward |-> posture, over |-> FALSE] : posture \in {-1, 1}}

ENVS == [swingbot |-> SwingBot, cartpole |-> CartPole,
         mountain_car |-> MountainCar, acrobot |-> Acrobot]

\* What an environment is in: its episode, and step_count.  An observation is known
\* by the environment, the episode and the step it shows.
State == [episode : Nat, step_count : 0 .. StepLimit]
Reset(state) == [episode |-> state.episode + 1, step_count |-> 0]
Stepped(state) == [state EXCEPT !.step_count = @ + 1]
Observe(i, state) == [env |-> i, episode |-> state.episode, step |-> state.step_count]

\* Seeded fault: one step more than the limit.
DoneLate(state, outcome) == outcome.over \/ state.step_count > StepLimit

\* done, of the state that a step leads to (step of each environment).
Done(state, outcome) == outcome.over \/ state.step_count >= StepLimit
=============================================================================
