# A verification of distributed-rl

TLA+ models of the distributed PPO trainer in `src/`, the TLC configurations that
check them on small instances, and proofs, checked by TLAPS, of the properties that
hold for every instance.  The subject is the part of the program that is hard to
test: the parameter server's threads, the barrier they share, the connections to the
workers, the heartbeat monitor, and the checkpoint file; and with less detail what a
worker computes between two messages, and the processes and metrics around it all.

    tlc -config SyncRounds.cfg MCTraining.tla        # any .cfg with its module
    tlapm TrainingProofs.tla

## The system

| component | state | operations | talks to |
|---|---|---|---|
| Wire protocol (`comms/protocol.py`) | one byte stream per direction and connection | `send_message`, `recv_message` | everything below |
| Connection handlers (`handle_worker`) | a thread per connection, `worker_id` | first message, pull, push, heartbeat, clean-up | aggregator, monitor, store |
| Gradient aggregator (`GradientAggregator`) | `buffer`, `sockets`, `last_checkpoint_step` | `register_socket`, `submit`, `unregister`, `_maybe_checkpoint` | monitor (who is ALIVE), store, all sockets |
| Weight store (`WeightStore`) | weights, momentum, `global_step`, `latest.pkl` | `get_weights`, `get_step`, `apply_gradients`, `save_checkpoint`, `load_checkpoint` | disk |
| Heartbeat monitor (`HeartbeatMonitor`) | `last_seen`, `status` | `register`, `beat`, `mark_dead`, the scan of `_loop` | clock |
| Server process (`server_main`) | listener | start, accept, stop | all of the above |
| Worker (`worker_main`, `ParameterServerClient`) | its step, its base weights, `last_heartbeat` | connect, pull, rollout and PPO, push, heartbeat | the server, over one connection |
| Launcher (`train.py`, `run_server.py`, `run_worker.py`) | child processes | start, wait, terminate | processes |
| Rollout (`RolloutBuffer`, `VectorizedEnv`) | transitions of one rollout | `add`, `compute_gae`, `get_minibatches`, `step` | inside one worker |
| Metrics and dashboard | a bounded queue, a set of browsers | `_put`, `pump`, `ws` | one way, from the server |
| Configuration (`config.py`) | constants, the learning-rate schedule | | |
| Networks, PPO, environments | floating-point numerics | | inside one worker |

A worker pulls the weights, computes, pushes the delta, waits for the ACK, perhaps
sends a heartbeat, and pulls again; it is strictly request/response and asserts the
type of every reply.  The server's handler of a push stores the delta under the
aggregator's lock.  If that opens the barrier, this thread takes all stored deltas
and a copy of all sockets, leaves the lock, updates the weights under the store's
lock, reads the step under the same lock again, acknowledges every socket of its
copy, and perhaps writes a checkpoint.

What is hard about it:

* **Interleaving.**  Three locks (aggregator, monitor, store) are taken one after the
  other, and everything between them runs beside other handlers: two rounds can be
  under way at once, a worker can pull while a round is between the two locks, and
  `_maybe_checkpoint` takes no lock at all.
* **Membership.**  A worker counts at the barrier while it is ALIVE *and* has a
  socket.  These are two maps, written in two steps when it joins and when it leaves,
  keyed by worker id and not by connection, so that an old connection can clean up
  after its successor.
* **Progress.**  The barrier is looked at only when somebody pushes.
* **Failure.**  Workers are killed and started again under their id, connections
  break with messages in them, a scan may declare a slow worker dead, a checkpoint
  may fail to be written, the server may be killed while it writes one.
* **Time.**  Only a heartbeat refreshes `last_seen`, and it is sent at the end of an
  iteration.

What makes each component correct: a pushed delta is averaged at most once, and the
weights a worker pulls after its ACK contain it (aggregator); the barrier waits only
for workers that somebody serves, and does not wait for ever (handlers, monitor);
readers see one version of the weights, and the file holds one (store); the file is
never more than an interval behind and never goes back (checkpointing); who works in
time is alive and who is silent is noticed (monitor); every reply is the one that was
asked for, and all workers reach their last step (worker); an advantage is made of the
errors of one episode of one environment, and each sample is trained on once per epoch
(rollout); a browser that stays misses nothing the pump takes, and neither a full queue
nor a lost dashboard holds up training (metrics); a server that is slow to start is
waited for, and no child outlives the launcher, which ends if nobody waits for an ACK for
ever (launcher).

## Modules

| module | what it is | source |
|---|---|---|
| `Wire` | connections as sequences of whole messages; what a closed end loses | `comms/protocol.py`, message shapes of `client.py` |
| `ParameterServer` | the handler threads, the aggregator, the ALIVE set, step and checkpoint, one action per critical section | `connection_handler.py`, `weight_store.py`, `parameter_server.py` |
| `Worker` | the worker's loop and its client, one action per message | `worker.py`, `client.py`, `run_worker.py` |
| `Training` | both joined over `Wire`, with faults; the properties | `train.py` |
| `FedAvgRounds` | abstract: gradients arrive, are averaged in rounds or are dropped | promise of the aggregator |
| `TrainingInvariant` | the inductive invariants of `Training` under faults, and of the checkpoints | |
| `SyncInvariant` | the inductive invariant of `Training` in synchronous mode, with workers killed for good | |
| `HeartbeatMonitor` | the monitor's thread and the workers' heartbeats with a clock; its invariant | `heartbeat_monitor.py`, `worker.py` |
| `WeightStore` | the store inside its lock, entry by entry, the file, kills and restarts | `weight_store.py`, `parameter_server.py` |
| `AtomicStore` | abstract: one versioned value and one saved version | promise of the store |
| `TimedBarrier` | the barrier and an instance of `HeartbeatMonitor` on one clock | `connection_handler.py`, `heartbeat_monitor.py`, `worker.py` |
| `Schedule` | the learning rate as an exact fraction | `config.py` |
| `Environments` | what a step of a task may pay and whether it ends the episode | `env/` |
| `Rollout` | collecting, GAE, minibatches and the loop around them | `rollout_buffer.py`, `vectorized.py`, `worker.py` |
| `Launcher` | `main`: start, wait, watch, interrupt, terminate; the workers' retries, and how a worker can end | `train.py`, `worker.py`, `parameter_server.py` |
| `Metrics` | the bounded queue, the pump, browsers that come and go | `metrics_emitter.py`, `dashboard/server.py` |
| `Deployment` | `Launcher` and `Metrics` joined; the properties | `train.py` |
| `MCTraining`, `MCHeartbeat`, `MCWeightStore`, `MCRollout` | symmetry sets and constants for TLC | |
| `TrainingProofs`, `CheckpointProofs`, `SyncProofs` | theorems about `Training` | |
| `HeartbeatProofs`, `TimedBarrierProofs`, `StoreProofs`, `RolloutProofs`, `DeploymentProofs` | theorems about the module of that name | |

`Training` extends `ParameterServer` and `Worker`, which both extend `Wire`: the server
changes `up` when it reads and `down` when it writes, the worker the other way round.
Every step of the composed system is a step of one handler thread, of one worker, or
a fault.  `TimedBarrier` uses the actions of `HeartbeatMonitor` by instance and adds the
barrier to them; what the monitor takes for granted, a bound on an iteration, is there
a consequence of the barrier, so the composition is shown to refine the monitor's
specification.  `Rollout` is what `Worker` has as one step, `PushGradients`.
`Deployment` conjoins the actions of `Launcher` and `Metrics`, which share no variable.

### How state and actions correspond

*Connections.*  A worker process dials once, so a connection is the pair of the worker
and how often it was restarted.  `up[c]` and `down[c]` hold what was sent and not read.
When a worker ends, `down[c]` is lost; what is still in `up[c]` may be read (an orderly
close) or be lost (a reset): `Disconnect` may happen at any time after the close.  The
worker that waits for a reply notices only when the server's handler is over.

*Weights.*  Only the version matters: the number of updates the weights contain.  A
delta is the record of the connection it was pushed on and the iteration of its worker;
the weights it was computed from are `base[w]`, which does not change until the worker
pulls again.  Averaging a delta is adding it to `applied`, a history variable, as is
`dropped`.

*Threads.*  `pc[c]` is where the handler of `c` is.  `SubmitAndWait` and
`SubmitAndFire` are the two outcomes of the critical section of `submit`; the steps
after it are `ApplyGradients`, `GetStep`, one `SendAck` per socket in any order, and
`SkipCheckpoint` or `DecideCheckpoint`, `MarkCheckpoint`, `SaveCheckpoint`.
`alive_workers` is read inside the critical section, under the monitor's lock; the
critical section depends on the monitor only through that one reading, so it is one
action.  The clean-up is `MarkDead`, then `Unregister`.

*Local work.*  The rollout, GAE and the PPO epochs touch nothing shared and are part of
`PushGradients`.  The heartbeat is due in the first iteration (`last_heartbeat` is 0)
and may or may not be due later.

*Faults.*  `FaultKinds` names which of three faults may happen and `MaxFaults` how many:
`"crash"` kills a worker anywhere, `"expire"` lets the monitor declare a worker dead,
`"disk"` makes a checkpoint fail.  `Restart` starts a worker again under its id.

*Store.*  In `WeightStore` an entry stands for a parameter and its momentum, and holds
the number of updates in it.  Updates and copies visit the entries one by one under
`lock`; `OpenFile` truncates the file and `FinishSave` makes it whole.  `ParameterServer`
uses the store in one step per call; that this is sound is what `ImplementsAtomicStore`
says.

*Clock.*  In `HeartbeatMonitor` the clock is an integer.  A thread that is due may be
late by `Slack`, an iteration lasts at most `MaxIteration`; both are upper bounds on
`Tick`, so nothing forces an iteration to be short or long.  The monitor knows ids, not
processes: when a process ends (`Break`), its handler may still have a message of it to
read (`BeatLate`) and always has its `mark_dead` before it (`MarkDead`), while
`Register` of the next process under the id waits for neither.  `struck`, a history
variable, says that a worker was marked dead in this way since it was last seen.  In
`TimedBarrier` a worker computes for at most `MaxCompute` and then waits at the barrier
as long as that takes; a round, its ACKs and the heartbeats after them happen within a
unit (their interleavings are the subject of `Training`).  Nobody crashes there, and
nobody reaches `max_steps`: that a worker that finishes leaves the others waiting is a
matter of `Training`.

*Rollout.*  An observation is the environment, the episode and the step it shows, so that
a value of the wrong environment, or of the observation after a reset, cannot pass for
the right one.  `Critic` is a constant operator with a different value for each
observation and each version of the weights.  Rewards, `Gamma` and `Lambda` are integers:
the recurrence and its reference are polynomials in them, so whether they agree does not
depend on their being fractions.  `Done` and `Reset` are those of the four tasks, whose
physics is replaced by a choice among the outcomes a task has.

*Processes.*  A unit of the launcher's clock is the pause between two attempts to
connect.  `delay` is how long the server takes to listen; it may also die before or
after, as may each worker (`WorkerDies`) while the others go on.  A worker pushes, waits
for its ACK and is served the rest of its iteration (`Pushes`, `IsAcked`, `IsServed`);
whether the ACK comes depends on the barrier and is left open.  `Interrupt` is
Control-C, a signal that each process takes in a step of its own: a worker raises
(`WorkerInterrupted`), the server goes to its `finally` clause (`"closing"`), where
`main` may terminate it before it is through, and `main` goes to its own:
`TerminateServer`, then `TerminateWorkers`, each of which kills whoever has not ended
yet.  The handler threads serve on until the server's process ends.

The dashboard's event loop is interleaved wherever the code awaits: between two browsers
of one broadcast others come and go, and between `accept()` and `clients.add` (`Accept`,
`AddClient`) a payload may pass that the browser, connected in its own eyes, does not get;
`NothingMissed` counts from `clients.add`.  When a browser or the dashboard goes, the
history of its connection, which only `NothingMissed` reads, goes too.

## Runs

Every passing run also states what its bounds are for.  Operators that are named
"seeded fault" in the modules are not part of any specification: each is a plausible
bug in one definition, and each property of a passing run is violated when one of them
takes the place of that definition (`PROJECT.json`, "mutants").

| run | instance | checks | distinct states |
|---|---|---|---|
| `SyncRounds` | 3 workers, 2 iterations, synchronous, no faults, fair | `TypeOK` `AckMeansApplied` `NoLostGradient` `NoWorkerFails` `OneWriterPerSocket` `RoundsOneByOne` `QuietAtTheEnd` `StaleByAtMostOne` `TogetherAllFinish` | 386 000 |
| `Faulty` | 2 workers, 1 iteration, 1 restart each, 1 fault of any kind, checkpoint each step | `IInv` `AliveIsServed` `NothingLeftBehind` `ImplementsRounds` | 552 000 |
| `Quorum` | 2 workers, 2 iterations, quorum of 1, 1 crash, checkpoint every 2 steps | `CheckpointInv` `CheckpointCadence` `CheckpointMonotone` `ImplementsRounds` | 271 000 |
| `Heartbeat` | 2 workers, unit of 10 s: check 1, timeout 3, heartbeat 1, iteration 2, slack 1, one old handler each, clock to 12 | `MonitorInv` `DeadOnlyIfStruck` `SilenceIsNoticed` `NoEarlyDeath` | 717 000 |
| `Store` | 3 threads, 2 entries, 3 updates, 2 kills | `StoreInv` `FileConsistent` `ImplementsAtomicStore` `ResumesCleanly` | 27 000 |
| `TimedBarrier` | 3 workers, unit of 5 s: timeout 6, heartbeat 2, rollout 1, joins within 3 (quorum), synchronous and quorum of 3, clock to 16 | `NoStrayAck` `NeverAllWaiting` `BarrierInv` `IterationsBounded` | 747 000 |
| `Rollout` | 2 environments, episodes of at most 3 steps, rollouts of 3, minibatches of 4, 2 epochs, 2 iterations, all tasks and schedules | `TypeOK` `AdvantagesPerEnv` `ReturnsAreEpisodes` `EachSampleEachEpoch` `RateInRange` | 751 000 |
| `Deployment` | 2 workers, 1 iteration, wait of 1, 2 attempts, server after 1 unit or never, queue of 1, 2 browsers, fair | `TypeOK` `SlowStartIsWaitedFor` `NothingMissed` `DeploymentInv` `LauncherEnds` | 182 000 |

* `SyncRounds`.  In the default mode, as long as nobody fails or expires, the ACK is
  what a worker takes it for, although it is broadcast: its delta has been applied when
  it arrives.  Workers may join late and leave early, which three of them are needed
  for: one that pushes, one that joins between the two locks of the round, one that has
  left.  `StaleByAtMostOne` is exactly what the code gives; `ExactFedAvg`, one less, is
  violated.  `RoundsOneByOne` is why the unlocked end of `submit` does no harm in this
  mode: the thread that runs a round serves a worker without which the next one cannot
  begin.  From it follows that metrics leave in the order of the steps;
  `OneWriterPerSocket` says that ACKs and replies never share a socket's stream, and
  `QuietAtTheEnd` that the launcher's `terminate()` finds the server idle when the
  workers are through.
  `TogetherAllFinish` is liveness under weak fairness of each handler thread and each
  worker process: the operating system runs every runnable thread, and the steps of a
  thread are disabled only by its own progress or while it waits for a message.  Faults
  and restarts are not fair.  The premise `AllTogether` says that nobody is waiting at
  the barrier before every worker has pulled its first weights.  Without it the property
  is false: a worker that joins after another has pushed can finish first or hold it up
  for ever, because the barrier is looked at only on a push.  Its conclusion also counts
  the updates: `max_steps` of them, as `config.py:73` has it, which fails for workers
  that do not start together.
* `Faulty` and `Quorum`.  The refinement of `FedAvgRounds` is checked where it is
  hardest: with restarts, where a connection, its predecessor and their threads
  overlap, and with a quorum of one, where each push starts a round and two are in
  flight.  One iteration is enough in `Faulty`, because the second incarnation pushes
  the same iteration again; `Quorum` needs two to make more than one interval of
  checkpoints.
* `Heartbeat`.  The intervals are those of the code (`check_interval` 10 s, `timeout`
  30 s, `HEARTBEAT_INTERVAL` 5 s, rounded up to a unit).  Workers fall silent, end and are
  started again, also while the handler of the process before has a message to read or its
  `mark_dead` to come (`connection_handler.py:165-167`).  So a worker that loops in time
  can be DEAD; `DeadOnlyIfStruck` says that only such a handler makes it so and that the
  next heartbeat, an iteration and a heartbeat interval after the last one, repairs it.
  Both bounds are tight: one unit less in `SilenceIsNoticed` or in `DeadOnlyIfStruck` is
  violated on this instance.  A clock up to 12, 10 units after it starts, leaves room for a
  worker's silence, its death and its return.
* `Store`.  Two entries are enough to tear a copy; two kills let a restart meet a file
  that an earlier restart has written.
* `TimedBarrier`.  In the code a worker that waits for its ACK sends nothing, so the
  barrier could make a healthy worker look dead, or find fewer than a quorum ALIVE.
  `IterationsBounded` says that this composition implements `HeartbeatMonitor` with
  `LongestIteration` for its `MaxIteration`: in synchronous mode the longest wait is not
  one rollout but one per worker, when each joins just before the barrier would have
  opened; with a quorum of all it is the spread of the joins and one rollout.  While
  that and a heartbeat interval fit into the timeout (`TimingFits`, true of the
  instance), neither mode goes wrong.  When they do not fit, both may: in synchronous
  mode a round leaves out a worker that still computes and acknowledges it nevertheless,
  and with a quorum everybody waits for ever.  `gradient_timeout_sec` ("Give slow
  workers this long to push", `config.py:71`), which would name such a bound, is used
  nowhere.  One unit less in `LongestIteration` is violated on this instance.  The
  quorum is one that includes everybody because a smaller one sends ACKs to workers that
  do not wait (`QuorumReplies`).
* `Rollout`.  Three rows and a limit of three steps let episodes end in the middle of a
  rollout, at its last row, and in the rollout after the one they began in, in one
  environment or in both at once; six samples leave a short minibatch; the second
  iteration has other weights, no warmup and an optional heartbeat.  Two of the 720
  permutations are enough for TLC: `EpochsComplete` proves it for all.
* `Deployment`.  `delay` 1 is the slowest start that `SlowStartIsWaitedFor` promises to
  survive (less than the wait and all pauses but the one after the last attempt);
  nothing is promised beyond it.  One that never listens is one that dies.  A queue of
  one is full when the second worker's metric comes.  The fairness of `LauncherEnds` is
  that `main`, the server's main thread, the pump, time, and each worker with its
  handler run when they can; it promises nothing of ACKs, crashes, interrupts or
  browsers.  Its premise is that no worker waits for ever for the ACK of a server that
  runs, while nobody presses Control-C: the barrier does not guarantee that, after a
  crash (`CrashBlocks`), a late join or with an oversized quorum, and then `main`
  watches for ever; without the premise TLC finds just that, one worker killed and the
  other waiting.  What is left is that everything else ends, with a server that dies, a
  dashboard that never was, and a Control-C in any state.  Two browsers: one that breaks
  in the middle of a broadcast and one that must not notice.

Four runs state what the documentation or an assertion says and show that the code does
something else:

| run | statement | what happens |
|---|---|---|
| `CrashBlocks` | `SurvivorsGoOn`: "a crashed worker cannot block training forever" (`heartbeat_monitor.py:4-5`) | the survivor has pushed; the other is killed; it is marked dead and unregistered, but the barrier is not evaluated again, and the survivor waits for ever |
| `QuorumReplies` | `NoWorkerFails`: the assertions `client.py:30`, `44`, `57` | with a quorum below the number of workers, a worker gets the ACK of a round it is not part of, takes it for its own, or fails the assertion of its next request |
| `LateJoiner` | `ExactFedAvg`: "this is exactly FedAvg" (`config.py:63-64`) | a worker pulls between `submit`'s lock and `apply_gradients` and trains from weights that are replaced |
| `Resume` | `ResumesFromCheckpoint`: "resumes automatically if `checkpoints/latest.pkl` exists" (`CHANGELOG.md:249-250`) | the server is killed while it rewrites the file in place; the restart ignores the error and starts at step 0 |

`CrashBlocks` needs fairness and `AllTogether`, so that the survivor is not blocked for
any reason but the crash.  The demonstration in `README.md:63-68` and
`CHANGELOG.md:224` does not contradict it: when the killed worker dies *before* the
survivor's push, the push opens the barrier.

Deadlock is not checked: a run ends when the workers are done, and the bounds stop it.
Symmetry is used for invariants and action properties only (workers and threads are
never compared or ordered); the runs with liveness have none.

## Proofs

The theorems hold for every number of workers and restarts, every `max_steps`, quorum,
interval and set of faults, except where a hypothesis is named below.  From the modules
they use only the assumptions on constants: `WireAssumption`, `ServerAssumption`,
`FaultAssumption`, `TimingAssumption`, `StoreAssumption`, `LauncherAssumption` and
`MetricsAssumption` (the constants are naturals, the intervals and sizes positive);
`BarrierAssumption` (the same, and finitely many workers, at least one, which the proof
counts); `EnvAssumption` and `RolloutAssumption` (sizes are positive, the discounts are
integers, a shuffle is a permutation); `Schedulable` (the cosine factor lies in (0, 1] as
long as the progress is below 1).

**Training** (`TrainingProofs`).  `Invariance` proves `IInv`, from which the rest
follows.  `ImplementsRounds` is not inductive: that a push is *new* to the aggregator
depends on where the old ones are.  `IInv` therefore says that the buffer, the rounds in
the hands of threads, and what was applied or dropped never share a delta (`Disjoint`,
`RoundInApply`), that a stream delivers the deltas of one worker in increasing order and
only deltas younger than all the aggregator has seen of it (`StreamOrdered`,
`StreamFresh`), and that nothing comes from an iteration or an incarnation that has not
happened (`NothingFromTheFuture`).  That the buffer holds at most one delta per worker
(`BufferKeyed`) makes the batch of a round one per sender.  `EntriesAttended` says that
every entry of the two dictionaries belongs to a connection with a living handler, which
gives `NothingLeftBehind`; `AliveIsServed` is inductive by itself, given types.
`Refinement` maps `buffer` and the rounds in flight to `pending`: `SubmitAndFire` is an
arrival or a replacement, `ApplyGradients` is the round, `Unregister` discards.

**Synchronous rounds** (`SyncProofs`), under the hypothesis `CrashStop`:
`min_ready_workers` is 0, and workers may be killed, at any moment and as many as there
are, but none is started again.  The properties of `SyncRounds` about rounds, replies
and ACKs speak of one system state each, and none is inductive.  `Synchronous` proves
`SyncInv`, which says why threads that hold no lock are still in step:

* `TakingTurns`: a worker and its thread hold a dialogue.  For each place in the worker's
  loop, `Dialogue` says which message is on its way and where the thread may be; a
  connection never holds more than one message.  This is what the assertions of the client
  need (`NobodyFails`).  Of a killed worker at most one request is left (`Left`): its
  thread may still read and answer it, with a push open a round and run it, before it
  finds the connection closed.
* `Barrier`: the buffer holds exactly current deltas of workers that wait or were killed
  (`BufferWaits`); a round owes an ACK only to workers that wait for it, with their delta
  in it, or that are gone (`RoundOwes`); and it owes one to each worker whose delta it
  took, to the worker of its own thread to the last (`RoundOwed`).  Hence a delta is
  discarded only if its own worker was killed (`SurvivorsLoseNothing`), an ACK means what
  it says (`AckedIsApplied`), and no ACK goes to a thread that is about to reply
  (`OneWriter`).
* `RoundsOneByOne` is proved with the rest: the thread in a round does not read, so its
  worker's next delta is not in the buffer, while the worker has a socket and is ALIVE
  (`Membership`); the barrier waits for it.  A kill changes nothing of that: the worker
  stays ALIVE and registered until its thread has left the round and cleans up.
* `FreshWeights`: a version that a worker holds, or that a thread or a message carries to
  it, is the current one, or one less while no round is about to apply.  A round that
  begins then finds it at most one update old (`StaleByOne`).

`NothingLost` needs `Sync`, which is `CrashStop` without kills.  The hypotheses are
needed: without a restart a single kill violates `NoLostGradient`, and no other of the
properties; on two workers with one restart each, TLC finds all but `QuietAtTheEnd`
violated after a single kill, and all seven after a single expiry.  A disk fault ends a
handler, and its worker fails.  For a quorum, see `QuorumReplies`.

**Checkpoints** (`CheckpointProofs`), assuming no disk faults.  The cadence holds
although `last_checkpoint_step` is read, tested and written without a lock.  The
argument is `CheckpointInv` (`CheckpointInvariant`): the newest step is still being
looked at by a thread, or a save is on its way, or the file is recent (`StepIsWatched`);
and a mark that is ahead of the file has a thread that will save (`MarkIsBacked`).
`save_checkpoint` writes the current step and not the step of its round, which is why a
late thread does not harm.

**Heartbeats** (`HeartbeatProofs`).  `MonitorInv` bounds how late the scan is
(`LoopOnTime`), how long ago a looping worker was seen (`LoopersSeen`) and what the last
scan has established (`ScannedRecently`), together with `DeadOnlyIfStruck`, which follows
from the first two (`OnlyStruck`): a scan finds a looping worker overdue only if the timing
does not fit, and a mark of an old handler lasts until the next message, which
`LoopersSeen` bounds.  `NotEarly` and `Noticed` follow likewise.

**Timed barrier** (`TimedBarrierProofs`).  The monitor's promise needs a bound on an
iteration, the bound needs that nobody who computes is left out of a round, and that
needs the monitor's promise.  `BarrierInv` therefore conjoins the monitor's invariant and
the barrier's, and each step preserves both; for the monitor's half the lemmas of
`HeartbeatProofs` are used by instance, with `LongestIteration` for `MaxIteration`.  The
heart of the other half is `Spread`, how far apart the iterations of one round begin:
`MaxCompute` for each further worker that has joined in synchronous mode, because a worker
joins while somebody else computes, and `JoinWithin` with a quorum of all.  With one
rollout more this is `LongestIteration`, so `BoundedIterations` proves the refinement.
Hypotheses: `EverybodyCounts`, the barrier is synchronous or its quorum is everybody
(smaller quorums send stray ACKs, see `QuorumReplies`), and, for the invariant and the
refinement, `TimingFits`, which `NoStrayAck` and `NeverAllWaiting` have as their premise.

**Store** (`StoreProofs`).  `StoreInv` says that whoever is inside a method holds the lock
alone (`Exclusive`), that only an update in progress makes entries differ
(`EntriesFollowStep`), and that a copy in progress is of the current step
(`CopiesFollowStep`).  `StoreRefinement` maps the end of each loop to one step of
`AtomicStore`.

**Rollout** (`RolloutProofs`).  Two of the four properties are about loops over data, and
their references are sums.  The proofs do their induction by the least counterexample
(`LeastNumber`, `Induction`), from the library's fact that `<` is well-founded, which
takes no operator as a parameter.  On it rest `Iterates`, that a recursive function
satisfies its own equation, and the facts about sums over a finite set and about
`FlattenSeq` that the library does not have.

* `Advantages`: `GaeEquation` says that `compute_gae` satisfies its recurrence,
  `Discounting` that the recurrence is the discounted sum of the errors up to the first
  done, and `FollowedInv` that the next row of the buffer holds what the environment
  showed next, unless the episode ended, so that the errors are the right ones.
  Hypothesis: the critic's values are integers (`IntegerCritic`), as in the run.
* `WholeEpisodes`: `EpisodesInv` says that `ep_returns` is the return so far of every open
  episode (`AppendedStep`), over all steps since the start and not over the rollout.  A
  step adds to the history the returns of just the episodes it ends (`TotalsAppended`),
  and what is left after trimming is still the end of that history (`SuffixGrows`,
  `LatestIsSuffix`).

`Rates` computes the fraction of each branch of the schedule (`RateOfIteration`).
`EpochsComplete` rests on an invariant that counts: before a minibatch, exactly the
samples the permutation has passed were trained on once more than the others
(`Shuffling`, `SampleCount`), so the end of an epoch leaves none out, whatever the size
of the last slice.  `RolloutTypes` needs that the environments step in
lockstep and that the rows of a rollout hold one entry per environment (`Row`).

**Deployment** (`DeploymentProofs`).  `DeploymentInvariant` proves `DeploymentInv`, from
which the safety properties of the run follow.  `SlowStartIsWaitedFor` adds up two
clocks: a worker dials at its own pace from the end of the wait on, so its number of
attempts and the time of the next tell one another (`DialTimes`), and a worker gives up
only after the time a slow server was promised, however and whenever other processes
end.  `NothingMissed` is about a loop that awaits: what a browser has received is a
segment of what was popped, one short exactly while it is still a target of the
broadcast, and browsers that come during the broadcast are neither targets nor in debt
for it (`Broadcast`).

Only model-checked:

* Liveness, which is out of the prover's reach: `TogetherAllFinish`, `LauncherEnds`, and
  the counterexample to `SurvivorsGoOn`.

Of the inductive invariants, `IInv`, `CheckpointInv`, `MonitorInv`, `StoreInv`,
`BarrierInv` and `DeploymentInv` are also invariants of runs.  `SyncInv` holds on the
instance of `SyncRounds` too, but evaluating it nearly doubles the time of the longest
run, so it is not in its `.cfg`; `MCTraining` extends `SyncInvariant`, and the line
`INVARIANT SyncInv` is all that is needed.  With two workers, two kills and `Spec` it is
checked in seconds (10 700 states under the symmetry of the workers).  `FollowedInv` and
`EpisodesInv` are beyond TLC (their types range over all observations, their sums are
unbounded choices); what they imply is checked by the run `Rollout`.

## Not modelled

* The bytes of a frame: messages are atomic.  Where an ACK of one thread and a reply of
  another could meet on one socket (`protocol.py:50`) is a property of `Training`; in
  quorum mode they can, after the early ACK of `QuorumReplies`.  Short reads and the
  loop of `_recv_exactly` are left out.
* Floating-point numerics: the losses of PPO, the networks, the physics of the tasks, the
  averaging as arithmetic, the normalisation of the advantages, float32 rounding.
  These functions have no control of their own that a model checker could follow.
* Argument parsing and what it overrides.  `TrainConfig.__post_init__` sees the defaults
  only; `train.py:70-87` and `run_worker.py:38-51` assign the command line's values
  afterwards, so the ranges the modules assume are promised by the docstring and not
  enforced.  A `--min_ready_workers` above the number of workers never opens the barrier:
  `OversizedQuorum` (`TrainingProofs`) proves that nothing is averaged and that no worker
  ends its first iteration, under all faults.
* An interrupt of the launcher before its `try` (`train.py:124`), while it waits for
  `ready`: the exception leaves `main`, and Python joins the children, which got the same
  signal.  A second interrupt, during the clean-up.  A child that `SIGTERM` does not end
  within the `join(timeout=5)`.
* What an old handler takes from the process that follows it: `Training` contains it (the
  socket and the gradient of the successor, `connection_handler.py:168`), but no property
  forbids it, because the code does it.
* A browser that accepts data slowly: `send_text` then holds up the pump and with it
  the other browsers; the queue fills and drops.  `Metrics` has sends that succeed or
  fail.
* A server restart in `Training`: workers do not reconnect, so it ends the run; what the
  store does is in `WeightStore`.
* A connection with a message without `worker_id`, or of an unknown type: no client
  sends one.
* An exception in `apply_gradients` (a delta of another shape): workers of one launcher
  build the same networks.

Two places where the documentation and the code differ without a run of their own:
`worker.py:3-5` says that a worker never applies an optimizer step and `ppo.py:4-6` that
gradients add up over all minibatches; `worker.py:160-173` clears them and takes a step
for each minibatch (`Train`).  `README.md:37` offers `--lr_warmup_steps`, which neither
parser has.  A restarted worker begins its schedule
again, because `scheduled_lr` gets the worker's own count.

## Plan

1. Done: the core (`Wire`, `ParameterServer`, `Worker`, `Training`, `FedAvgRounds`), the
   clock (`HeartbeatMonitor`), the store (`WeightStore`, `AtomicStore`), their proofs.
2. Done: the worker's computation (`Environments`, `Schedule`, `Rollout`), the barrier with
   the clock (`TimedBarrier`), the processes and the metrics (`Launcher`, `Metrics`,
   `Deployment`), the non-overlap of rounds in `Training`, and the first proofs about
   `Rollout`.
3. Done: the proofs of the synchronous mode (`SyncInvariant`, `SyncProofs`), of the
   launcher and the dashboard (`DeploymentProofs`), of the timed barrier
   (`TimedBarrierProofs`), and of the types of a rollout.  Then the
   inductions over data (`Advantages`, `WholeEpisodes`), so that every safety property of
   a passing run is a theorem; the synchronous mode with workers killed for good; and what
   a quorum that is too large prevents (`OversizedQuorum`).
4. Open: a connection as bytes (`_recv_exactly`, `sendall`) refining `Wire`; a run that
   shows the old handler's clean-up hit the new incarnation (`connection_handler.py:168`).
