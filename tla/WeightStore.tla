----------------------------- MODULE WeightStore -----------------------------
(***************************************************************************)
(* The weight store, inside its lock, and latest.pkl: the updates go       *)
(* parameter by parameter, and so do the copies that are sent to a worker  *)
(* or pickled; the file is written in place.  The server process may be    *)
(* killed between any two of these steps, and started again.               *)
(***************************************************************************)
EXTENDS Integers

CONSTANTS Threads,         \* the handler threads, and the main thread at the end
          NumParams,       \* how many entries the weight dictionaries have
          LoadCheckpoint,  \* config.load_checkpoint
          MaxStep,         \* bound: updates since the last fresh start
          MaxKills         \* bound: how often the process is killed

ASSUME StoreAssumption == /\ NumParams \in Nat \ {0}
                          /\ LoadCheckpoint \in BOOLEAN
                          /\ MaxStep \in Nat
                          /\ MaxKills \in Nat

(***************************************************************************)
(* A value of a parameter is abstracted to the number of updates in it.    *)
(* An entry stands for weights[name] and for momentum_buffers[name], which *)
(* one iteration of the loop updates and every copy and file has together. *)
(***************************************************************************)
Names == 1 .. NumParams
State == [Names -> Nat]
All(version) == [n \in Names |-> version]
NoCopy == [weights |-> All(0), step |-> 0]

VARIABLES
    running,      \* the server process is up
    lock,         \* the thread that holds WeightStore.lock, if any
    weights,      \* WeightStore.weights and momentum_buffers
    global_step,  \* WeightStore.global_step
    pc,           \* pc[t]: which loop of which method t is in
    at,           \* at[t]: the next entry in that loop
    copy,         \* copy[t]: the deep copy that t makes, and the step it read
    result,       \* result[t]: what the last get_weights of t returned
    file,         \* latest.pkl; not whole if it is absent or cut off
    completed,    \* history: the step of the last save that was completed
    kills         \* how often the process was killed

threadVars == <<lock, pc, at, copy>>
storeVars == <<weights, global_step>>
vars == <<running, threadVars, storeVars, result, file, completed, kills>>

Init == /\ running = TRUE
        /\ lock = {}
        /\ weights = All(0)
        /\ global_step = 0
        /\ pc = [t \in Threads |-> "idle"]
        /\ at = [t \in Threads |-> 1]
        /\ copy = [t \in Threads |-> NoCopy]
        /\ result = [t \in Threads |-> All(0)]
        /\ file = [whole |-> FALSE, weights |-> All(0), step |-> 0]
        /\ completed = 0
        /\ kills = 0

TypeOK == /\ running \in BOOLEAN
          /\ lock \subseteq Threads
          /\ weights \in State
          /\ global_step \in Nat
          /\ pc \in [Threads -> {"idle", "update", "read", "save", "open", "dump"}]
          /\ at \in [Threads -> 1 .. NumParams + 1]
          /\ copy \in [Threads -> [weights : State, step : Nat]]
          /\ result \in [Threads -> State]
          /\ file \in [whole : BOOLEAN, weights : State, step : Nat]
          /\ completed \in Nat
          /\ kills \in Nat
-----------------------------------------------------------------------------
(* The lock: entered with the method, left at its end or by an exception.   *)

Enter(t, label) == /\ running
                   /\ pc[t] = "idle"
                   /\ lock = {}
                   /\ lock' = {t}
                   /\ pc' = [pc EXCEPT ![t] = label]
                   /\ UNCHANGED <<at, copy>>

\* Seeded fault: the lock is neither awaited nor taken.
EnterUnlocked(t, label) == /\ running
                           /\ pc[t] = "idle"
                           /\ pc' = [pc EXCEPT ![t] = label]
                           /\ UNCHANGED <<lock, at, copy>>

\* The method returns or raises; its local variables are gone.
Leave(t) == /\ lock' = lock \ {t}
            /\ pc' = [pc EXCEPT ![t] = "idle"]
            /\ at' = [at EXCEPT ![t] = 1]
            /\ copy' = [copy EXCEPT ![t] = NoCopy]

InLoop(t, label) == pc[t] = label /\ at[t] \in Names
LoopOver(t, label) == pc[t] = label /\ at[t] = NumParams + 1

Advance(t) == /\ at' = [at EXCEPT ![t] = @ + 1]
              /\ UNCHANGED <<lock, pc>>

CopyEntry(t) == copy' = [copy EXCEPT ![t].weights[at[t]] = weights[at[t]]]
-----------------------------------------------------------------------------
(* apply_gradients                                                          *)

BeginUpdate(t) == /\ Enter(t, "update")
                  /\ global_step < MaxStep
                  /\ UNCHANGED <<running, storeVars, result, file, completed, kills>>

UpdateEntry(t) ==
    /\ InLoop(t, "update")
    /\ weights' = [weights EXCEPT ![at[t]] = @ + 1]
    /\ Advance(t)
    /\ UNCHANGED <<running, global_step, copy, result, file, completed, kills>>

FinishUpdate(t) ==
    /\ LoopOver(t, "update")
    /\ global_step' = global_step + 1
    /\ Leave(t)
    /\ UNCHANGED <<running, weights, result, file, completed, kills>>
-----------------------------------------------------------------------------
(* get_weights                                                              *)

\* Seeded fault: the copy is made without the lock.
BeginReadUnlocked(t) ==
    /\ EnterUnlocked(t, "read")
    /\ UNCHANGED <<running, storeVars, result, file, completed, kills>>

BeginRead(t) == /\ Enter(t, "read")
                /\ UNCHANGED <<running, storeVars, result, file, completed, kills>>

ReadEntry(t) == /\ InLoop(t, "read")
                /\ CopyEntry(t)
                /\ Advance(t)
                /\ UNCHANGED <<running, storeVars, result, file, completed, kills>>

FinishRead(t) ==
    /\ LoopOver(t, "read")
    /\ result' = [result EXCEPT ![t] = copy[t].weights]
    /\ Leave(t)
    /\ UNCHANGED <<running, storeVars, file, completed, kills>>
-----------------------------------------------------------------------------
(* save_checkpoint, of a round or of the shutdown in server_main.           *)

\* Seeded fault: the lock protects the updates only.
BeginSaveUnlocked(t) ==
    /\ EnterUnlocked(t, "save")
    /\ UNCHANGED <<running, storeVars, result, file, completed, kills>>

BeginSave(t) == /\ Enter(t, "save")
                /\ UNCHANGED <<running, storeVars, result, file, completed, kills>>

SaveEntry(t) == /\ InLoop(t, "save")
                /\ CopyEntry(t)
                /\ Advance(t)
                /\ UNCHANGED <<running, storeVars, result, file, completed, kills>>

\* The step goes into the dictionary after the copies.
SaveStep(t) == /\ LoopOver(t, "save")
               /\ copy' = [copy EXCEPT ![t].step = global_step]
               /\ pc' = [pc EXCEPT ![t] = "open"]
               /\ UNCHANGED <<running, lock, at, storeVars, result, file, completed, kills>>

\* open(path, "wb") cuts the file to nothing.
OpenFile(t) == /\ pc[t] = "open"
               /\ file' = [file EXCEPT !.whole = FALSE]
               /\ pc' = [pc EXCEPT ![t] = "dump"]
               /\ UNCHANGED <<running, lock, at, copy, storeVars, result, completed, kills>>

\* The last byte of pickle.dump is written.
FinishSave(t) ==
    /\ pc[t] = "dump"
    /\ file' = [whole |-> TRUE, weights |-> copy[t].weights, step |-> copy[t].step]
    /\ completed' = copy[t].step
    /\ Leave(t)
    /\ UNCHANGED <<running, storeVars, result, kills>>

\* Seeded fault: the exception leaves the lock taken.
FailSaveLocked(t) ==
    /\ pc[t] \in {"open", "dump"}
    /\ pc' = [pc EXCEPT ![t] = "idle"]
    /\ UNCHANGED <<running, storeVars, lock, at, copy, result, file, completed, kills>>

\* OSError: from open, before it could cut the file, or from a write.
FailSave(t) == /\ pc[t] \in {"open", "dump"}
               /\ Leave(t)
               /\ UNCHANGED <<running, storeVars, result, file, completed, kills>>
-----------------------------------------------------------------------------
(* The process.                                                             *)

\* Killed: by the launcher's terminate(), by docker, or with its node.
Kill == /\ running
        /\ kills < MaxKills
        /\ kills' = kills + 1
        /\ running' = FALSE
        /\ lock' = {}
        /\ pc' = [t \in Threads |-> "idle"]
        /\ at' = [t \in Threads |-> 1]
        /\ copy' = [t \in Threads |-> NoCopy]
        /\ UNCHANGED <<storeVars, result, file, completed>>

\* load_checkpoint finds a file that unpickles.
Loads == LoadCheckpoint /\ file.whole

\* Seeded fault: the loader restores the weights and forgets the step.
StartWithoutStep ==
    /\ ~running
    /\ running' = TRUE
    /\ weights' = IF Loads THEN file.weights ELSE All(0)
    /\ global_step' = 0
    /\ UNCHANGED <<threadVars, result, file, completed, kills>>

\* server_main: fresh weights, replaced by those of the checkpoint.  A checkpoint
\* that is absent or does not unpickle makes load_checkpoint return False, which
\* server_main does not look at.
Start == /\ ~running
         /\ running' = TRUE
         /\ weights' = IF Loads THEN file.weights ELSE All(0)
         /\ global_step' = IF Loads THEN file.step ELSE 0
         /\ UNCHANGED <<threadVars, result, file, completed, kills>>

Update(t) == BeginUpdate(t) \/ UpdateEntry(t) \/ FinishUpdate(t)
Read(t) == BeginRead(t) \/ ReadEntry(t) \/ FinishRead(t)
Save(t) == \/ BeginSave(t) \/ SaveEntry(t) \/ SaveStep(t)
           \/ OpenFile(t) \/ FinishSave(t) \/ FailSave(t)

Next == Kill \/ Start \/ \E t \in Threads : Update(t) \/ Read(t) \/ Save(t)

Spec == Init /\ [][Next]_vars
-----------------------------------------------------------------------------
(* A dictionary whose entries all have one version is that version.         *)

Torn == -1
VersionOf(state) == IF state = All(state[1]) THEN state[1] ELSE Torn

Atomic == INSTANCE AtomicStore
            WITH version <- global_step,
                 saved <- IF file.whole THEN file.step ELSE 0,
                 result <- [t \in Threads |-> VersionOf(result[t])]

\* The parameters, the copies and the file behave as one versioned value each,
\* although they are updated, copied and written entry by entry and a kill may come
\* between any two steps (apply_gradients, get_weights, save_checkpoint).
ImplementsAtomicStore == Atomic!Spec

\* A checkpoint that can be loaded holds the weights of exactly the step it names
\* (save_checkpoint builds it under the lock of apply_gradients).
FileConsistent == file.whole => file.weights = All(file.step)

\* A server that starts has weights that belong to its step counter, and that step
\* is the one saved last, or 0: never one in between (load_checkpoint).
ResumesCleanly ==
    [][~running /\ running' => /\ global_step' \in {completed, 0}
                               /\ weights' = All(global_step')]_vars

\* A server that starts resumes from the checkpoint that was saved last.
ResumesFromCheckpoint == [][~running /\ running' => global_step' = completed]_vars
-----------------------------------------------------------------------------
(* The inductive invariant.                                                 *)

\* Whoever is in a method holds the lock, and nobody else does.
Exclusive == \A t \in Threads : pc[t] # "idle" <=> lock = {t}

\* Every loop begins at the first entry.
IdleAtStart == \A t \in Threads : pc[t] = "idle" => at[t] = 1

\* Only an update in progress makes the entries differ, and only by one.
EntriesFollowStep ==
    \A n \in Names : weights[n] =
      IF \E t \in Threads : pc[t] = "update" /\ n < at[t] THEN global_step + 1
                                                        ELSE global_step

\* What a copy in progress has so far is of the current step.
CopiesFollowStep ==
    \A t \in Threads :
      /\ pc[t] \in {"read", "save"} =>
           \A n \in Names : n < at[t] => copy[t].weights[n] = global_step
      /\ pc[t] \in {"open", "dump"} =>
           copy[t] = [weights |-> All(global_step), step |-> global_step]

StoreInv == /\ TypeOK
            /\ Exclusive
            /\ IdleAtStart
            /\ running => EntriesFollowStep
            /\ ~running => lock = {}
            /\ CopiesFollowStep
            /\ FileConsistent
            /\ file.whole => file.step = completed
=============================================================================
