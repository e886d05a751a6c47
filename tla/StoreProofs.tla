----------------------------- MODULE StoreProofs -----------------------------
(***************************************************************************)
(* The weight store for every number of threads and of parameters: the     *)
(* lock makes the entry-by-entry loops one step each, and the file is      *)
(* consistent whenever it is whole.                                        *)
(***************************************************************************)
EXTENDS WeightStore, TLAPS

\* A versioned dictionary has an entry 1, which tells its version.
LEMMA VersionOfAll ==
    ASSUME NEW v \in Nat
    PROVE  /\ All(v) \in State
           /\ VersionOf(All(v)) = v
  BY StoreAssumption DEF All, State, Names, VersionOf

\* The lock admits one thread to the methods.
LEMMA Alone ==
    ASSUME Exclusive, NEW t \in Threads, pc[t] # "idle"
    PROVE  /\ lock = {t}
           /\ \A u \in Threads : u # t => pc[u] = "idle"
<1>1. lock = {t}
  BY DEF Exclusive
<1>2. ASSUME NEW u \in Threads, u # t PROVE pc[u] = "idle"
  BY <1>1, <1>2 DEF Exclusive
<1> QED
  BY <1>1, <1>2

\* Outside an update all entries are of the current step.
LEMMA NoUpdate ==
    ASSUME TypeOK, EntriesFollowStep, \A t \in Threads : pc[t] # "update"
    PROVE  weights = All(global_step)
  BY DEF TypeOK, EntriesFollowStep, State, All

LEMMA InitStoreInv == Init => StoreInv
<1> SUFFICES ASSUME Init PROVE StoreInv
  OBVIOUS
<1>1. /\ All(0) \in State
      /\ NoCopy \in [weights : State, step : Nat]
  BY VersionOfAll DEF NoCopy
<1>2. 1 \in 1 .. NumParams + 1
  BY StoreAssumption
<1>3. TypeOK
  BY <1>1, <1>2, StoreAssumption DEF Init, TypeOK
<1>4. Exclusive /\ IdleAtStart /\ EntriesFollowStep /\ CopiesFollowStep /\ FileConsistent
  BY DEF Init, Exclusive, IdleAtStart, EntriesFollowStep, CopiesFollowStep, FileConsistent, All
<1> QED
  BY <1>3, <1>4 DEF Init, StoreInv
-----------------------------------------------------------------------------
\* What entering a method keeps, and what it gives.
LEMMA EnterKeeps ==
    ASSUME StoreInv, NEW t \in Threads, NEW label \in {"update", "read", "save"},
           Enter(t, label),
           UNCHANGED <<running, storeVars, result, file, completed, kills>>
    PROVE  StoreInv'
<1> USE DEF Enter, storeVars
<1>1. /\ \A u \in Threads : pc[u] = "idle"
      /\ \A u \in Threads : pc'[u] = IF u = t THEN label ELSE "idle"
  BY DEF StoreInv, TypeOK, Exclusive
<1>2. TypeOK'
  BY DEF StoreInv, TypeOK
<1>3. Exclusive' /\ IdleAtStart'
  BY <1>1 DEF StoreInv, Exclusive, IdleAtStart
<1>4. EntriesFollowStep'
  BY <1>1 DEF StoreInv, IdleAtStart, EntriesFollowStep, Names
<1>5. CopiesFollowStep'
  BY <1>1 DEF StoreInv, IdleAtStart, CopiesFollowStep, Names
<1> QED
  BY <1>1, <1>2, <1>3, <1>4, <1>5 DEF StoreInv, FileConsistent

\* What leaving a method keeps, when the entries and the file are in order.
LEMMA LeaveKeeps ==
    ASSUME StoreInv, NEW t \in Threads, pc[t] # "idle", Leave(t),
           global_step' \in Nat, weights' = All(global_step'),
           result' \in [Threads -> State],
           file' \in [whole : BOOLEAN, weights : State, step : Nat],
           completed' \in Nat,
           FileConsistent', file'.whole => file'.step = completed',
           UNCHANGED <<running, kills>>
    PROVE  StoreInv'
<1> USE DEF Leave
<1>1. /\ lock = {t}
      /\ \A u \in Threads : pc'[u] = "idle"
  BY Alone DEF StoreInv, TypeOK
<1>2. NoCopy \in [weights : State, step : Nat] /\ 1 \in 1 .. NumParams + 1
  BY VersionOfAll, StoreAssumption DEF NoCopy
<1>3. TypeOK'
  BY <1>2, VersionOfAll DEF StoreInv, TypeOK
<1>4. Exclusive' /\ IdleAtStart' /\ lock' = {}
  BY <1>1 DEF StoreInv, TypeOK, Exclusive, IdleAtStart
<1>5. EntriesFollowStep' /\ CopiesFollowStep'
  BY <1>1 DEF EntriesFollowStep, CopiesFollowStep, All
<1> QED
  BY <1>3, <1>4, <1>5 DEF StoreInv

LEMMA UpdateKeeps ==
    ASSUME StoreInv, NEW t \in Threads, Update(t)
    PROVE  StoreInv'
<1>1. CASE BeginUpdate(t)
  BY <1>1, EnterKeeps DEF BeginUpdate
<1>2. CASE UpdateEntry(t)
  <2> USE <1>2 DEF UpdateEntry, InLoop, Advance
  <2>1. /\ running
        /\ \A u \in Threads : u # t => pc[u] = "idle"
    BY Alone DEF StoreInv
  <2>2. /\ at[t] \in 1 .. NumParams
        /\ \A u \in Threads : at'[u] = IF u = t THEN at[t] + 1 ELSE at[u]
        /\ \A n \in Names : weights'[n] = IF n = at[t] THEN weights[n] + 1 ELSE weights[n]
    BY DEF StoreInv, TypeOK, State, Names
  <2>3. TypeOK'
    <3>1. weights' \in State
      BY DEF StoreInv, TypeOK, State
    <3>2. at' \in [Threads -> 1 .. NumParams + 1]
      BY <2>2, StoreAssumption DEF StoreInv, TypeOK
    <3> QED
      BY <3>1, <3>2 DEF StoreInv, TypeOK
  <2>4. Exclusive' /\ IdleAtStart'
    BY <2>1, <2>2 DEF StoreInv, Exclusive, IdleAtStart
  <2>5. \A n \in Names : weights[n] = IF n < at[t] THEN global_step + 1 ELSE global_step
    BY <2>1 DEF StoreInv, EntriesFollowStep
  <2>6. \A n \in Names :
          weights'[n] = IF n < at[t] + 1 THEN global_step + 1 ELSE global_step
    <3>1. at[t] \in Int /\ global_step \in Int
      BY <2>2 DEF StoreInv, TypeOK
    <3> QED
      BY <2>2, <2>5, <3>1 DEF Names
  <2>7. EntriesFollowStep'
    BY <2>1, <2>2, <2>6 DEF EntriesFollowStep
  <2>8. CopiesFollowStep'
    BY <2>1 DEF StoreInv, CopiesFollowStep
  <2> QED
    BY <2>1, <2>3, <2>4, <2>7, <2>8 DEF StoreInv, FileConsistent
<1>3. CASE FinishUpdate(t)
  <2> USE <1>3 DEF FinishUpdate, LoopOver
  <2>1. running
    BY Alone DEF StoreInv
  <2>2. \A n \in Names : weights[n] = global_step + 1
    BY <2>1, StoreAssumption DEF StoreInv, TypeOK, EntriesFollowStep, Names
  <2>3. weights' = All(global_step')
    BY <2>2 DEF StoreInv, TypeOK, State, All
  <2> QED
    BY <2>3, LeaveKeeps DEF StoreInv, TypeOK, FileConsistent
<1> QED
  BY <1>1, <1>2, <1>3 DEF Update

\* One more entry of a copy, of either method that copies.
LEMMA CopyKeeps ==
    ASSUME StoreInv, NEW t \in Threads, NEW label \in {"read", "save"},
           InLoop(t, label), CopyEntry(t), Advance(t),
           UNCHANGED <<running, storeVars, result, file, completed, kills>>
    PROVE  StoreInv'
<1> USE DEF InLoop, Advance, storeVars
<1>1. /\ running
      /\ \A u \in Threads : u # t => pc[u] = "idle"
  BY Alone DEF StoreInv
<1>2. weights = All(global_step)
  BY <1>1, NoUpdate DEF StoreInv
<1>3. /\ at[t] \in 1 .. NumParams
      /\ \A u \in Threads : at'[u] = IF u = t THEN at[t] + 1 ELSE at[u]
  BY DEF StoreInv, TypeOK, Names
<1>4. /\ copy'[t] \in [weights : State, step : Nat]
      /\ \A n \in Names : copy'[t].weights[n] =
                            IF n = at[t] THEN weights[n] ELSE copy[t].weights[n]
      /\ \A u \in Threads : u # t => copy'[u] = copy[u]
  <2> DEFINE longer == [copy[t].weights EXCEPT ![at[t]] = weights[at[t]]]
  <2>1. copy[t] \in [weights : State, step : Nat] /\ weights \in State
    BY DEF StoreInv, TypeOK
  <2>2. /\ longer \in State
        /\ \A n \in Names : longer[n] = IF n = at[t] THEN weights[n] ELSE copy[t].weights[n]
    BY <2>1 DEF State
  <2>3. [copy[t] EXCEPT !.weights = longer] = [weights |-> longer, step |-> copy[t].step]
    BY <2>1
  <2>4. copy' = [copy EXCEPT ![t] = [weights |-> longer, step |-> copy[t].step]]
    BY <2>3 DEF CopyEntry
  <2> HIDE DEF longer
  <2> QED
    BY <2>1, <2>2, <2>4 DEF StoreInv, TypeOK
<1>5. TypeOK'
  <2>1. copy' \in [Threads -> [weights : State, step : Nat]]
    BY <1>4 DEF CopyEntry, StoreInv, TypeOK
  <2>2. at' \in [Threads -> 1 .. NumParams + 1]
    BY <1>3, StoreAssumption DEF StoreInv, TypeOK
  <2> QED
    BY <2>1, <2>2 DEF StoreInv, TypeOK
<1>6. Exclusive' /\ IdleAtStart' /\ EntriesFollowStep'
  BY <1>1, <1>3 DEF StoreInv, Exclusive, IdleAtStart, EntriesFollowStep
<1>7. CopiesFollowStep'
  <2>1. \A n \in Names : n < at[t] + 1 => copy'[t].weights[n] = global_step
    BY <1>2, <1>3, <1>4 DEF StoreInv, CopiesFollowStep, Names, All
  <2> QED
    BY <1>1, <1>3, <2>1 DEF StoreInv, CopiesFollowStep
<1> QED
  BY <1>1, <1>5, <1>6, <1>7 DEF StoreInv, FileConsistent

LEMMA ReadKeeps ==
    ASSUME StoreInv, NEW t \in Threads, Read(t)
    PROVE  StoreInv'
<1>1. CASE BeginRead(t)
  BY <1>1, EnterKeeps DEF BeginRead
<1>2. CASE ReadEntry(t)
  BY <1>2, CopyKeeps DEF ReadEntry
<1>3. CASE FinishRead(t)
  <2> USE <1>3 DEF FinishRead, LoopOver, storeVars
  <2>1. running /\ weights = All(global_step)
    BY Alone, NoUpdate DEF StoreInv
  <2> QED
    BY <2>1, LeaveKeeps DEF StoreInv, TypeOK, FileConsistent
<1> QED
  BY <1>1, <1>2, <1>3 DEF Read

LEMMA SaveKeeps ==
    ASSUME StoreInv, NEW t \in Threads, Save(t)
    PROVE  StoreInv'
<1> USE DEF storeVars
<1>1. CASE BeginSave(t)
  BY <1>1, EnterKeeps DEF BeginSave
<1>2. CASE SaveEntry(t)
  BY <1>2, CopyKeeps DEF SaveEntry
<1>3. CASE SaveStep(t)
  <2> USE <1>3 DEF SaveStep, LoopOver
  <2>1. /\ running
        /\ \A u \in Threads : u # t => pc[u] = "idle"
    BY Alone DEF StoreInv
  <2>2. \A n \in Names : copy[t].weights[n] = global_step
    BY StoreAssumption DEF StoreInv, TypeOK, CopiesFollowStep, Names
  <2>3. copy[t].weights = All(global_step)
    BY <2>2 DEF StoreInv, TypeOK, State, All
  <2>4. copy' = [copy EXCEPT ![t] = [weights |-> All(global_step), step |-> global_step]]
    <3>1. copy[t] \in [weights : State, step : Nat]
      BY DEF StoreInv, TypeOK
    <3>2. [copy[t] EXCEPT !.step = global_step]
            = [weights |-> All(global_step), step |-> global_step]
      BY <2>3, <3>1
    <3> QED
      BY <3>2
  <2>5. TypeOK'
    BY <2>4, VersionOfAll DEF StoreInv, TypeOK
  <2>6. Exclusive' /\ IdleAtStart' /\ EntriesFollowStep'
    BY <2>1 DEF StoreInv, TypeOK, Exclusive, IdleAtStart, EntriesFollowStep
  <2>7. CopiesFollowStep'
    BY <2>1, <2>4 DEF StoreInv, TypeOK, CopiesFollowStep
  <2> QED
    BY <2>1, <2>5, <2>6, <2>7 DEF StoreInv, FileConsistent
<1>4. CASE OpenFile(t)
  <2> USE <1>4 DEF OpenFile
  <2>1. /\ running
        /\ \A u \in Threads : u # t => pc[u] = "idle"
    BY Alone DEF StoreInv
  <2>2. TypeOK' /\ Exclusive' /\ IdleAtStart' /\ EntriesFollowStep'
    BY <2>1 DEF StoreInv, TypeOK, Exclusive, IdleAtStart, EntriesFollowStep
  <2>3. CopiesFollowStep' /\ ~file'.whole
    BY <2>1 DEF StoreInv, TypeOK, CopiesFollowStep
  <2> QED
    BY <2>1, <2>2, <2>3 DEF StoreInv, FileConsistent
<1>5. CASE FinishSave(t)
  <2> USE <1>5 DEF FinishSave
  <2>1. running /\ weights = All(global_step)
    BY Alone, NoUpdate DEF StoreInv
  <2>2. copy[t] = [weights |-> All(global_step), step |-> global_step]
    BY DEF StoreInv, CopiesFollowStep
  <2>3. /\ file' = [whole |-> TRUE, weights |-> All(global_step), step |-> global_step]
        /\ completed' = global_step
    BY <2>2
  <2>4. /\ file' \in [whole : BOOLEAN, weights : State, step : Nat]
        /\ FileConsistent'
        /\ file'.whole => file'.step = completed'
    BY <2>3, VersionOfAll DEF StoreInv, TypeOK, FileConsistent
  <2> QED
    BY <2>1, <2>3, <2>4, LeaveKeeps DEF StoreInv, TypeOK
<1>6. CASE FailSave(t)
  <2> USE <1>6 DEF FailSave
  <2>1. running /\ weights = All(global_step)
    BY Alone, NoUpdate DEF StoreInv
  <2> QED
    BY <2>1, LeaveKeeps DEF StoreInv, TypeOK, FileConsistent
<1> QED
  BY <1>1, <1>2, <1>3, <1>4, <1>5, <1>6 DEF Save

LEMMA ProcessKeeps ==
    ASSUME StoreInv, Kill \/ Start
    PROVE  StoreInv'
<1>1. CASE Kill
  <2> USE <1>1 DEF Kill, storeVars
  <2>1. NoCopy \in [weights : State, step : Nat] /\ 1 \in 1 .. NumParams + 1
    BY VersionOfAll, StoreAssumption DEF NoCopy
  <2>2. TypeOK'
    <3>1. /\ pc' \in [Threads -> {"idle", "update", "read", "save", "open", "dump"}]
          /\ at' \in [Threads -> 1 .. NumParams + 1]
          /\ copy' \in [Threads -> [weights : State, step : Nat]]
      BY <2>1
    <3>2. running' \in BOOLEAN
      OBVIOUS
    <3>3. lock' \subseteq Threads /\ kills' \in Nat
      BY DEF StoreInv, TypeOK
    <3> QED
      BY <3>1, <3>2, <3>3 DEF StoreInv, TypeOK
  <2>3. Exclusive' /\ IdleAtStart' /\ CopiesFollowStep'
    BY DEF Exclusive, IdleAtStart, CopiesFollowStep
  <2> QED
    BY <2>2, <2>3 DEF StoreInv, FileConsistent
<1>2. CASE Start
  <2> USE <1>2 DEF Start, threadVars
  <2>1. \A t \in Threads : pc[t] = "idle"
    BY DEF StoreInv, Exclusive
  <2>2. global_step' \in Nat /\ weights' = All(global_step')
    BY DEF StoreInv, TypeOK, Loads, FileConsistent
  <2>3. TypeOK'
    BY <2>2, VersionOfAll DEF StoreInv, TypeOK
  <2>4. EntriesFollowStep'
    BY <2>1, <2>2 DEF EntriesFollowStep, All
  <2>5. Exclusive' /\ IdleAtStart' /\ CopiesFollowStep'
    BY <2>1 DEF StoreInv, Exclusive, IdleAtStart, CopiesFollowStep
  <2> QED
    BY <2>3, <2>4, <2>5 DEF StoreInv, FileConsistent
<1> QED
  BY <1>1, <1>2

LEMMA StutterKeeps ==
    ASSUME StoreInv, UNCHANGED vars
    PROVE  StoreInv'
  BY DEF vars, threadVars, storeVars, StoreInv, TypeOK, Exclusive, IdleAtStart,
         EntriesFollowStep, CopiesFollowStep, FileConsistent
-----------------------------------------------------------------------------
\* StoreInv holds for every number of threads and parameters: whoever is in a method
\* is alone there, and what it has copied or updated so far follows the step.
THEOREM StoreInvariance == Spec => []StoreInv
<1>1. StoreInv /\ [Next]_vars => StoreInv'
  BY UpdateKeeps, ReadKeeps, SaveKeeps, ProcessKeeps, StutterKeeps DEF Next
<1> QED
  BY InitStoreInv, <1>1, PTL DEF Spec

\* A checkpoint that can be loaded has the weights of the step it names
\* (save_checkpoint, apply_gradients).
THEOREM Consistent == Spec => []FileConsistent
<1>1. StoreInv => FileConsistent
  BY DEF StoreInv
<1> QED
  BY StoreInvariance, <1>1, PTL

\* A server that starts has the weights of its step counter, which is the one saved
\* last or 0 (load_checkpoint, server_main).
THEOREM CleanResume == Spec => ResumesCleanly
<1>1. ASSUME StoreInv, [Next]_vars
      PROVE  [~running /\ running' => /\ global_step' \in {completed, 0}
                                     /\ weights' = All(global_step')]_vars
  <2> SUFFICES ASSUME ~running, running'
               PROVE  /\ global_step' \in {completed, 0}
                      /\ weights' = All(global_step')
    OBVIOUS
  <2>1. Start
    BY <1>1 DEF Next, vars, Kill, Update, Read, Save, BeginUpdate, UpdateEntry,
                FinishUpdate, BeginRead, ReadEntry, FinishRead, BeginSave, SaveEntry,
                SaveStep, OpenFile, FinishSave, FailSave
  <2> QED
    BY <1>1, <2>1 DEF Start, Loads, StoreInv, FileConsistent
<1> QED
  BY StoreInvariance, <1>1, PTL DEF Spec, ResumesCleanly
-----------------------------------------------------------------------------
\* Every step of the store is a step of the atomic store, or changes nothing of it.
LEMMA StoreStep ==
    ASSUME StoreInv, [Next]_vars
    PROVE  [Atomic!Next]_(Atomic!vars)
<1> USE DEF Atomic!Next, Atomic!vars
<1>1. ASSUME UNCHANGED <<global_step, result, file>> PROVE UNCHANGED Atomic!vars
  BY <1>1
<1>2. ASSUME NEW t \in Threads, Update(t) PROVE [Atomic!Next]_(Atomic!vars)
  <2>1. CASE FinishUpdate(t)
    BY <2>1 DEF FinishUpdate, Atomic!Update
  <2>2. CASE BeginUpdate(t) \/ UpdateEntry(t)
    BY <1>1, <2>2 DEF BeginUpdate, UpdateEntry, storeVars
  <2> QED
    BY <1>2, <2>1, <2>2 DEF Update
<1>3. ASSUME NEW t \in Threads, Read(t) PROVE [Atomic!Next]_(Atomic!vars)
  <2>1. CASE FinishRead(t)
    <3> USE <2>1 DEF FinishRead, LoopOver
    <3>1. \A n \in Names : copy[t].weights[n] = global_step
      BY StoreAssumption DEF StoreInv, TypeOK, CopiesFollowStep, Names
    <3>2. copy[t].weights = All(global_step)
      BY <3>1 DEF StoreInv, TypeOK, State, All
    <3>3. \A u \in Threads :
            VersionOf(result'[u]) = IF u = t THEN global_step ELSE VersionOf(result[u])
      BY <3>2, VersionOfAll DEF StoreInv, TypeOK
    <3>4. Atomic!Read(t)
      BY <3>3 DEF Atomic!Read, storeVars
    <3> QED
      BY <3>4
  <2>2. CASE BeginRead(t) \/ ReadEntry(t)
    BY <1>1, <2>2 DEF BeginRead, ReadEntry, storeVars
  <2> QED
    BY <1>3, <2>1, <2>2 DEF Read
<1>4. ASSUME NEW t \in Threads, Save(t) PROVE [Atomic!Next]_(Atomic!vars)
  <2>1. CASE OpenFile(t)
    BY <2>1 DEF OpenFile, storeVars, Atomic!Lose, StoreInv, TypeOK
  <2>2. CASE FinishSave(t)
    BY <2>2 DEF FinishSave, storeVars, Atomic!Save, StoreInv, CopiesFollowStep
  <2>3. CASE BeginSave(t) \/ SaveEntry(t) \/ SaveStep(t) \/ FailSave(t)
    BY <1>1, <2>3 DEF BeginSave, SaveEntry, SaveStep, FailSave, storeVars
  <2> QED
    BY <1>4, <2>1, <2>2, <2>3 DEF Save
<1>5. CASE Kill \/ UNCHANGED vars
  BY <1>1, <1>5 DEF Kill, vars, storeVars
<1>6. CASE Start
  BY <1>6 DEF Start, Loads, Atomic!Restart
<1> QED
  BY <1>2, <1>3, <1>4, <1>5, <1>6 DEF Next

\* The store and its file behave as one versioned value each (apply_gradients,
\* get_weights, save_checkpoint, load_checkpoint).
THEOREM StoreRefinement == Spec => ImplementsAtomicStore
<1>1. Init => Atomic!Init
  BY VersionOfAll DEF Init, Atomic!Init
<1>2. StoreInv /\ [Next]_vars => [Atomic!Next]_(Atomic!vars)
  BY StoreStep
<1> QED
  BY StoreInvariance, <1>1, <1>2, PTL DEF Spec, ImplementsAtomicStore, Atomic!Spec
=============================================================================
