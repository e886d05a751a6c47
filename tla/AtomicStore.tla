----------------------------- MODULE AtomicStore -----------------------------
(***************************************************************************)
(* What the weight store promises: all parameters together are one value   *)
(* with a version, read and updated in one step each, and the checkpoint   *)
(* is one value too, that a restart may find or not find.                  *)
(***************************************************************************)
EXTENDS Integers

CONSTANT Threads  \* who calls the store

VARIABLES version,  \* how many updates the value contains
          saved,    \* the version a restart will find, 0 if it starts afresh
          result    \* result[t]: the version that the last read of t returned

vars == <<version, saved, result>>

Init == /\ version = 0
        /\ saved = 0
        /\ result = [t \in Threads |-> 0]

Update == /\ version' = version + 1
          /\ UNCHANGED <<saved, result>>

Read(t) == /\ result' = [result EXCEPT ![t] = version]
           /\ UNCHANGED <<version, saved>>

Save == /\ saved' = version
        /\ UNCHANGED <<version, result>>

\* The checkpoint is gone: a new one is being written over it.
Lose == /\ saved' = 0
        /\ UNCHANGED <<version, result>>

\* A new process: it resumes from the checkpoint, or it starts afresh.
Restart == /\ version' \in {saved, 0}
           /\ UNCHANGED <<saved, result>>

Next == Update \/ Save \/ Lose \/ Restart \/ \E t \in Threads : Read(t)

Spec == Init /\ [][Next]_vars
=============================================================================
