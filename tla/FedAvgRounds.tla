---------------------------- MODULE FedAvgRounds ----------------------------
(***************************************************************************)
(* What the server promises of the pushed gradients, without threads,      *)
(* sockets or locks.  The weights move in rounds.  A round consumes a      *)
(* batch of gradients that were pushed and never consumed before, at most  *)
(* one of each sender, and adds one to the step counter.  A gradient is    *)
(* averaged into the weights at most once, or it is dropped for good.      *)
(***************************************************************************)
EXTENDS Integers

CONSTANTS Gradients,   \* everything that can ever be pushed
          Sender(_)    \* who pushed a gradient

VARIABLES pending,  \* pushed, and not part of the weights yet
          applied,  \* averaged into the weights
          dropped,  \* discarded without having been applied
          step      \* the number of rounds so far

vars == <<pending, applied, dropped, step>>

Init == /\ pending = {}
        /\ applied = {}
        /\ dropped = {}
        /\ step = 0

IsNew(g) == g \notin pending \cup applied \cup dropped

Arrive(g) ==
    /\ IsNew(g)
    /\ pending' = pending \cup {g}
    /\ UNCHANGED <<applied, dropped, step>>

\* A gradient takes the place of one that its sender pushed before.
Replace(g, old) ==
    /\ IsNew(g)
    /\ Sender(old) = Sender(g)
    /\ pending' = (pending \ {old}) \cup {g}
    /\ dropped' = dropped \cup {old}
    /\ UNCHANGED <<applied, step>>

\* A gradient is discarded because its sender left.
Discard(old) ==
    /\ pending' = pending \ {old}
    /\ dropped' = dropped \cup {old}
    /\ UNCHANGED <<applied, step>>

\* A batch is averaged into the weights.
Round(batch) ==
    /\ batch # {}
    /\ \A g, h \in batch : Sender(g) = Sender(h) => g = h
    /\ pending' = pending \ batch
    /\ applied' = applied \cup batch
    /\ step' = step + 1
    /\ UNCHANGED dropped

Next == \/ \E g \in Gradients : Arrive(g)
        \/ \E g \in Gradients, old \in pending : Replace(g, old)
        \/ \E old \in pending : Discard(old)
        \/ \E batch \in SUBSET pending : Round(batch)

Spec == Init /\ [][Next]_vars
=============================================================================
