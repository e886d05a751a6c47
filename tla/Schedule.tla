------------------------------ MODULE Schedule ------------------------------
(***************************************************************************)
(* The learning rate a worker gives its optimizer in each iteration        *)
(* (scheduled_lr of config.py), as an exact fraction of the base rate.     *)
(***************************************************************************)
EXTENDS Integers

CONSTANTS MaxSteps,     \* config.max_steps
          WarmupSteps,  \* config.lr_warmup_steps
          HalfCosine(_) \* (1 + cos(pi * p)) / 2 of a fraction p, as a fraction

Fraction(n, d) == [num |-> n, den |-> d]

\* config.__post_init__, and what is used of the cosine: on [0, 1) it is in (0, 1].
ScheduleAssumption ==
    /\ MaxSteps \in Nat \ {0}
    /\ WarmupSteps \in Nat
    /\ \A p \in [num : 0 .. MaxSteps, den : 1 .. MaxSteps] :
         p.num < p.den => /\ HalfCosine(p).den \in Nat
                          /\ HalfCosine(p).num \in 1 .. HalfCosine(p).den

ASSUME Schedulable == ScheduleAssumption

Schedules == {"constant", "linear", "cosine"}

\* denom and progress: what is left after the warmup, and how much of it is gone.
Span == IF MaxSteps > WarmupSteps THEN MaxSteps - WarmupSteps ELSE 1
Gone(step) == IF step - WarmupSteps < Span THEN step - WarmupSteps ELSE Span

Decay(schedule, step) ==
    IF schedule = "constant" THEN Fraction(1, 1)
    ELSE IF schedule = "linear" THEN Fraction(Span - Gone(step), Span)
    ELSE HalfCosine(Fraction(Gone(step), Span))

\* Seeded fault: the decay is one iteration ahead.
ScheduledLrAhead(schedule, step) ==
    IF step < WarmupSteps THEN Fraction(step, WarmupSteps) ELSE Decay(schedule, step + 1)

ScheduledLr(schedule, step) ==
    IF step < WarmupSteps THEN Fraction(step, WarmupSteps) ELSE Decay(schedule, step)
=============================================================================
