------------------------------ MODULE MCRollout ------------------------------
(* One worker with two environments.                                        *)
EXTENDS Rollout

\* A different value for every observation under every version of the weights.
MCCritic(version, o) == 1 + 100 * version + 30 * o.env + 7 * o.episode + o.step

\* A parabola for the cosine: it falls from 1 to 0 as well.
MCHalfCosine(p) == Fraction(p.den * p.den - p.num * p.num, p.den * p.den)

\* Two shuffles of the six samples.
MCShuffles == {<<6, 2, 5, 3, 1, 4>>, <<2, 3, 4, 5, 6, 1>>}
=============================================================================
