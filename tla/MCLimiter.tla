----------------------------- MODULE MCLimiter -----------------------------
(* Instances of Limiter for TLC. *)
EXTENDS Limiter, TLC

CONSTANTS r1, r2, r3, c1, c2, p1, p2

MCCalls == {r1, r2, r3}
MCClients == {c1, c2}
MCProviders == {p1, p2}

LimitsOf(all, perClient, perProvider, perMinute) ==
  [global |-> all, perClient |-> perClient, perProvider |-> perProvider,
   ratePerMinute |-> perMinute]

\* Tightened and loosened while calls are in flight; every limit is reached before
\* the others by some calls.
ChangingLimits == {LimitsOf(2, 1, 0, 2), LimitsOf(0, 2, 1, 0)}

LimiterSymmetry ==
  Permutations(MCCalls) \cup Permutations(MCClients) \cup Permutations(MCProviders)
=============================================================================
