----------------------------- MODULE MCCircuit -----------------------------
(* Instances of Circuit for TLC: one provider, since a circuit never reads the *)
(* state of another provider.                                                  *)
EXTENDS Circuit, TLC

CONSTANTS r1, r2, r3, p1

MCCalls == {r1, r2, r3}
OneCall == {r1}
MCProviders == {p1}

CallSymmetry == Permutations(MCCalls)
=============================================================================
