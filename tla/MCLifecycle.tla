---------------------------- MODULE MCLifecycle ----------------------------
(* Instances of Lifecycle for TLC. *)
EXTENDS Lifecycle, TLC

CONSTANTS g1, g2, c1, p1, p2

MCGateways == {g1, g2}
MCCommands == {c1}
MCPorts == {p1, p2}

\* A first start, and a registration that leads to another program.  One that
\* is as it should be comes about in either.
MCLeftBehind ==
  {[config |-> Missing, unit |-> "none", enabled |-> FALSE],
   [config |-> TRUE, unit |-> "other", enabled |-> TRUE]}
=============================================================================
