------------------------------ MODULE MCPoint ------------------------------
(* Instances of Point for TLC. *)
EXTENDS Point, TLC

CONSTANTS s1, s2, x, y

AllKinds == {"codex", "claude", "grok", "desktop"}
MCSettings == {s1, s2}
MCTexts == {x, y}

PointSymmetry == Permutations(MCSettings) \cup Permutations(MCTexts)
=============================================================================
