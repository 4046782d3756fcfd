------------------------------ MODULE MCStream ------------------------------
(* Instances of Stream for TLC. *)
EXTENDS Stream

CONSTANTS t1, t2

MCTools == {t1, t2}
=============================================================================
