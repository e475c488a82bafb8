----------------------------- MODULE MCDocument -----------------------------
(* Document on small instances: replicas and actor identifiers are model    *)
(* values, interchangeable among themselves.                                *)
EXTENDS Document, TLC

CONSTANTS r1, r2, a1, a2, a3

Symmetric == Permutations(Replica) \cup Permutations(Base)
=============================================================================
