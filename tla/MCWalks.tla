------------------------------ MODULE MCWalks ------------------------------
(* DocumentWalks on small instances.                                        *)
EXTENDS DocumentWalks, TLC

CONSTANTS r1, r2, a1, a2, a3

Symmetric == Permutations(Replica) \cup Permutations(Base)
=============================================================================
