----------------------------- MODULE MCApiKeys -----------------------------
(* Values of the constants of ApiKeys for the run.                         *)
EXTENDS ApiKeys, TLC

CONSTANTS w1, w2, n1, i1, i2, k1, r1, r2

Symmetry == Permutations(Reqs) \cup Permutations(Wallets)
=============================================================================
