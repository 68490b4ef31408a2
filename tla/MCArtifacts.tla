----------------------------- MODULE MCArtifacts -----------------------------
(* Values of the constants of Artifacts for the runs.                      *)
EXTENDS Artifacts, TLC

CONSTANTS i1, i2, w1, w2

Symmetry == Permutations(Installers) \cup Permutations(Workloads)
=============================================================================
