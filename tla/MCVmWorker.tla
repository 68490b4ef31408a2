---------------------------- MODULE MCVmWorker ----------------------------
(* Values of the constants of VmWorker for the runs.                       *)
EXTENDS VmWorker

CONSTANTS w1, w2, s1, s2
=============================================================================
