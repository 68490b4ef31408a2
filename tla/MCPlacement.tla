---------------------------- MODULE MCPlacement ----------------------------
(* Values of the constants of Placement for the runs: workloads of one     *)
(* account, two of which never fit on one instance.                        *)
EXTENDS Placement

CONSTANTS a1, r1, r2

MCOwner(w) == a1
MCDemand(w) == 2
MCCapacity(i) == 3
RoomyCapacity(i) == 9
MCCost(w) == 1
=============================================================================
