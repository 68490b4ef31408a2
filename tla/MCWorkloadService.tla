------------------------- MODULE MCWorkloadService -------------------------
(* Values of the constants of WorkloadService for the runs.                *)
EXTENDS WorkloadService, MCAdmission, TLC

CONSTANTS w1, w2, w3, r1, r2, s1, s2

MCScalars == {"cpus", "memory_mb"}
MCTotal == [cpus |-> 3, memory_mb |-> 8]
MCKinds == {"gpus", "ports"}
MCAllUnits == [gpus |-> {1, 2}, ports |-> 1..4]
MCDemand == [w \in Workloads |-> [cpus |-> IF w = w1 THEN 2 ELSE 1, memory_mb |-> 4]]
MCNeed == [w \in Workloads |-> [gpus |-> 1, ports |-> 2]]
MCDomain == [w \in Workloads |-> w]

(* A host with CPUs for w1 and w3 but not for w1 and w2; w2 and w3 ask for *)
(* the same domain.                                                        *)
FullTotal == [cpus |-> 3, memory_mb |-> 12]
FullDemand == [w \in Workloads |-> [cpus |-> IF w = w3 THEN 1 ELSE 2, memory_mb |-> 4]]
FullDomain == [w \in Workloads |-> IF w = w3 THEN w2 ELSE w]

(* Steps whose calls return errors: the database and the creation of a VM. *)
ErrorSteps == {"c_lock", "c_insert", "c_spawn", "c_commit", "d_find", "d_erase",
               "s_find", "s_write", "t_find", "t_write", "t_spawn",
               "r_find", "r_env", "r_act", "r_write"}
NoSteps == {}

(* Nothing but the CVMs depends on `vm`: runs whose properties do not      *)
(* mention it leave it out of the fingerprint.                             *)
WithoutCvms == <<phase, pending, req, rows, free, pool, availKeys, worker,
                 proxied, crashes>>

Symmetry == Permutations(Reqs) \cup Permutations(Slots)
=============================================================================
