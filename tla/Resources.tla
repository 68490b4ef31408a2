----------------------------- MODULE Resources -----------------------------
(***************************************************************************)
(* What the agent finds out about its host when it starts: the amounts it  *)
(* may give to workloads, the GPUs, and which workload gets which of them  *)
(* when their PCI addresses have changed since the last start. Pure        *)
(* operators; WorkloadService takes their results as its constants Total   *)
(* and AllUnits. A PCI address is a natural number.                        *)
(***************************************************************************)
EXTENDS FiniteSets, Functions, Integers, Sequences, SequencesExt

(* gather: an agent that must keep back more than there is does not start. *)
Gathers(total, reserved) == \A r \in DOMAIN total : reserved[r] <= total[r]

available(total, reserved) ==
    [r \in DOMAIN total |-> IF reserved[r] <= total[r] THEN total[r] - reserved[r] ELSE 0]

(* parse_gpus: `devices` are the NVIDIA devices, by address, with their    *)
(* models. One that is no H100 keeps the agent from starting.              *)
GpusSupported(devices) == \A address \in DOMAIN devices : devices[address] = "H100"

parse_gpus(devices) == SetToSortSeq(DOMAIN devices, <)

-----------------------------------------------------------------------------
(* adjust_gpu_assignment. `rows` are the lists of GPUs of the workloads in *)
(* the order of the table, `gpus` the addresses of today.                  *)

Assigned(rows) == UNION {Range(rows[i]) : i \in DOMAIN rows}

(* The GPUs have disappeared: the agent does not start.                    *)
GpusMissing(gpus, rows) == Cardinality(Assigned(rows)) > Cardinality(Range(gpus))

TakenBefore(rows, i) ==
    SumFunctionOnSet([k \in DOMAIN rows |-> Len(rows[k])], 1..(i - 1))

(* Every workload in turn takes as many as it had of those that are left.  *)
Reassign(gpus, rows) ==
    [i \in DOMAIN rows |->
        LET before == TakenBefore(rows, i) IN
        SubSeq(gpus, before + 1, Min({before + Len(rows[i]), Len(gpus)}))]

adjust_gpu_assignment(gpus, rows) ==
    IF Assigned(rows) \subseteq Range(gpus) THEN rows ELSE Reassign(gpus, rows)

-----------------------------------------------------------------------------
(* No GPU is given to two workloads, or twice to one.                      *)
Exclusive(rows) ==
    \A i, k \in DOMAIN rows : \A a \in DOMAIN rows[i], b \in DOMAIN rows[k] :
        rows[i][a] = rows[k][b] => i = k /\ a = b

(* After the adjustment every workload has as many GPUs as it asked for,   *)
(* none of them another workload's and all of them in the host, and the    *)
(* next start of the agent changes nothing.                                *)
AdjustmentSound(gpus, rows) ==
    LET new == adjust_gpu_assignment(gpus, rows) IN
    Exclusive(rows) /\ ~GpusMissing(gpus, rows) =>
        /\ Exclusive(new)
        /\ Assigned(new) \subseteq Range(gpus)
        /\ \A i \in DOMAIN rows : Len(new[i]) = Len(rows[i])
        /\ adjust_gpu_assignment(gpus, new) = new

=============================================================================
