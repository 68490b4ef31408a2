--------------------------- MODULE WorkloadService ---------------------------
(***************************************************************************)
(* The workload service of nilcc-agent: the requests that create, delete,  *)
(* stop, start and restart a workload, run concurrently by the HTTP        *)
(* server; the pool of host resources behind an async mutex; the table of  *)
(* workloads in SQLite; the pool of verifier keys; the map of VM workers;  *)
(* the CVMs, which outlive the agent; a crash of the agent and the         *)
(* bootstrap that follows it.                                              *)
(*                                                                         *)
(* A request is cut into steps at the awaits where another task can run.   *)
(* Ending a request drops what it holds (the mutex guard, the transaction, *)
(* the key), which is what Rust does on return, on `?` and when axum drops *)
(* the future of a client that went away.                                  *)
(***************************************************************************)
EXTENDS Integers, Sequences, FiniteSetsExt

CONSTANTS
    Workloads,    \* ids a client may use
    Reqs,         \* request handlers that can run at the same time (bound)
    Slots,        \* VM worker tasks that can exist at the same time (bound)
    Scalars,      \* resources counted by amount: CPUs, memory, disk
    Total,        \* Total[s]: the amount of s the host offers to workloads
    Kinds,        \* resources handed out one by one: GPUs, ports
    AllUnits,     \* AllUnits[k]: the GPUs, the ports of the host
    Demand,       \* Demand[w][s]: the amount of s that w asks for
    Need,         \* Need[w][k]: how many units of k w gets (TOTAL_PORTS ports)
    Heartbeat,    \* the workloads created with a heartbeat configuration
    Domain,       \* Domain[w]: the domain w is served on
    Keys,         \* indices of the verifier keys
    Ops,          \* the operations clients use
    Serialised,   \* TRUE: clients wait for a workload's request to end
    AbandonAt,    \* steps at which a request may fail or be dropped
    QmpFails,     \* TRUE: the `quit` sent to a VM may fail
    MaxCrashes    \* bound on the crashes of the agent

NoKey == -1
AllOps == {"create", "delete", "stop", "start", "restart"}

ASSUME ConstantsAssumption ==
    /\ Workloads # {} /\ IsFiniteSet(Workloads)
    /\ IsFiniteSet(Reqs)
    /\ Keys \subseteq Nat
    /\ Heartbeat \subseteq Workloads
    /\ Ops \subseteq AllOps
    /\ Serialised \in BOOLEAN
    /\ QmpFails \in BOOLEAN
    /\ MaxCrashes \in Nat
    /\ Total \in [Scalars -> Nat]
    /\ AllUnits \in [Kinds -> SUBSET Nat]
    /\ \A k \in Kinds : IsFiniteSet(AllUnits[k])
    /\ Demand \in [Workloads -> [Scalars -> Nat]]
    /\ Need \in [Workloads -> [Kinds -> Nat]]

VARIABLES
    phase,      \* "down", "booting" (WorkloadService::bootstrap) or "serving"
    pending,    \* while booting: the enabled workloads not started yet
    req,        \* the state of each request handler
    rows,       \* the `workloads` table as committed
    free,       \* AvailableResources: amounts
    pool,       \* AvailableResources: `gpus` and `ports`
    availKeys,  \* VerifierKeys: indices that nobody holds
    worker,     \* the VM worker tasks
    proxied,    \* ProxyService: ids in `proxied_vms`
    vm,         \* the CVM (a qemu process) of each workload
    crashes

vars == <<phase, pending, req, rows, free, pool, availKeys, worker, proxied,
          vm, crashes>>

-----------------------------------------------------------------------------
(* Values.                                                                 *)

KeyOrNone == Keys \cup {NoKey}
Units == [Kinds -> Seq(Nat)]
NoUnits == [k \in Kinds |-> << >>]

(* A row: what of a Workload record the service decides on. `units` are    *)
(* its GPUs and ports, `pk` the wallet_public_key of its heartbeat.        *)
Row == [exists: BOOLEAN, enabled: BOOLEAN, pk: KeyOrNone, units: Units]
NoRow == [exists |-> FALSE, enabled |-> FALSE, pk |-> NoKey, units |-> NoUnits]

Steps == {"idle",
          "c_lock", "c_insert", "c_spawn", "c_commit", "c_deduct",
          "d_find", "d_erase", "d_stop", "d_free",
          "s_find", "s_write", "s_vm",
          "t_find", "t_write", "t_spawn",
          "r_find", "r_env", "r_act", "r_write"}

(* A request handler. `locked`: it holds the guard of the resources mutex; *)
(* `writing`: its transaction holds SQLite's write lock; `stale`: another  *)
(* connection committed after its transaction read the table; `key`: the   *)
(* VerifierKey it owns; `row`: the Workload it built or found.             *)
Request == [pc: Steps, w: Workloads, env: BOOLEAN, key: KeyOrNone, row: Row,
            locked: BOOLEAN, writing: BOOLEAN, stale: BOOLEAN]

Idle(w) == [pc |-> "idle", w |-> w, env |-> FALSE, key |-> NoKey, row |-> NoRow,
            locked |-> FALSE, writing |-> FALSE, stale |-> FALSE]

AnyWorkload == CHOOSE w \in Workloads : TRUE

(* A VM worker task: in the map of the VM service ("managed"), or removed  *)
(* from it with a Delete command in its channel ("exiting").               *)
Worker == [st: {"none", "managed", "exiting"}, w: Workloads, key: KeyOrNone,
           restart: BOOLEAN]
NoWorker == [st |-> "none", w |-> AnyWorkload, key |-> NoKey, restart |-> FALSE]

(* A CVM: its qemu process and, once bootstrapped, the wallet key that its *)
(* cvm-agent was given to send heartbeats with.                            *)
Cvm == [st: {"off", "fresh", "bootstrapped"}, wallet: KeyOrNone]
Off == [st |-> "off", wallet |-> NoKey]

Init ==
    /\ phase = "down"
    /\ pending = {}
    /\ req = [r \in Reqs |-> Idle(AnyWorkload)]
    /\ rows = [w \in Workloads |-> NoRow]
    /\ free = Total
    /\ pool = NoUnits
    /\ availKeys = Keys
    /\ worker = [s \in Slots |-> NoWorker]
    /\ proxied = {}
    /\ vm = [w \in Workloads |-> Off]
    /\ crashes = 0

-----------------------------------------------------------------------------
(* Helpers.                                                                *)

(* Variant: dropping an absent key inserts something into the pool.        *)
KeySetOfAny(k) == {k}

KeySet(k) == {k} \ {NoKey}

LockFree == \A r \in Reqs : ~req[r].locked
WriterFree(r) == \A q \in Reqs \ {r} : ~req[q].writing

Managed(w) == {s \in Slots : worker[s].st = "managed" /\ worker[s].w = w}

(* Steps at which a transaction has read the table and not written it yet. *)
ReadOnlySteps == {"s_write", "t_write", "r_env", "r_act", "r_write"}

(* The ports and GPUs `build_workload` copies out of the pool.             *)
Taken(w) == [k \in Kinds |-> SubSeq(pool[k], 1, Need[w][k])]

(* Variant: the amounts are not compared.                                  *)
FitsUnitsOnly(w) == \A k \in Kinds : Need[w][k] <= Len(pool[k])

Fits(w) ==
    /\ \A s \in Scalars : Demand[w][s] <= free[s]
    /\ \A k \in Kinds : Need[w][k] <= Len(pool[k])

(* BTreeSet::pop_first on the available keys.                              *)
IsNextKey(k) == k \in availKeys /\ \A j \in availKeys : k <= j

(* VerifierKeys::get or next_key, as workload_key calls them.              *)
IsWorkloadKey(w, row, k) ==
    \/ w \notin Heartbeat /\ k = NoKey
    \/ w \in Heartbeat /\ row.pk # NoKey /\ k = row.pk /\ k \in availKeys
    \/ w \in Heartbeat /\ row.pk = NoKey /\ IsNextKey(k)

NoWorkloadKey(w, row) ==
    /\ w \in Heartbeat
    /\ IF row.pk # NoKey THEN row.pk \notin availKeys ELSE availKeys = {}

Goto(r, pc) == req' = [req EXCEPT ![r].pc = pc]
Ended(r) == [req EXCEPT ![r] = Idle(AnyWorkload)]

(* Variant: a key without a destructor.                                    *)
EndForgetsKey(r) == req' = Ended(r) /\ UNCHANGED availKeys

(* Return from the handler: guard, transaction and key are dropped.        *)
End(r) ==
    /\ req' = Ended(r)
    /\ availKeys' = availKeys \cup KeySet(req[r].key)

(* The requests after r committed a write: the snapshot of every other     *)
(* transaction that has only read so far is out of date, and SQLite will   *)
(* refuse to let it write (journal_mode = WAL).                            *)
AfterCommit(rs, r) ==
    [q \in Reqs |->
        IF q # r /\ rs[q].pc \in ReadOnlySteps /\ ~rs[q].writing
        THEN [rs[q] EXCEPT !.stale = TRUE]
        ELSE rs[q]]

(* DefaultVmService::create_vm with key k. A worker that is already there  *)
(* wins and the key passed in is dropped; `ks` is the pool without k.      *)
CreateVm(w, k, ks) ==
    \/ /\ Managed(w) # {}
       /\ availKeys' = ks \cup KeySet(k)
       /\ UNCHANGED worker
    \/ /\ Managed(w) = {}
       /\ availKeys' = ks
       /\ \E s \in Slots :
            /\ worker[s].st = "none"
            /\ worker' = [worker EXCEPT ![s] =
                            [st |-> "managed", w |-> w, key |-> k, restart |-> FALSE]]

(* DefaultVmService::delete_vm: out of the map, Delete into its channel.   *)
DeleteVm(w) ==
    worker' = [s \in Slots |-> IF s \in Managed(w)
                               THEN [worker[s] EXCEPT !.st = "exiting"]
                               ELSE worker[s]]

-----------------------------------------------------------------------------
(* Requests: arrival, and what may end one early.                          *)

FirstStep == [create |-> "c_lock", delete |-> "d_find", stop |-> "s_find",
              start |-> "t_find", restart |-> "r_find"]

Arrive(r) ==
    /\ phase = "serving"
    /\ req[r].pc = "idle"
    /\ \E op \in Ops, w \in Workloads, env \in BOOLEAN :
        /\ env => op = "restart"
        /\ Serialised => \A q \in Reqs : req[q].pc # "idle" => req[q].w # w
        /\ req' = [req EXCEPT ![r] = [Idle(w) EXCEPT !.pc = FirstStep[op],
                                                     !.env = env]]
    /\ UNCHANGED <<phase, pending, rows, free, pool, availKeys, worker, proxied,
                   vm, crashes>>

(* A call of the current step returns an error, or the client goes away.   *)
Abandon(r) ==
    /\ req[r].pc \in AbandonAt
    /\ End(r)
    /\ UNCHANGED <<phase, pending, rows, free, pool, worker, proxied, vm, crashes>>

-----------------------------------------------------------------------------
(* create_workload. The resources mutex is held from CreateLock on.        *)

(* Variant: a create waits, with the mutex, for a verifier key.            *)
CreateLockWaits(r) ==
    LET w == req[r].w IN
    /\ req[r].pc = "c_lock"
    /\ LockFree
    /\ \/ /\ ~Fits(w)
          /\ End(r)
       \/ /\ Fits(w)
          /\ \E k \in KeyOrNone :
                /\ IF w \in Heartbeat THEN IsNextKey(k) ELSE k = NoKey
                /\ availKeys' = availKeys \ {k}
                /\ req' = [req EXCEPT ![r].pc = "c_insert",
                                      ![r].locked = TRUE,
                                      ![r].key = k,
                                      ![r].row = [exists |-> TRUE, enabled |-> TRUE,
                                                  pk |-> k, units |-> Taken(w)]]
    /\ UNCHANGED <<phase, pending, rows, free, pool, worker, proxied, vm, crashes>>

CreateLock(r) ==
    LET w == req[r].w IN
    /\ req[r].pc = "c_lock"
    /\ LockFree
    /\ \/ /\ ~Fits(w) \/ (w \in Heartbeat /\ availKeys = {})
          /\ End(r)
       \/ /\ Fits(w)
          /\ \E k \in KeyOrNone :
                /\ IF w \in Heartbeat THEN IsNextKey(k) ELSE k = NoKey
                /\ availKeys' = availKeys \ {k}
                /\ req' = [req EXCEPT ![r].pc = "c_insert",
                                      ![r].locked = TRUE,
                                      ![r].key = k,
                                      ![r].row = [exists |-> TRUE, enabled |-> TRUE,
                                                  pk |-> k, units |-> Taken(w)]]
    /\ UNCHANGED <<phase, pending, rows, free, pool, worker, proxied, vm, crashes>>

(* The insert takes SQLite's write lock; `id` and `domain` are unique.     *)
CreateInsert(r) ==
    LET w == req[r].w IN
    /\ req[r].pc = "c_insert"
    /\ WriterFree(r)
    /\ \/ /\ \E v \in Workloads : rows[v].exists /\ Domain[v] = Domain[w]
          /\ End(r)
       \/ /\ \A v \in Workloads : rows[v].exists => Domain[v] # Domain[w]
          /\ req' = [req EXCEPT ![r].pc = "c_spawn", ![r].writing = TRUE]
          /\ UNCHANGED availKeys
    /\ UNCHANGED <<phase, pending, rows, free, pool, worker, proxied, vm, crashes>>

(* Variant: the worker gets a copy of the key.                             *)
CreateSpawnCopiesKey(r) ==
    /\ req[r].pc = "c_spawn"
    /\ CreateVm(req[r].w, req[r].key, availKeys)
    /\ proxied' = proxied \cup {req[r].w}
    /\ req' = [req EXCEPT ![r].pc = "c_commit"]
    /\ UNCHANGED <<phase, pending, rows, free, pool, vm, crashes>>

CreateSpawn(r) ==
    /\ req[r].pc = "c_spawn"
    /\ CreateVm(req[r].w, req[r].key, availKeys)
    /\ proxied' = proxied \cup {req[r].w}
    /\ req' = [req EXCEPT ![r].pc = "c_commit", ![r].key = NoKey]
    /\ UNCHANGED <<phase, pending, rows, free, pool, vm, crashes>>

CreateCommit(r) ==
    /\ req[r].pc = "c_commit"
    /\ rows' = [rows EXCEPT ![req[r].w] = req[r].row]
    /\ req' = AfterCommit([req EXCEPT ![r].pc = "c_deduct", ![r].writing = FALSE], r)
    /\ UNCHANGED <<phase, pending, free, pool, availKeys, worker, proxied, vm, crashes>>

(* Variant: the GPUs and the ports stay in the pool.                       *)
CreateDeductAmounts(r) ==
    /\ req[r].pc = "c_deduct"
    /\ free' = [s \in Scalars |-> free[s] - Demand[req[r].w][s]]
    /\ End(r)
    /\ UNCHANGED <<phase, pending, rows, pool, worker, proxied, vm, crashes>>

CreateDeduct(r) ==
    LET w == req[r].w IN
    /\ req[r].pc = "c_deduct"
    /\ free' = [s \in Scalars |-> free[s] - Demand[w][s]]
    /\ pool' = [k \in Kinds |-> SubSeq(pool[k], Need[w][k] + 1, Len(pool[k]))]
    /\ End(r)
    /\ UNCHANGED <<phase, pending, rows, worker, proxied, vm, crashes>>

-----------------------------------------------------------------------------
(* delete_workload: no transaction, and the mutex only at the end.         *)

DeleteFind(r) ==
    LET w == req[r].w IN
    /\ req[r].pc = "d_find"
    /\ \/ /\ ~rows[w].exists
          /\ End(r)
       \/ /\ rows[w].exists
          /\ req' = [req EXCEPT ![r].pc = "d_erase", ![r].row = rows[w]]
          /\ UNCHANGED availKeys
    /\ UNCHANGED <<phase, pending, rows, free, pool, worker, proxied, vm, crashes>>

(* DELETE does not look at how many rows it removed.                       *)
DeleteErase(r) ==
    LET w == req[r].w IN
    /\ req[r].pc = "d_erase"
    /\ WriterFree(r)
    /\ rows' = [rows EXCEPT ![w] = NoRow]
    /\ req' = IF rows[w].exists
              THEN AfterCommit([req EXCEPT ![r].pc = "d_stop"], r)
              ELSE [req EXCEPT ![r].pc = "d_stop"]
    /\ UNCHANGED <<phase, pending, free, pool, availKeys, worker, proxied, vm, crashes>>

DeleteStop(r) ==
    LET w == req[r].w IN
    /\ req[r].pc = "d_stop"
    /\ proxied' = proxied \ {w}
    /\ DeleteVm(w)
    /\ Goto(r, "d_free")
    /\ UNCHANGED <<phase, pending, rows, free, pool, availKeys, vm, crashes>>

(* Variant: the GPUs and the ports are not given back.                     *)
DeleteFreeAmounts(r) ==
    /\ req[r].pc = "d_free"
    /\ LockFree
    /\ free' = [s \in Scalars |-> free[s] + Demand[req[r].w][s]]
    /\ End(r)
    /\ UNCHANGED <<phase, pending, rows, pool, worker, proxied, vm, crashes>>

DeleteFree(r) ==
    LET w == req[r].w IN
    /\ req[r].pc = "d_free"
    /\ LockFree
    /\ free' = [s \in Scalars |-> free[s] + Demand[w][s]]
    /\ pool' = [k \in Kinds |-> pool[k] \o req[r].row.units[k]]
    /\ End(r)
    /\ UNCHANGED <<phase, pending, rows, worker, proxied, vm, crashes>>

-----------------------------------------------------------------------------
(* stop_workload: the row first, the VM after the commit.                  *)

StopFind(r) ==
    LET w == req[r].w IN
    /\ req[r].pc = "s_find"
    /\ \/ /\ ~(rows[w].exists /\ rows[w].enabled)
          /\ End(r)
       \/ /\ rows[w].exists /\ rows[w].enabled
          /\ req' = [req EXCEPT ![r].pc = "s_write"]
          /\ UNCHANGED availKeys
    /\ UNCHANGED <<phase, pending, rows, free, pool, worker, proxied, vm, crashes>>

StopWrite(r) ==
    LET w == req[r].w IN
    /\ req[r].pc = "s_write"
    /\ \/ /\ req[r].stale
          /\ End(r)
          /\ UNCHANGED rows
       \/ /\ ~req[r].stale /\ WriterFree(r)
          /\ rows' = [rows EXCEPT ![w].enabled = FALSE, ![w].pk = NoKey]
          /\ req' = AfterCommit([req EXCEPT ![r].pc = "s_vm"], r)
          /\ UNCHANGED availKeys
    /\ UNCHANGED <<phase, pending, free, pool, worker, proxied, vm, crashes>>

(* Variant: the VM is left running.                                        *)
StopVmKeepsWorker(r) ==
    /\ req[r].pc = "s_vm"
    /\ End(r)
    /\ UNCHANGED <<phase, pending, rows, free, pool, worker, proxied, vm, crashes>>

StopVm(r) ==
    /\ req[r].pc = "s_vm"
    /\ DeleteVm(req[r].w)
    /\ End(r)
    /\ UNCHANGED <<phase, pending, rows, free, pool, proxied, vm, crashes>>

-----------------------------------------------------------------------------
(* start_workload: a key, whatever the heartbeat configuration; the row;   *)
(* the VM after the commit.                                                *)

(* Variant: the key is looked up and not taken out of the pool.            *)
StartFindPeeks(r) ==
    LET w == req[r].w IN
    /\ req[r].pc = "t_find"
    /\ \/ /\ ~rows[w].exists \/ rows[w].enabled \/ availKeys = {}
          /\ End(r)
       \/ /\ rows[w].exists /\ ~rows[w].enabled
          /\ \E k \in availKeys :
                /\ IsNextKey(k)
                /\ req' = [req EXCEPT ![r].pc = "t_write", ![r].key = k]
          /\ UNCHANGED availKeys
    /\ UNCHANGED <<phase, pending, rows, free, pool, worker, proxied, vm, crashes>>

StartFind(r) ==
    LET w == req[r].w IN
    /\ req[r].pc = "t_find"
    /\ \/ /\ ~rows[w].exists \/ rows[w].enabled \/ availKeys = {}
          /\ End(r)
       \/ /\ rows[w].exists /\ ~rows[w].enabled
          /\ \E k \in availKeys :
                /\ IsNextKey(k)
                /\ availKeys' = availKeys \ {k}
                /\ req' = [req EXCEPT ![r].pc = "t_write", ![r].key = k]
    /\ UNCHANGED <<phase, pending, rows, free, pool, worker, proxied, vm, crashes>>

StartWrite(r) ==
    LET w == req[r].w IN
    /\ req[r].pc = "t_write"
    /\ \/ /\ req[r].stale
          /\ End(r)
          /\ UNCHANGED rows
       \/ /\ ~req[r].stale /\ WriterFree(r)
          /\ rows' = [rows EXCEPT ![w].enabled = TRUE,
                                  ![w].pk = IF w \in Heartbeat THEN req[r].key ELSE @]
          /\ req' = AfterCommit([req EXCEPT ![r].pc = "t_spawn"], r)
          /\ UNCHANGED availKeys
    /\ UNCHANGED <<phase, pending, free, pool, worker, proxied, vm, crashes>>

StartSpawn(r) ==
    /\ req[r].pc = "t_spawn"
    /\ CreateVm(req[r].w, req[r].key, availKeys)
    /\ req' = Ended(r)
    /\ UNCHANGED <<phase, pending, rows, free, pool, proxied, vm, crashes>>

-----------------------------------------------------------------------------
(* restart_workload: an enabled workload's worker is told to restart the   *)
(* VM; a disabled one gets a worker and is enabled.                        *)

RestartFind(r) ==
    LET w == req[r].w IN
    /\ req[r].pc = "r_find"
    /\ \/ /\ ~rows[w].exists
          /\ End(r)
       \/ /\ rows[w].exists
          /\ req' = [req EXCEPT ![r].pc = IF req[r].env THEN "r_env" ELSE "r_act",
                                ![r].env = FALSE, ![r].row = rows[w]]
          /\ UNCHANGED availKeys
    /\ UNCHANGED <<phase, pending, rows, free, pool, worker, proxied, vm, crashes>>

(* set_env_vars: from here the transaction holds the write lock.           *)
RestartEnv(r) ==
    /\ req[r].pc = "r_env"
    /\ \/ /\ req[r].stale
          /\ End(r)
       \/ /\ ~req[r].stale /\ WriterFree(r)
          /\ req' = [req EXCEPT ![r].pc = "r_act", ![r].writing = TRUE]
          /\ UNCHANGED availKeys
    /\ UNCHANGED <<phase, pending, rows, free, pool, worker, proxied, vm, crashes>>

(* restart_vm, or workload_key and create_vm. VmNotManaged and a missing   *)
(* key end the request.                                                    *)
RestartAct(r) ==
    LET w == req[r].w
        row == req[r].row
    IN
    /\ req[r].pc = "r_act"
    /\ \/ /\ IF row.enabled THEN Managed(w) = {} ELSE NoWorkloadKey(w, row)
          /\ End(r)
          /\ UNCHANGED worker
       \/ /\ row.enabled /\ Managed(w) # {}
          /\ worker' = [s \in Slots |-> IF s \in Managed(w)
                                        THEN [worker[s] EXCEPT !.restart = TRUE]
                                        ELSE worker[s]]
          /\ Goto(r, "r_write")
          /\ UNCHANGED availKeys
       \/ /\ ~row.enabled
          /\ \E k \in KeyOrNone :
                /\ IsWorkloadKey(w, row, k)
                /\ CreateVm(w, k, availKeys \ {k})
          /\ Goto(r, "r_write")
    /\ UNCHANGED <<phase, pending, rows, free, pool, proxied, vm, crashes>>

(* set_enabled(true) for a workload found disabled, then commit. The key   *)
(* it got is not stored. An enabled workload has at most its environment   *)
(* variables to commit.                                                    *)
RestartWrite(r) ==
    LET w == req[r].w IN
    /\ req[r].pc = "r_write"
    /\ \/ /\ req[r].row.enabled /\ ~req[r].writing
          /\ End(r)
          /\ UNCHANGED rows
       \/ /\ ~req[r].row.enabled /\ req[r].stale
          /\ End(r)
          /\ UNCHANGED rows
       \/ /\ req[r].writing \/ (~req[r].row.enabled /\ ~req[r].stale /\ WriterFree(r))
          /\ rows' = [rows EXCEPT ![w].enabled = TRUE]
          /\ req' = AfterCommit(Ended(r), r)
          /\ UNCHANGED availKeys
    /\ UNCHANGED <<phase, pending, free, pool, worker, proxied, vm, crashes>>

-----------------------------------------------------------------------------
(* VM workers and CVMs. A worker reaches its CVM through the socket path   *)
(* of the workload, so two workers of one workload share it.               *)

WorkerStart(s) ==
    LET w == worker[s].w IN
    /\ worker[s].st # "none"
    /\ vm[w].st = "off"
    /\ vm' = [vm EXCEPT ![w] = [st |-> "fresh", wallet |-> NoKey]]
    /\ UNCHANGED <<phase, pending, req, rows, free, pool, availKeys, worker,
                   proxied, crashes>>

(* A tick finds a CVM that is not bootstrapped. It is given the key if the *)
(* workload has a heartbeat configuration.                                 *)
WorkerBootstrap(s) ==
    LET w == worker[s].w IN
    /\ worker[s].st # "none"
    /\ vm[w].st = "fresh"
    /\ vm' = [vm EXCEPT ![w] =
                [st |-> "bootstrapped",
                 wallet |-> IF w \in Heartbeat THEN worker[s].key ELSE NoKey]]
    /\ UNCHANGED <<phase, pending, req, rows, free, pool, availKeys, worker,
                   proxied, crashes>>

(* A Restart command: a CVM that was not running waits for the next tick;  *)
(* one that cannot be stopped stays as it is.                              *)
WorkerRestart(s) ==
    LET w == worker[s].w IN
    /\ worker[s].st # "none"
    /\ worker[s].restart
    /\ worker' = [worker EXCEPT ![s].restart = FALSE]
    /\ \/ /\ vm[w].st # "off"
          /\ vm' = [vm EXCEPT ![w] = [st |-> "fresh", wallet |-> NoKey]]
       \/ /\ vm[w].st = "off" \/ QmpFails
          /\ UNCHANGED vm
    /\ UNCHANGED <<phase, pending, req, rows, free, pool, availKeys, proxied, crashes>>

(* Variant: the loop is left before the CVM is stopped.                    *)
WorkerExitNoQuit(s) ==
    /\ worker[s].st = "exiting"
    /\ ~worker[s].restart
    /\ availKeys' = availKeys \cup KeySet(worker[s].key)
    /\ worker' = [worker EXCEPT ![s] = NoWorker]
    /\ UNCHANGED <<phase, pending, req, rows, free, pool, proxied, vm, crashes>>

(* The Delete command, the last one in the channel: quit the CVM, leave    *)
(* the loop and drop the key. An error of `quit` is only logged.           *)
WorkerExit(s) ==
    LET w == worker[s].w IN
    /\ worker[s].st = "exiting"
    /\ ~worker[s].restart
    /\ \/ vm' = [vm EXCEPT ![w] = Off]
       \/ QmpFails /\ UNCHANGED vm
    /\ availKeys' = availKeys \cup KeySet(worker[s].key)
    /\ worker' = [worker EXCEPT ![s] = NoWorker]
    /\ UNCHANGED <<phase, pending, req, rows, free, pool, proxied, crashes>>

(* The guest powers off or crashes (qemu runs with -no-reboot).            *)
CvmDies(w) ==
    /\ vm[w].st # "off"
    /\ vm' = [vm EXCEPT ![w] = Off]
    /\ UNCHANGED <<phase, pending, req, rows, free, pool, availKeys, worker,
                   proxied, crashes>>

-----------------------------------------------------------------------------
(* Start-up, crash.                                                        *)

(* Everything in memory is gone; the table and the CVMs (qemu is           *)
(* daemonized) are not.                                                    *)
LoseMemory ==
    /\ phase' = "down"
    /\ pending' = {}
    /\ req' = [r \in Reqs |-> Idle(AnyWorkload)]
    /\ free' = Total
    /\ pool' = NoUnits
    /\ availKeys' = Keys
    /\ worker' = [s \in Slots |-> NoWorker]
    /\ proxied' = {}

Crash ==
    /\ phase # "down"
    /\ crashes < MaxCrashes
    /\ crashes' = crashes + 1
    /\ LoseMemory
    /\ UNCHANGED <<rows, vm>>

Elems(s) == {s[i] : i \in DOMAIN s}
Distinct(s) == \A i, j \in DOMAIN s : s[i] = s[j] => i = j

(* The elements of a BTreeSet, in order.                                   *)
Ascending(S) ==
    {s \in [1..Cardinality(S) -> S] :
        \A i, j \in 1..Cardinality(S) : i < j => s[i] < s[j]}

Stored == {w \in Workloads : rows[w].exists}
Committed(s) == SumFunctionOnSet([w \in Workloads |-> Demand[w][s]], Stored)
UsedUnits(k) == UNION {Elems(rows[w].units[k]) : w \in Stored}

(* No two stored workloads own the same GPU or port, and none owns one     *)
(* twice or one that the host does not have (build_workload and            *)
(* delete_workload hand them out and take them back).                      *)
UnitsExclusive ==
    \A k \in Kinds : \A w \in Stored :
        /\ Elems(rows[w].units[k]) \subseteq AllUnits[k]
        /\ Distinct(rows[w].units[k])
        /\ \A v \in Stored \ {w} :
            Elems(rows[w].units[k]) \cap Elems(rows[v].units[k]) = {}

(* DefaultWorkloadService::new subtracts every row from what the host has, *)
(* and refuses to start when an amount goes below zero or a GPU or a port  *)
(* is not there, or not there any more.                                    *)
Bootable ==
    /\ \A s \in Scalars : Committed(s) \in 0..Total[s]
    /\ UnitsExclusive

(* The start of the daemon up to bootstrap: fresh pools, and a proxy       *)
(* configuration made of every row.                                        *)
Boot ==
    /\ phase = "down"
    /\ Bootable
    /\ phase' = "booting"
    /\ pending' = {w \in Stored : rows[w].enabled}
    /\ free' = [s \in Scalars |-> Total[s] - Committed(s)]
    /\ \E p \in [Kinds -> UNION {Ascending(AllUnits[k] \ UsedUnits(k)) : k \in Kinds}] :
        /\ \A k \in Kinds : p[k] \in Ascending(AllUnits[k] \ UsedUnits(k))
        /\ pool' = p
    /\ proxied' = Stored
    /\ UNCHANGED <<req, rows, availKeys, worker, vm, crashes>>

(* bootstrap, one row: the order of `SELECT * FROM workloads` is left      *)
(* open. A key that is in use, or no key left, ends the daemon.            *)
BootWorkload(w) ==
    /\ phase = "booting"
    /\ w \in pending
    /\ \/ /\ NoWorkloadKey(w, rows[w])
          /\ LoseMemory
       \/ /\ \E k \in KeyOrNone :
                /\ IsWorkloadKey(w, rows[w], k)
                /\ CreateVm(w, k, availKeys \ {k})
          /\ pending' = pending \ {w}
          /\ UNCHANGED <<phase, req, free, pool, proxied>>
    /\ UNCHANGED <<rows, vm, crashes>>

(* The router starts to accept requests.                                   *)
Serve ==
    /\ phase = "booting"
    /\ pending = {}
    /\ phase' = "serving"
    /\ UNCHANGED <<pending, req, rows, free, pool, availKeys, worker, proxied,
                   vm, crashes>>

-----------------------------------------------------------------------------

CreateStep(r) == CreateLock(r) \/ CreateInsert(r) \/ CreateSpawn(r)
                 \/ CreateCommit(r) \/ CreateDeduct(r)
DeleteStep(r) == DeleteFind(r) \/ DeleteErase(r) \/ DeleteStop(r) \/ DeleteFree(r)
StopStep(r) == StopFind(r) \/ StopWrite(r) \/ StopVm(r)
StartStep(r) == StartFind(r) \/ StartWrite(r) \/ StartSpawn(r)
RestartStep(r) == RestartFind(r) \/ RestartEnv(r) \/ RestartAct(r) \/ RestartWrite(r)

Handler(r) == CreateStep(r) \/ DeleteStep(r) \/ StopStep(r) \/ StartStep(r)
              \/ RestartStep(r)

WorkerStep(s) == WorkerStart(s) \/ WorkerBootstrap(s) \/ WorkerRestart(s)
                 \/ WorkerExit(s)

Next ==
    \/ \E r \in Reqs : Arrive(r) \/ Abandon(r) \/ Handler(r)
    \/ \E s \in Slots : WorkerStep(s)
    \/ \E w \in Workloads : CvmDies(w) \/ BootWorkload(w)
    \/ Boot \/ Serve \/ Crash

Spec == Init /\ [][Next]_vars

(* Tasks are scheduled: a handler, a worker and the start-up go on while   *)
(* they can. tokio's mutex is first come first served and a SQLite writer  *)
(* leaves within its busy timeout, so a handler that waits for a lock that *)
(* is free again and again gets it. Clients, crashes and guests are free   *)
(* not to act.                                                             *)
Fairness ==
    /\ \A r \in Reqs : SF_vars(Handler(r))
    /\ \A s \in Slots : WF_vars(WorkerExit(s)) /\ WF_vars(WorkerRestart(s))
    /\ WF_vars(Boot) /\ WF_vars(Serve)
    /\ \A w \in Workloads : WF_vars(BootWorkload(w))

FairSpec == Spec /\ Fairness

-----------------------------------------------------------------------------
(* Properties.                                                             *)

TypeOK ==
    /\ phase \in {"down", "booting", "serving"}
    /\ pending \in SUBSET Workloads
    /\ req \in [Reqs -> Request]
    /\ rows \in [Workloads -> Row]
    /\ free \in [Scalars -> Int]
    /\ pool \in Units
    /\ availKeys \in SUBSET Keys
    /\ worker \in [Slots -> Worker]
    /\ proxied \in SUBSET Workloads
    /\ vm \in [Workloads -> Cvm]
    /\ crashes \in 0..MaxCrashes

(* A verifier key is in the pool or has one owner: no two requests or VM   *)
(* workers own the same VerifierKey, whatever is dropped on the way        *)
(* (VerifierKeys::get, next_key and Drop for VerifierKey).                 *)
KeyOwnedOnce ==
    /\ \A r \in Reqs : req[r].key \notin availKeys
    /\ \A s \in Slots : worker[s].key \notin availKeys
    /\ \A q, r \in Reqs : q # r /\ req[q].key = req[r].key => req[r].key = NoKey
    /\ \A s, t \in Slots : s # t /\ worker[s].key = worker[t].key => worker[t].key = NoKey
    /\ \A r \in Reqs, s \in Slots : req[r].key = worker[s].key => req[r].key = NoKey

(* No verifier key is lost: one that is not in the pool is owned by a      *)
(* request or a VM worker, whose end will put it back, whether the request *)
(* succeeds, fails or is dropped half way (Drop for VerifierKey).          *)
KeysNotLost ==
    \A k \in Keys \ availKeys :
        \/ \E r \in Reqs : req[r].key = k
        \/ \E s \in Slots : worker[s].st # "none" /\ worker[s].key = k

(* Requests that erased a row and have not given its resources back, and   *)
(* requests that committed a row and have not taken its resources out.     *)
Releasing == {r \in Reqs : req[r].pc \in {"d_stop", "d_free"}}
Deducting == {r \in Reqs : req[r].pc = "c_deduct"}

AskedBy(R, s) == SumFunctionOnSet([r \in Reqs |-> Demand[req[r].w][s]], R)

AmountsConserved ==
    \A s \in Scalars :
        free[s] + Committed(s) + AskedBy(Releasing, s) - AskedBy(Deducting, s) = Total[s]

UnitsConserved ==
    \A k \in Kinds :
        /\ AllUnits[k] = Elems(pool[k]) \cup UsedUnits(k)
                         \cup UNION {Elems(req[r].row.units[k]) : r \in Releasing}
        /\ Distinct(pool[k])
        /\ Deducting = {} => Elems(pool[k]) \cap UsedUnits(k) = {}

(* Every resource of the host is accounted for: what is free, what the     *)
(* stored workloads own and what a delete is about to give back add up to  *)
(* the whole host, so nothing leaks and nothing is lent twice              *)
(* (create_workload, delete_workload and new agree on the arithmetic).     *)
ResourcesConserved == phase # "down" => AmountsConserved /\ UnitsConserved

(* The amounts never go below zero nor above what the host has: they are   *)
(* u32s, and `-=` would wrap around (create_workload checks first, and     *)
(* keeps the mutex until it deducts).                                      *)
AmountsInRange == \A s \in Scalars : free[s] \in 0..Total[s]

(* Whenever the agent dies, the table it leaves is one that                *)
(* DefaultWorkloadService::new accepts: it never finds itself overcommitted *)
(* or a GPU or port given twice.                                           *)
AlwaysBootable == Bootable

(* When no request runs, the workers of the VM service are those of the    *)
(* enabled workloads: no VM runs for a workload that is stopped or gone,   *)
(* and no enabled workload is left without a worker.                       *)
WorkersMatchRows ==
    phase = "serving" /\ (\A r \in Reqs : req[r].pc = "idle") =>
        \A w \in Workloads : (Managed(w) # {}) <=> (rows[w].exists /\ rows[w].enabled)

(* After a restart the agent finds the key of every workload it has to     *)
(* start: bootstrap never meets a key that is in use or an empty pool.     *)
BootstrapFindsKeys ==
    phase = "booting" => \A w \in pending : ~NoWorkloadKey(w, rows[w])

(* No two CVMs send heartbeats from the same wallet, for as long as the    *)
(* agent runs: if it dies between a stop or a delete that is committed and *)
(* the end of the CVM, nothing ends that CVM (stop_workload, VmWorker).    *)
WalletExclusive ==
    crashes = 0 => \A w, v \in Workloads : w # v /\ vm[w].wallet = vm[v].wallet => vm[w].wallet = NoKey

(* Every request that a client sends is answered.                          *)
RequestsEnd == \A r \in Reqs : req[r].pc # "idle" ~> req[r].pc = "idle"

=============================================================================
