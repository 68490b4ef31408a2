----------------------------- MODULE VmWorker -----------------------------
(***************************************************************************)
(* The life of one workload's CVM: the VM service that makes its disks and *)
(* spawns its VM worker; the worker task, which starts qemu, watches it,   *)
(* bootstraps cvm-agent inside it and emits events; the qemu process,      *)
(* which outlives the agent; composed with cvm-agent (CvmAgent) and with   *)
(* the event worker that reports to nilcc-api (EventWorker).               *)
(***************************************************************************)
EXTENDS EventWorker, CvmAgent

CONSTANTS
    W,              \* the workload
    Slots,          \* worker tasks of W that can exist at the same time (bound)
    HeartbeatConfigs, \* what the bootstrap request may hold
    Lines,          \* the kinds of lines that caddy writes
    SlowCreate,     \* TRUE: images may be pulled before the create is committed
    EnvUpdates,     \* {TRUE}: restarts bring new environment variables
    Overlap,        \* TRUE: a worker may be spawned while another one exits
    CrashReporting, \* TRUE: the agent may die between a report and its record
    MaxOps,         \* bound on the operations of clients
    MaxFaults       \* bound on errors, crashes and deaths of the CVM

ASSUME WorkerAssumption ==
    /\ W \in Workloads
    /\ Lines \subseteq LineKinds
    /\ SlowCreate \in BOOLEAN
    /\ EnvUpdates \subseteq BOOLEAN
    /\ Overlap \in BOOLEAN
    /\ CrashReporting \in BOOLEAN
    /\ MaxOps \in Nat
    /\ MaxFaults \in Nat

VARIABLES
    hb,         \* the heartbeat configuration of W
    stage,      \* "new", "spawned", "stored", "created", "stopped", "deleted"
    serving,    \* FALSE: the agent is down
    managed,    \* the slot of the worker in the map of the VM service, or None
    worker,     \* the worker tasks
    vm, socket, \* the qemu process, and whether its QMP socket can be reached
    env,        \* version of the environment variables in the row
    iso, disk,  \* version in the ISO file (0: no file); the state disk exists
    booted,     \* version of the variables that the running CVM booted with
    ops, faults,
    leaked      \* history: "crash", and "quit" when a CVM could not be stopped

wvars == <<hb, stage, serving, managed, worker, vm, socket, env, iso, disk,
           booted, ops, faults, leaked>>
vars == <<evars, gvars, wvars>>

None == "none"

(* A worker task: `pc` where it waits, `cmds` its channel, `state` its     *)
(* vm_state, `last` its last_event_id, `out` the events it has to hand     *)
(* over before it goes on.                                                 *)
NoWorker == [pc |-> "none", cmds |-> << >>, state |-> "unknown", last |-> NoId,
             out |-> << >>]

Init ==
    /\ stage \in {"new", "stopped"}
    /\ EventInit(IF stage = "stopped" THEN {W} ELSE {})
    /\ GuestInit
    /\ hb \in HeartbeatConfigs
    /\ serving = TRUE
    /\ managed = None
    /\ worker = [s \in Slots |-> NoWorker]
    /\ vm = "off"
    /\ socket = FALSE
    /\ env = 1
    /\ iso = 0
    /\ disk = FALSE
    /\ booted = 0
    /\ ops = 0
    /\ faults = 0
    /\ leaked = {}

-----------------------------------------------------------------------------
(* qemu, as QemuClient sees it.                                            *)

IsRunning == vm = "on" /\ socket

MayFail == faults < MaxFaults
Fails == MayFail /\ faults' = faults + 1

Qemu(on) ==
    /\ vm' = IF on THEN "on" ELSE "off"
    /\ socket' = (on \/ socket)
    /\ booted' = IF on THEN iso ELSE 0
    /\ Boots

QemuUnchanged == UNCHANGED <<vm, socket, booted, gvars>>

(* quit through QMP. An error may come before or after it took effect.     *)
Quit ==
    /\ IsRunning
    /\ Qemu(FALSE)

QuitFails ==
    \/ Quit /\ Fails /\ UNCHANGED leaked
    \/ IsRunning /\ Fails /\ QemuUnchanged /\ leaked' = leaked \cup {"quit"}
    \/ ~IsRunning /\ QemuUnchanged /\ UNCHANGED <<faults, leaked>>

-----------------------------------------------------------------------------
(* The VM service.                                                         *)

(* create_application_iso: the compose file, the metadata, the files and   *)
(* the environment variables, the one part of it that can change later.    *)
ApplicationIso == env

(* create_workload_spec: the ISO, the state disk and the snapshot are made *)
(* unless their files exist.                                               *)
CreateFiles ==
    /\ iso' = IF iso = 0 THEN ApplicationIso ELSE iso
    /\ disk' = TRUE

NewWorker == [NoWorker EXCEPT !.pc = "start"]

(* create_vm, of a workload that has no worker.                            *)
Spawn ==
    /\ managed = None
    /\ \E s \in Slots :
        /\ worker[s].pc = "none"
        /\ Overlap \/ \A t \in Slots : worker[t].pc = "none"
        /\ worker' = [worker EXCEPT ![s] = NewWorker]
        /\ managed' = s
    /\ CreateFiles

Command(c) == worker' = [worker EXCEPT ![managed].cmds = Append(@, c)]

(* delete_vm of the service: out of the map, Delete into the channel.      *)
Dismiss ==
    /\ managed # None
    /\ Command("Delete")
    /\ managed' = None

-----------------------------------------------------------------------------
(* What clients ask for, as the workload service drives the VM service.    *)

Op == serving /\ ops < MaxOps /\ ops' = ops + 1

(* create_workload spawns the worker before it commits the row, and        *)
(* nilcc-api commits its own row when the agent has answered.              *)
Create ==
    /\ Op
    /\ stage = "new"
    /\ Spawn
    /\ stage' = "spawned"
    /\ UNCHANGED <<hb, serving, vm, socket, env, booted, faults, leaked, evars, gvars>>

Stored ==
    /\ serving
    /\ stage = "spawned"
    /\ stage' = "stored"
    /\ StoreRow(W)
    /\ UNCHANGED <<hb, serving, managed, worker, vm, socket, env, iso, disk, booted,
                   ops, faults, leaked, gvars>>

Created ==
    /\ stage = "stored"
    /\ stage' = "created"
    /\ Register(W)
    /\ UNCHANGED <<hb, serving, managed, worker, vm, socket, env, iso, disk, booted,
                   ops, faults, leaked, gvars>>

Stop ==
    /\ Op
    /\ stage = "created"
    /\ Dismiss
    /\ stage' = "stopped"
    /\ UNCHANGED <<hb, serving, vm, socket, env, iso, disk, booted, faults, leaked,
                   evars, gvars>>

Start ==
    /\ Op
    /\ stage = "stopped"
    /\ Spawn
    /\ stage' = "created"
    /\ UNCHANGED <<hb, serving, vm, socket, env, booted, faults, leaked, evars, gvars>>

(* restart_workload of an enabled workload, with or without new variables. *)
Restart ==
    /\ Op
    /\ stage = "created"
    /\ managed # None
    /\ \E new \in EnvUpdates : env' = IF new THEN env + 1 ELSE env
    /\ Command("Restart")
    /\ UNCHANGED <<hb, stage, serving, managed, vm, socket, iso, disk, booted, faults,
                   leaked, evars, gvars>>

(* delete_workload erases the row first.                                   *)
Delete ==
    /\ Op
    /\ stage = "created"
    /\ Dismiss
    /\ EraseRow(W)
    /\ stage' = "deleted"
    /\ UNCHANGED <<hb, serving, vm, socket, env, iso, disk, booted, faults, leaked,
                   gvars>>

Deleted ==
    /\ stage = "deleted"
    /\ W \in registered
    /\ Unregister(W)
    /\ UNCHANGED <<wvars, gvars>>

-----------------------------------------------------------------------------
(* The worker task.                                                        *)

At(s, pc) == worker[s].pc = pc /\ worker[s].out = << >>

Becomes(s, r) == worker' = [worker EXCEPT ![s] = r]

Rest == <<hb, stage, serving, managed, env, ops, leaked>>

(* submit_event: waits for room in the channel.                            *)
Submits(s) ==
    /\ worker[s].out # << >>
    /\ SendEvent(W, Head(worker[s].out))
    /\ Becomes(s, [worker[s] EXCEPT !.out = Tail(@)])
    /\ UNCHANGED <<Rest, vm, socket, iso, disk, booted, faults, gvars>>

(* start_vm. qemu does not start when a disk is missing, or when another   *)
(* qemu holds the ports of the workload.                                   *)
StartVm(s) ==
    LET r == [worker[s] EXCEPT !.pc = "loop"] IN
    /\ At(s, "start")
    /\ \/ /\ IsRunning
          /\ Becomes(s, [r EXCEPT !.state = "starting"])
          /\ QemuUnchanged
          /\ UNCHANGED faults
       \/ /\ vm = "off" /\ iso # 0 /\ disk
          /\ Qemu(TRUE)
          /\ Becomes(s, [r EXCEPT !.state = "starting", !.out = <<"Starting">>])
          /\ UNCHANGED faults
       \/ /\ ~IsRunning
          /\ Fails \/ ((vm = "on" \/ iso = 0 \/ ~disk) /\ UNCHANGED faults)
          /\ Becomes(s, [r EXCEPT !.out = <<"FailedToStart">>])
          /\ QemuUnchanged
    /\ UNCHANGED <<Rest, iso, disk, evars>>

(* A command is received: Restart emits its event first.                   *)
TakeCommand(s) ==
    /\ At(s, "loop")
    /\ worker[s].cmds # << >>
    /\ Becomes(s, [worker[s] EXCEPT
                    !.cmds = Tail(@),
                    !.pc = IF Head(worker[s].cmds) = "Delete" THEN "quit" ELSE "restart",
                    !.out = IF Head(worker[s].cmds) = "Delete" THEN << >>
                            ELSE <<"ForcedRestart">>])
    /\ UNCHANGED <<Rest, vm, socket, iso, disk, booted, faults, evars, gvars>>

(* restart_vm: a CVM that is not running, or could not be stopped, is left *)
(* to the next tick.                                                       *)
RestartVm(s) ==
    /\ At(s, "restart")
    /\ \/ /\ Quit
          /\ Becomes(s, [worker[s] EXCEPT !.pc = "start"])
          /\ UNCHANGED <<faults, leaked>>
       \/ /\ Becomes(s, [worker[s] EXCEPT !.pc = "loop"])
          /\ QuitFails
    /\ UNCHANGED <<hb, stage, serving, managed, env, ops, iso, disk, evars>>

(* Variant: the CVM is not stopped.                                        *)
QuitVmSkipped(s) ==
    /\ At(s, "quit")
    /\ Becomes(s, [worker[s] EXCEPT !.pc = "erase"])
    /\ QemuUnchanged
    /\ UNCHANGED <<Rest, faults, iso, disk, evars>>

(* delete_vm: stop the CVM, whatever comes of it ...                       *)
QuitVm(s) ==
    /\ At(s, "quit")
    /\ (Quit /\ UNCHANGED <<faults, leaked>>) \/ QuitFails
    /\ Becomes(s, [worker[s] EXCEPT !.pc = "erase"])
    /\ UNCHANGED <<hb, stage, serving, managed, env, ops, iso, disk, evars>>

(* ... remove the writable disks and the ISO, emit Stopped ...             *)
EraseFiles(s) ==
    /\ At(s, "erase")
    /\ iso' = 0
    /\ disk' = FALSE
    /\ Becomes(s, [worker[s] EXCEPT !.pc = "unlink", !.out = <<"Stopped">>])
    /\ UNCHANGED <<Rest, vm, socket, booted, faults, evars, gvars>>

(* ... remove the socket and leave the loop.                               *)
Unlink(s) ==
    /\ At(s, "unlink")
    /\ socket' = FALSE
    /\ Becomes(s, NoWorker)
    /\ UNCHANGED <<Rest, vm, iso, disk, booted, faults, evars, gvars>>

(* handle_tick: a CVM that is gone is started again. One that runs and is  *)
(* not known to be ready is asked for its health; an answer with `https`   *)
(* makes it Running, and the guest's last event is passed on once.         *)
TickGone(s) ==
    /\ At(s, "loop")
    /\ ~IsRunning
    /\ Becomes(s, [worker[s] EXCEPT !.pc = "start", !.out = <<"VmRestarted">>])
    /\ UNCHANGED <<Rest, vm, socket, iso, disk, booted, faults, evars, gvars>>

EventOf(kind) == IF kind = "Error" THEN "FailedToStart" ELSE "Warning"

(* Variant: a CVM is Running as soon as it is bootstrapped.                *)
HealthReportEager(r, h) ==
    LET new == h.event # NoId /\ h.event # r.last IN
    [r EXCEPT !.state = "running", !.last = IF new THEN h.event ELSE @,
              !.out = (IF new THEN <<EventOf(h.kind)>> ELSE << >>)]

HealthReport(r, h) ==
    LET new == h.event # NoId /\ h.event # r.last IN
    [r EXCEPT !.state = IF h.https THEN "running" ELSE @,
              !.last = IF new THEN h.event ELSE @,
              !.out = (IF h.https THEN <<"Running">> ELSE << >>)
                      \o (IF new THEN <<EventOf(h.kind)>> ELSE << >>)]

TickHealth(s) ==
    /\ At(s, "loop")
    /\ IsRunning
    /\ worker[s].state # "running"
    /\ Becomes(s, IF Health.bootstrapped THEN HealthReport(worker[s], Health)
                  ELSE [worker[s] EXCEPT !.pc = "bootstrap"])
    /\ UNCHANGED <<Rest, vm, socket, iso, disk, booted, faults, evars, gvars>>

(* bootstrap: the CVM may be gone by now, and an answer may be lost.       *)
TickBootstrap(s) ==
    LET r == [worker[s] EXCEPT !.pc = "loop"] IN
    /\ At(s, "bootstrap")
    /\ \/ /\ vm = "on"
          /\ Bootstrap(hb)
          /\ Becomes(s, IF BootstrapOk(hb) THEN [r EXCEPT !.out = <<"AwaitingCert">>] ELSE r)
          /\ UNCHANGED faults
       \/ /\ vm = "on" /\ Fails
          /\ Bootstrap(hb)
          /\ Becomes(s, r)
       \/ /\ Fails \/ (vm = "off" /\ UNCHANGED faults)
          /\ Becomes(s, r)
          /\ UNCHANGED gvars
    /\ UNCHANGED <<Rest, vm, socket, iso, disk, booted, evars>>

WorkerStep(s) ==
    \/ Submits(s) \/ StartVm(s) \/ TakeCommand(s) \/ RestartVm(s) \/ QuitVm(s)
    \/ EraseFiles(s) \/ Unlink(s) \/ TickGone(s) \/ TickHealth(s) \/ TickBootstrap(s)

-----------------------------------------------------------------------------
(* The guest, and what goes wrong.                                         *)

Guest(A) == vm = "on" /\ A /\ UNCHANGED <<evars, wvars>>

(* Pulling images takes longer than the commits that end a create, in the  *)
(* agent and in nilcc-api.                                                 *)
PullImages == Guest(Pull) /\ (SlowCreate \/ stage \notin {"spawned", "stored"})

GuestFails ==
    /\ vm = "on"
    /\ Fails
    /\ PullFails \/ LaunchFails
    /\ UNCHANGED <<evars, hb, stage, serving, managed, worker, vm, socket, env, iso,
                   disk, booted, ops, leaked>>

(* The guest powers off or crashes; qemu (-no-reboot) exits.               *)
CvmDies ==
    /\ vm = "on"
    /\ Fails
    /\ Qemu(FALSE)
    /\ UNCHANGED <<evars, Rest, worker, iso, disk>>

ReportError ==
    /\ Fails
    /\ ReportFails
    /\ UNCHANGED <<gvars, hb, stage, serving, managed, worker, vm, socket, env, iso,
                   disk, booted, ops, leaked>>

(* nilcc-api has applied an event that the table does not name yet.        *)
Unrecorded == applied

(* The agent dies: its tasks are gone, qemu and the files are not. A       *)
(* request that was creating or deleting the workload is cut short.        *)
Crash ==
    /\ serving
    /\ Fails
    /\ CrashReporting \/ ~Unrecorded
    /\ EventsLost
    /\ serving' = FALSE
    /\ managed' = None
    /\ worker' = [s \in Slots |-> NoWorker]
    /\ stage' = IF stage \in {"spawned", "stored"} THEN "deleted" ELSE stage
    /\ leaked' = leaked \cup {"crash"}
    /\ UNCHANGED <<gvars, hb, vm, socket, env, iso, disk, booted, ops>>

(* bootstrap of the workload service: the enabled workloads get workers.   *)
BootAgent ==
    /\ ~serving
    /\ serving' = TRUE
    /\ IF stage = "created" THEN Spawn ELSE UNCHANGED <<managed, worker, iso, disk>>
    /\ UNCHANGED <<evars, gvars, hb, stage, vm, socket, env, booted, ops, faults, leaked>>

EventWorkerStep == serving /\ EventStep /\ UNCHANGED <<gvars, wvars>>

Clients == Create \/ Stop \/ Start \/ Restart \/ Delete
Service == Stored \/ Created \/ Deleted \/ BootAgent

Next ==
    \/ Clients \/ Service \/ EventWorkerStep
    \/ \E s \in Slots : WorkerStep(s)
    \/ PullImages \/ Guest(Launch) \/ Guest(CaddyCheck)
    \/ Guest(\E k \in Lines : CaddyWrites(k))
    \/ GuestFails \/ CvmDies \/ ReportError \/ Crash

Spec == Init /\ [][Next]_vars

(* Tasks run: tokio polls every task that can go on, a select! that is     *)
(* entered again and again takes each of its ready branches (its order is  *)
(* random), and the guest's monitors loop. Caddy is assumed to get its     *)
(* certificate, and systemd to start the agent again. Clients and faults   *)
(* need not happen.                                                        *)
Fairness ==
    /\ WF_vars(EventWorkerStep)
    /\ WF_vars(Stored) /\ WF_vars(Created) /\ WF_vars(Deleted) /\ WF_vars(BootAgent)
    /\ \A s \in Slots :
        /\ WF_vars(Submits(s)) /\ WF_vars(StartVm(s)) /\ SF_vars(TakeCommand(s))
        /\ WF_vars(RestartVm(s)) /\ WF_vars(QuitVm(s)) /\ WF_vars(EraseFiles(s))
        /\ WF_vars(Unlink(s)) /\ WF_vars(TickGone(s)) /\ WF_vars(TickHealth(s))
        /\ WF_vars(TickBootstrap(s))
    /\ WF_vars(PullImages) /\ WF_vars(Guest(Launch)) /\ WF_vars(Guest(CaddyCheck))
    /\ WF_vars(Guest(CaddyWrites("cert")))

FairSpec == Spec /\ Fairness

-----------------------------------------------------------------------------
(* Properties.                                                             *)

(* The VM service and the host agree on who owns the CVM and its files: a  *)
(* managed worker always finds the ISO and the state disk it may have to   *)
(* start the CVM from, and when no worker is left, no qemu process runs    *)
(* and no disk of the workload stays behind, unless the agent died or      *)
(* `quit` failed (create_vm, delete_vm and restart_vm of service and       *)
(* worker, with restarts, guests that die and errors in between).          *)
VmOwned ==
    /\ managed # None => iso # 0 /\ disk
    /\ (\A s \in Slots : worker[s].pc = "none") /\ serving /\ leaked = {} =>
        vm = "off" /\ iso = 0 /\ ~disk

(* A workload that stays enabled ends up as running in nilcc-api: through  *)
(* the death of the CVM, a crash of the agent, failed calls and dropped    *)
(* events, the worker bootstraps cvm-agent, sees its certificate and its   *)
(* Running event reaches nilcc-api. It may show an error instead when the  *)
(* guest reported one, which is forwarded after Running and not taken back *)
(* (handle_tick).                                                          *)
StatusConverges ==
    (<>[](stage = "created" /\ hb # "invalid" /\ "quit" \notin leaked)) =>
        <>[](\/ status[W] = "running"
             \/ status[W] = "error" /\ guest.event # NoId)

=============================================================================
