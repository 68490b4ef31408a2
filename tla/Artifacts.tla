------------------------------ MODULE Artifacts ------------------------------
(***************************************************************************)
(* The artifact versions of nilcc-agent: which ones are installed, what    *)
(* installs them (the upgrade service and its installation workers, for    *)
(* the heartbeat worker and for an administrator), what removes them (the  *)
(* heartbeat worker and the cleanup request) and what uses them            *)
(* (create_workload).                                                      *)
(*                                                                         *)
(* The changelog is written by these operations and read by none: only the *)
(* errors of writing to it are modelled. All versions exist in the bucket; *)
(* a version that cannot be validated is one of the refusals of            *)
(* install_artifacts.                                                      *)
(***************************************************************************)
EXTENDS Integers

CONSTANTS
    Versions,     \* artifact versions, numbered in the order of their names
    Workloads,    \* workloads that clients create and delete
    Installers,   \* installation workers that can run at the same time (bound)
    Admin,        \* what administrators ask for: "install", "cleanup"
    Faulty,       \* TRUE: downloads, the database and the disk return errors
    Overlap,      \* TRUE: a workload may be created during an uninstallation
    MaxChanges,   \* bound on the changes of the expected versions
    MaxCrashes    \* bound on the crashes of the agent

NoVersion == -1

ASSUME ArtifactsAssumption ==
    /\ Versions \subseteq Nat
    /\ Admin \subseteq {"install", "cleanup"}
    /\ Faulty \in BOOLEAN /\ Overlap \in BOOLEAN
    /\ MaxChanges \in Nat /\ MaxCrashes \in Nat

VARIABLES
    table,      \* the `artifacts` table
    disk,       \* the directory of each version
    upgrade,    \* UpgradeState of the artifacts
    installer,  \* the ArtifactInstallWorker tasks
    heartbeat,  \* HeartbeatWorker::run_once
    remover,    \* the uninstallations of the heartbeat worker and of cleanup
    creator,    \* the create_workload of each workload
    used,       \* the artifacts_version of each stored workload
    expected,   \* the versions nilcc-api asks for
    changes, crashes

vars == <<table, disk, upgrade, installer, heartbeat, remover, creator, used,
          expected, changes, crashes>>

VersionOrNone == Versions \cup {NoVersion}
Removers == {"heartbeat", "cleanup"}

NoUpgrade == "none"   \* UpgradeState::None; "upgrading" and "done" are the others

(* The first of a sorted set of versions (none, if the set is empty).      *)
First(S) == {v \in S : \A u \in S : v <= u}

(* `lost`: the directory was removed while the worker was writing to it.   *)
NoInstaller == [pc |-> "none", v |-> NoVersion, lost |-> FALSE]
Installation == [pc: {"load", "log", "fetch", "write", "store", "finish"},
                 v: Versions, lost: BOOLEAN]
Installer == Installation \cup {NoInstaller}

(* `todo`: the versions that the loop has still to remove.                 *)
Remover == [pc: {"idle", "list", "dir", "rest", "row"}, inUse: SUBSET Versions,
            todo: SUBSET Versions, v: VersionOrNone]
NoRemover == [pc |-> "idle", inUse |-> {}, todo |-> {}, v |-> NoVersion]

Heartbeat == [pc: {"idle", "ask", "install", "uninstall", "wait"},
              available: SUBSET Versions, expected: SUBSET Versions]
NoHeartbeat == [pc |-> "idle", available |-> {}, expected |-> {}]

Creator == [pc: {"idle", "spawn", "commit"}, v: VersionOrNone]
NoCreator == [pc |-> "idle", v |-> NoVersion]

TypeOK ==
    /\ table \in SUBSET Versions
    /\ disk \in [Versions -> {"none", "partial", "full"}]
    /\ upgrade \in {"none", "upgrading", "done"}
    /\ installer \in [Installers -> Installer]
    /\ heartbeat \in Heartbeat
    /\ remover \in [Removers -> Remover]
    /\ \A p \in Removers : remover[p].pc \in {"rest", "row"} => remover[p].v \in remover[p].todo
    /\ creator \in [Workloads -> Creator]
    /\ used \in [Workloads -> VersionOrNone]
    /\ expected \in SUBSET Versions
    /\ changes \in 0..MaxChanges
    /\ crashes \in 0..MaxCrashes

Init ==
    /\ table = {}
    /\ disk = [v \in Versions |-> "none"]
    /\ upgrade = NoUpgrade
    /\ installer = [i \in Installers |-> NoInstaller]
    /\ heartbeat = NoHeartbeat
    /\ remover = [p \in Removers |-> NoRemover]
    /\ creator = [w \in Workloads |-> NoCreator]
    /\ used = [w \in Workloads |-> NoVersion]
    /\ expected = {}
    /\ changes = 0
    /\ crashes = 0

-----------------------------------------------------------------------------
(* Installation.                                                           *)

FreeInstallers == {i \in Installers : installer[i].pc = "none"}
Installing(v) == {i \in Installers : installer[i].pc # "none" /\ installer[i].v = v}
InUse == {used[w] : w \in Workloads} \ {NoVersion}

(* install_artifacts holds the mutex of the state from the check to the    *)
(* spawn.                                                                  *)
InstallRefused(v) ==
    /\ upgrade = "upgrading" \/ v \in table \/ Faulty
    /\ UNCHANGED <<upgrade, installer>>

(* Variant: a version that is installed already is not refused.            *)
InstallStartedAgain(v) ==
    /\ upgrade # "upgrading"
    /\ upgrade' = "upgrading"
    /\ \E i \in FreeInstallers :
        installer' = [installer EXCEPT ![i] = [pc |-> "load", v |-> v, lost |-> FALSE]]

InstallStarted(v) ==
    /\ upgrade # "upgrading"
    /\ v \notin table
    /\ upgrade' = "upgrading"
    /\ \E i \in FreeInstallers :
        installer' = [installer EXCEPT ![i] = [pc |-> "load", v |-> v, lost |-> FALSE]]

InstallRequest(v) ==
    /\ "install" \in Admin
    /\ InstallStarted(v)
    /\ UNCHANGED <<table, disk, heartbeat, remover, creator, used, expected,
                   changes, crashes>>

(* load_metadata takes the state out of the mutex and leaves the default,  *)
(* None, behind.                                                           *)
InstallerLoad(i) ==
    /\ installer[i].pc = "load"
    /\ installer' = IF upgrade = "upgrading" THEN [installer EXCEPT ![i].pc = "log"]
                                             ELSE [installer EXCEPT ![i] = NoInstaller]
    /\ upgrade' = NoUpgrade
    /\ UNCHANGED <<table, disk, heartbeat, remover, creator, used, expected,
                   changes, crashes>>

(* The changelog entry: an error marks the upgrade as done.                *)
InstallerLog(i) ==
    /\ installer[i].pc = "log"
    /\ \/ /\ installer' = [installer EXCEPT ![i].pc = "fetch"]
          /\ UNCHANGED upgrade
       \/ /\ Faulty
          /\ installer' = [installer EXCEPT ![i] = NoInstaller]
          /\ upgrade' = "done"
    /\ UNCHANGED <<table, disk, heartbeat, remover, creator, used, expected,
                   changes, crashes>>

(* download, from the metadata to the first file that is overwritten.      *)
InstallerFetch(i) ==
    LET v == installer[i].v IN
    /\ installer[i].pc = "fetch"
    /\ \/ /\ installer' = [installer EXCEPT ![i].pc = "write"]
          /\ disk' = [disk EXCEPT ![v] = "partial"]
       \/ /\ Faulty
          /\ installer' = [installer EXCEPT ![i].pc = "finish"]
          /\ UNCHANGED disk
    /\ UNCHANGED <<table, upgrade, heartbeat, remover, creator, used, expected,
                   changes, crashes>>

(* download, the rest: the directory is complete unless files of it were   *)
(* removed meanwhile, which the worker may or may not notice, or another   *)
(* worker is writing to it.                                                *)
InstallerWrite(i) ==
    LET v == installer[i].v
        others == {j \in Installing(v) \ {i} : installer[j].pc = "write"}
    IN
    /\ installer[i].pc = "write"
    /\ \/ /\ installer' = [installer EXCEPT ![i].pc = "store"]
          /\ disk' = [disk EXCEPT ![v] = IF installer[i].lost \/ others # {}
                                         THEN "partial" ELSE "full"]
       \/ /\ Faulty \/ installer[i].lost
          /\ installer' = [installer EXCEPT ![i].pc = "finish"]
          /\ UNCHANGED disk
    /\ UNCHANGED <<table, upgrade, heartbeat, remover, creator, used, expected,
                   changes, crashes>>

(* The insert fails for a version that is there already (primary key).     *)
InstallerStore(i) ==
    /\ installer[i].pc = "store"
    /\ installer' = [installer EXCEPT ![i].pc = "finish"]
    /\ \/ table' = table \cup {installer[i].v}
       \/ Faulty /\ UNCHANGED table
    /\ UNCHANGED <<disk, upgrade, heartbeat, remover, creator, used, expected,
                   changes, crashes>>

InstallerFinish(i) ==
    /\ installer[i].pc = "finish"
    /\ installer' = [installer EXCEPT ![i] = NoInstaller]
    /\ upgrade' = IF upgrade = "upgrading" THEN "done" ELSE upgrade
    /\ UNCHANGED <<table, disk, heartbeat, remover, creator, used, expected,
                   changes, crashes>>

-----------------------------------------------------------------------------
(* Uninstallation: the part that the heartbeat worker and cleanup share.   *)

(* With Overlap = FALSE the list of workloads is not read while one is     *)
(* being created.                                                          *)
MayList == Overlap \/ \A w \in Workloads : creator[w].pc = "idle"

(* The heartbeat worker goes through the versions in their order and      *)
(* after an error goes on with the next; cleanup_artifacts takes them in   *)
(* the table's order and ends at the first error.                          *)
Candidates(p) == IF p = "heartbeat" THEN First(remover[p].todo) ELSE remover[p].todo

(* Variant: the loop goes on where it was, with the old version.           *)
AfterVersionSame(p, v, ok) ==
    LET left == IF ok \/ p = "heartbeat" THEN remover[p].todo \ {v} ELSE {} IN
    [remover EXCEPT ![p] = IF left = {} THEN NoRemover
                           ELSE [remover[p] EXCEPT !.todo = left]]

AfterVersion(p, v, ok) ==
    LET left == IF ok \/ p = "heartbeat" THEN remover[p].todo \ {v} ELSE {} IN
    [remover EXCEPT ![p] =
        IF left = {} THEN NoRemover
        ELSE [NoRemover EXCEPT !.pc = "dir", !.todo = left]]

(* The workers that are writing to the directory of v find their files     *)
(* gone.                                                                   *)
FilesLost(v) ==
    [i \in Installers |->
        IF installer[i].pc = "write" /\ installer[i].v = v
        THEN [installer[i] EXCEPT !.lost = TRUE] ELSE installer[i]]

(* uninstall_artifact_version up to the first file that remove_dir_all     *)
(* removes. A directory that is not there is an error.                     *)
RemoveDir(p) ==
    /\ remover[p].pc = "dir"
    /\ \E v \in Candidates(p) :
        \/ /\ disk[v] # "none"
           /\ disk' = [disk EXCEPT ![v] = "partial"]
           /\ installer' = FilesLost(v)
           /\ remover' = [remover EXCEPT ![p].pc = "rest", ![p].v = v]
        \/ /\ disk[v] = "none" \/ Faulty
           /\ remover' = AfterVersion(p, v, FALSE)
           /\ UNCHANGED <<disk, installer>>
    /\ UNCHANGED <<table, upgrade, heartbeat, creator, used, expected, changes, crashes>>

(* remove_dir_all, the rest.                                               *)
RemoveRest(p) ==
    LET v == remover[p].v IN
    /\ remover[p].pc = "rest"
    /\ \/ /\ disk' = [disk EXCEPT ![v] = "none"]
          /\ installer' = FilesLost(v)
          /\ remover' = [remover EXCEPT ![p].pc = "row"]
       \/ /\ Faulty
          /\ remover' = AfterVersion(p, v, FALSE)
          /\ UNCHANGED <<disk, installer>>
    /\ UNCHANGED <<table, upgrade, heartbeat, creator, used, expected, changes, crashes>>

(* The row.                                                                *)
RemoveRow(p) ==
    LET v == remover[p].v IN
    /\ remover[p].pc = "row"
    /\ \/ /\ table' = table \ {v}
          /\ remover' = AfterVersion(p, v, TRUE)
       \/ /\ Faulty
          /\ remover' = AfterVersion(p, v, FALSE)
          /\ UNCHANGED table
    /\ UNCHANGED <<disk, upgrade, installer, heartbeat, creator, used, expected,
                   changes, crashes>>

(* cleanup_artifacts: first the workloads, then the versions.              *)
CleanupUsed ==
    /\ "cleanup" \in Admin
    /\ remover["cleanup"].pc = "idle"
    /\ MayList
    /\ remover' = [remover EXCEPT !["cleanup"].pc = "list", !["cleanup"].inUse = InUse]
    /\ UNCHANGED <<table, disk, upgrade, installer, heartbeat, creator, used,
                   expected, changes, crashes>>

CleanupList ==
    LET todo == table \ remover["cleanup"].inUse IN
    /\ remover["cleanup"].pc = "list"
    /\ remover' = [remover EXCEPT !["cleanup"] =
            IF todo = {} THEN NoRemover
            ELSE [NoRemover EXCEPT !.pc = "dir", !.todo = todo]]
    /\ UNCHANGED <<table, disk, upgrade, installer, heartbeat, creator, used,
                   expected, changes, crashes>>

(* axum drops the request of a client that disconnects; remove_dir_all     *)
(* goes on by itself, so this does not happen in the middle of it.         *)
CleanupDropped ==
    /\ Faulty
    /\ remover["cleanup"].pc \in {"list", "dir", "row"}
    /\ remover' = [remover EXCEPT !["cleanup"] = NoRemover]
    /\ UNCHANGED <<table, disk, upgrade, installer, heartbeat, creator, used,
                   expected, changes, crashes>>

-----------------------------------------------------------------------------
(* HeartbeatWorker::run_once.                                              *)

HeartbeatList ==
    /\ heartbeat.pc = "idle"
    /\ heartbeat' = [NoHeartbeat EXCEPT !.pc = "ask", !.available = table]
    /\ UNCHANGED <<table, disk, upgrade, installer, remover, creator, used,
                   expected, changes, crashes>>

HeartbeatAsk ==
    /\ heartbeat.pc = "ask"
    /\ \/ heartbeat' = [heartbeat EXCEPT !.pc = "install", !.expected = expected]
       \/ Faulty /\ heartbeat' = NoHeartbeat
    /\ UNCHANGED <<table, disk, upgrade, installer, remover, creator, used,
                   expected, changes, crashes>>

(* Variant: the first one that is expected.                                *)
HeartbeatInstallFirst ==
    LET missing == heartbeat.expected \ heartbeat.available IN
    /\ heartbeat.pc = "install"
    /\ heartbeat' = [heartbeat EXCEPT !.pc = "uninstall"]
    /\ IF missing = {}
       THEN UNCHANGED <<upgrade, installer>>
       ELSE \E v \in First(heartbeat.expected) : InstallRefused(v) \/ InstallStarted(v)
    /\ UNCHANGED <<table, disk, remover, creator, used, expected, changes, crashes>>

(* install_missing_versions: the first one that is missing.                *)
HeartbeatInstall ==
    LET missing == heartbeat.expected \ heartbeat.available IN
    /\ heartbeat.pc = "install"
    /\ heartbeat' = [heartbeat EXCEPT !.pc = "uninstall"]
    /\ IF missing = {}
       THEN UNCHANGED <<upgrade, installer>>
       ELSE \E v \in First(missing) : InstallRefused(v) \/ InstallStarted(v)
    /\ UNCHANGED <<table, disk, remover, creator, used, expected, changes, crashes>>

(* The start of the loop of uninstall_unused_versions.                     *)
Uninstall(todo) ==
    IF todo = {}
    THEN heartbeat' = NoHeartbeat /\ UNCHANGED remover
    ELSE /\ heartbeat' = [NoHeartbeat EXCEPT !.pc = "wait"]
         /\ remover' = [remover EXCEPT !["heartbeat"] =
                            [NoRemover EXCEPT !.pc = "dir", !.todo = todo]]

(* Variant: versions in use are removed too.                               *)
RedundantOfAll(redundant) == redundant

(* Variant: nothing is removed while any version is in use.                *)
RedundantWhenIdle(redundant) == IF InUse = {} THEN redundant ELSE {}

(* The redundant versions that no stored workload uses.                    *)
Unused(redundant) == redundant \ InUse

(* uninstall_unused_versions, up to its loop.                              *)
HeartbeatUninstall ==
    LET redundant == heartbeat.available \ heartbeat.expected IN
    /\ heartbeat.pc = "uninstall"
    /\ \/ /\ redundant = {} \/ Faulty
          /\ heartbeat' = NoHeartbeat
          /\ UNCHANGED remover
       \/ /\ redundant # {}
          /\ MayList
          /\ Uninstall(Unused(redundant))
    /\ UNCHANGED <<table, disk, upgrade, installer, creator, used, expected,
                   changes, crashes>>

HeartbeatEnd ==
    /\ heartbeat.pc = "wait"
    /\ remover["heartbeat"].pc = "idle"
    /\ heartbeat' = NoHeartbeat
    /\ UNCHANGED <<table, disk, upgrade, installer, remover, creator, used,
                   expected, changes, crashes>>

-----------------------------------------------------------------------------
(* Workloads, as far as versions matter.                                   *)

CreateFind(w, v) ==
    /\ used[w] = NoVersion
    /\ creator[w].pc = "idle"
    /\ v \in table
    /\ Overlap \/ \A p \in Removers : remover[p].pc = "idle"
    /\ creator' = [creator EXCEPT ![w] = [pc |-> "spawn", v |-> v]]
    /\ UNCHANGED <<table, disk, upgrade, installer, heartbeat, remover, used,
                   expected, changes, crashes>>

(* create_workload_spec looks the version up again. A snapshot of the base *)
(* disk (qcow2) fails if the disk is missing; a raw disk is used as it is. *)
CreateSpawn(w) ==
    LET v == creator[w].v IN
    /\ creator[w].pc = "spawn"
    /\ \/ /\ v \in table
          /\ creator' = [creator EXCEPT ![w].pc = "commit"]
       \/ /\ v \notin table \/ disk[v] # "full" \/ Faulty
          /\ creator' = [creator EXCEPT ![w] = NoCreator]
    /\ UNCHANGED <<table, disk, upgrade, installer, heartbeat, remover, used,
                   expected, changes, crashes>>

CreateCommit(w) ==
    /\ creator[w].pc = "commit"
    /\ used' = [used EXCEPT ![w] = creator[w].v]
    /\ creator' = [creator EXCEPT ![w] = NoCreator]
    /\ UNCHANGED <<table, disk, upgrade, installer, heartbeat, remover, expected,
                   changes, crashes>>

DeleteWorkload(w) ==
    /\ used[w] # NoVersion
    /\ used' = [used EXCEPT ![w] = NoVersion]
    /\ UNCHANGED <<table, disk, upgrade, installer, heartbeat, remover, creator,
                   expected, changes, crashes>>

-----------------------------------------------------------------------------
(* The surroundings.                                                       *)

ExpectedChanges ==
    /\ changes < MaxChanges
    /\ changes' = changes + 1
    /\ \E S \in SUBSET Versions : S # expected /\ expected' = S
    /\ UNCHANGED <<table, disk, upgrade, installer, heartbeat, remover, creator,
                   used, crashes>>

Crash ==
    /\ crashes < MaxCrashes
    /\ crashes' = crashes + 1
    /\ upgrade' = NoUpgrade
    /\ installer' = [i \in Installers |-> NoInstaller]
    /\ heartbeat' = NoHeartbeat
    /\ remover' = [p \in Removers |-> NoRemover]
    /\ creator' = [w \in Workloads |-> NoCreator]
    /\ UNCHANGED <<table, disk, used, expected, changes>>

InstallerStep(i) == InstallerLoad(i) \/ InstallerLog(i) \/ InstallerFetch(i)
                    \/ InstallerWrite(i) \/ InstallerStore(i) \/ InstallerFinish(i)

RemoverStep(p) == RemoveDir(p) \/ RemoveRest(p) \/ RemoveRow(p)

HeartbeatStep == HeartbeatList \/ HeartbeatAsk \/ HeartbeatInstall
                 \/ HeartbeatUninstall \/ HeartbeatEnd

Next ==
    \/ \E v \in Versions : InstallRequest(v)
    \/ \E i \in Installers : InstallerStep(i)
    \/ \E p \in Removers : RemoverStep(p)
    \/ CleanupUsed \/ CleanupList \/ CleanupDropped
    \/ HeartbeatStep
    \/ \E w \in Workloads : \/ \E v \in Versions : CreateFind(w, v)
                            \/ CreateSpawn(w) \/ CreateCommit(w) \/ DeleteWorkload(w)
    \/ ExpectedChanges \/ Crash

Spec == Init /\ [][Next]_vars

(* The agent's tasks are scheduled and the heartbeat worker runs for ever: *)
(* strong fairness, because with Overlap = FALSE it waits for creates that *)
(* the code does not wait for.                                             *)
Fairness ==
    /\ \A i \in Installers : WF_vars(InstallerStep(i))
    /\ \A p \in Removers : WF_vars(RemoverStep(p))
    /\ WF_vars(CleanupList)
    /\ SF_vars(HeartbeatStep)
    /\ \A w \in Workloads : WF_vars(CreateSpawn(w) \/ CreateCommit(w))

FairSpec == Spec /\ Fairness

-----------------------------------------------------------------------------
(* Properties.                                                             *)

(* The version of every stored workload is installed: bootstrap would fail *)
(* on one that is not, and with it the start of the agent.                 *)
UsedInstalled == InUse \subseteq table

(* The files of every version that a stored workload uses are complete:    *)
(* its CVM boots from them at every start. Installers write them and       *)
(* removers delete them without looking at the workloads' rows again.      *)
UsedComplete == \A v \in InUse : disk[v] = "full"

(* A version that nilcc-api goes on asking for gets installed.             *)
ExpectedInstalled ==
    \A v \in Versions : v \in expected ~> (v \in table \/ v \notin expected)

(* A version that nilcc-api does not ask for any more is removed once no   *)
(* workload uses it.                                                       *)
RedundantRemoved ==
    \A v \in Versions :
        <>[](v \notin expected /\ v \notin InUse) => <>[](v \notin table)

=============================================================================
