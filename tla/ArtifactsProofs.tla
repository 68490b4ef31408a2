--------------------------- MODULE ArtifactsProofs ---------------------------
(***************************************************************************)
(* Theorems about Artifacts, for any versions, workloads and installers.   *)
(***************************************************************************)
EXTENDS Artifacts, TLAPS

(* The records that begin and end the tasks are of their types.            *)
LEMMA RecordTypes ==
    /\ NoInstaller \in Installer
    /\ NoRemover \in Remover
    /\ NoHeartbeat \in Heartbeat
    /\ NoCreator \in Creator
  BY DEF NoInstaller, Installer, NoRemover, Remover, NoHeartbeat, Heartbeat,
         NoCreator, Creator, VersionOrNone

LEMMA InitTypeOK == Init => TypeOK
  BY ArtifactsAssumption, RecordTypes
     DEF Init, TypeOK, NoUpgrade, VersionOrNone, NoRemover

(* An uninstallation that starts, and one that goes on with what is left.  *)
LEMMA StartedRemoverType ==
    ASSUME NEW todo \in SUBSET Versions
    PROVE  /\ [NoRemover EXCEPT !.pc = "dir", !.todo = todo] \in Remover
           /\ [NoRemover EXCEPT !.pc = "dir", !.todo = todo].pc = "dir"
  BY DEF NoRemover, Remover, VersionOrNone

LEMMA FirstIsMember ==
    ASSUME NEW S, NEW v \in First(S)
    PROVE  v \in S
  BY DEF First

LEMMA CandidateIsTodo ==
    ASSUME NEW p \in Removers, NEW v \in Candidates(p)
    PROVE  v \in remover[p].todo
  BY FirstIsMember DEF Candidates

LEMMA AfterVersionType ==
    ASSUME TypeOK, NEW p \in Removers, NEW v, NEW ok \in BOOLEAN
    PROVE  /\ AfterVersion(p, v, ok) \in [Removers -> Remover]
           /\ AfterVersion(p, v, ok)[p].pc \in {"idle", "dir"}
           /\ \A q \in Removers \ {p} : AfterVersion(p, v, ok)[q] = remover[q]
<1>. DEFINE left == IF ok \/ p = "heartbeat" THEN remover[p].todo \ {v} ELSE {}
            new == IF left = {} THEN NoRemover
                   ELSE [NoRemover EXCEPT !.pc = "dir", !.todo = left]
<1>1. left \in SUBSET Versions
  BY DEF TypeOK, Remover
<1>2. new \in Remover /\ new.pc \in {"idle", "dir"}
  BY <1>1, RecordTypes, StartedRemoverType, Zenon DEF NoRemover
<1>3. AfterVersion(p, v, ok) = [remover EXCEPT ![p] = new]
  BY DEF AfterVersion
<1>. HIDE DEF new
<1>. QED BY <1>2, <1>3 DEF TypeOK

LEMMA BusyInstallerType ==
    ASSUME TypeOK, NEW i \in Installers, installer[i].pc # "none"
    PROVE  installer[i] \in Installation
  BY DEF TypeOK, Installer, NoInstaller

LEMMA FilesLostType ==
    ASSUME TypeOK, NEW v
    PROVE  FilesLost(v) \in [Installers -> Installer]
<1>1. ASSUME NEW i \in Installers, installer[i].pc = "write"
      PROVE  [installer[i] EXCEPT !.lost = TRUE] \in Installer
  <2>1. installer[i] \in Installation
    BY <1>1, BusyInstallerType
  <2>. QED BY <2>1, Zenon DEF Installation, Installer
<1>. QED BY <1>1, Zenon DEF FilesLost, TypeOK

(* What a started installation makes of the workers.                       *)
LEMMA InstallStartedType ==
    ASSUME TypeOK, NEW v \in Versions, InstallStarted(v)
    PROVE  /\ installer' \in [Installers -> Installer]
           /\ upgrade' \in {"none", "upgrading", "done"}
<1>1. [pc |-> "load", v |-> v, lost |-> FALSE] \in Installer
  BY DEF Installer, Installation
<1>. QED BY <1>1 DEF InstallStarted, TypeOK, FreeInstallers

(* A worker that goes on to its next step.                                 *)
LEMMA InstallerGotoType ==
    ASSUME TypeOK, NEW i \in Installers, installer[i].pc # "none",
           NEW p \in {"log", "fetch", "write", "store", "finish"}
    PROVE  [installer EXCEPT ![i].pc = p] \in [Installers -> Installer]
<1>1. installer[i] \in Installation
  BY BusyInstallerType
<1>2. [installer[i] EXCEPT !.pc = p] \in Installer
  BY <1>1, Zenon DEF Installation, Installer
<1>. QED BY <1>2, Zenon DEF TypeOK

LEMMA InstallerStepType ==
    ASSUME TypeOK, NEW i \in Installers, InstallerStep(i)
    PROVE  TypeOK'
<1>. USE RecordTypes DEF TypeOK
<1>1. CASE InstallerLoad(i)
  <2>1. installer' \in [Installers -> Installer]
    BY <1>1, InstallerGotoType DEF InstallerLoad
  <2>. QED BY <1>1, <2>1 DEF InstallerLoad, NoUpgrade
<1>2. CASE InstallerLog(i)
  <2>1. installer' \in [Installers -> Installer]
    BY <1>2, InstallerGotoType DEF InstallerLog
  <2>. QED BY <1>2, <2>1 DEF InstallerLog
<1>3. CASE InstallerFetch(i)
  BY <1>3, InstallerGotoType DEF InstallerFetch
<1>4. CASE InstallerWrite(i)
  BY <1>4, InstallerGotoType DEF InstallerWrite
<1>5. CASE InstallerStore(i)
  <2>1. installer[i].v \in Versions
    BY <1>5, BusyInstallerType DEF InstallerStore, Installation
  <2>. QED BY <1>5, <2>1, InstallerGotoType DEF InstallerStore
<1>6. CASE InstallerFinish(i)
  BY <1>6 DEF InstallerFinish
<1>. QED BY <1>1, <1>2, <1>3, <1>4, <1>5, <1>6 DEF InstallerStep

(* What the conjuncts of TypeOK on the removers ask of one of them.        *)
Proper(rec) == /\ rec \in Remover
               /\ rec.pc \in {"rest", "row"} => rec.v \in rec.todo

LEMMA ReplaceRemover ==
    ASSUME TypeOK, NEW p \in Removers, NEW rec, Proper(rec),
           remover' = [remover EXCEPT ![p] = rec]
    PROVE  /\ remover' \in [Removers -> Remover]
           /\ \A q \in Removers :
                 remover'[q].pc \in {"rest", "row"} => remover'[q].v \in remover'[q].todo
  BY Zenon DEF Proper, TypeOK

LEMMA AfterVersionProper ==
    ASSUME TypeOK, NEW p \in Removers, NEW v, NEW ok \in BOOLEAN,
           remover' = AfterVersion(p, v, ok)
    PROVE  /\ remover' \in [Removers -> Remover]
           /\ \A q \in Removers :
                 remover'[q].pc \in {"rest", "row"} => remover'[q].v \in remover'[q].todo
<1>1. ASSUME NEW q \in Removers, remover'[q].pc \in {"rest", "row"}
      PROVE  remover'[q].v \in remover'[q].todo
  <2>1. q # p
    BY <1>1, AfterVersionType
  <2>2. remover'[q] = remover[q]
    BY <2>1, AfterVersionType
  <2>. QED BY <1>1, <2>2 DEF TypeOK
<1>. QED BY <1>1, AfterVersionType

LEMMA RemoverStepType ==
    ASSUME TypeOK, NEW p \in Removers, RemoverStep(p)
    PROVE  TypeOK'
<1>1. remover[p] \in Remover
  BY DEF TypeOK
<1>2. CASE RemoveDir(p)
  <2>1. PICK v \in Candidates(p) :
          \/ /\ disk' = [disk EXCEPT ![v] = "partial"]
             /\ installer' = FilesLost(v)
             /\ remover' = [remover EXCEPT ![p].pc = "rest", ![p].v = v]
          \/ /\ remover' = AfterVersion(p, v, FALSE)
             /\ UNCHANGED <<disk, installer>>
    BY <1>2, Zenon DEF RemoveDir
  <2>2. v \in remover[p].todo /\ v \in Versions
    BY CandidateIsTodo DEF TypeOK, Remover
  <2>3. CASE /\ disk' = [disk EXCEPT ![v] = "partial"]
             /\ installer' = FilesLost(v)
             /\ remover' = [remover EXCEPT ![p].pc = "rest", ![p].v = v]
    <3>. DEFINE rec == [remover[p] EXCEPT !.pc = "rest", !.v = v]
    <3>1. Proper(rec)
      BY <1>1, <2>2 DEF Remover, VersionOrNone, Proper
    <3>2. remover' = [remover EXCEPT ![p] = rec]
      BY <2>3, Zenon
    <3>. HIDE DEF rec
    <3>. QED BY <1>2, <2>3, <3>1, <3>2, ReplaceRemover, FilesLostType
             DEF RemoveDir, TypeOK
  <2>4. CASE remover' = AfterVersion(p, v, FALSE) /\ UNCHANGED <<disk, installer>>
    BY <1>2, <2>4, AfterVersionProper DEF RemoveDir, TypeOK
  <2>. QED BY <2>1, <2>3, <2>4
<1>3. CASE RemoveRest(p)
  <2>1. CASE /\ disk' = [disk EXCEPT ![remover[p].v] = "none"]
             /\ installer' = FilesLost(remover[p].v)
             /\ remover' = [remover EXCEPT ![p].pc = "row"]
    <3>. DEFINE rec == [remover[p] EXCEPT !.pc = "row"]
    <3>1. remover[p].v \in remover[p].todo
      BY <1>3 DEF RemoveRest, TypeOK
    <3>2. Proper(rec)
      BY <1>1, <3>1 DEF Remover, Proper
    <3>3. remover' = [remover EXCEPT ![p] = rec]
      BY <2>1, Zenon
    <3>. HIDE DEF rec
    <3>. QED BY <1>3, <2>1, <3>2, <3>3, ReplaceRemover, FilesLostType
             DEF RemoveRest, TypeOK
  <2>2. CASE remover' = AfterVersion(p, remover[p].v, FALSE) /\ UNCHANGED <<disk, installer>>
    BY <1>3, <2>2, AfterVersionProper DEF RemoveRest, TypeOK
  <2>. QED BY <1>3, <2>1, <2>2 DEF RemoveRest
<1>4. CASE RemoveRow(p)
  BY <1>4, AfterVersionProper DEF RemoveRow, TypeOK
<1>. QED BY <1>2, <1>3, <1>4 DEF RemoverStep

LEMMA CleanupType ==
    ASSUME TypeOK, CleanupUsed \/ CleanupList \/ CleanupDropped
    PROVE  TypeOK'
<1>. DEFINE c == "cleanup"
<1>1. c \in Removers
  BY DEF Removers
<1>2. CASE CleanupUsed
  <2>1. InUse \in SUBSET Versions
    BY DEF InUse, TypeOK, VersionOrNone
  <2>2. [remover[c] EXCEPT !.pc = "list", !.inUse = InUse] \in Remover
    BY <1>1, <2>1 DEF TypeOK, Remover
  <2>. QED BY <1>1, <1>2, <2>2 DEF CleanupUsed, TypeOK
<1>3. CASE CleanupList
  <2>. DEFINE todo == table \ remover[c].inUse
              new == IF todo = {} THEN NoRemover
                     ELSE [NoRemover EXCEPT !.pc = "dir", !.todo = todo]
  <2>1. new \in Remover /\ new.pc \in {"idle", "dir"}
    BY RecordTypes, StartedRemoverType, Zenon DEF NoRemover, TypeOK
  <2>2. remover' = [remover EXCEPT ![c] = new]
    BY <1>3 DEF CleanupList
  <2>. HIDE DEF new
  <2>. QED BY <1>1, <1>3, <2>1, <2>2 DEF CleanupList, TypeOK
<1>4. CASE CleanupDropped
  <2>1. Proper(NoRemover)
    BY RecordTypes DEF Proper, NoRemover
  <2>. QED BY <1>1, <1>4, <2>1, ReplaceRemover DEF CleanupDropped, TypeOK
<1>. QED BY <1>2, <1>3, <1>4

LEMMA HeartbeatStepType ==
    ASSUME TypeOK, HeartbeatStep
    PROVE  TypeOK'
<1>1. CASE HeartbeatList
  BY <1>1 DEF HeartbeatList, TypeOK, NoHeartbeat, Heartbeat
<1>2. CASE HeartbeatAsk
  BY <1>2, RecordTypes DEF HeartbeatAsk, TypeOK, Heartbeat
<1>3. CASE HeartbeatInstall
  <2>1. heartbeat' \in Heartbeat
    BY <1>3 DEF HeartbeatInstall, TypeOK, Heartbeat
  <2>2. \A v \in First(heartbeat.expected \ heartbeat.available) : v \in Versions
    BY FirstIsMember DEF TypeOK, Heartbeat
  <2>3. installer' \in [Installers -> Installer] /\ upgrade' \in {"none", "upgrading", "done"}
    BY <1>3, <2>2, InstallStartedType DEF HeartbeatInstall, InstallRefused, TypeOK
  <2>. QED BY <1>3, <2>1, <2>3 DEF HeartbeatInstall, TypeOK
<1>4. CASE HeartbeatUninstall
  <2>. DEFINE todo == Unused(heartbeat.available \ heartbeat.expected)
  <2>1. todo \in SUBSET Versions /\ "heartbeat" \in Removers
    BY DEF Unused, TypeOK, Heartbeat, Removers
  <2>2. [NoHeartbeat EXCEPT !.pc = "wait"] \in Heartbeat
    BY DEF NoHeartbeat, Heartbeat
  <2>3. heartbeat' \in Heartbeat
    BY <1>4, <2>2, RecordTypes DEF HeartbeatUninstall, Uninstall
  <2>4. \/ UNCHANGED remover
        \/ remover' = [remover EXCEPT !["heartbeat"] =
                          [NoRemover EXCEPT !.pc = "dir", !.todo = todo]]
    BY <1>4 DEF HeartbeatUninstall, Uninstall
  <2>5. /\ remover' \in [Removers -> Remover]
        /\ \A q \in Removers :
              remover'[q].pc \in {"rest", "row"} => remover'[q].v \in remover'[q].todo
    BY <2>1, <2>4, StartedRemoverType DEF TypeOK
  <2>. QED BY <1>4, <2>3, <2>5 DEF HeartbeatUninstall, TypeOK
<1>5. CASE HeartbeatEnd
  BY <1>5, RecordTypes DEF HeartbeatEnd, TypeOK
<1>. QED BY <1>1, <1>2, <1>3, <1>4, <1>5 DEF HeartbeatStep

LEMMA NextTypeOK ==
    ASSUME TypeOK, [Next]_vars
    PROVE  TypeOK'
<1>1. CASE UNCHANGED vars
  BY <1>1 DEF vars, TypeOK
<1>2. ASSUME NEW v \in Versions, InstallRequest(v)
      PROVE  TypeOK'
  BY <1>2, InstallStartedType DEF InstallRequest, TypeOK
<1>3. ASSUME NEW w \in Workloads, NEW v \in Versions, CreateFind(w, v)
      PROVE  TypeOK'
  BY <1>3 DEF CreateFind, TypeOK, Creator, VersionOrNone
<1>4. ASSUME NEW w \in Workloads, CreateSpawn(w)
      PROVE  TypeOK'
  BY <1>4, RecordTypes DEF CreateSpawn, TypeOK, Creator
<1>5. ASSUME NEW w \in Workloads, CreateCommit(w)
      PROVE  TypeOK'
  BY <1>5, RecordTypes DEF CreateCommit, TypeOK, Creator
<1>6. ASSUME NEW w \in Workloads, DeleteWorkload(w)
      PROVE  TypeOK'
  BY <1>6 DEF DeleteWorkload, TypeOK, VersionOrNone
<1>7. CASE ExpectedChanges
  BY <1>7, ArtifactsAssumption DEF ExpectedChanges, TypeOK
<1>8. CASE Crash
  BY <1>8, ArtifactsAssumption, RecordTypes DEF Crash, TypeOK, NoUpgrade, NoRemover
<1>. QED
  BY <1>1, <1>2, <1>3, <1>4, <1>5, <1>6, <1>7, <1>8, InstallerStepType,
     RemoverStepType, CleanupType, HeartbeatStepType DEF Next

(* The variables keep their types.                                         *)
THEOREM TypeCorrect == Spec => []TypeOK
<1>1. Init => TypeOK
  BY InitTypeOK
<1>2. TypeOK /\ [Next]_vars => TypeOK'
  BY NextTypeOK
<1>. QED BY <1>1, <1>2, PTL DEF Spec

-----------------------------------------------------------------------------
(* UsedInstalled, when workloads are not created during an uninstallation. *)
(* By itself it says nothing of the versions that a create in progress has *)
(* looked up or that an uninstallation is about to delete.                 *)

CreatorsIdle == \A w \in Workloads : creator[w].pc = "idle"

UsedInv ==
    /\ UsedInstalled
    /\ \A w \in Workloads : creator[w].pc # "idle" => creator[w].v \in table
    /\ \A p \in Removers : remover[p].pc # "idle" => CreatorsIdle
    /\ \A p \in Removers : remover[p].pc = "list" => InUse \subseteq remover[p].inUse
    /\ \A p \in Removers : remover[p].pc \in {"dir", "rest", "row"}
                            => remover[p].todo \cap InUse = {}

LEMMA InitUsedInv == Init => UsedInv
  BY DEF Init, UsedInv, UsedInstalled, InUse, NoCreator, NoRemover, CreatorsIdle

(* Steps that change neither the workloads nor the uninstallations, and    *)
(* remove no row.                                                          *)
LEMMA UsedInvOther ==
    ASSUME UsedInv, UNCHANGED <<used, creator, remover>>, table \subseteq table'
    PROVE  UsedInv'
  BY DEF UsedInv, UsedInstalled, InUse, CreatorsIdle

(* A remover that is replaced by one with fewer duties.                    *)
LEMMA UsedInvRemover ==
    ASSUME TypeOK, UsedInv, NEW p \in Removers, NEW rec,
           UNCHANGED <<used, creator, table>>,
           remover' = [remover EXCEPT ![p] = rec],
           rec.pc # "idle" => CreatorsIdle,
           rec.pc = "list" => InUse \subseteq rec.inUse,
           rec.pc \in {"dir", "rest", "row"} => rec.todo \cap InUse = {}
    PROVE  UsedInv'
<1>1. remover \in [Removers -> Remover]
  BY DEF TypeOK
<1>2. \A q \in Removers : remover'[q] = IF q = p THEN rec ELSE remover[q]
  BY <1>1
<1>3. InUse' = InUse /\ (CreatorsIdle' <=> CreatorsIdle)
  BY DEF InUse, CreatorsIdle
<1>. QED BY <1>2, <1>3, Zenon DEF UsedInv, UsedInstalled

(* The end of a version in the loop of an uninstallation.                  *)
LEMMA UsedInvAfterVersion ==
    ASSUME TypeOK, UsedInv, NEW p \in Removers, NEW v, NEW ok \in BOOLEAN,
           remover[p].pc \in {"dir", "rest", "row"},
           UNCHANGED <<used, creator, table>>,
           remover' = AfterVersion(p, v, ok)
    PROVE  UsedInv'
<1>. DEFINE left == IF ok \/ p = "heartbeat" THEN remover[p].todo \ {v} ELSE {}
            rec == IF left = {} THEN NoRemover
                   ELSE [NoRemover EXCEPT !.pc = "dir", !.todo = left]
<1>1. remover' = [remover EXCEPT ![p] = rec]
  BY Zenon DEF AfterVersion
<1>2. left \subseteq remover[p].todo /\ remover[p].todo \cap InUse = {} /\ CreatorsIdle
  BY Zenon DEF UsedInv
<1>3. /\ rec.pc # "idle" => CreatorsIdle
      /\ rec.pc # "list"
      /\ rec.pc \in {"dir", "rest", "row"} => rec.todo \cap InUse = {}
  <2>1. CASE left = {}
    BY <2>1 DEF NoRemover
  <2>2. CASE left # {}
    <3>1. rec.pc = "dir" /\ rec.todo = left
      BY <2>2 DEF NoRemover
    <3>. QED BY <1>2, <3>1
  <2>. QED BY <2>1, <2>2
<1>. HIDE DEF rec
<1>. QED BY <1>1, <1>3, UsedInvRemover

(* Adding a row of a workload, and the end of one.                         *)
LEMMA InUseAfter ==
    ASSUME TypeOK, NEW w \in Workloads, NEW v,
           used' = [used EXCEPT ![w] = v]
    PROVE  InUse' \subseteq InUse \cup ({v} \ {NoVersion})
  BY DEF InUse, TypeOK

LEMMA UsedInvStep ==
    ASSUME Overlap = FALSE, TypeOK, UsedInv, [Next]_vars
    PROVE  UsedInv'
<1>1. CASE UNCHANGED vars
  BY <1>1, UsedInvOther DEF vars
<1>2. ASSUME NEW v \in Versions, InstallRequest(v)
      PROVE  UsedInv'
  BY <1>2, UsedInvOther DEF InstallRequest
<1>3. ASSUME NEW i \in Installers, InstallerStep(i)
      PROVE  UsedInv'
  BY <1>3, UsedInvOther DEF InstallerStep, InstallerLoad, InstallerLog,
     InstallerFetch, InstallerWrite, InstallerStore, InstallerFinish
<1>4. ASSUME NEW p \in Removers, RemoveDir(p)
      PROVE  UsedInv'
  <2>1. PICK v \in Candidates(p) :
          \/ remover' = [remover EXCEPT ![p].pc = "rest", ![p].v = v]
          \/ remover' = AfterVersion(p, v, FALSE)
    BY <1>4, Zenon DEF RemoveDir
  <2>2. CASE remover' = [remover EXCEPT ![p].pc = "rest", ![p].v = v]
    <3>. DEFINE rec == [remover[p] EXCEPT !.pc = "rest", !.v = v]
    <3>1. remover' = [remover EXCEPT ![p] = rec]
      BY <2>2, Zenon
    <3>2. rec.pc = "rest" /\ rec.todo = remover[p].todo
      BY DEF TypeOK, Remover
    <3>3. CreatorsIdle /\ remover[p].todo \cap InUse = {}
      BY <1>4 DEF RemoveDir, UsedInv
    <3>. HIDE DEF rec
    <3>. QED BY <1>4, <3>1, <3>2, <3>3, UsedInvRemover DEF RemoveDir
  <2>3. CASE remover' = AfterVersion(p, v, FALSE)
    BY <1>4, <2>3, UsedInvAfterVersion DEF RemoveDir
  <2>. QED BY <2>1, <2>2, <2>3
<1>5. ASSUME NEW p \in Removers, RemoveRest(p)
      PROVE  UsedInv'
  <2>1. CASE remover' = [remover EXCEPT ![p].pc = "row"]
    <3>. DEFINE rec == [remover[p] EXCEPT !.pc = "row"]
    <3>1. remover' = [remover EXCEPT ![p] = rec]
      BY <2>1, Zenon
    <3>2. rec.pc = "row" /\ rec.todo = remover[p].todo
      BY DEF TypeOK, Remover
    <3>3. CreatorsIdle /\ remover[p].todo \cap InUse = {}
      BY <1>5 DEF RemoveRest, UsedInv
    <3>. HIDE DEF rec
    <3>. QED BY <1>5, <3>1, <3>2, <3>3, UsedInvRemover DEF RemoveRest
  <2>2. CASE remover' = AfterVersion(p, remover[p].v, FALSE)
    BY <1>5, <2>2, UsedInvAfterVersion DEF RemoveRest
  <2>. QED BY <1>5, <2>1, <2>2 DEF RemoveRest
<1>6. ASSUME NEW p \in Removers, RemoveRow(p)
      PROVE  UsedInv'
  <2>. DEFINE v == remover[p].v
  <2>1. CASE table' = table \ {v} /\ remover' = AfterVersion(p, v, TRUE)
    <3>1. CreatorsIdle /\ v \notin InUse
      BY <1>6 DEF RemoveRow, UsedInv, TypeOK
    <3>2. InUse' = InUse /\ CreatorsIdle'
      BY <1>6, <3>1 DEF RemoveRow, InUse, CreatorsIdle
    <3>3. /\ AfterVersion(p, v, TRUE)[p].pc \in {"idle", "dir"}
          /\ AfterVersion(p, v, TRUE)[p].pc = "dir"
                => AfterVersion(p, v, TRUE)[p].todo \subseteq remover[p].todo
          /\ \A q \in Removers \ {p} : AfterVersion(p, v, TRUE)[q] = remover[q]
      <4>. DEFINE left == remover[p].todo \ {v}
      <4>1. AfterVersion(p, v, TRUE) =
              [remover EXCEPT ![p] = IF left = {} THEN NoRemover
                                     ELSE [NoRemover EXCEPT !.pc = "dir", !.todo = left]]
        BY DEF AfterVersion
      <4>2. NoRemover.pc = "idle"
            /\ [NoRemover EXCEPT !.pc = "dir", !.todo = left].todo = left
        BY DEF NoRemover
      <4>. HIDE DEF left
      <4>3. AfterVersion(p, v, TRUE)[p] = IF left = {} THEN NoRemover
                                     ELSE [NoRemover EXCEPT !.pc = "dir", !.todo = left]
        BY <4>1 DEF TypeOK
      <4>4. AfterVersion(p, v, TRUE)[p].pc = "dir"
                => AfterVersion(p, v, TRUE)[p].todo = left
        BY <4>2, <4>3
      <4>. QED BY <4>4, AfterVersionType DEF left
    <3>4. \A w \in Workloads : creator'[w].pc = "idle"
      BY <3>2 DEF CreatorsIdle
    <3>5. remover[p].todo \cap InUse = {}
      BY <1>6 DEF RemoveRow, UsedInv
    <3>6. UsedInstalled'
      BY <2>1, <3>1, <3>2 DEF UsedInv, UsedInstalled
    <3>7. \A q \in Removers : remover'[q].pc = "list" => InUse' \subseteq remover'[q].inUse
      BY <2>1, <3>2, <3>3 DEF UsedInv
    <3>8. \A q \in Removers : remover'[q].pc \in {"dir", "rest", "row"}
                            => remover'[q].todo \cap InUse' = {}
      BY <2>1, <3>2, <3>3, <3>5 DEF UsedInv
    <3>. QED BY <3>2, <3>4, <3>6, <3>7, <3>8 DEF UsedInv
  <2>2. CASE UNCHANGED table /\ remover' = AfterVersion(p, v, FALSE)
    BY <1>6, <2>2, UsedInvAfterVersion DEF RemoveRow
  <2>. QED BY <1>6, <2>1, <2>2 DEF RemoveRow
<1>7. CASE CleanupUsed
  <2>. DEFINE c == "cleanup"
              rec == [remover[c] EXCEPT !.pc = "list", !.inUse = InUse]
  <2>1. c \in Removers
    BY DEF Removers
  <2>2. remover' = [remover EXCEPT ![c] = rec]
    BY <1>7, Zenon DEF CleanupUsed
  <2>3. rec.pc = "list" /\ rec.inUse = InUse
    BY <2>1 DEF TypeOK, Remover
  <2>4. CreatorsIdle
    BY <1>7 DEF CleanupUsed, MayList, CreatorsIdle
  <2>. HIDE DEF c, rec
  <2>. QED BY <1>7, <2>1, <2>2, <2>3, <2>4, UsedInvRemover DEF CleanupUsed
<1>8. CASE CleanupList
  <2>. DEFINE c == "cleanup"
              todo == table \ remover[c].inUse
              rec == IF todo = {} THEN NoRemover
                     ELSE [NoRemover EXCEPT !.pc = "dir", !.todo = todo]
  <2>1. c \in Removers
    BY DEF Removers
  <2>2. remover' = [remover EXCEPT ![c] = rec]
    BY <1>8, Zenon DEF CleanupList
  <2>3. CreatorsIdle /\ todo \cap InUse = {}
    BY <1>8, <2>1 DEF CleanupList, UsedInv
  <2>4. rec.pc = "idle" \/ (rec.pc = "dir" /\ rec.todo = todo)
    <3>. HIDE DEF todo
    <3>. QED BY DEF NoRemover
  <2>. HIDE DEF c, rec, todo
  <2>. QED BY <1>8, <2>1, <2>2, <2>3, <2>4, UsedInvRemover DEF CleanupList
<1>9. CASE HeartbeatList \/ HeartbeatAsk \/ HeartbeatInstall \/ HeartbeatEnd
  BY <1>9, UsedInvOther DEF HeartbeatList, HeartbeatAsk, HeartbeatInstall, HeartbeatEnd
<1>10. CASE HeartbeatUninstall
  <2>. DEFINE todo == Unused(heartbeat.available \ heartbeat.expected)
              rec == [NoRemover EXCEPT !.pc = "dir", !.todo = todo]
  <2>1. CASE UNCHANGED remover
    BY <1>10, <2>1, UsedInvOther DEF HeartbeatUninstall
  <2>2. CASE MayList /\ remover' = [remover EXCEPT !["heartbeat"] = rec]
    <3>1. "heartbeat" \in Removers
      BY DEF Removers
    <3>2. CreatorsIdle /\ todo \cap InUse = {}
      BY <2>2 DEF MayList, CreatorsIdle, Unused
    <3>3. rec.pc = "dir" /\ rec.todo = todo
      <4>. HIDE DEF todo
      <4>. QED BY DEF NoRemover
    <3>. HIDE DEF rec, todo
    <3>. QED BY <1>10, <2>2, <3>1, <3>2, <3>3, UsedInvRemover DEF HeartbeatUninstall
  <2>. QED BY <1>10, <2>1, <2>2 DEF HeartbeatUninstall, Uninstall
<1>11. ASSUME NEW w \in Workloads, NEW v \in Versions, CreateFind(w, v)
       PROVE  UsedInv'
  <2>1. \A p \in Removers : remover'[p].pc = "idle"
    BY <1>11 DEF CreateFind
  <2>2. \A x \in Workloads : creator'[x].pc # "idle" => creator'[x].v \in table'
    BY <1>11 DEF CreateFind, TypeOK, UsedInv
  <2>3. UsedInstalled'
    BY <1>11 DEF CreateFind, UsedInv, UsedInstalled, InUse
  <2>. QED BY <2>1, <2>2, <2>3 DEF UsedInv
<1>12. ASSUME NEW w \in Workloads, CreateSpawn(w) \/ CreateCommit(w)
       PROVE  UsedInv'
  <2>1. creator[w].pc # "idle"
    BY <1>12 DEF CreateSpawn, CreateCommit
  <2>2. \A p \in Removers : remover'[p].pc = "idle"
    BY <1>12, <2>1 DEF UsedInv, CreatorsIdle, CreateSpawn, CreateCommit
  <2>3. creator[w].v \in table
    BY <2>1 DEF UsedInv
  <2>4. \A x \in Workloads : creator'[x].pc # "idle" => creator'[x].v \in table'
    <3>1. creator \in [Workloads -> Creator]
      BY DEF TypeOK
    <3>2. CASE creator' = [creator EXCEPT ![w] = NoCreator]
      <4>1. NoCreator.pc = "idle" /\ table' = table
        BY <1>12 DEF NoCreator, CreateSpawn, CreateCommit
      <4>2. \A x \in Workloads : creator'[x] = IF x = w THEN NoCreator ELSE creator[x]
        BY <3>1, <3>2, Zenon
      <4>. QED BY <4>1, <4>2, Zenon DEF UsedInv
    <3>3. CASE creator' = [creator EXCEPT ![w].pc = "commit"]
      <4>1. [creator[w] EXCEPT !.pc = "commit"].v = creator[w].v /\ table' = table
        BY <1>12, <3>1 DEF Creator, CreateSpawn, CreateCommit
      <4>2. \A x \in Workloads :
              creator'[x] = IF x = w THEN [creator[w] EXCEPT !.pc = "commit"] ELSE creator[x]
        BY <3>1, <3>3, Zenon
      <4>. QED BY <2>3, <4>1, <4>2, Zenon DEF UsedInv
    <3>. QED BY <1>12, <3>2, <3>3 DEF CreateSpawn, CreateCommit
  <2>5. UsedInstalled'
    <3>1. InUse' \subseteq InUse \cup {creator[w].v}
      <4>1. CASE CreateSpawn(w)
        BY <4>1 DEF CreateSpawn, InUse
      <4>2. CASE CreateCommit(w)
        BY <4>2, InUseAfter DEF CreateCommit
      <4>. QED BY <1>12, <4>1, <4>2
    <3>2. table' = table
      BY <1>12 DEF CreateSpawn, CreateCommit
    <3>. QED BY <2>3, <3>1, <3>2 DEF UsedInv, UsedInstalled
  <2>. QED BY <2>2, <2>4, <2>5 DEF UsedInv
<1>13. ASSUME NEW w \in Workloads, DeleteWorkload(w)
       PROVE  UsedInv'
  <2>1. InUse' \subseteq InUse
    BY <1>13, InUseAfter DEF DeleteWorkload
  <2>2. UNCHANGED <<table, remover, creator>> /\ (CreatorsIdle' <=> CreatorsIdle)
    BY <1>13 DEF DeleteWorkload, CreatorsIdle
  <2>. QED BY <2>1, <2>2 DEF UsedInv, UsedInstalled
<1>14. CASE ExpectedChanges
  BY <1>14, UsedInvOther DEF ExpectedChanges
<1>15. CASE Crash
  BY <1>15 DEF Crash, UsedInv, UsedInstalled, InUse, NoCreator, NoRemover
<1>16. CASE CleanupDropped
  <2>1. "cleanup" \in Removers /\ NoRemover.pc = "idle"
    BY DEF Removers, NoRemover
  <2>. QED BY <1>16, <2>1, UsedInvRemover DEF CleanupDropped
<1>. QED
  BY <1>1, <1>2, <1>3, <1>4, <1>5, <1>6, <1>7, <1>8, <1>9, <1>10, <1>11, <1>12,
     <1>13, <1>14, <1>15, <1>16 DEF Next, RemoverStep, HeartbeatStep

(* The heartbeat worker and cleanup_artifacts never remove a version that a *)
(* stored workload uses, as long as no workload is created between their    *)
(* look at the workloads and the end of their loop: whatever fails, and     *)
(* whenever the agent crashes.                                              *)
THEOREM UsedVersionsInstalled ==
    ASSUME Overlap = FALSE
    PROVE  Spec => []UsedInstalled
<1>1. Init => UsedInv
  BY InitUsedInv
<1>2. TypeOK /\ UsedInv /\ [Next]_vars => UsedInv'
  BY UsedInvStep
<1>3. UsedInv => UsedInstalled
  BY DEF UsedInv
<1>. QED BY <1>1, <1>2, <1>3, TypeCorrect, PTL DEF Spec


-----------------------------------------------------------------------------
(* UsedComplete, when nothing fails. The files of an installed version are *)
(* complete unless the heartbeat worker is in the middle of its removal;   *)
(* what keeps installers and the remover apart is that the first work on   *)
(* versions without a row, the second on versions with one.                *)

Quiet == /\ Faulty = FALSE /\ Overlap = FALSE /\ MaxCrashes = 0
         /\ "cleanup" \notin Admin
         /\ \A i, j \in Installers : i = j

hb == "heartbeat"

(* Installers work on versions that have no row, undisturbed.              *)
InstallersInv ==
    \A i \in Installers :
        /\ installer[i].pc \in {"load", "log", "fetch", "write", "store"}
             => installer[i].v \notin table /\ installer[i].lost = FALSE
        /\ installer[i].pc = "store" => disk[installer[i].v] = "full"

(* What the heartbeat worker has listed, or is removing, has a row.        *)
HeartbeatInv ==
    /\ remover["cleanup"].pc = "idle"
    /\ remover[hb].pc # "idle" => heartbeat.pc = "wait" /\ remover[hb].todo \subseteq table
    /\ heartbeat.pc = "wait" => heartbeat.available = {}
    /\ heartbeat.available \subseteq table

Removing(v) == remover[hb].pc \in {"rest", "row"} /\ remover[hb].v = v

FilesInv == \A v \in table : disk[v] = "full" \/ Removing(v)

CompleteInv == InstallersInv /\ HeartbeatInv /\ FilesInv

LEMMA HbRemover == hb \in Removers /\ Removers = {hb, "cleanup"} /\ hb # "cleanup"
  BY DEF hb, Removers

LEMMA InitCompleteInv == Init => CompleteInv
  BY DEF Init, CompleteInv, InstallersInv, HeartbeatInv, FilesInv, NoInstaller,
         NoRemover, NoHeartbeat, hb, Removers

(* Steps that change neither tasks nor files.                              *)
LEMMA CompleteInvOther ==
    ASSUME CompleteInv, UNCHANGED <<table, disk, installer, heartbeat, remover>>
    PROVE  CompleteInv'
  BY DEF CompleteInv, InstallersInv, HeartbeatInv, FilesInv, Removing

(* Only one worker installs, so a step of it concerns no other.            *)
LEMMA CompleteInvInstaller ==
    ASSUME Quiet, TypeOK, CompleteInv, NEW i \in Installers, InstallerStep(i)
    PROVE  CompleteInv'
<1>. DEFINE v == installer[i].v
<1>1. \A j \in Installers : j = i
  BY DEF Quiet
<1>2. installer \in [Installers -> Installer]
  BY DEF TypeOK
<1>3. installer[i].pc # "none"
  BY DEF InstallerStep, InstallerLoad, InstallerLog, InstallerFetch,
         InstallerWrite, InstallerStore, InstallerFinish
<1>4. installer[i] \in Installation /\ v \in Versions
  BY <1>3, BusyInstallerType DEF Installation
<1>5. UNCHANGED <<heartbeat, remover>>
  BY DEF InstallerStep, InstallerLoad, InstallerLog, InstallerFetch,
         InstallerWrite, InstallerStore, InstallerFinish
<1>6. \A p : LET s == [installer EXCEPT ![i].pc = p] IN
                s[i].pc = p /\ s[i].v = v /\ s[i].lost = installer[i].lost
  BY <1>2, <1>4 DEF Installation
<1>7. [installer EXCEPT ![i] = NoInstaller][i].pc = "none"
  BY <1>2 DEF NoInstaller
<1>8. CASE UNCHANGED <<table, disk>> /\ installer[i].pc \in {"load", "log", "finish"}
  <2>1. InstallersInv'
    <3>0. \/ installer' = [installer EXCEPT ![i] = NoInstaller]
          \/ installer' = [installer EXCEPT ![i].pc = "log"]
          \/ installer' = [installer EXCEPT ![i].pc = "fetch"]
      BY <1>8 DEF InstallerStep, InstallerLoad, InstallerLog, InstallerFetch,
         InstallerWrite, InstallerStore, InstallerFinish
    <3>1. /\ installer'[i].pc \in {"none", "log", "fetch"}
          /\ \/ installer'[i].pc = "none"
             \/ installer'[i].v = v /\ installer'[i].lost = installer[i].lost
      <4>1. CASE installer' = [installer EXCEPT ![i] = NoInstaller]
        BY <1>7, <4>1
      <4>2. CASE installer' = [installer EXCEPT ![i].pc = "log"]
        BY <1>6, <4>2
      <4>3. CASE installer' = [installer EXCEPT ![i].pc = "fetch"]
        BY <1>6, <4>3
      <4>. QED BY <3>0, <4>1, <4>2, <4>3, Zenon
    <3>2. installer'[i].pc # "none" => installer[i].pc \in {"load", "log"}
      BY <1>7, <1>8 DEF InstallerStep, InstallerLoad, InstallerLog,
         InstallerFetch, InstallerWrite, InstallerStore, InstallerFinish
    <3>. QED BY <1>1, <1>8, <3>1, <3>2 DEF CompleteInv, InstallersInv
  <2>2. HeartbeatInv' /\ FilesInv'
    BY <1>5, <1>8 DEF CompleteInv, HeartbeatInv, FilesInv, Removing
  <2>. QED BY <2>1, <2>2 DEF CompleteInv
<1>9. CASE InstallerFetch(i)
  <2>1. /\ installer' = [installer EXCEPT ![i].pc = "write"]
        /\ disk' = [disk EXCEPT ![v] = "partial"] /\ table' = table
    BY <1>9 DEF InstallerFetch, Quiet
  <2>2. v \notin table /\ installer[i].lost = FALSE
    BY <1>9 DEF CompleteInv, InstallersInv, InstallerFetch
  <2>3. InstallersInv'
    BY <1>1, <1>6, <2>1, <2>2 DEF InstallersInv
  <2>4. FilesInv'
    BY <1>5, <2>1, <2>2 DEF CompleteInv, FilesInv, Removing, TypeOK
  <2>. QED BY <1>5, <2>1, <2>3, <2>4 DEF CompleteInv, HeartbeatInv
<1>10. CASE InstallerWrite(i)
  <2>1. v \notin table /\ installer[i].lost = FALSE
    BY <1>10 DEF CompleteInv, InstallersInv, InstallerWrite
  <2>2. {j \in Installing(v) \ {i} : installer[j].pc = "write"} = {}
    BY <1>1 DEF Installing
  <2>3. /\ installer' = [installer EXCEPT ![i].pc = "store"]
        /\ disk' = [disk EXCEPT ![v] = "full"] /\ table' = table
    BY <1>10, <2>1, <2>2 DEF InstallerWrite, Quiet
  <2>4. InstallersInv'
    BY <1>1, <1>4, <1>6, <2>1, <2>3 DEF InstallersInv, TypeOK
  <2>5. FilesInv'
    BY <1>5, <2>1, <2>3 DEF CompleteInv, FilesInv, Removing, TypeOK
  <2>. QED BY <1>5, <2>3, <2>4, <2>5 DEF CompleteInv, HeartbeatInv
<1>11. CASE InstallerStore(i)
  <2>1. disk[v] = "full"
    BY <1>11 DEF CompleteInv, InstallersInv, InstallerStore
  <2>2. /\ installer' = [installer EXCEPT ![i].pc = "finish"]
        /\ table' = table \cup {v} /\ disk' = disk
    BY <1>11 DEF InstallerStore, Quiet
  <2>3. InstallersInv'
    BY <1>1, <1>6, <2>2 DEF InstallersInv
  <2>4. FilesInv'
    BY <1>5, <2>1, <2>2 DEF CompleteInv, FilesInv, Removing
  <2>. QED BY <1>5, <2>2, <2>3, <2>4 DEF CompleteInv, HeartbeatInv
<1>12. CASE InstallerLoad(i) \/ InstallerLog(i) \/ InstallerFinish(i)
  BY <1>8, <1>12 DEF InstallerLoad, InstallerLog, InstallerFinish
<1>. QED BY <1>9, <1>10, <1>11, <1>12 DEF InstallerStep


(* The heartbeat worker removes versions that have a row, which no         *)
(* installer is writing.                                                   *)
LEMMA FilesLostNothing ==
    ASSUME TypeOK, CompleteInv, NEW v \in table
    PROVE  FilesLost(v) = installer
<1>1. \A i \in Installers : ~(installer[i].pc = "write" /\ installer[i].v = v)
  BY DEF CompleteInv, InstallersInv
<1>. QED BY <1>1, Zenon DEF FilesLost, TypeOK

(* Files of a version with a row may change, and rows disappear: that is   *)
(* not what the installers work on.                                        *)
LEMMA InstallersUndisturbed ==
    ASSUME TypeOK, InstallersInv, UNCHANGED installer, table' \subseteq table,
           \A u \in Versions \ table : disk'[u] = disk[u]
    PROVE  InstallersInv'
<1>. SUFFICES ASSUME NEW i \in Installers,
                     installer[i].pc \in {"load", "log", "fetch", "write", "store"}
              PROVE  /\ installer[i].v \notin table' /\ installer[i].lost = FALSE
                     /\ installer[i].pc = "store" => disk'[installer[i].v] = "full"
  BY DEF InstallersInv
<1>1. installer[i].v \in Versions \ table
  BY BusyInstallerType DEF Installation, InstallersInv
<1>. QED BY <1>1 DEF InstallersInv

LEMMA CompleteInvRemover ==
    ASSUME Quiet, TypeOK, CompleteInv, NEW p \in Removers, RemoverStep(p)
    PROVE  CompleteInv'
<1>1. p = hb /\ remover[hb].pc \in {"dir", "rest", "row"}
  BY HbRemover DEF CompleteInv, HeartbeatInv, RemoverStep, RemoveDir, RemoveRest, RemoveRow
<1>2. /\ heartbeat.pc = "wait" /\ heartbeat.available = {}
      /\ remover[hb].todo \subseteq table
  BY <1>1 DEF CompleteInv, HeartbeatInv
<1>3. remover \in [Removers -> Remover] /\ remover[hb] \in Remover /\ table \subseteq Versions
  BY HbRemover DEF TypeOK
<1>4. UNCHANGED heartbeat
  BY DEF RemoverStep, RemoveDir, RemoveRest, RemoveRow
<1>5. CASE RemoveDir(p)
  <2>1. PICK v \in Candidates(hb) :
          \/ /\ disk' = [disk EXCEPT ![v] = "partial"]
             /\ installer' = FilesLost(v)
             /\ remover' = [remover EXCEPT ![hb].pc = "rest", ![hb].v = v]
          \/ disk[v] = "none"
    BY <1>1, <1>5, Zenon DEF RemoveDir, Quiet
  <2>2. v \in remover[hb].todo /\ v \in table
    BY <1>2, HbRemover, CandidateIsTodo
  <2>3. disk[v] = "full"
    BY <1>1, <1>5, <2>2 DEF CompleteInv, FilesInv, Removing, RemoveDir
  <2>4. /\ disk' = [disk EXCEPT ![v] = "partial"]
        /\ installer' = installer /\ table' = table
        /\ remover' = [remover EXCEPT ![hb].pc = "rest", ![hb].v = v]
    BY <1>5, <2>1, <2>2, <2>3, FilesLostNothing DEF RemoveDir
  <2>5. /\ remover'[hb].pc = "rest" /\ remover'[hb].v = v
        /\ remover'[hb].todo = remover[hb].todo
        /\ remover'["cleanup"] = remover["cleanup"]
    BY <1>3, <2>4, HbRemover DEF Remover
  <2>6. InstallersInv'
    BY <1>3, <2>2, <2>4, InstallersUndisturbed DEF CompleteInv, TypeOK
  <2>7. HeartbeatInv'
    BY <1>2, <1>4, <2>4, <2>5 DEF CompleteInv, HeartbeatInv
  <2>8. FilesInv'
    BY <1>1, <1>3, <1>5, <2>4, <2>5 DEF CompleteInv, FilesInv, Removing, TypeOK, RemoveDir
  <2>. QED BY <2>6, <2>7, <2>8 DEF CompleteInv
<1>6. CASE RemoveRest(p)
  <2>. DEFINE v == remover[hb].v
  <2>1. v \in remover[hb].todo /\ v \in table
    BY <1>1, <1>2, <1>6, HbRemover DEF TypeOK, RemoveRest
  <2>2. /\ disk' = [disk EXCEPT ![v] = "none"]
        /\ installer' = installer /\ table' = table
        /\ remover' = [remover EXCEPT ![hb].pc = "row"]
    BY <1>1, <1>6, <2>1, FilesLostNothing DEF RemoveRest, Quiet
  <2>3. /\ remover'[hb].pc = "row" /\ remover'[hb].v = v
        /\ remover'[hb].todo = remover[hb].todo
        /\ remover'["cleanup"] = remover["cleanup"]
    BY <1>3, <2>2, HbRemover DEF Remover
  <2>4. InstallersInv'
    BY <1>3, <2>1, <2>2, InstallersUndisturbed DEF CompleteInv, TypeOK
  <2>5. HeartbeatInv'
    BY <1>2, <1>4, <2>2, <2>3 DEF CompleteInv, HeartbeatInv
  <2>6. FilesInv'
    BY <1>3, <2>2, <2>3 DEF CompleteInv, FilesInv, Removing, TypeOK
  <2>. QED BY <2>4, <2>5, <2>6 DEF CompleteInv
<1>7. CASE RemoveRow(p)
  <2>. DEFINE v == remover[hb].v
              left == remover[hb].todo \ {v}
              rec == IF left = {} THEN NoRemover
                     ELSE [NoRemover EXCEPT !.pc = "dir", !.todo = left]
  <2>1. /\ table' = table \ {v} /\ UNCHANGED <<disk, installer>>
        /\ remover' = [remover EXCEPT ![hb] = rec]
    BY <1>1, <1>7 DEF RemoveRow, Quiet, AfterVersion, hb
  <2>2. rec.pc = "idle" \/ (rec.pc = "dir" /\ rec.todo = left)
    <3>. HIDE DEF left
    <3>. QED BY DEF NoRemover
  <2>. HIDE DEF rec
  <2>3. remover'[hb] = rec /\ remover'["cleanup"] = remover["cleanup"]
    BY <1>3, <2>1, HbRemover
  <2>4. InstallersInv'
    BY <2>1, InstallersUndisturbed DEF CompleteInv
  <2>5. HeartbeatInv'
    BY <1>2, <1>4, <2>1, <2>2, <2>3 DEF CompleteInv, HeartbeatInv
  <2>6. FilesInv'
    BY <2>1 DEF CompleteInv, FilesInv, Removing
  <2>. QED BY <2>4, <2>5, <2>6 DEF CompleteInv
<1>. QED BY <1>5, <1>6, <1>7 DEF RemoverStep

(* The one installer is free, and the new work is a version without row.   *)
LEMMA CompleteInvStarted ==
    ASSUME TypeOK, CompleteInv, NEW v \in Versions, InstallStarted(v),
           UNCHANGED <<table, disk>>
    PROVE  InstallersInv'
<1>1. PICK i \in Installers :
        installer' = [installer EXCEPT ![i] = [pc |-> "load", v |-> v, lost |-> FALSE]]
  BY DEF InstallStarted, FreeInstallers
<1>2. \A j \in Installers :
        installer'[j] = IF j = i THEN [pc |-> "load", v |-> v, lost |-> FALSE]
                                 ELSE installer[j]
  BY <1>1, Zenon DEF TypeOK
<1>3. v \notin table
  BY DEF InstallStarted
<1>4. ASSUME NEW j \in Installers, j # i
      PROVE  installer'[j] = installer[j]
  BY <1>2, <1>4
<1>5. /\ installer'[i].pc = "load" /\ installer'[i].v = v
      /\ installer'[i].lost = FALSE
  BY <1>2
<1>. QED BY <1>3, <1>4, <1>5 DEF CompleteInv, InstallersInv


LEMMA CompleteInvHeartbeat ==
    ASSUME Quiet, TypeOK, CompleteInv, HeartbeatStep
    PROVE  CompleteInv'
<1>1. UNCHANGED <<table, disk>>
  BY DEF HeartbeatStep, HeartbeatList, HeartbeatAsk, HeartbeatInstall,
         HeartbeatUninstall, HeartbeatEnd
<1>2. heartbeat \in Heartbeat
  BY DEF TypeOK
<1>3. NoHeartbeat.pc = "idle" /\ NoHeartbeat.available = {}
  BY DEF NoHeartbeat
<1>4. ASSUME UNCHANGED <<installer, remover>>, heartbeat'.available \subseteq table,
             heartbeat'.pc # "wait",
             heartbeat.pc = "wait" => remover[hb].pc = "idle"
      PROVE  CompleteInv'
  BY <1>1, <1>4 DEF CompleteInv, InstallersInv, HeartbeatInv, FilesInv, Removing
<1>5. CASE HeartbeatList
  <2>1. heartbeat'.pc = "ask" /\ heartbeat'.available = table
    BY <1>5 DEF HeartbeatList, NoHeartbeat
  <2>. QED BY <1>4, <1>5, <2>1 DEF HeartbeatList
<1>6. CASE HeartbeatAsk
  <2>1. heartbeat'.pc = "install" /\ heartbeat'.available = heartbeat.available
    BY <1>2, <1>6 DEF HeartbeatAsk, Heartbeat, Quiet
  <2>. QED BY <1>4, <1>6, <2>1 DEF HeartbeatAsk, CompleteInv, HeartbeatInv
<1>7. CASE HeartbeatInstall
  <2>1. heartbeat'.pc = "uninstall" /\ heartbeat'.available = heartbeat.available
    BY <1>2, <1>7 DEF HeartbeatInstall, Heartbeat
  <2>2. UNCHANGED remover /\ heartbeat.pc = "install"
    BY <1>7 DEF HeartbeatInstall
  <2>3. UNCHANGED installer \/ \E v \in Versions : InstallStarted(v)
    BY <1>2, <1>7, FirstIsMember DEF HeartbeatInstall, InstallRefused, Heartbeat
  <2>4. InstallersInv'
    BY <1>1, <2>3, CompleteInvStarted DEF CompleteInv, InstallersInv
  <2>. QED BY <1>1, <2>1, <2>2, <2>4
           DEF CompleteInv, HeartbeatInv, FilesInv, Removing
<1>8. CASE HeartbeatUninstall
  <2>. DEFINE todo == Unused(heartbeat.available \ heartbeat.expected)
              rec == [NoRemover EXCEPT !.pc = "dir", !.todo = todo]
  <2>1. UNCHANGED installer /\ heartbeat.pc = "uninstall"
    BY <1>8 DEF HeartbeatUninstall
  <2>2. CASE heartbeat' = NoHeartbeat /\ UNCHANGED remover
    BY <1>3, <1>4, <2>1, <2>2
  <2>3. CASE /\ heartbeat' = [NoHeartbeat EXCEPT !.pc = "wait"]
             /\ remover' = [remover EXCEPT ![hb] = rec]
    <3>1. todo \subseteq table
      BY DEF Unused, CompleteInv, HeartbeatInv
    <3>2. rec.pc = "dir" /\ rec.todo = todo
      <4>. HIDE DEF todo
      <4>. QED BY DEF NoRemover
    <3>. HIDE DEF rec, todo
    <3>3. remover'[hb] = rec /\ remover'["cleanup"] = remover["cleanup"]
      BY <2>3, HbRemover DEF TypeOK
    <3>4. heartbeat'.pc = "wait" /\ heartbeat'.available = {}
      BY <2>3 DEF NoHeartbeat
    <3>5. remover[hb].pc = "idle"
      BY <2>1 DEF CompleteInv, HeartbeatInv
    <3>6. InstallersInv' /\ FilesInv'
      BY <1>1, <2>1, <3>5 DEF CompleteInv, InstallersInv, FilesInv, Removing
    <3>. QED BY <1>1, <3>1, <3>2, <3>3, <3>4, <3>6 DEF CompleteInv, HeartbeatInv
  <2>. QED BY <1>8, <2>2, <2>3 DEF HeartbeatUninstall, Uninstall, hb
<1>9. CASE HeartbeatEnd
  BY <1>3, <1>4, <1>9 DEF HeartbeatEnd, hb
<1>. QED BY <1>5, <1>6, <1>7, <1>8, <1>9 DEF HeartbeatStep

LEMMA CompleteInvStep ==
    ASSUME Quiet, TypeOK, CompleteInv, [Next]_vars
    PROVE  CompleteInv'
<1>1. CASE UNCHANGED vars
  BY <1>1, CompleteInvOther DEF vars
<1>2. ASSUME NEW v \in Versions, InstallRequest(v)
      PROVE  CompleteInv'
  <2>1. InstallersInv'
    BY <1>2, CompleteInvStarted DEF InstallRequest
  <2>. QED BY <1>2, <2>1 DEF InstallRequest, CompleteInv, HeartbeatInv, FilesInv, Removing
<1>3. CASE CleanupUsed \/ CleanupList \/ CleanupDropped
  BY <1>3 DEF CleanupUsed, CleanupList, CleanupDropped, Quiet, CompleteInv, HeartbeatInv
<1>4. ASSUME NEW w \in Workloads,
             \/ \E v \in Versions : CreateFind(w, v)
             \/ CreateSpawn(w) \/ CreateCommit(w) \/ DeleteWorkload(w)
      PROVE  CompleteInv'
  BY <1>4, CompleteInvOther DEF CreateFind, CreateSpawn, CreateCommit, DeleteWorkload
<1>5. CASE ExpectedChanges
  BY <1>5, CompleteInvOther DEF ExpectedChanges
<1>6. CASE Crash
  BY <1>6 DEF Crash, Quiet, TypeOK
<1>. QED BY <1>1, <1>2, <1>3, <1>4, <1>5, <1>6, CompleteInvInstaller,
     CompleteInvRemover, CompleteInvHeartbeat DEF Next

(* What is removed is not in use, and all else that is installed is        *)
(* complete.                                                               *)
LEMMA CompleteForUsed == UsedInv /\ TypeOK /\ CompleteInv => UsedComplete
<1>. SUFFICES ASSUME UsedInv, TypeOK, CompleteInv, NEW v \in InUse
              PROVE  disk[v] = "full"
  BY DEF UsedComplete
<1>1. v \in table
  BY DEF UsedInv, UsedInstalled
<1>2. ~Removing(v)
  <2>. SUFFICES ASSUME Removing(v) PROVE FALSE
    OBVIOUS
  <2>1. v \in remover[hb].todo
    BY HbRemover DEF Removing, TypeOK
  <2>2. remover[hb].todo \cap InUse = {}
    BY HbRemover DEF Removing, UsedInv
  <2>. QED BY <2>1, <2>2
<1>. QED BY <1>1, <1>2 DEF CompleteInv, FilesInv

(* The files of every version that a stored workload uses are complete,    *)
(* whatever the heartbeat worker and administrators install and however    *)
(* the expected versions change. Each assumption is needed: a second       *)
(* installation worker, which run_once can start because load_metadata     *)
(* takes the state out of the mutex, rewrites the files of a version that  *)
(* the first has stored; a removal that fails or that a crash interrupts   *)
(* leaves a row without files; a cleanup that goes on with versions that   *)
(* the heartbeat worker has removed meanwhile deletes those of a new       *)
(* installation; and a create that overlaps with a removal loses its row.  *)
THEOREM UsedFilesComplete ==
    ASSUME Faulty = FALSE, Overlap = FALSE, MaxCrashes = 0,
           "cleanup" \notin Admin,
           \A i, j \in Installers : i = j
    PROVE  Spec => []UsedComplete
<1>1. Quiet
  BY DEF Quiet
<1>2. Init => UsedInv /\ CompleteInv
  BY InitUsedInv, InitCompleteInv
<1>3. TypeOK /\ UsedInv /\ [Next]_vars => UsedInv'
  BY UsedInvStep
<1>4. TypeOK /\ CompleteInv /\ [Next]_vars => CompleteInv'
  BY <1>1, CompleteInvStep
<1>5. UsedInv /\ TypeOK /\ CompleteInv => UsedComplete
  BY CompleteForUsed
<1>. QED BY <1>2, <1>3, <1>4, <1>5, TypeCorrect, PTL DEF Spec

=============================================================================
