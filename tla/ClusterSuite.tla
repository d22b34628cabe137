---------------------------- MODULE ClusterSuite ----------------------------
(***************************************************************************)
(* The parts of a cluster that the reconcilers visit in turn, each with    *)
(* small sets: those of a PostgresCluster and, above it, the life of a     *)
(* PerconaPGCluster, major upgrades, the lag of a standby and logical      *)
(* replicas. A behaviour is one of a single module, chosen at the start    *)
(* and named by "active": the parts share reconcilers and little state,    *)
(* and together would multiply their states. Three modules are extended,   *)
(* so that their properties are the ones their proofs are about; ten are   *)
(* instances.                                                              *)
(***************************************************************************)
EXTENDS Switchover, Repository, Upgrade

CONSTANTS
    Pair, u1, u2,
    VolumeScenarios, SnapshotScenarios, EncryptionScenarios, ObjectScenarios,
    PgBouncerScenarios, CertificateScenarios, LifecycleScenarios, StandbyScenarios,
    ReplicaScenarios

Default(S) == CHOOSE x \in S : TRUE

\* Two instance sets, and the sizes they may have.
SetOf == [a1 |-> "A", a2 |-> "A", b1 |-> "B"]
Three == [A |-> 2, B |-> 1]
Two == [A |-> 2, B |-> 0]
Wants == {Three, Two, [A |-> 1, B |-> 1]}

InstanceScenarios ==
    {[changes |-> {"update", "established"}, wants |-> {Three}],
     [changes |-> {"update", "established", "crash"}, wants |-> {Two}],
     [changes |-> {"shutdown", "write", "established"}, wants |-> {Three}],
     [changes |-> {"shutdown", "write", "established", "restart"}, wants |-> {Two}],
     [changes |-> {"delete", "established"}, wants |-> {Three}],
     [changes |-> {"scale", "write"}, wants |-> {Two}]}

VARIABLES
    active,     \* the component of this behaviour
    iSpec, startup, iSts, iPod, pvc, iLeader, iData, booted, c, queued, down, iChanges,
    request, limit, members, vPod, desired, claim, refused, walSpec, wal, files,
    vTemplate, moves, adopted, vS, vEvent, vChanges,
    dEnabled, dBackup, dVolume, dJob, snaps, dS, dEvent, dChanges,
    eSpec, eEnabled, eReady, revision, applied, eTemplate, ePod, walEncrypt, staged,
    extension, provider, key, tables, eLeader, eS, eEvent, eChanges,
    oSpec, secrets, oData, oBackup, oWritable, rollout, oStatus, oS, oEvent, next,
    oChanges,
    bSpec, marker, replicas, budget, bPods, condition, bS, bEvent, bChanges,
    kSpec, kReady, root, caCert, issuer, certs, issued, kMounted, last, started, kS,
    kEvent, kChanges,
    cSpec, deleting, fin, promised, pc, cPods, objects, stanza, stopped, ext, installed,
    state, cBackup, cCron, cS, cEvent, cChanges,
    source, tEnabled, main, site, lag, turns, tPrimary, file, tCond, due, tS, tChanges,
    lSpec, lStatus, lJob, lSts, lPod, lData, origin, slots, lPrimary, epoch, version,
    restore, noticed, paused, lS, lEvent, lChanges

ivars == <<iSpec, startup, iSts, iPod, pvc, iLeader, iData, booted, c, queued, down,
           iChanges>>
vvars == <<request, limit, members, vPod, desired, claim, refused, walSpec, wal, files,
           vTemplate, moves, adopted, vS, vEvent, vChanges>>
dvars == <<dEnabled, dBackup, dVolume, dJob, snaps, dS, dEvent, dChanges>>
evars == <<eSpec, eEnabled, eReady, revision, applied, eTemplate, ePod, walEncrypt,
           staged, extension, provider, key, tables, eLeader, eS, eEvent, eChanges>>
ovars == <<oSpec, secrets, oData, oBackup, oWritable, rollout, oStatus, oS, oEvent,
           next, oChanges>>
bvars == <<bSpec, marker, replicas, budget, bPods, condition, bS, bEvent, bChanges>>
kvars == <<kSpec, kReady, root, caCert, issuer, certs, issued, kMounted, last, started,
           kS, kEvent, kChanges>>
cvars == <<cSpec, deleting, fin, promised, pc, cPods, objects, stanza, stopped, ext,
           installed, state, cBackup, cCron, cS, cEvent, cChanges>>
tvars == <<source, tEnabled, main, site, lag, turns, tPrimary, file, tCond, due, tS,
           tChanges>>
lvars == <<lSpec, lStatus, lJob, lSts, lPod, lData, origin, slots, lPrimary, epoch,
           version, restore, noticed, paused, lS, lEvent, lChanges>>
vars == <<active, switchoverVars, repositoryVars, upgradeVars, ivars, vvars, dvars,
          evars, ovars, bvars, kvars, cvars, tvars, lvars>>

I == INSTANCE Instances WITH
        Names <- {"a1", "a2", "b1"}, Sets <- {"A", "B"}, SetOf <- SetOf, Wants <- Wants,
        Scenarios <- InstanceScenarios, spec <- iSpec, sts <- iSts, pod <- iPod,
        leader <- iLeader, data <- iData, changes <- iChanges
V == INSTANCE Volumes WITH
        Instances <- Pair, MaxSize <- 3, Scenarios <- VolumeScenarios, pod <- vPod,
        template <- vTemplate, s <- vS, event <- vEvent, changes <- vChanges
D == INSTANCE SnapshotVolume WITH
        MaxBackups <- 3, Scenarios <- SnapshotScenarios, enabled <- dEnabled,
        backup <- dBackup, volume <- dVolume, job <- dJob, s <- dS, event <- dEvent,
        changes <- dChanges
E == INSTANCE Encryption WITH
        Instances <- Pair, MaxVault <- 3, Scenarios <- EncryptionScenarios,
        spec <- eSpec, enabled <- eEnabled, ready <- eReady, template <- eTemplate,
        pod <- ePod, leader <- eLeader, s <- eS, event <- eEvent, changes <- eChanges
O == INSTANCE DatabaseObjects WITH
        First <- u1, Second <- u2, MaxPassword <- 5, Scenarios <- ObjectScenarios,
        spec <- oSpec, data <- oData, backup <- oBackup, writable <- oWritable,
        status <- oStatus, s <- oS, event <- oEvent, changes <- oChanges
B == INSTANCE PgBouncer WITH
        Pods <- Pair, Scenarios <- PgBouncerScenarios, spec <- bSpec, pods <- bPods,
        s <- bS, event <- bEvent, changes <- bChanges
K == INSTANCE Certificates WITH
        MaxAuthority <- 3, Scenarios <- CertificateScenarios, spec <- kSpec,
        ready <- kReady, mounted <- kMounted, s <- kS, event <- kEvent,
        changes <- kChanges
C == INSTANCE ClusterLifecycle WITH
        Backups <- {1}, Scenarios <- LifecycleScenarios, spec <- cSpec, pods <- cPods,
        backup <- cBackup, cron <- cCron, s <- cS, event <- cEvent, changes <- cChanges
T == INSTANCE StandbyLag WITH
        Pods <- Pair, MaxChanges <- 4, Scenarios <- StandbyScenarios,
        enabled <- tEnabled, primary <- tPrimary, cond <- tCond, s <- tS,
        changes <- tChanges
L == INSTANCE LogicalReplicas WITH
        Replicas <- 1 .. 2, Capacity <- 2, Scenarios <- ReplicaScenarios, spec <- lSpec,
        status <- lStatus, job <- lJob, sts <- lSts, pod <- lPod, data <- lData,
        primary <- lPrimary, s <- lS, event <- lEvent, changes <- lChanges

Init ==
    /\ active \in {"switchover", "repository", "upgrade", "instances", "volumes",
                   "snapshots", "encryption", "objects", "pgbouncer", "certificates",
                   "lifecycle", "standby", "replicas"}
    /\ SwitchoverInit
    /\ active # "switchover" => ask.type = "Switchover" /\ ask.target = Nil /\ ~ask.enabled
    /\ RepositoryInit
    /\ active # "repository" =>
          /\ changes = Default(RepositoryScenarios)
          /\ spec.first = Default(Repos) /\ spec.kind = [r \in Repos |-> "volume"]
    /\ UpgradeInit
    /\ active # "upgrade" =>
          plan = Default(UpgradeScenarios) /\ primary = Default(Instances)
    /\ I!Init
    /\ active # "instances" => iChanges = {"scale", "write"}
    /\ V!Init
    /\ active # "volumes" => vChanges = Default(VolumeScenarios)
    /\ D!Init
    /\ active # "snapshots" => dChanges = Default(SnapshotScenarios)
    /\ E!Init
    /\ active # "encryption" =>
          eChanges = Default(EncryptionScenarios) /\ eLeader = Default(Pair)
    /\ O!Init
    /\ active # "objects" => oChanges = Default(ObjectScenarios)
    /\ B!Init
    /\ active # "pgbouncer" => bChanges = Default(PgBouncerScenarios)
    /\ K!Init
    /\ active # "certificates" => kChanges = Default(CertificateScenarios)
    /\ C!Init
    /\ active # "lifecycle" => cChanges = Default(LifecycleScenarios) /\ fin = {}
    /\ T!Init
    /\ active # "standby" =>
          /\ tChanges = Default(StandbyScenarios)
          /\ source = "host" /\ main /\ tPrimary = Default(Pair)
    /\ L!Init
    /\ active # "replicas" => lChanges = Default(ReplicaScenarios)

SwitchoverStep ==
    active = "switchover" /\ SwitchoverNext
    /\ UNCHANGED <<active, repositoryVars, upgradeVars, ivars, vvars, dvars, evars, ovars, bvars,
        kvars, cvars, tvars, lvars>>
RepositoryStep ==
    active = "repository" /\ RepositoryNext
    /\ UNCHANGED <<active, switchoverVars, upgradeVars, ivars, vvars, dvars, evars, ovars, bvars,
        kvars, cvars, tvars, lvars>>
UpgradeStep ==
    active = "upgrade" /\ UpgradeNext
    /\ UNCHANGED <<active, switchoverVars, repositoryVars, ivars, vvars, dvars, evars, ovars,
        bvars, kvars, cvars, tvars, lvars>>
InstancesStep ==
    active = "instances" /\ I!Next
    /\ UNCHANGED <<active, switchoverVars, repositoryVars, upgradeVars, vvars, dvars, evars, ovars,
        bvars, kvars, cvars, tvars, lvars>>
VolumesStep ==
    active = "volumes" /\ V!Next
    /\ UNCHANGED <<active, switchoverVars, repositoryVars, upgradeVars, ivars, dvars, evars, ovars,
        bvars, kvars, cvars, tvars, lvars>>
SnapshotVolumeStep ==
    active = "snapshots" /\ D!Next
    /\ UNCHANGED <<active, switchoverVars, repositoryVars, upgradeVars, ivars, vvars, evars, ovars,
        bvars, kvars, cvars, tvars, lvars>>
EncryptionStep ==
    active = "encryption" /\ E!Next
    /\ UNCHANGED <<active, switchoverVars, repositoryVars, upgradeVars, ivars, vvars, dvars, ovars,
        bvars, kvars, cvars, tvars, lvars>>
DatabaseObjectsStep ==
    active = "objects" /\ O!Next
    /\ UNCHANGED <<active, switchoverVars, repositoryVars, upgradeVars, ivars, vvars, dvars, evars,
        bvars, kvars, cvars, tvars, lvars>>
PgBouncerStep ==
    active = "pgbouncer" /\ B!Next
    /\ UNCHANGED <<active, switchoverVars, repositoryVars, upgradeVars, ivars, vvars, dvars, evars,
        ovars, kvars, cvars, tvars, lvars>>
CertificatesStep ==
    active = "certificates" /\ K!Next
    /\ UNCHANGED <<active, switchoverVars, repositoryVars, upgradeVars, ivars, vvars, dvars, evars,
        ovars, bvars, cvars, tvars, lvars>>
LifecycleStep ==
    active = "lifecycle" /\ C!Next
    /\ UNCHANGED <<active, switchoverVars, repositoryVars, upgradeVars, ivars, vvars, dvars, evars,
        ovars, bvars, kvars, tvars, lvars>>
StandbyStep ==
    active = "standby" /\ T!Next
    /\ UNCHANGED <<active, switchoverVars, repositoryVars, upgradeVars, ivars, vvars, dvars, evars,
        ovars, bvars, kvars, cvars, lvars>>
LogicalReplicasStep ==
    active = "replicas" /\ L!Next
    /\ UNCHANGED <<active, switchoverVars, repositoryVars, upgradeVars, ivars, vvars, dvars, evars,
        ovars, bvars, kvars, cvars, tvars>>

Next ==
    \/ SwitchoverStep
    \/ RepositoryStep
    \/ UpgradeStep
    \/ InstancesStep
    \/ VolumesStep
    \/ SnapshotVolumeStep
    \/ EncryptionStep
    \/ DatabaseObjectsStep
    \/ PgBouncerStep
    \/ CertificatesStep
    \/ LifecycleStep
    \/ StandbyStep
    \/ LogicalReplicasStep

Spec == Init /\ [][Next]_vars

-----------------------------------------------------------------------------
\* The instance that leads has the data of the last one that did, and a rollout or a
\* change of the spec takes down one instance at a time.
PrimarySafe == I!LeaderHasData /\ I!OneDown

\* A rollout restarts the primary last, after a switchover when there is a replica.
RolloutSparesPrimary == I!RolloutSparesPrimary

\* PostgreSQL finds its files where its configuration says, through moves and
\* a change of the WAL volume, and no volume is asked to shrink.
VolumesSafe == V!FilesInPlace /\ V!NeverShrinks

\* A VolumeSnapshot is taken of a volume that holds a complete restore of its backup,
\* and as long as snapshots stay enabled a ready one is never given up for one that may
\* still fail.
SnapshotSafe == []D!SnapshotClean /\ D!SnapshotKept

\* Whoever runs with encrypted data has the provider and the token of its key.
KeyReachable == E!KeyReachable

\* A revision in the status names what PostgreSQL really contains.
RevisionTrue == O!RevisionTrue

\* When nothing is left to do, every part is as the spec asks: instances,
\* requests to Patroni, repositories, volumes, encryption, users and databases, the
\* pause of PgBouncer, and certificates that peers accept.
ClusterSettles ==
    /\ I!InstancesSettle /\ PatroniSettles /\ RepositoriesSettle /\ V!VolumesSettle
    /\ E!EncryptionSettles /\ O!AccessSettles /\ B!PauseHonoured /\ K!CertificatesSettle

\* The finalizers that delete volumes run after the instances are gone.
VolumesOutlivePods == C!VolumesOutlivePods

\* Once nothing is left to do, only replicas of the spec have slots on the primary.
NoOrphanSlot == L!NoOrphanSlot

\* When nothing is left to do, upgrades ended, the cluster is as its spec says or gone
\* with what was promised, replicas run with current data, and the lag of a standby is signalled
\* alike in the condition and to the readiness probe.
OperatorSettles ==
    UpgradeSettles /\ C!ClusterFollowsSpec /\ T!LagSignal /\ L!ReplicasSettle
=============================================================================
