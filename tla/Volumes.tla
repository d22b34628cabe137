------------------------------- MODULE Volumes -------------------------------
(***************************************************************************)
(* Volumes of a cluster (internal/controller/postgrescluster/volumes.go,   *)
(* postgres.go, instance.go): existing volumes are moved and adopted       *)
(* before the first instance starts, data volumes grow with what the pods  *)
(* suggest, and a WAL volume comes and goes while PostgreSQL runs.         *)
(***************************************************************************)
EXTENDS Naturals, FiniteSets, FiniteSetsExt

CONSTANTS
    Instances,  \* of one set
    MaxSize,
    None,
    Scenarios   \* sets of changes: what may happen in a behaviour

VARIABLES
    request, limit,     \* of the spec; limit 0: none
    members,            \* instances that exist
    pod,                \* [suggested, mount, dir] of a running pod, or None
    desired,            \* status.instanceSets[].desiredPGDataVolume, 0: none
    claim,              \* [size, capacity] of a data volume, or None
    refused,            \* a claim the API has refused
    walSpec,            \* the spec asks for a WAL volume
    wal,                \* it: "none", "bound", "terminating"; one per instance
    files,              \* where the WAL files are: "data", "wal", "lost"
    template,           \* [mount, dir]: the pod template of an instance, or None
    moves,              \* directories to move: [state of the Job, parts that moved]
    adopted,            \* existing volumes that have the labels of the cluster
    s, event, changes

vars == <<request, limit, members, pod, desired, claim, refused, walSpec, wal, files,
          template, moves, adopted, s, event, changes>>

Idle == [pc |-> "idle"]
Volumes == {"pgdata", "pgwal", "repo"}
Parts(v) == IF v = "repo" THEN 2 ELSE 1

Init ==
    /\ changes \in Scenarios
    /\ request = 1 /\ limit = MaxSize /\ members = Instances
    /\ pod = [i \in Instances |-> None] /\ desired = [i \in Instances |-> 0]
    /\ claim = [i \in Instances |-> None] /\ refused = FALSE
    /\ walSpec = ("wal" \in changes) /\ wal = [i \in Instances |-> "none"]
    /\ files = [i \in Instances |-> "data"] /\ template = [i \in Instances |-> None]
    /\ moves = [v \in Volumes |-> [wanted |-> "move" \in changes, job |-> "none", parts |-> 0]]
    /\ adopted = {} /\ s = Idle /\ event = TRUE

-----------------------------------------------------------------------------
(* reconcileDirMoveJobs: one Job for each directory, and nothing else until *)
(* all of them are complete.                                               *)
Wanted == {v \in Volumes : moves[v].wanted}

\* Mutant: goes on as soon as there is a Job.
MovedAny(v) == moves[v].job # "none"

\* jobCompleted.
Moved(v) == moves[v].job = "complete"

\* A Job that failed is applied again, which changes nothing: it exists.
MoveDir(v) ==
    IF v \in Wanted /\ moves[v].job = "none" THEN [moves[v] EXCEPT !.job = "running"]
    ELSE moves[v]

ReconcileMovePGDataDir == MoveDir("pgdata")
ReconcileMoveWALDir == MoveDir("pgwal")
ReconcileMoveRepoDir == MoveDir("repo")

ReconcileDirMoveJobs ==
    /\ s.pc = "move"
    /\ moves' = [pgdata |-> ReconcileMovePGDataDir, pgwal |-> ReconcileMoveWALDir,
                 repo |-> ReconcileMoveRepoDir]
    /\ s' = IF \A v \in Wanted : Moved(v) THEN [s EXCEPT !.pc = "adopt"] ELSE Idle
    /\ UNCHANGED <<desired, claim, refused, wal, template, adopted>>

\* The volume gets the labels by which the cluster finds it, those of the startup
\* instance; a WAL volume must be paired with a data volume.
ConfigureExistingPGVolumes == {"pgdata"} \intersect Wanted
ConfigureExistingPGWALVolume == IF "pgdata" \in Wanted THEN {"pgwal"} \intersect Wanted ELSE {}
ConfigureExistingRepoVolumes == {"repo"} \intersect Wanted

ConfigureExistingPVCs ==
    /\ s.pc = "adopt"
    /\ adopted' = adopted \union ConfigureExistingPGVolumes \union ConfigureExistingPGWALVolume
                    \union ConfigureExistingRepoVolumes
    /\ s' = [s EXCEPT !.pc = "observe"]
    /\ UNCHANGED <<desired, claim, refused, wal, template, moves>>

-----------------------------------------------------------------------------
(* The size of the data volumes.                                           *)

\* Mutant: forgets what a pod suggested when the pod has restarted.
StoreDesiredRequestFresh(i) == IF pod[i] = None THEN 0 ELSE pod[i].suggested

\* storeDesiredRequest: the value persists after a restart and a shutdown.
StoreDesiredRequest(i) ==
    IF pod[i] # None /\ pod[i].suggested # 0 THEN pod[i].suggested ELSE desired[i]

\* observeInstances: the status is about the instances there are.  It changes in
\* memory; the reconcile ends with its patch, after the claims.
Observe ==
    /\ s.pc = "observe"
    /\ s' = [s EXCEPT !.pc = "volumes", !.todo = members,
                      !.desired = [i \in Instances |-> IF i \in members
                                                       THEN StoreDesiredRequest(i) ELSE 0]]
    /\ UNCHANGED <<desired, claim, refused, wal, template, moves, adopted>>

\* setVolumeSize: the largest of what is requested and desired in the set, up to
\* the limit.
SetVolumeSize ==
    IF s.limit = 0 THEN s.request
    ELSE Min({s.limit, Max({s.request} \union {s.desired[i] : i \in Instances})})

\* handlePersistentVolumeClaimError: the API refuses to make a claim smaller, which is
\* an event and no error.
Refused(i, size) == claim[i] # None /\ claim[i].size > size

ReconcileDataVolume(i) ==
    LET size == SetVolumeSize
    IN /\ claim' = IF claim[i] = None
                   THEN [claim EXCEPT ![i] = [size |-> size, capacity |-> size]]
                   ELSE IF Refused(i, size) THEN claim ELSE [claim EXCEPT ![i].size = size]
       /\ refused' = (refused \/ Refused(i, size))

\* Mutant: the volume goes while the files are on it.
WALMovedBlind(i) == pod[i] # None

\* The directory of a running pod is the one that the spec asks for.
WALMoved(i) == pod[i] # None /\ files[i] = "data"

\* reconcilePostgresWALVolume; only a claim that the cluster controls is deleted
\* (deleteControlled), as those of older versions are.  Any other stays.
ReconcileWALVolume(i) ==
    wal' = IF s.walSpec THEN [wal EXCEPT ![i] = IF @ = "none" THEN "bound" ELSE @]
           ELSE IF wal[i] = "bound" /\ WALMoved(i) /\ "controlled" \in changes
           THEN [wal EXCEPT ![i] = "terminating"]
           ELSE wal

\* The template of the instance mounts the WAL volume while it may hold WAL files,
\* but not one that was asked to be deleted.
ReconcileInstance(i) ==
    template' = [template EXCEPT ![i] =
        [mount |-> s.walSpec \/ (wal[i] = "bound" /\ ~WALMoved(i)),
         dir |-> IF s.walSpec THEN "wal" ELSE "data"]]

ReconcileVolumes ==
    /\ s.pc = "volumes"
    /\ \E i \in s.todo :
           /\ ReconcileDataVolume(i) /\ ReconcileWALVolume(i) /\ ReconcileInstance(i)
           /\ s' = [s EXCEPT !.todo = @ \ {i}]
    /\ UNCHANGED <<desired, moves, adopted>>

\* The end of the reconcile.
PatchClusterStatus ==
    /\ s.pc = "volumes" /\ s.todo = {}
    /\ desired' = s.desired /\ s' = Idle
    /\ UNCHANGED <<claim, refused, wal, template, moves, adopted>>

Wake ==
    /\ s = Idle /\ event
    /\ s' = [pc |-> "move", request |-> request, limit |-> limit, walSpec |-> walSpec,
             todo |-> {}, desired |-> desired]
    /\ UNCHANGED <<desired, claim, refused, wal, template, moves, adopted>>

Reconcile ==
    /\ \/ Wake \/ ReconcileDirMoveJobs \/ ConfigureExistingPVCs \/ Observe
       \/ ReconcileVolumes \/ PatchClusterStatus
    /\ event' = IF s = Idle THEN FALSE
                ELSE event \/ desired' # desired \/ claim' # claim \/ wal' # wal
    /\ UNCHANGED <<request, limit, members, pod, walSpec, files, changes>>

-----------------------------------------------------------------------------
(* The Jobs, the pods and the storage provider.                            *)
Change(what) == what \in changes /\ changes' = changes \ {what}

\* The repository has two directories to move; the Job of a pod that was evicted
\* between them starts over, and fails.
MoveJob(v) ==
    /\ moves[v].job = "running"
    /\ \/ /\ moves[v].parts < Parts(v)
          /\ moves' = [moves EXCEPT ![v].parts = @ + 1]
          /\ UNCHANGED changes
       \/ /\ moves[v].parts = Parts(v)
          /\ moves' = [moves EXCEPT ![v].job = "complete"]
          /\ UNCHANGED changes
       \/ /\ moves[v].parts = 1 /\ v = "repo" /\ Change("evict")
          /\ moves' = [moves EXCEPT ![v].job = "failed"]
    /\ UNCHANGED <<pod, claim, wal, files>>

\* safelink: the WAL files move to the directory of the template, from the volume that
\* it mounts.
Linked(i) == IF files[i] = "wal" /\ ~template[i].mount THEN "lost" ELSE template[i].dir

\* startupCommand.
Start(i) ==
    /\ i \in members /\ pod[i] = None /\ template[i] # None /\ claim[i] # None
    /\ template[i].mount => wal[i] = "bound"
    /\ pod' = [pod EXCEPT ![i] =
          [suggested |-> 0, mount |-> template[i].mount, dir |-> template[i].dir]]
    /\ files' = [files EXCEPT ![i] = Linked(i)]
    /\ UNCHANGED <<moves, claim, wal, changes>>

\* A rollout of a changed template, or any other restart.
Stop(i) ==
    /\ pod[i] # None
    /\ \/ template[i] # [mount |-> pod[i].mount, dir |-> pod[i].dir] /\ UNCHANGED changes
       \/ Change("restart")
    /\ pod' = [pod EXCEPT ![i] = None]
    /\ UNCHANGED <<moves, claim, wal, files>>

\* reloadCommand: more than three quarters of the disk are used.
Suggest(i) ==
    /\ pod[i] # None /\ pod[i].suggested <= claim[i].capacity
    /\ claim[i].capacity < MaxSize + 1
    /\ Change("fill")
    /\ pod' = [pod EXCEPT ![i].suggested = claim[i].capacity + 1]
    /\ UNCHANGED <<moves, claim, wal, files>>

Storage(i) ==
    /\ \/ /\ claim[i] # None /\ claim[i].capacity < claim[i].size
          /\ claim' = [claim EXCEPT ![i].capacity = claim[i].size]
          /\ UNCHANGED wal
       \/ /\ wal[i] = "terminating" /\ (pod[i] # None => ~pod[i].mount)
          /\ wal' = [wal EXCEPT ![i] = "none"]
          /\ UNCHANGED claim
    /\ UNCHANGED <<moves, pod, files, changes>>

World ==
    /\ \/ \E v \in Volumes : MoveJob(v)
       \/ \E i \in Instances : Start(i) \/ Stop(i) \/ Suggest(i) \/ Storage(i)
    /\ event' = TRUE
    /\ UNCHANGED <<request, limit, members, desired, refused, walSpec, template, adopted, s>>

-----------------------------------------------------------------------------
(* Users and faults.                                                       *)
Edit ==
    /\ \/ (Change("wal") \/ Change("no wal")) /\ walSpec' = ~walSpec
          /\ UNCHANGED <<request, limit>>
       \/ Change("more") /\ request' = request + 1 /\ UNCHANGED <<walSpec, limit>>
       \/ Change("unlimit") /\ limit' = 0 /\ UNCHANGED <<walSpec, request>>
    /\ event' = TRUE
    /\ UNCHANGED <<members, pod, desired, claim, refused, wal, files, template, moves,
                   adopted, s>>

\* An instance of the set is removed with its volumes.
Remove(i) ==
    /\ Change("remove") /\ members # {i} /\ i \in members
    /\ members' = members \ {i}
    /\ pod' = [pod EXCEPT ![i] = None] /\ claim' = [claim EXCEPT ![i] = None]
    /\ event' = TRUE
    /\ UNCHANGED <<request, limit, desired, refused, walSpec, wal, files, template, moves,
                   adopted, s>>

Crash ==
    /\ Change("crash") /\ s # Idle
    /\ s' = Idle /\ event' = TRUE
    /\ UNCHANGED <<request, limit, members, pod, desired, claim, refused, walSpec, wal,
                   files, template, moves, adopted>>

Next == Reconcile \/ World \/ Edit \/ Crash \/ \E i \in Instances : Remove(i)

Spec == Init /\ [][Next]_vars

-----------------------------------------------------------------------------
(* Properties.                                                             *)
Quiet == ~ENABLED <<Reconcile \/ World>>_vars

\* No pod of PostgreSQL starts before the directories it needs are in place, and none
\* starts without the volume that holds its WAL files.
FilesInPlace ==
    /\ \A i \in Instances : files[i] # "lost"
    /\ (\E i \in Instances : pod[i] # None)
            => \A v \in Wanted : moves[v].parts = Parts(v) /\ v \in adopted

\* What a pod suggested survives the restart of the pod, or that of the operator (not
\* both before the status is patched): the operator never asks for a volume smaller
\* than the one there is, which the API would refuse.
NeverShrinks == ~refused

\* When nothing is left to do, every instance runs with the WAL directory and the
\* volume size that the spec and the pods ask for, unless a move failed for good.
VolumesSettle ==
    Quiet /\ (\A v \in Volumes : moves[v].job # "failed") => \A i \in members :
        /\ pod[i] # None /\ files[i] = IF walSpec THEN "wal" ELSE "data"
        /\ claim[i].capacity >= request /\ (limit # 0 => claim[i].capacity <= limit)
=============================================================================
