--------------------------- MODULE LogicalReplicas ---------------------------
(***************************************************************************)
(* Logical replicas of a cluster (percona/controller/pgcluster/            *)
(* logicalreplica.go): each is seeded and converted by a Job, then run by  *)
(* a StatefulSet, and reads from slots on the primary.  What is known of a *)
(* replica is only in the status of the cluster, which a reconcile writes  *)
(* at its end, while the cluster is paused, restored and upgraded.         *)
(***************************************************************************)
EXTENDS Naturals, FiniteSets, FiniteSetsExt

CONSTANTS
    Replicas,   \* numbers: the order of the spec
    None,
    Capacity,   \* replicas for which the primary has slots
    Scenarios   \* sets of changes: what may happen in a behaviour

VARIABLES
    spec,       \* replicas of the spec
    status,     \* [state, reason, dbs, seeded, version, invalid], or None
    job,        \* the bootstrap Job: "none", "running", "done", "failed"
    sts,        \* size of the StatefulSet, or None
    pod,        \* replicas that run
    data,       \* volume: "none", "empty", "partial", "seeded", "terminating"
    origin,     \* epoch and version of the data on a seeded one
    slots,      \* replicas with slots on the primary
    primary,    \* there is a primary
    epoch,      \* how often the data of the cluster was replaced
    version,    \* its major version
    restore,    \* the restore: "none", "starting", "running"
    noticed,    \* a reconcile has seen it run
    paused,
    s, event,   \* the reconciler, and something for it to do
    changes

vars == <<spec, status, job, sts, pod, data, origin, slots, primary, epoch, version,
          restore, noticed, paused, s, event, changes>>
cluster == <<pod, origin, primary, epoch, version, restore, paused, changes>>

Idle == [pc |-> "idle"]
Fresh == [state |-> "bootstrapping", reason |-> "", dbs |-> FALSE, seeded |-> FALSE,
          version |-> 0, invalid |-> FALSE]
Unknown == [r \in Replicas |-> None]

Init ==
    /\ changes \in Scenarios
    /\ spec = Replicas /\ status = Unknown
    /\ job = [r \in Replicas |-> "none"] /\ sts = [r \in Replicas |-> None]
    /\ pod = {} /\ data = [r \in Replicas |-> "none"] /\ slots = {}
    /\ origin = [r \in Replicas |-> <<0, 0>>]
    /\ primary = TRUE /\ epoch = 0 /\ version = 1 /\ restore = "none" /\ noticed = FALSE
    /\ paused = FALSE /\ s = Idle /\ event = TRUE

-----------------------------------------------------------------------------
(* reconcileLogicalReplicas.                                               *)

\* shouldSuspendLogicalReplicas.
Needed == paused \/ restore # "none"

\* Mutant: a restore only stops the replicas.
InvalidateNever == FALSE

Invalidate == restore = "running"

Read ==
    /\ s.pc = "idle" /\ event
    /\ event' = FALSE
    /\ noticed' = (noticed \/ restore = "running")
    /\ s' = IF spec = {} /\ status = Unknown THEN Idle
            ELSE [pc |-> IF Needed THEN "suspend" ELSE "cleanup", spec |-> spec,
                  st |-> status, new |-> Unknown, todo |-> spec,
                  gone |-> {r \in Replicas \ spec : status[r] # None},
                  drop |-> None, invalidate |-> Invalidate]
    /\ UNCHANGED <<spec, status, job, sts, data, slots, cluster>>

Scaled(set, size) == [r \in Replicas |-> IF r \in set /\ sts[r] # None THEN size ELSE sts[r]]

\* The status of a replica while it is suspended; a bootstrap starts over.
SuspendedStatus(st) ==
    IF st.seeded
    THEN [st EXCEPT !.state = "suspended", !.invalid = @ \/ s.invalidate]
    ELSE [st EXCEPT !.state = "bootstrapping", !.dbs = FALSE]

(* suspendLogicalReplicas, with discardLogicalReplicaBootstrap.             *)
Suspend ==
    LET known == {r \in Replicas : s.st[r] # None}
        discarded == {r \in known : ~s.st[r].seeded /\ job[r] # "none"}
    IN /\ s.pc = "suspend"
       /\ sts' = Scaled(known, 0)
       /\ job' = [r \in Replicas |-> IF r \in discarded THEN "none" ELSE job[r]]
       /\ data' = [r \in Replicas |->
            IF r \in discarded /\ sts[r] = None THEN "terminating" ELSE data[r]]
       /\ s' = [s EXCEPT !.pc = "update", !.new =
            [r \in Replicas |-> IF r \in known THEN SuspendedStatus(s.st[r]) ELSE None]]
       /\ UNCHANGED <<spec, status, slots, event, noticed, cluster>>

\* Mutant: deletes the objects of a replica although its slots are still there.
DropObjectsAnyway(r) ==
    /\ slots' = IF primary THEN slots \ {r} ELSE slots
    /\ s' = [s EXCEPT !.pc = "objects", !.drop = r]

\* dropLogicalReplicaObjects: without a primary the replica stays on the books.
DropObjects(r) ==
    IF s.st[r].dbs /\ ~primary
    THEN /\ s' = [s EXCEPT !.gone = @ \ {r},
                    !.new[r] = [s.st[r] EXCEPT !.state = "broken", !.reason = "cleanup"]]
         /\ UNCHANGED slots
    ELSE /\ slots' = IF s.st[r].dbs THEN slots \ {r} ELSE slots
         /\ s' = [s EXCEPT !.pc = "objects", !.drop = r]

(* cleanupRemovedLogicalReplicas, deleteLogicalReplica.                    *)
Cleanup ==
    /\ s.pc = "cleanup"
    /\ IF s.gone = {}
       THEN /\ s' = IF s.spec = {} THEN [s EXCEPT !.pc = "update"]
                    ELSE IF ~primary THEN Idle
                    ELSE [s EXCEPT !.pc = "replica"]
            /\ UNCHANGED slots
       ELSE \E r \in s.gone : DropObjects(r)
    /\ UNCHANGED <<spec, status, job, sts, data, event, noticed, cluster>>

DeleteObjects ==
    LET r == s.drop IN
    /\ s.pc = "objects"
    /\ job' = [job EXCEPT ![r] = "none"]
    /\ sts' = [sts EXCEPT ![r] = None]
    /\ data' = [data EXCEPT ![r] = IF @ = "none" THEN @ ELSE "terminating"]
    /\ s' = [s EXCEPT !.pc = "cleanup", !.gone = @ \ {r}]
    /\ UNCHANGED <<spec, status, slots, event, noticed, cluster>>

-----------------------------------------------------------------------------
(* reconcileLogicalReplica, one replica of the spec after the other.       *)
This == Min(s.todo)
Status == IF s.st[This] = None THEN Fresh ELSE [s.st[This] EXCEPT !.reason = ""]

\* The status of this replica is settled for now; the first one that bootstraps
\* ends the reconcile.
Settled(st) ==
    s' = [s EXCEPT !.new[This] = st, !.todo = @ \ {This},
            !.pc = IF st.state = "bootstrapping" \/ s.todo = {This} THEN "update"
                   ELSE "replica"]

Wait(st) == Settled([st EXCEPT !.state = "bootstrapping"])
Break(st, why) == Settled([st EXCEPT !.state = "broken", !.reason = why])

Upgraded(st) == st.version # 0 /\ st.version # version

\* logicalReplicaInvalidation: the replica stays down; pg_upgrade has kept its
\* slots, which are dropped.
Invalidated ==
    LET up == Upgraded(Status)
        inv == [Status EXCEPT !.invalid = TRUE]
    IN /\ Status.invalid \/ (Status.seeded /\ up)
       /\ sts' = Scaled({This}, 0)
       /\ slots' = IF up /\ Status.dbs /\ primary THEN slots \ {This} ELSE slots
       /\ Break([inv EXCEPT !.dbs = @ /\ ~(up /\ primary)],
                IF up THEN "upgraded" ELSE "restored")
       /\ UNCHANGED <<job, data>>

\* observePrimaryReadiness: before it is seeded a replica waits for the primary.
PrimaryReady == Status.seeded \/ primary

\* resolveLogicalReplicaDatabases: the databases are recorded before they are used.
ResolveDatabases ==
    /\ ~Status.dbs
    /\ Wait([Status EXCEPT !.dbs = TRUE])
    /\ UNCHANGED data

\* reconcileLogicalReplicaPVC: the volume of an earlier replica goes first.
ReconcilePVC ==
    /\ Status.dbs
    /\ \/ data[This] = "terminating" /\ Wait(Status) /\ UNCHANGED data
       \/ data[This] = "none" /\ data' = [data EXCEPT ![This] = "empty"] /\ UNCHANGED s

Prepare ==
    /\ IF PrimaryReady THEN ResolveDatabases \/ ReconcilePVC
       ELSE Wait(Status) /\ UNCHANGED data
    /\ UNCHANGED <<job, sts, slots>>

Prepared == Status.dbs /\ PrimaryReady /\ data[This] \notin {"terminating", "none"}

\* checkPrimaryCapacity.
PrimaryCapacity == Cardinality(slots) < Capacity
NewJob == job' = [job EXCEPT ![This] = "running"]
Seeded(st) == [st EXCEPT !.seeded = TRUE, !.version = version]

\* reconcileLogicalReplicaBootstrap; the Job of a replica with a StatefulSet is
\* never run again.
Bootstrap ==
    /\ Prepared /\ ~Status.seeded
    /\ CASE job[This] = "running" -> Wait(Status) /\ UNCHANGED job
         [] job[This] = "failed" -> Break(Status, "failed") /\ UNCHANGED job
         [] job[This] = "done" \/ sts[This] # None ->
                /\ job' = [job EXCEPT ![This] = "none"]
                /\ s' = [s EXCEPT !.pc = "run", !.st[This] = Seeded(Status)]
         [] OTHER ->
                IF PrimaryCapacity THEN NewJob /\ Wait(Status)
                ELSE Break(Status, "capacity") /\ UNCHANGED job
    /\ UNCHANGED <<sts, data, slots>>

Running ==
    /\ Prepared /\ Status.seeded
    /\ s' = [s EXCEPT !.pc = "run"]
    /\ UNCHANGED <<job, sts, data, slots>>

ReconcileReplica ==
    /\ s.pc = "replica"
    /\ \/ Invalidated
       \/ /\ ~(Status.invalid \/ (Status.seeded /\ Upgraded(Status)))
          /\ Prepare \/ Bootstrap \/ Running
    /\ UNCHANGED <<spec, status, event, noticed, cluster>>

(* reconcileLogicalReplicaStatefulSet.                                     *)
Run ==
    /\ s.pc = "run"
    /\ sts' = [sts EXCEPT ![This] = 1]
    /\ s' = [s EXCEPT !.pc = "health"]
    /\ UNCHANGED <<spec, status, job, data, slots, event, noticed, cluster>>

(* checkLogicalReplicaHealth.                                              *)
CheckHealth ==
    /\ s.pc = "health"
    /\ IF ~primary THEN Break(Status, "error")
       ELSE IF This \notin slots THEN Break(Status, "slots")
       ELSE IF This \notin pod THEN Wait(Status)
       ELSE Settled([Status EXCEPT !.state = "ready"])
    /\ UNCHANGED <<spec, status, job, sts, data, slots, event, noticed, cluster>>

(* updateLogicalReplicaStatus.                                             *)
UpdateStatus ==
    /\ s.pc = "update"
    /\ status' = s.new
    /\ event' = (event \/ status' # status)
    /\ s' = Idle
    /\ UNCHANGED <<spec, job, sts, data, slots, noticed, cluster>>

Reconcile ==
    \/ Read \/ Suspend \/ Cleanup \/ DeleteObjects \/ ReconcileReplica \/ Run
    \/ CheckHealth \/ UpdateStatus

-----------------------------------------------------------------------------
(* The Job, Kubernetes and the cluster.                                    *)

\* logicalReplicaSeedCommand: a copy of the data of the primary, unless the
\* directory already holds data.
Copy(r) ==
    /\ data[r] = "empty"
    /\ data' = [data EXCEPT ![r] = "partial"]
    /\ UNCHANGED <<job, origin, slots, changes>>

\* logicalReplicaBootstrapScript: the copy becomes a subscriber, with its slots.
Convert(r) ==
    /\ data[r] = "partial" /\ r \notin slots
    /\ data' = [data EXCEPT ![r] = "seeded"]
    /\ origin' = [origin EXCEPT ![r] = <<epoch, version>>]
    /\ slots' = slots \union {r}
    /\ job' = [job EXCEPT ![r] = "done"]
    /\ UNCHANGED changes

\* The Job is not repeated (jobFailedMessage).
JobFails(r) ==
    /\ \/ data[r] = "seeded" /\ UNCHANGED changes
       \/ data[r] = "partial" /\ r \in slots /\ UNCHANGED changes
       \/ "jobFails" \in changes /\ changes' = changes \ {"jobFails"}
    /\ job' = [job EXCEPT ![r] = "failed"]
    /\ UNCHANGED <<data, origin, slots>>

Seed(r) ==
    /\ job[r] = "running" /\ primary
    /\ Copy(r) \/ Convert(r) \/ JobFails(r)
    /\ event' = TRUE
    /\ UNCHANGED <<pod, primary, epoch, version, restore, paused>>

Runnable(r) ==
    sts[r] = 1 /\ job[r] = "none" /\ data[r] = "seeded" /\ origin[r][2] = version

Kubernetes(r) ==
    /\ \/ r \notin pod /\ Runnable(r) /\ pod' = pod \union {r} /\ UNCHANGED data
       \/ r \in pod /\ ~Runnable(r) /\ pod' = pod \ {r} /\ UNCHANGED data
       \/ /\ data[r] = "terminating" /\ r \notin pod
          /\ data' = [data EXCEPT ![r] = "none"]
          /\ UNCHANGED pod
    /\ event' = TRUE
    /\ UNCHANGED <<job, origin, slots, primary, epoch, version, restore, paused, changes>>

\* A restore from a repository loses the slots, one from a snapshot keeps them.
\* It takes long enough for a reconcile to see it.
Restoring ==
    /\ \/ /\ restore = "starting"
          /\ restore' = "running" /\ primary' = FALSE
          /\ UNCHANGED <<epoch, slots>>
       \/ /\ restore = "running" /\ (noticed \/ "brief" \in changes)
          /\ restore' = "none" /\ primary' = TRUE /\ epoch' = epoch + 1
          /\ slots' \in {slots, {}}
    /\ event' = TRUE
    /\ UNCHANGED <<job, pod, data, origin, version, paused, changes>>

\* IgnoreSlotsMatchers: without a logical replica in the spec Patroni drops the slots
\* it does not know, those in use excepted.
IgnoreSlots ==
    /\ spec = {} /\ primary /\ slots \ pod # {}
    /\ slots' = slots \intersect pod
    /\ UNCHANGED <<job, pod, data, origin, primary, epoch, version, restore, paused, event,
                   changes>>

World ==
    /\ Restoring \/ IgnoreSlots \/ \E r \in Replicas : Seed(r) \/ Kubernetes(r)
    /\ UNCHANGED <<spec, status, sts, noticed, s>>

-----------------------------------------------------------------------------
(* Users and faults.                                                       *)
Change(what) == what \in changes /\ changes' = changes \ {what}

\* Replicas are removed between reconciles of replicas that are ready or broken; with
\* "busy" also during a reconcile of replicas that have started, with "early" at any time.
Edit ==
    /\ \/ Change("remove") /\ \E removed \in SUBSET spec :
            /\ \/ s = Idle /\ \A q \in spec :
                    job[q] # "running" /\ status[q] # None /\ status[q].state # "bootstrapping"
               \/ "busy" \in changes /\ \A q \in spec : sts[q] # None
               \/ "early" \in changes
            /\ removed # {} /\ spec' = spec \ removed
       \/ Change("add") /\ \E r \in Replicas \ spec : spec' = spec \union {r}
    /\ event' = TRUE
    /\ UNCHANGED <<status, job, sts, pod, data, origin, slots, primary, epoch, version,
                   restore, noticed, paused, s>>

\* An upgrade takes long enough for the reconciler to be done with the pause.
Disturb ==
    /\ \/ /\ Change("failover") /\ slots' = {}
          /\ UNCHANGED <<pod, primary, restore, paused, version>>
       \/ /\ Change("restart") /\ pod # {} /\ \E r \in pod : pod' = pod \ {r}
          /\ UNCHANGED <<slots, primary, restore, paused, version>>
       \/ /\ Change("restore") /\ ~paused /\ restore = "none"
          /\ restore' = "starting"
          /\ UNCHANGED <<pod, slots, primary, paused, version>>
       \/ /\ Change("pause") /\ restore = "none"
          /\ paused' = TRUE /\ primary' = FALSE
          /\ UNCHANGED <<pod, slots, restore, version>>
       \/ /\ Change("resume") /\ paused
          /\ paused' = FALSE /\ primary' = TRUE
          /\ UNCHANGED <<pod, slots, restore, version>>
       \/ /\ Change("upgrade") /\ paused /\ s = Idle /\ ~event
          /\ version' = version + 1
          /\ UNCHANGED <<pod, slots, primary, restore, paused>>
    /\ event' = TRUE
    /\ UNCHANGED <<spec, status, job, sts, data, origin, epoch, noticed, s>>

Crash ==
    /\ Change("crash") /\ s.pc # "idle"
    /\ s' = Idle /\ event' = TRUE
    /\ UNCHANGED <<spec, status, job, sts, pod, data, origin, slots, primary, epoch, version,
                   restore, noticed, paused>>

Next == Reconcile \/ World \/ Edit \/ Disturb \/ Crash

Spec == Init /\ [][Next]_vars

-----------------------------------------------------------------------------
(* Properties.                                                             *)

Quiet == ~ENABLED <<Reconcile \/ World>>_vars

\* "An orphaned logical slot holds WAL on the primary forever": once nothing is
\* left to do on a cluster with a primary, only replicas of the spec have slots.
NoOrphanSlot == Quiet /\ primary => slots \subseteq spec

\* Once nothing is left to do, a replica that is ready runs, has its slots and the
\* data that the cluster has had since its last restore; no replica runs with
\* older data; the others are suspended with their cluster, or broken.
ReplicasSettle ==
    Quiet =>
        /\ \A r \in pod : origin[r][1] = epoch
        /\ \A r \in spec :
            LET st == status[r] IN
            IF paused THEN st = None \/ r \notin pod
            ELSE /\ st # None
                 /\ st.state = "broken" \/
                    (st.state = "ready" /\ r \in pod /\ r \in slots)
=============================================================================
