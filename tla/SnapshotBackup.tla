--------------------------- MODULE SnapshotBackup ---------------------------
(***************************************************************************)
(* A PerconaPGBackup of method volumeSnapshot, mode offline:               *)
(* percona/controller/pgbackup/snapshots and the suspension of an instance *)
(* in percona/postgres/common.go.  The reconciler stops one replica, waits *)
(* until its Pod is gone, takes a VolumeSnapshot of each of its volumes    *)
(* and starts the replica again.  What it did to the cluster is recorded   *)
(* on the backup: the annotation with the target instance, then the        *)
(* finalizer snapshot-in-progress.                                         *)
(*                                                                         *)
(* The reconciler is one worker; an action is the stretch between two      *)
(* calls that others can observe.  The StatefulSets, Patroni's choice of   *)
(* the primary and the snapshot controller are its environment.  The lock  *)
(* is BackupLease, its acquisition and its release one step each.          *)
(***************************************************************************)
EXTENDS Naturals, FiniteSets

CONSTANTS
    Backups,    \* PerconaPGBackup objects
    Instances,  \* PostgreSQL instances, one StatefulSet each
    Volumes,    \* the volumes of an instance: data, WAL, tablespaces
    None,       \* no target, no holder
    Faults      \* what may happen besides the procedure itself

\* delete: users delete backups.  clusterDelete: the PerconaPGCluster is deleted.
\* disable: volume snapshots are switched off in the cluster's spec.  failover:
\* Patroni elects another primary.  snapError: a VolumeSnapshot reports errors.
\* timeout: the checkpoint fails or a wait exceeds five minutes.  crash: the
\* operator restarts.
FaultKinds == {"delete", "clusterDelete", "disable", "failover", "snapError",
               "timeout", "crash"}

ASSUME NoneAssumption == None \notin Backups \cup Instances
ASSUME FaultAssumption == Faults \subseteq FaultKinds

VARIABLES
    bk,        \* the PerconaPGBackup objects
    vs,        \* their VolumeSnapshots
    sts,       \* the StatefulSets of the instances
    primary,   \* the instance with Patroni's primary role
    cluster,   \* TRUE while the PerconaPGCluster exists and is not being deleted
    enabled,   \* spec.backups.volumeSnapshots is configured
    lease,     \* holder of the backup lock
    w          \* the worker: where it is and what it has read

vars == <<bk, vs, sts, primary, cluster, enabled, lease, w>>

-----------------------------------------------------------------------------
(* Objects.                                                                *)

Terminal == {"Succeeded", "Failed"}
States   == {"New", "Starting", "Running"} \cup Terminal

Backup == [phase : {"absent", "live", "gone"}, state : States,
           deleting : BOOLEAN,
           fin : BOOLEAN,                   \* finalizer snapshot-in-progress
           del : BOOLEAN,                   \* finalizer delete-backup
           target : Instances \cup {None},  \* annotation with the target
           acquired : BOOLEAN]              \* condition BackupLeaseAcquired

Unborn == [phase |-> "absent", state |-> "New", deleting |-> FALSE,
           fin |-> FALSE, del |-> FALSE, target |-> None, acquired |-> FALSE]

\* overdue: an error older than the five minutes of shouldFailSnapshot.
\* still: the source has been stopped from the creation until readiness.
Snapshot == [st : {"none", "pending", "error", "overdue", "ready"},
             from : Instances \cup {None}, still : BOOLEAN]

NoSnapshot == [st |-> "none", from |-> None, still |-> TRUE]

\* suspended: the annotation; up: the Pod exists and is ready.
StatefulSet == [suspended : BOOLEAN, up : BOOLEAN]

WIdle == [pc |-> "idle", b |-> None, snap |-> Unborn, pgNil |-> FALSE,
          on |-> TRUE, target |-> None, todo |-> {}, seen |-> "ready"]

WPCs == {"idle", "down", "lease", "finalize", "reconcile", "suspend", "suspending",
         "annotate", "addFin", "running", "volumes", "complete", "resuming",
         "dropFin", "succeed"}

TypeOK ==
    /\ bk \in [Backups -> Backup]
    /\ vs \in [Backups -> [Volumes -> Snapshot]]
    /\ sts \in [Instances -> StatefulSet]
    /\ primary \in Instances
    /\ cluster \in BOOLEAN /\ enabled \in BOOLEAN
    /\ lease \in Backups \cup {None}
    /\ w \in [pc : WPCs, b : Backups \cup {None}, snap : Backup, pgNil : BOOLEAN,
              on : BOOLEAN, target : Instances \cup {None}, todo : SUBSET Volumes,
              seen : {"ready", "pending", "failed"}]

Init ==
    /\ bk = [b \in Backups |-> Unborn]
    /\ vs = [b \in Backups |-> [v \in Volumes |-> NoSnapshot]]
    /\ sts = [i \in Instances |-> [suspended |-> FALSE, up |-> TRUE]]
    /\ primary \in Instances
    /\ cluster = TRUE /\ enabled = TRUE
    /\ lease = None
    /\ w = WIdle

Live(b) == bk[b].phase = "live"

\* The API server removes an object that is being deleted with its last finalizer.
Settle(obj) == IF obj.deleting /\ ~obj.fin /\ ~obj.del
               THEN [Unborn EXCEPT !.phase = "gone"] ELSE obj

wb == w.b
WGoto(l) == w' = [w EXCEPT !.pc = l]
WStop == w' = WIdle

\* A write to the worker's backup; one to an object that is gone fails the
\* reconcile.
WriteThen(obj, next) ==
    \/ Live(wb) /\ bk' = [bk EXCEPT ![wb] = Settle(obj)] /\ next
    \/ ~Live(wb) /\ WStop /\ UNCHANGED bk

SetState(s) == [bk[wb] EXCEPT !.state = s]

-----------------------------------------------------------------------------
(* The head of PGBackupReconciler.Reconcile.                               *)

\* A backup in progress whose cluster is gone or going is failed at once.
WGet(b) ==
    LET state == IF ~cluster /\ bk[b].state \in {"Starting", "Running"}
                 THEN "Failed" ELSE bk[b].state
    IN  /\ w.pc = "idle" /\ Live(b)
        /\ bk' = [bk EXCEPT ![b].state = state]
        /\ w' = [WIdle EXCEPT !.pc = "lease", !.b = b, !.snap = bk'[b],
                              !.pgNil = ~cluster, !.on = enabled]
        /\ UNCHANGED <<vs, sts, primary, cluster, enabled, lease>>

\* Mutant of Releasing: the snapshot finalizer is not looked at.
ReleasingEarly(snap, pgNil) == snap.state \in Terminal \/ snap.deleting

\* handleLease's choice between release and acquisition.
Releasing(snap, pgNil) == /\ snap.state \in Terminal \/ snap.deleting
                          /\ pgNil \/ ~snap.fin

\* checkStale.
Stale(h) == Live(h) => bk[h].state \in Terminal /\ ~bk[h].fin
Obtainable == lease \notin {None, wb} => Stale(lease)

AfterLease == IF w.pgNil THEN "finalize" ELSE "reconcile"

WRelease ==
    /\ w.pc = "lease" /\ Releasing(w.snap, w.pgNil)
    /\ \/ ~w.snap.acquired /\ WGoto(AfterLease) /\ UNCHANGED <<bk, lease>>
       \/ /\ w.snap.acquired /\ lease \in {None, wb}
          /\ lease' = None
          /\ WriteThen([bk[wb] EXCEPT !.acquired = FALSE], WGoto(AfterLease))
       \/ /\ w.snap.acquired /\ lease \notin {None, wb}
          /\ WStop /\ UNCHANGED <<bk, lease>>
    /\ UNCHANGED <<vs, sts, primary, cluster, enabled>>

WAcquire ==
    /\ w.pc = "lease" /\ ~Releasing(w.snap, w.pgNil)
    /\ \/ /\ Obtainable
          /\ lease' = wb
          /\ WriteThen([bk[wb] EXCEPT !.acquired = TRUE], WGoto(AfterLease))
       \/ /\ ~Obtainable
          /\ WriteThen([bk[wb] EXCEPT !.acquired = FALSE], WStop)
          /\ UNCHANGED lease
    /\ UNCHANGED <<vs, sts, primary, cluster, enabled>>

\* Without a cluster the backup takes the path of a pgBackRest backup: a failed
\* or deleted one runs its finalizers, none of which has anything to wait for;
\* any other fails because it names no repository, a backup that has succeeded
\* too.  One that has not ended gets the finalizer delete-backup before.
WFinalize ==
    /\ w.pc = "finalize"
    /\ CASE w.snap.deleting \/ w.snap.state = "Failed" ->
                WriteThen([bk[wb] EXCEPT !.fin = FALSE, !.del = FALSE], WStop)
         [] ~w.snap.deleting /\ w.snap.state = "New" ->
                WriteThen([bk[wb] EXCEPT !.del = TRUE, !.state = "Failed"], WStop)
         [] ~w.snap.deleting /\ w.snap.state = "Succeeded" ->
                WriteThen(SetState("Failed"), WStop)
    /\ UNCHANGED <<vs, sts, primary, cluster, enabled, lease>>

-----------------------------------------------------------------------------
(* snapshotReconciler.                                                     *)

AtReconcile == w.pc = "reconcile" /\ w.on
AtState(s) == AtReconcile /\ ~w.snap.deleting /\ w.snap.state = s

\* The cluster does not configure volume snapshots any more.
WDisabled ==
    /\ w.pc = "reconcile" /\ ~w.on
    /\ WriteThen(SetState("Failed"), WStop)
    /\ UNCHANGED <<vs, sts, primary, cluster, enabled, lease>>

\* Mutant: a backup that failed is started again.
WNewAgain ==
    /\ AtState("New") \/ AtState("Failed")
    /\ WriteThen(SetState("Starting"), WStop)
    /\ UNCHANGED <<vs, sts, primary, cluster, enabled, lease>>

\* reconcileNew waits for a ready cluster.  The cluster's status lags behind its
\* instances, so a ready status may be read while an instance is down.
WNew ==
    /\ AtState("New")
    /\ \/ WriteThen(SetState("Starting"), WStop)
       \/ (\E i \in Instances : ~sts[i].up) /\ WStop /\ UNCHANGED bk
    /\ UNCHANGED <<vs, sts, primary, cluster, enabled, lease>>

\* The replica Pods, of which the API lists any one first.
Replicas == {i \in Instances : sts[i].up /\ i # primary}

\* getBackupTarget: the instance of an earlier attempt, or some replica.
getBackupTarget(snap) == IF snap.target # None THEN {snap.target} ELSE Replicas

\* prepare, up to the checkpoint; done already when the finalizer is there.
WPrepare ==
    /\ AtState("Starting")
    /\ \/ w.snap.fin /\ WGoto("running")
       \/ /\ ~w.snap.fin
          /\ \E i \in getBackupTarget(w.snap) :
                 w' = [w EXCEPT !.pc = "suspend", !.target = i]
       \/ ~w.snap.fin /\ getBackupTarget(w.snap) = {} /\ WStop
    /\ UNCHANGED <<bk, vs, sts, primary, cluster, enabled, lease>>

\* The checkpoint is done; SuspendInstance annotates the StatefulSet.
WSuspend ==
    /\ w.pc = "suspend"
    /\ sts' = [sts EXCEPT ![w.target].suspended = TRUE]
    /\ WGoto("suspending")
    /\ UNCHANGED <<bk, vs, primary, cluster, enabled, lease>>

\* SuspendInstance is polled until the Pod is gone.
WSuspended ==
    /\ w.pc = "suspending" /\ ~sts[w.target].up
    /\ WGoto("annotate")
    /\ UNCHANGED <<bk, vs, sts, primary, cluster, enabled, lease>>

WAnnotate ==
    /\ w.pc = "annotate"
    /\ WriteThen([bk[wb] EXCEPT !.target = w.target], WGoto("addFin"))
    /\ UNCHANGED <<vs, sts, primary, cluster, enabled, lease>>

WAddFinalizer ==
    /\ w.pc = "addFin"
    /\ WriteThen([bk[wb] EXCEPT !.fin = TRUE], WGoto("running"))
    /\ UNCHANGED <<vs, sts, primary, cluster, enabled, lease>>

WRunning ==
    /\ w.pc = "running"
    /\ WriteThen(SetState("Running"), WStop)
    /\ UNCHANGED <<vs, sts, primary, cluster, enabled, lease>>

\* getTargetPVCs: the volumes of the annotated instance.  A backup is Running only
\* after its target was annotated (DownWhileRunning).
WVolumes ==
    /\ AtState("Running")
    /\ w' = [w EXCEPT !.pc = "volumes", !.todo = Volumes]
    /\ UNCHANGED <<bk, vs, sts, primary, cluster, enabled, lease>>

\* What the reconcile knows of all volumes after looking at one more.
Merge(seen, st) == CASE st = "overdue" \/ seen = "failed" -> "failed"
                     [] st = "ready" /\ seen # "failed" -> seen
                     [] st \notin {"ready", "overdue"} /\ seen # "failed" -> "pending"

\* reconcileSnapshot of one volume: it is created, or its status is observed.
\* The order of the volumes plays no role.
WSnapshot(v) ==
    LET st == vs[wb][v].st
    IN  /\ w.pc = "volumes" /\ v \in w.todo
        /\ vs' = IF st = "none"
                 THEN [vs EXCEPT ![wb][v] =
                         [st |-> "pending", from |-> w.snap.target,
                          still |-> ~sts[w.snap.target].up]]
                 ELSE vs
        /\ w' = [w EXCEPT !.todo = @ \ {v}, !.seen = Merge(@, st)]
        /\ UNCHANGED <<bk, sts, primary, cluster, enabled, lease>>

\* Mutant: one volume that is ready is enough.
WVolumesDoneAny ==
    /\ w.pc = "volumes" /\ w.todo = {}
    /\ IF \E v \in Volumes : vs[wb][v].st = "ready"
       THEN WGoto("complete") /\ UNCHANGED bk
       ELSE WStop /\ UNCHANGED bk
    /\ UNCHANGED <<vs, sts, primary, cluster, enabled, lease>>

\* The end of reconcileRunning: fail, come back later, or complete.
WVolumesDone ==
    /\ w.pc = "volumes" /\ w.todo = {}
    /\ CASE w.seen = "failed"  -> WriteThen(SetState("Failed"), WStop)
         [] w.seen = "pending" -> WStop /\ UNCHANGED bk
         [] w.seen = "ready"   -> WGoto("complete") /\ UNCHANGED bk
    /\ UNCHANGED <<vs, sts, primary, cluster, enabled, lease>>

\* Mutant: a failed backup is not completed.
WEndSucceededOnly ==
    /\ (AtReconcile /\ w.snap.deleting) \/ AtState("Succeeded")
    /\ WGoto("complete")
    /\ UNCHANGED <<bk, vs, sts, primary, cluster, enabled, lease>>

\* A backup that is being deleted or has ended is completed as well.
WEnd ==
    /\ AtReconcile
    /\ w.snap.deleting \/ w.snap.state \in Terminal
    /\ WGoto("complete")
    /\ UNCHANGED <<bk, vs, sts, primary, cluster, enabled, lease>>

\* Only reconcileRunning goes on after complete.
AfterComplete == IF w.snap.deleting \/ w.snap.state \in Terminal
                 THEN WStop ELSE WGoto("succeed")

\* complete: nothing to do without the finalizer; otherwise UnsuspendInstance
\* removes the annotation of the target's StatefulSet.  The target is annotated
\* before the finalizer is added, so there always is one.
WComplete ==
    /\ w.pc = "complete"
    /\ \/ ~w.snap.fin /\ AfterComplete /\ UNCHANGED sts
       \/ /\ w.snap.fin
          /\ \E i \in getBackupTarget(w.snap) :
                 /\ sts' = [sts EXCEPT ![i].suspended = FALSE]
                 /\ w' = [w EXCEPT !.pc = "resuming", !.target = i]
    /\ UNCHANGED <<bk, vs, primary, cluster, enabled, lease>>

\* UnsuspendInstance is polled until the Pod is ready.
WResumed ==
    /\ w.pc = "resuming" /\ sts[w.target].up
    /\ WGoto("dropFin")
    /\ UNCHANGED <<bk, vs, sts, primary, cluster, enabled, lease>>

WDropFinalizer ==
    /\ w.pc = "dropFin"
    /\ WriteThen([bk[wb] EXCEPT !.fin = FALSE], AfterComplete)
    /\ UNCHANGED <<vs, sts, primary, cluster, enabled, lease>>

WSucceed ==
    /\ w.pc = "succeed"
    /\ WriteThen(SetState("Succeeded"), WStop)
    /\ UNCHANGED <<vs, sts, primary, cluster, enabled, lease>>

\* The checkpoint fails, or what is polled for did not come in five minutes.
\* The reconcile returns the error; nothing is undone.
WTimeout ==
    /\ "timeout" \in Faults
    /\ \/ w.pc = "suspend"
       \/ w.pc = "suspending" /\ sts[w.target].up
       \/ w.pc = "resuming" /\ ~sts[w.target].up
    /\ WStop
    /\ UNCHANGED <<bk, vs, sts, primary, cluster, enabled, lease>>

W == \/ \E b \in Backups : WGet(b)
     \/ WRelease \/ WAcquire \/ WFinalize
     \/ WDisabled \/ WNew \/ WPrepare \/ WSuspend \/ WSuspended \/ WAnnotate
     \/ WAddFinalizer \/ WRunning \/ WVolumes \/ (\E v \in Volumes : WSnapshot(v))
     \/ WVolumesDone \/ WEnd \/ WComplete \/ WResumed \/ WDropFinalizer \/ WSucceed
     \/ WTimeout

-----------------------------------------------------------------------------
(* The environment.                                                        *)

\* reconcileInstance gives a suspended instance no Pod and any other one.  Data
\* written by an instance that starts is not in a snapshot taken before.
Scale(i) ==
    /\ sts[i].up = sts[i].suspended
    /\ sts' = [sts EXCEPT ![i].up = ~@]
    /\ vs' = [b \in Backups |-> [v \in Volumes |->
                [vs[b][v] EXCEPT !.still = @ /\ (sts[i].up \/ vs[b][v].from # i
                                                 \/ vs[b][v].st = "ready")]]]
    /\ UNCHANGED <<bk, primary, cluster, enabled, lease, w>>

\* Patroni promotes a running replica.
Failover(i) ==
    /\ i \in Replicas
    /\ "failover" \in Faults \/ ~sts[primary].up
    /\ primary' = i
    /\ UNCHANGED <<bk, vs, sts, cluster, enabled, lease, w>>

\* The snapshot controller; it retries a snapshot that reported an error.
SnapshotReady(b, v) ==
    /\ vs[b][v].st \in {"pending", "error", "overdue"}
    /\ vs' = [vs EXCEPT ![b][v].st = "ready"]
    /\ UNCHANGED <<bk, sts, primary, cluster, enabled, lease, w>>

SnapshotError(b, v) ==
    /\ "snapError" \in Faults
    /\ vs[b][v].st \in {"pending", "error"}
    /\ vs' = [vs EXCEPT ![b][v].st = IF @ = "pending" THEN "error" ELSE "overdue"]
    /\ UNCHANGED <<bk, sts, primary, cluster, enabled, lease, w>>

Create(b) ==
    /\ bk[b].phase = "absent"
    /\ bk' = [bk EXCEPT ![b].phase = "live"]
    /\ UNCHANGED <<vs, sts, primary, cluster, enabled, lease, w>>

Delete(b) ==
    /\ "delete" \in Faults
    /\ Live(b) /\ ~bk[b].deleting
    /\ bk' = [bk EXCEPT ![b] = Settle([@ EXCEPT !.deleting = TRUE])]
    /\ UNCHANGED <<vs, sts, primary, cluster, enabled, lease, w>>

DeleteCluster ==
    /\ "clusterDelete" \in Faults /\ cluster
    /\ cluster' = FALSE
    /\ UNCHANGED <<bk, vs, sts, primary, enabled, lease, w>>

Disable ==
    /\ "disable" \in Faults /\ enabled
    /\ enabled' = FALSE
    /\ UNCHANGED <<bk, vs, sts, primary, cluster, lease, w>>

\* The operator's process ends, and another one starts with nothing but what the
\* API server has.
Crash ==
    /\ "crash" \in Faults /\ w.pc \notin {"idle", "down"}
    /\ w' = [WIdle EXCEPT !.pc = "down"]
    /\ UNCHANGED <<bk, vs, sts, primary, cluster, enabled, lease>>

Restart ==
    /\ w.pc = "down"
    /\ WStop
    /\ UNCHANGED <<bk, vs, sts, primary, cluster, enabled, lease>>

Environment ==
    \/ \E i \in Instances : Scale(i) \/ Failover(i)
    \/ \E b \in Backups, v \in Volumes : SnapshotReady(b, v) \/ SnapshotError(b, v)
    \/ \E b \in Backups : Create(b) \/ Delete(b)
    \/ DeleteCluster \/ Disable \/ Crash \/ Restart

Next == W \/ Environment

Spec == Init /\ [][Next]_vars

\* The worker runs, and takes every backup again: waits are requeued after five
\* seconds, a denied lock after ten, errors with back-off, and the work queue is
\* first in, first out.  StatefulSets follow their annotation, and the snapshot
\* controller ends every snapshot or reports an error that does not go away.  The
\* operator is not restarted for ever.
Fairness ==
    /\ WF_vars(W) /\ WF_vars(Restart)
    /\ \A b \in Backups : SF_vars(WGet(b))
    /\ \A i \in Instances : WF_vars(Scale(i))
    /\ \A b \in Backups, v \in Volumes :
           WF_vars(SnapshotReady(b, v) \/ SnapshotError(b, v))
    /\ <>[][~Crash]_vars

FairSpec == Spec /\ Fairness

-----------------------------------------------------------------------------
(* Properties.                                                             *)

\* A backup that succeeded is one state of the data: every volume has its
\* snapshot, all of one instance, and that instance stood still from the first
\* creation to the last readiness, whatever failed, crashed or was deleted in
\* between and whatever other backups did.
SnapshotConsistent ==
    \A b \in Backups : bk[b].state = "Succeeded" =>
        \E i \in Instances : \A v \in Volumes :
            vs[b][v] = [st |-> "ready", from |-> i, still |-> TRUE]

\* As long as a running backup misses a snapshot its target is annotated as
\* suspended, has no Pod, is named on the backup, and the finalizer and the lock
\* are in place: no other backup, no restart and no timeout starts the instance.
DownWhileRunning ==
    \A b \in Backups :
        /\ cluster /\ Live(b) /\ bk[b].state = "Running" /\ ~bk[b].deleting
        /\ \E v \in Volumes : vs[b][v].st # "ready"
        => /\ bk[b].fin /\ lease = b
           /\ bk[b].target # None
           /\ sts[bk[b].target] = [suspended |-> TRUE, up |-> FALSE]

\* A backup that has ended keeps its verdict, whatever is reconciled, crashes or is
\* retried later: one that failed never succeeds, and one that succeeded fails only
\* once its cluster is gone or has volume snapshots switched off, where the
\* reconciler finds no repository or no configuration for it.
VerdictKept ==
    [][\A b \in Backups : bk[b].state \in Terminal =>
            \/ bk'[b].phase = "gone" \/ bk'[b].state = bk[b].state
            \/ bk'[b].state = "Failed" /\ ~(cluster /\ enabled)]_vars

\* The finalizer keeps its promise: an instance that a backup with the finalizer
\* has stopped is started again and the finalizer goes, whether the backup
\* succeeds, fails or is deleted, unless the cluster itself is deleted.
FinalizerReverts ==
    \A b \in Backups, i \in Instances :
        bk[b].fin /\ bk[b].target = i ~> ~cluster \/ (~bk[b].fin /\ ~sts[i].suspended)

\* No instance stays suspended for ever.
SuspensionEnds ==
    \A i \in Instances : sts[i].suspended ~> ~cluster \/ ~sts[i].suspended
=============================================================================
