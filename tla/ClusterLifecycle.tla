-------------------------- MODULE ClusterLifecycle --------------------------
(***************************************************************************)
(* A PerconaPGCluster from its creation to its end (percona/controller/    *)
(* pgcluster): one reconcile walks through many steps, any of which may    *)
(* return early, before it writes the PostgresCluster; users pause it, set *)
(* it unmanaged, remove an extension and delete it, while backups run and  *)
(* the cron of the operator makes new ones.                                *)
(***************************************************************************)
EXTENDS Naturals, FiniteSets

CONSTANTS
    Backups,    \* bounds the backups that are ever made
    None,
    Scenarios   \* sets of changes: what may happen in a behaviour

VARIABLES
    spec,       \* [pause, unmanaged, ext, secret, listed, scheduled, track]: an
                \* extension and the Secret of its storage; a repository, or the
                \* volume snapshots, and their schedule; external watchers
    deleting, fin, promised,    \* finalizers left, and those at the deletion
    pc,         \* PostgresCluster: [shutdown, paused, deleting], or None
    pods,       \* instances run
    objects,    \* what finalizers delete: subset of {"pvc", "user", "tls"}
    stanza,     \* the repositories hold backups
    stopped,    \* pgbackrest stop was run
    ext, installed,     \* the extension in the database, and in the status
    state,      \* status.state: "initializing", "ready", "stopping", "paused"
    backup,     \* state of a PerconaPGBackup: None, "New", "Running", "Ended"
    cron,       \* the operator's schedule of backups
    s, event,   \* the reconciler, and something for it to do
    changes

vars == <<spec, deleting, fin, promised, pc, pods, objects, stanza, stopped, ext, installed,
          state, backup, cron, s, event, changes>>
data == <<objects, stanza, stopped, ext>>

Idle == [pc |-> "idle"]
Gone == deleting /\ fin = {}

Init ==
    /\ changes \in Scenarios
    /\ spec = [pause |-> FALSE, unmanaged |-> FALSE, ext |-> TRUE, secret |-> TRUE,
               listed |-> TRUE, scheduled |-> "schedule" \in changes,
               track |-> "untracked" \notin changes]
    /\ deleting = FALSE /\ promised = {}
    /\ fin \in {{"pvc", "ssl"}, {"backups", "pvc"}, {}}
    /\ pc = None /\ pods = FALSE /\ objects = {} /\ stanza = FALSE /\ stopped = FALSE
    /\ ext = FALSE /\ installed = FALSE
    /\ state = "initializing" /\ backup = [b \in Backups |-> None]
    /\ cron = FALSE /\ s = Idle /\ event = TRUE

\* isBackupRunning.
BackupRunning == \E b \in Backups : backup[b] = "Running"

-----------------------------------------------------------------------------
(* Reconcile of a cluster that lives.                                      *)

Unmanage == spec.unmanaged /\ ~BackupRunning

Read ==
    /\ s.pc = "idle" /\ event /\ ~Gone
    /\ event' = FALSE
    /\ IF deleting THEN s' = [pc |-> "watchers"] /\ UNCHANGED pc
       ELSE IF Unmanage
       THEN /\ pc' = IF pc = None THEN pc ELSE [pc EXCEPT !.paused = TRUE]
            /\ s' = Idle
       ELSE s' = [pc |-> "ensure", spec |-> spec, installed |-> installed]
            /\ UNCHANGED pc
    /\ UNCHANGED <<spec, deleting, fin, promised, pods, installed, state, backup, cron,
                   changes, data>>

\* The API server takes no new finalizer for a cluster that is being deleted.
EnsureFinalizers ==
    /\ s.pc = "ensure"
    /\ LET add == s.spec.track /\ "watchers" \notin fin IN
        /\ fin' = IF add /\ ~deleting THEN fin \union {"watchers"} ELSE fin
        /\ s' = IF add /\ deleting THEN Idle ELSE [s EXCEPT !.pc = "extensions"]
    /\ UNCHANGED <<spec, deleting, promised, pc, pods, installed, state, backup, cron, event,
                   changes, data>>

\* reconcileCustomExtensions drops what the status has and the spec has not, unless
\* no Secret is named.  Without a primary it ends the reconcile, and a retry finds
\* the same until something changes, which is an event; so does a DROP that fails,
\* which is tried again.
ReconcileExtensions ==
    /\ s.pc = "extensions"
    /\ LET removed == s.spec.secret /\ s.installed /\ ~s.spec.ext IN
        \/ /\ ~removed
           /\ s' = [s EXCEPT !.pc = "schedule"] /\ UNCHANGED <<ext, event>>
        \/ /\ removed /\ ~pods
           /\ s' = Idle /\ UNCHANGED <<ext, event>>
        \/ /\ removed /\ pods
           /\ ext' = FALSE
           /\ s' = [s EXCEPT !.pc = "schedule"] /\ UNCHANGED event
        \/ /\ removed /\ pods /\ "dropFails" \in changes
           /\ s' = Idle /\ event' = TRUE /\ UNCHANGED ext
    /\ UNCHANGED <<spec, deleting, fin, promised, pc, pods, objects, stanza, stopped,
                   installed, state, backup, cron, changes>>

\* Only what the spec lists is looked at: the job of a repository that is no longer
\* there, or of volume snapshots that are switched off, stays.
ReconcileScheduledBackups ==
    /\ s.pc = "schedule"
    /\ cron' = IF s.spec.listed THEN s.spec.scheduled ELSE cron
    /\ s' = [s EXCEPT !.pc = "pause"]
    /\ UNCHANGED <<spec, deleting, fin, promised, pc, pods, installed, state, backup, event,
                   changes, data>>

\* A cluster is not paused while a backup runs.
CheckPause ==
    /\ s.pc = "pause"
    /\ s' = [s EXCEPT !.pc = "apply", !.spec.pause = @ /\ ~BackupRunning]
    /\ UNCHANGED <<spec, deleting, fin, promised, pc, pods, installed, state, backup, cron,
                   event, changes, data>>

ToCrunchy(sp) == [shutdown |-> sp.pause, paused |-> FALSE, deleting |-> FALSE]

\* CreateOrUpdate; the reconcile goes on if the PostgresCluster existed.
ApplyCluster ==
    /\ s.pc = "apply"
    /\ IF pc = None
       THEN pc' = ToCrunchy(s.spec) /\ s' = Idle /\ event' = TRUE
       ELSE /\ pc' = [ToCrunchy(s.spec) EXCEPT !.deleting = pc.deleting]
            /\ s' = [s EXCEPT !.pc = "status"] /\ UNCHANGED event
    /\ UNCHANGED <<spec, deleting, fin, promised, pods, installed, state, backup, cron,
                   changes, data>>

State ==
    IF s.spec.pause THEN (IF pods THEN "stopping" ELSE "paused")
    ELSE IF pods THEN "ready" ELSE "initializing"

\* Mutant: takes the list from the spec that it reads again.
UpdateStatusFresh ==
    /\ s.pc = "status"
    /\ installed' = spec.ext
    /\ state' = State
    /\ s' = Idle
    /\ event' = (event \/ state' # state \/ installed' # installed)
    /\ UNCHANGED <<spec, deleting, fin, promised, pc, pods, backup, cron, changes, data>>

\* updateStatus writes what the spec that was read lists.
UpdateStatus ==
    /\ s.pc = "status"
    /\ installed' = s.spec.ext
    /\ state' = State
    /\ s' = Idle
    /\ event' = (event \/ state' # state \/ installed' # installed)
    /\ UNCHANGED <<spec, deleting, fin, promised, pc, pods, backup, cron, changes, data>>

-----------------------------------------------------------------------------
(* Reconcile of a cluster that is deleted: finalizers, each removed when it *)
(* is done, some before and some after the end of the PostgresCluster.     *)
Finalized(f) == fin' = fin \ {f}

StopWatchers ==
    /\ s.pc = "watchers"
    /\ Finalized("watchers")
    /\ s' = [pc |-> "stanza"]
    /\ UNCHANGED <<spec, pc, pods, backup, installed, state, event, data>>

\* deleteBackups needs a Pod; it deletes the repositories, then the objects.
DeleteStanza ==
    /\ s.pc = "stanza"
    /\ IF "backups" \notin fin
       THEN s' = [pc |-> "delete"] /\ UNCHANGED <<stanza, stopped>>
       ELSE IF ~pods
       THEN s' = Idle /\ UNCHANGED <<stanza, stopped>>
       ELSE stanza' = FALSE /\ stopped' = TRUE /\ s' = [pc |-> "objects"]
    /\ UNCHANGED <<spec, fin, pc, pods, backup, installed, state, objects, ext, event>>

DeleteBackupObjects ==
    /\ s.pc = "objects"
    /\ backup' = [b \in Backups |-> None]
    /\ Finalized("backups")
    /\ s' = [pc |-> "delete"]
    /\ UNCHANGED <<spec, pc, pods, installed, state, event, data>>

\* Mutant: goes on as soon as the PostgresCluster is marked for deletion.
DeleteClusterAtOnce ==
    /\ s.pc = "delete"
    /\ pc' = IF pc = None THEN None ELSE [pc EXCEPT !.deleting = TRUE]
    /\ s' = [pc |-> "pvc"]
    /\ UNCHANGED <<spec, fin, pods, backup, installed, state, event, data>>

DeleteCluster ==
    /\ s.pc = "delete"
    /\ IF pc = None
       THEN s' = [pc |-> "pvc"] /\ UNCHANGED pc
       ELSE pc' = [pc EXCEPT !.deleting = TRUE] /\ s' = Idle
    /\ UNCHANGED <<spec, fin, pods, backup, installed, state, event, data>>

DeletePVCAndSecrets ==
    /\ s.pc = "pvc"
    /\ objects' = IF "pvc" \in fin THEN objects \ {"pvc", "user"} ELSE objects
    /\ Finalized("pvc")
    /\ s' = [pc |-> "ssl"]
    /\ UNCHANGED <<spec, pc, pods, backup, installed, state, event, stanza, stopped, ext>>

DeleteTLSSecrets ==
    /\ s.pc = "ssl"
    /\ objects' = IF "ssl" \in fin THEN objects \ {"tls"} ELSE objects
    /\ Finalized("ssl")
    /\ s' = Idle
    /\ UNCHANGED <<spec, pc, pods, backup, installed, state, event, stanza, stopped, ext>>

Finalize ==
    /\ StopWatchers \/ DeleteStanza \/ DeleteBackupObjects \/ DeleteCluster
       \/ DeletePVCAndSecrets \/ DeleteTLSSecrets
    /\ UNCHANGED <<deleting, promised, cron, changes>>

Reconcile ==
    \/ Read \/ EnsureFinalizers \/ ReconcileExtensions \/ ReconcileScheduledBackups
    \/ CheckPause \/ ApplyCluster \/ UpdateStatus \/ Finalize

-----------------------------------------------------------------------------
(* The upstream controller, the backups and the cron.                      *)
Operate ==
    /\ pc # None
    /\ \/ /\ pc.deleting /\ pods /\ pods' = FALSE
          /\ UNCHANGED <<pc, objects, ext>>
       \/ /\ pc.deleting /\ ~pods /\ pc' = None
          /\ UNCHANGED <<pods, objects, ext>>
       \/ /\ Gone /\ ~pc.deleting          \* Kubernetes collects what it owned
          /\ pc' = [pc EXCEPT !.deleting = TRUE]
          /\ UNCHANGED <<pods, objects, ext>>
       \/ /\ ~pc.deleting /\ ~pc.paused /\ pods = pc.shutdown
          /\ pods' = ~pods
          /\ objects' = objects \union {"pvc", "user", "tls"}
          /\ ext' = (ext \/ (pods' /\ "pvc" \notin objects))
          /\ UNCHANGED pc
    /\ event' = TRUE
    /\ UNCHANGED <<stanza, stopped, backup, cron, changes>>

Create == \E b \in Backups : backup[b] = None /\ backup' = [backup EXCEPT ![b] = "New"]

\* Backups of the user and of the cron.  One that has begun takes its time, and
\* fails without Pods.
NewBackup ==
    /\ "backup" \in changes /\ changes' = changes \ {"backup"} /\ ~Gone
    /\ Create
    /\ UNCHANGED <<pc, pods, objects, ext, stanza, stopped, cron, event>>

CreateScheduledBackup ==
    /\ cron /\ ~Gone /\ state = "ready"
    /\ Create
    /\ UNCHANGED <<pc, pods, objects, ext, stanza, stopped, cron, event, changes>>

\* The cron notices that its cluster is gone.
CronEnds ==
    /\ cron /\ Gone /\ cron' = FALSE
    /\ UNCHANGED <<pc, pods, objects, ext, stanza, stopped, backup, event, changes>>

StartBackup(b) ==
    /\ backup[b] = "New" /\ pc # None
    /\ ~deleting /\ ~spec.unmanaged /\ ~spec.pause
    /\ backup' = [backup EXCEPT ![b] = "Running"]
    /\ event' = TRUE
    /\ UNCHANGED <<pc, pods, objects, ext, stanza, stopped, cron, changes>>

\* The backups of an unmanaged cluster are not followed.
EndBackup(b) ==
    /\ backup[b] = "Running" /\ (deleting \/ ~spec.unmanaged)
    /\ backup' = [backup EXCEPT ![b] = "Ended"]
    /\ stanza' = (stanza \/ (pods /\ ~stopped))
    /\ event' = TRUE
    /\ UNCHANGED <<pc, pods, objects, ext, stopped, cron, changes>>

World ==
    /\ Operate \/ NewBackup \/ CreateScheduledBackup \/ CronEnds
       \/ \E b \in Backups : StartBackup(b) \/ EndBackup(b)
    /\ UNCHANGED <<spec, deleting, fin, promised, installed, state, s>>

-----------------------------------------------------------------------------
(* The user, and faults.                                                   *)
Change(what) == what \in changes /\ changes' = changes \ {what}

Edit ==
    /\ ~deleting
    /\ \/ Change("pause") /\ spec' = [spec EXCEPT !.pause = TRUE]
       \/ Change("resume") /\ spec.pause /\ spec' = [spec EXCEPT !.pause = FALSE]
       \/ Change("unmanage") /\ spec' = [spec EXCEPT !.unmanaged = TRUE]
       \/ Change("manage") /\ spec.unmanaged /\ spec' = [spec EXCEPT !.unmanaged = FALSE]
       \/ Change("ext") /\ installed /\ spec' = [spec EXCEPT !.ext = FALSE]
       \/ Change("secret") /\ spec' = [spec EXCEPT !.secret = FALSE]
       \/ Change("schedule") /\ spec' = [spec EXCEPT !.scheduled = FALSE]
       \/ Change("unlist") /\ spec' = [spec EXCEPT !.listed = FALSE]
    /\ event' = TRUE
    /\ UNCHANGED <<deleting, fin, promised, pc, pods, installed, state, backup, cron, s, data>>

\* Deletion; the Pods run, or there are no backups to delete.
Delete ==
    /\ Change("delete")
    /\ pods \/ "early" \in changes
    /\ deleting' = TRUE /\ promised' = fin /\ event' = TRUE
    /\ UNCHANGED <<spec, fin, pc, pods, installed, state, backup, cron, s, data>>

\* The cron lives in the memory of the operator.
Crash ==
    /\ Change("crash") /\ s.pc # "idle"
    /\ s' = Idle /\ event' = TRUE /\ cron' = FALSE
    /\ UNCHANGED <<spec, deleting, fin, promised, pc, pods, installed, state, backup, data>>

Next == Reconcile \/ World \/ Edit \/ Delete \/ Crash

Spec == Init /\ [][Next]_vars

-----------------------------------------------------------------------------
(* Properties.                                                             *)

\* The finalizers that delete volumes and Secrets run after the PostgresCluster is
\* gone: no instance ever runs without its volume.
VolumesOutlivePods == pods => "pvc" \in objects

\* Whenever nothing is left to do, the cluster is what its spec says: paused,
\* unmanaged or running; without a removed extension, unless the Secret of the storage
\* went too; with the schedule of a repository, or of volume snapshots, that it still
\* lists.  A deleted one is gone with all that its finalizers promised to delete.
ClusterFollowsSpec ==
    (~ENABLED <<Reconcile \/ World>>_vars) =>
        /\ deleting =>
            /\ fin = {} /\ pc = None /\ ~pods /\ ~cron
            /\ "backups" \in promised => ~stanza
            /\ "pvc" \in promised => objects \intersect {"pvc", "user"} = {}
            /\ "ssl" \in promised => "tls" \notin objects
        /\ ~deleting /\ spec.unmanaged /\ pc # None => pc.paused
        /\ ~deleting /\ ~spec.unmanaged =>
            /\ ~pc.paused /\ pods = ~spec.pause
            /\ ext => spec.ext \/ ~spec.secret
            /\ spec.listed => cron = spec.scheduled
=============================================================================
