---------------------------- MODULE ManualBackup ----------------------------
(***************************************************************************)
(* A pgBackRest backup requested with a PerconaPGBackup object.  Three     *)
(* reconcilers of one operator process, each a single worker, hand the     *)
(* request on through annotations:                                         *)
(*                                                                         *)
(*   W  percona/controller/pgbackup      PerconaPGBackup -> annotations of *)
(*                                       the PerconaPGCluster              *)
(*   P  percona/controller/pgcluster     PerconaPGCluster -> annotations   *)
(*                                       of the PostgresCluster            *)
(*   C  internal/.../postgrescluster     PostgresCluster -> backup Job     *)
(*                                                                         *)
(* and the way back is the Job's status, which W reads to finish the       *)
(* PerconaPGBackup.  A reconcile is a sequence of API calls; one action is *)
(* a stretch between two writes that others can observe, on the values the *)
(* reconcile read earlier (snap, p.ann, c.rec).                            *)
(***************************************************************************)
EXTENDS Naturals, FiniteSets

CONSTANTS
    Backups,   \* PerconaPGBackup objects; each has a name of its own
    Jobs,      \* bound: the backup Jobs that can be created
    None,      \* no annotation, no Job, no holder
    Faults     \* what the environment may do besides running Jobs

\* delete: users delete backups.  reject: the cluster does not accept the
\* backup (no repoName, backups disabled).  notReady: the cluster is paused, has
\* no writable instance or no repository host.  quickJobs: a Job may end before
\* W, which polls every five seconds, has recorded its name.  jobFails: Jobs
\* fail.  jobLost: a Job is removed together with its finalizer.  ttl: the Job's
\* ttlSecondsAfterFinished.  expire: pgBackRest's retention drops the data of a
\* backup.  staleJobs: the informer cache of Jobs lags.  clusterDelete: the
\* PerconaPGCluster is deleted.  crash: the operator restarts.
FaultKinds == {"delete", "reject", "notReady", "quickJobs", "jobFails", "jobLost",
               "ttl", "expire", "staleJobs", "clusterDelete", "crash"}

ASSUME NoneAssumption == None \notin Backups \cup Jobs
ASSUME FaultAssumption == Faults \subseteq FaultKinds

VARIABLES
    bk,        \* the PerconaPGBackup objects
    jobs,      \* the Jobs
    pg,        \* life of the PerconaPGCluster: live, deleting, gone
    ann,       \* its annotations pgbackrest-backup and backup-in-progress
    crunchy,   \* the PostgresCluster: its life, the two annotations and
               \* status.pgbackrest.manualBackup.id
    lease,     \* holder of the backup lock (BackupLease)
    w, p, c    \* the workers: where they are and what they have read

vars == <<bk, jobs, pg, ann, crunchy, lease, w, p, c>>

-----------------------------------------------------------------------------
(* Objects.                                                                *)

Terminal == {"Succeeded", "Failed"}
States   == {"New", "Starting", "Running"} \cup Terminal

Backup == [phase : {"absent", "live", "gone"}, state : States,
           deleting : BOOLEAN,
           fin : BOOLEAN,                    \* finalizer delete-backup
           job : Jobs \cup {None},           \* status.jobName
           cond : {"none", "True", "False"}] \* BackupLeaseAcquired

Unborn == [phase |-> "absent", state |-> "New", deleting |-> FALSE,
           fin |-> FALSE, job |-> None, cond |-> "none"]

Job == [phase : {"none", "live", "gone"},
        name : Backups \cup {None},          \* annotation pgbackrest-backup
        status : {"running", "succeeded", "failed"},
        labelled : BOOLEAN,                  \* pgBackRest labels
        keep : BOOLEAN,                      \* finalizer keep-job
        deleting : BOOLEAN, owner : Backups \cup {None}]

NoJob == [phase |-> "none", name |-> None, status |-> "running",
          labelled |-> FALSE, keep |-> FALSE, deleting |-> FALSE, owner |-> None]

Annotations == [backup : Backups \cup {None}, inProgress : Backups \cup {None}]
NoAnnotations == [backup |-> None, inProgress |-> None]

Live(b) == bk[b].phase = "live"
CrunchyExists == crunchy.life # "gone"
Exists(j) == jobs[j].phase = "live"
Finished(job) == job.status # "running"

\* The API server keeps an object with finalizers and drops one without.
Settle(job) == IF job.deleting /\ ~job.keep
               THEN [job EXCEPT !.phase = "gone", !.labelled = FALSE]
               ELSE job
DeleteJob(job) == Settle([job EXCEPT !.deleting = TRUE])
RemoveKeepJobFinalizer(job) == Settle([job EXCEPT !.keep = FALSE])
SetJob(j, job) == jobs' = [jobs EXCEPT ![j] = job]

\* UpdateStatus re-reads the object and writes the given one; an object that is
\* gone fails the reconcile.
SetBackup(b, val) == bk' = [bk EXCEPT ![b] = IF Live(b) THEN val ELSE bk[b]]

\* Deleting an object that has finalizers only marks it.
Deleted(b) == IF bk[b].fin THEN [bk[b] EXCEPT !.deleting = TRUE]
                           ELSE [Unborn EXCEPT !.phase = "gone"]

WIdle == [pc |-> "idle", b |-> None, snap |-> Unborn, pgNil |-> FALSE,
          job |-> None, then |-> "none"]
PIdle == [pc |-> "idle", ann |-> NoAnnotations, todo |-> {}]
CIdle == [pc |-> "idle", job |-> None, rec |-> NoJob, before |-> None,
          ann |-> None, reset |-> None]

WPCs == {"idle", "down", "lease", "ensure", "state", "started", "finalize", "unlabel",
         "clear", "delProgress", "dropFin", "complete"}

TypeOK ==
    /\ bk \in [Backups -> Backup]
    /\ jobs \in [Jobs -> Job]
    /\ pg \in {"live", "deleting", "gone"}
    /\ ann \in Annotations
    /\ crunchy \in [life : {"live", "deleting", "gone"}, backup : Backups \cup {None},
                    inProgress : Backups \cup {None}, manual : Backups \cup {None}]
    /\ lease \in Backups \cup {None}
    /\ w \in [pc : WPCs, b : Backups \cup {None}, snap : Backup,
              pgNil : BOOLEAN, job : Jobs \cup {None},
              then : {"none"} \cup Terminal]
    /\ p \in [pc : {"idle", "down", "jobs"}, ann : Annotations, todo : SUBSET Jobs]
    /\ c \in [pc : {"idle", "down", "manual", "apply", "patch"}, job : Jobs \cup {None},
              rec : Job, before : Backups \cup {None}, ann : Backups \cup {None},
              reset : Backups \cup {None}]

Init ==
    /\ bk = [b \in Backups |-> Unborn]
    /\ jobs = [j \in Jobs |-> NoJob]
    /\ pg = "live"
    /\ ann = NoAnnotations
    /\ crunchy = [life |-> "live", backup |-> None, inProgress |-> None, manual |-> None]
    /\ lease = None
    /\ w = WIdle /\ p = PIdle /\ c = CIdle

-----------------------------------------------------------------------------
(* W: PGBackupReconciler.                                                  *)

wb == w.b
WGoto(l) == w' = [w EXCEPT !.pc = l]
WStop == w' = WIdle

\* The reads at the head of Reconcile.  A backup in progress whose cluster is
\* gone or going is failed here.
WGet(b) ==
    LET pgNil == pg # "live"
        state == IF pgNil /\ bk[b].state \in {"Starting", "Running"}
                 THEN "Failed" ELSE bk[b].state
    IN  /\ w.pc = "idle" /\ Live(b)
        /\ bk' = [bk EXCEPT ![b].state = state]
        /\ w' = [WIdle EXCEPT !.pc = "lease", !.b = b, !.snap = bk'[b], !.pgNil = pgNil]
        /\ UNCHANGED <<jobs, pg, ann, crunchy, lease, p, c>>

\* checkStale; BackupLease shows why the check and the write may be one step.
Stale(h) == Live(h) => bk[h].state \in Terminal
Obtainable == lease \notin {None, wb} => Stale(lease)

\* Mutant of AfterLease: ensureFinalizers is forgotten.
AfterLeaseNoFinalizer(snap) ==
    IF snap.deleting \/ snap.state = "Failed" THEN "finalize" ELSE "state"

\* Where Reconcile goes once handleLease lets it pass.
AfterLease(snap) == CASE snap.deleting \/ snap.state = "Failed" -> "finalize"
                      [] ~snap.deleting /\ snap.state = "Succeeded" -> "state"
                      [] ~snap.deleting /\ snap.state \notin Terminal -> "ensure"

\* handleLease of a finished or deleted backup.  A Lease that someone else
\* holds by now makes the reconcile fail.
WRelease ==
    /\ w.pc = "lease" /\ (w.snap.state \in Terminal \/ w.snap.deleting)
    /\ \/ /\ w.snap.cond # "True"
          /\ WGoto(AfterLease(w.snap))
          /\ UNCHANGED <<lease, bk>>
       \/ /\ w.snap.cond = "True" /\ lease \in {None, wb}
          /\ lease' = None
          /\ SetBackup(wb, [bk[wb] EXCEPT !.cond = "none"])
          /\ IF Live(wb) THEN WGoto(AfterLease(w.snap)) ELSE WStop
       \/ /\ w.snap.cond = "True" /\ lease \notin {None, wb}
          /\ WStop
          /\ UNCHANGED <<lease, bk>>
    /\ UNCHANGED <<jobs, pg, ann, crunchy, p, c>>

\* handleLease of every other backup.
WAcquire ==
    /\ w.pc = "lease" /\ w.snap.state \notin Terminal /\ ~w.snap.deleting
    /\ \/ /\ Obtainable
          /\ lease' = wb
          /\ SetBackup(wb, [bk[wb] EXCEPT !.cond = "True"])
          /\ IF Live(wb) THEN WGoto(AfterLease(w.snap)) ELSE WStop
       \/ /\ ~Obtainable
          /\ SetBackup(wb, [bk[wb] EXCEPT !.cond = "False"])
          /\ WStop
          /\ UNCHANGED lease
    /\ UNCHANGED <<jobs, pg, ann, crunchy, p, c>>

\* ensureFinalizers: a merge patch, which fails when the object is gone.
WEnsureFinalizers ==
    /\ w.pc = "ensure"
    /\ SetBackup(wb, [bk[wb] EXCEPT !.fin = TRUE])
    /\ IF Live(wb) THEN w' = [w EXCEPT !.pc = "state", !.snap.fin = TRUE] ELSE WStop
    /\ UNCHANGED <<jobs, pg, ann, crunchy, lease, p, c>>

\* findBackupJob: by status.jobName, or by the Job's annotation among the
\* labelled Jobs, in the order the API lists them.
findBackupJob ==
    LET listed == {j \in Jobs : Exists(j) /\ jobs[j].labelled /\ jobs[j].name = wb}
    IN  IF w.snap.job # None THEN {w.snap.job} \cap {j \in Jobs : Exists(j)} ELSE listed

InState(s) == w.pc = "state" /\ w.snap.state = s

\* The backup names no repository, or backups are disabled.
WReject ==
    /\ "reject" \in Faults /\ InState("New") /\ ~w.pgNil
    /\ SetBackup(wb, [bk[wb] EXCEPT !.state = "Failed"])
    /\ WStop
    /\ UNCHANGED <<jobs, pg, ann, crunchy, lease, p, c>>

\* The request is written to the annotations of the PerconaPGCluster, unless they
\* belong to another backup.
startBackup ==
    /\ ann.inProgress \in {None, wb}
    /\ ann' = [backup |-> wb, inProgress |-> wb]

\* BackupNew, up to startBackup.
WNew ==
    /\ InState("New")
    /\ \/ /\ ~w.pgNil /\ findBackupJob # {}
          /\ WGoto("started") /\ UNCHANGED ann
       \/ /\ ~w.pgNil /\ findBackupJob = {} /\ pg # "gone"
          /\ startBackup
          /\ WGoto("started")
       \/ /\ \/ w.pgNil \/ "notReady" \in Faults
             \/ findBackupJob = {} /\ (pg = "gone" \/ ann.inProgress \notin {None, wb})
          /\ WStop /\ UNCHANGED ann
    /\ UNCHANGED <<bk, jobs, pg, crunchy, lease, p, c>>

\* The rest of BackupNew fails when the cluster does not define the repository.
WStarted ==
    /\ w.pc = "started"
    /\ \/ SetBackup(wb, [bk[wb] EXCEPT !.state = "Starting"])
       \/ "reject" \in Faults /\ UNCHANGED bk
    /\ WStop
    /\ UNCHANGED <<jobs, pg, ann, crunchy, lease, p, c>>

\* failIfClusterIsNotReady: ReadyForBackup has been False for two minutes and
\* the request has reached the PostgresCluster.
failIfClusterIsNotReady ==
    /\ "notReady" \in Faults
    /\ CrunchyExists /\ crunchy.backup # None /\ crunchy.inProgress # None

WStarting ==
    /\ InState("Starting")
    /\ \/ \E j \in findBackupJob :
             SetBackup(wb, [bk[wb] EXCEPT !.state = "Running", !.job = j])
       \/ /\ findBackupJob = {} /\ failIfClusterIsNotReady
          /\ SetBackup(wb, [bk[wb] EXCEPT !.state = "Failed"])
       \/ findBackupJob = {} /\ UNCHANGED bk
    /\ WStop
    /\ UNCHANGED <<jobs, pg, ann, crunchy, lease, p, c>>

\* Mutant of WRunning: a Job that is gone is taken for one that completed.
WRunningGoneIsDone ==
    LET j == w.snap.job
    IN  /\ InState("Running")
        /\ \/ /\ Exists(j) /\ jobs[j].status = "running"
              /\ WStop
           \/ /\ ~Exists(j) \/ Finished(jobs[j])
              /\ w' = [w EXCEPT !.pc = "finalize",
                                !.then = IF Exists(j) /\ jobs[j].status = "failed"
                                         THEN "Failed" ELSE "Succeeded"]
        /\ UNCHANGED <<bk, jobs, pg, ann, crunchy, lease, p, c>>

\* BackupRunning: the Job decides.  Its end is recorded only after the steps of
\* the delete-backup finalizer, which Reconcile runs first.
WRunning ==
    LET j == w.snap.job
    IN  /\ InState("Running")
        /\ \/ /\ ~Exists(j)
              /\ SetBackup(wb, [bk[wb] EXCEPT !.state = "Failed"])
              /\ WStop
           \/ /\ Exists(j) /\ jobs[j].status = "running"
              /\ WStop /\ UNCHANGED bk
           \/ /\ Exists(j) /\ Finished(jobs[j])
              /\ w' = [w EXCEPT !.pc = "finalize",
                                !.then = IF jobs[j].status = "succeeded"
                                         THEN "Succeeded" ELSE "Failed"]
              /\ UNCHANGED bk
        /\ UNCHANGED <<jobs, pg, ann, crunchy, lease, p, c>>

\* BackupSucceeded: the Job may go.
WSucceeded ==
    /\ InState("Succeeded")
    /\ \/ \E j \in findBackupJob : SetJob(j, RemoveKeepJobFinalizer(jobs[j]))
       \/ findBackupJob = {} /\ UNCHANGED jobs
    /\ WStop
    /\ UNCHANGED <<bk, pg, ann, crunchy, lease, p, c>>

-----------------------------------------------------------------------------
(* W, continued: the delete-backup finalizer.  It runs for a deleted or     *)
(* failed backup (runFinalizers) and, before the end is recorded, for a     *)
(* backup whose Job has finished (then # none).                             *)

AfterFinalizer == IF w.then = "none" THEN WStop ELSE WGoto("complete")

\* runFinalizers reads the cluster again.
FinalizerPgNil == IF w.then = "none" THEN pg # "live" ELSE w.pgNil

\* getBackupInProgress prefers the annotation of the PostgresCluster.
getBackupInProgress == IF crunchy.inProgress # None THEN crunchy.inProgress
                                                    ELSE ann.inProgress

Finalizing == w.pc = "finalize" /\ w.snap.fin

WNoFinalizer ==
    /\ w.pc = "finalize" /\ ~w.snap.fin
    /\ AfterFinalizer
    /\ UNCHANGED <<bk, jobs, pg, ann, crunchy, lease, p, c>>

\* Mutant of WFinalizeNoCluster: the keep-job finalizer is not removed.
WFinalizeNoClusterKeepsJob ==
    /\ Finalizing /\ FinalizerPgNil
    /\ \/ /\ findBackupJob = {}
          /\ WGoto("dropFin") /\ UNCHANGED jobs
       \/ /\ \E j \in findBackupJob : SetJob(j, DeleteJob(jobs[j]))
          /\ WStop
    /\ UNCHANGED <<bk, pg, ann, crunchy, lease, p, c>>

\* Without a cluster there are no annotations to clean: the Job is deleted and
\* the finalizer stays until the Job is gone.
WFinalizeNoCluster ==
    /\ Finalizing /\ FinalizerPgNil
    /\ \/ /\ findBackupJob = {}
          /\ WGoto("dropFin") /\ UNCHANGED jobs
       \/ /\ \E j \in findBackupJob :
                SetJob(j, RemoveKeepJobFinalizer(DeleteJob(jobs[j])))
          /\ WStop
    /\ UNCHANGED <<bk, pg, ann, crunchy, lease, p, c>>

\* A Job that status.jobName does not name yet is recorded first: it cannot be
\* found any more once its labels are removed.
WRecordJob ==
    /\ Finalizing /\ ~FinalizerPgNil /\ w.snap.job = None
    /\ \E j \in findBackupJob : SetBackup(wb, [bk[wb] EXCEPT !.job = j])
    /\ WStop
    /\ UNCHANGED <<jobs, pg, ann, crunchy, lease, p, c>>

\* finishBackup runs with the Job, or without one.
Finishing == /\ Finalizing /\ ~FinalizerPgNil
             /\ w.snap.job # None \/ findBackupJob = {}

Clusters == CrunchyExists /\ pg # "gone"

\* The exit of finishBackup: the cluster does not work on this backup.  The
\* Job of a deleted backup is deleted.
WFinishExit ==
    /\ Finishing /\ Clusters /\ getBackupInProgress # wb
    /\ \/ /\ w.snap.deleting
          /\ \E j \in findBackupJob :
                SetJob(j, RemoveKeepJobFinalizer(DeleteJob(jobs[j])))
       \/ /\ ~w.snap.deleting \/ findBackupJob = {}
          /\ UNCHANGED jobs
    /\ WGoto("dropFin")
    /\ UNCHANGED <<bk, pg, ann, crunchy, lease, p, c>>

\* Mutant of WFinishRequest: both annotations are deleted at once.
WFinishRequestBoth ==
    /\ Finishing /\ Clusters /\ getBackupInProgress = wb
    /\ \/ crunchy.backup # None /\ ann' = NoAnnotations /\ WStop
       \/ /\ crunchy.backup = None
          /\ \E j \in {None} \cup findBackupJob :
                w' = [w EXCEPT !.pc = "unlabel", !.job = j]
          /\ UNCHANGED ann
    /\ UNCHANGED <<bk, jobs, pg, crunchy, lease, p, c>>

\* deleteAnnotation(pgbackrest-backup): removed from the PerconaPGCluster until
\* it has disappeared from the PostgresCluster.
WFinishRequest ==
    /\ Finishing /\ Clusters /\ getBackupInProgress = wb
    /\ \/ /\ crunchy.backup # None
          /\ ann' = [ann EXCEPT !.backup = None]
          /\ WStop
       \/ /\ crunchy.backup = None
          /\ \E j \in {None} \cup findBackupJob :
                /\ j = None <=> findBackupJob = {}
                /\ w' = [w EXCEPT !.pc = "unlabel", !.job = j]
          /\ UNCHANGED ann
    /\ UNCHANGED <<bk, jobs, pg, crunchy, lease, p, c>>

\* Either Get of getBackupInProgress fails, or no instance is ready to read the
\* repository's information about a backup that succeeded.
WFinishError ==
    /\ Finishing
    /\ ~Clusters \/ ("notReady" \in Faults
                     /\ \E j \in findBackupJob : jobs[j].status = "succeeded")
    /\ WStop
    /\ UNCHANGED <<bk, jobs, pg, ann, crunchy, lease, p, c>>

\* The Job loses the labels by which C and P find it.
WUnlabel ==
    /\ w.pc = "unlabel"
    /\ \/ w.job = None /\ WGoto("clear") /\ UNCHANGED jobs
       \/ /\ w.job # None /\ Exists(w.job)
          /\ SetJob(w.job, [jobs[w.job] EXCEPT !.labelled = FALSE])
          /\ WGoto("clear")
       \/ w.job # None /\ ~Exists(w.job) /\ WStop /\ UNCHANGED jobs
    /\ UNCHANGED <<bk, pg, ann, crunchy, lease, p, c>>

\* status.pgbackrest.manualBackup of the PostgresCluster is cleared.
WClearStatus ==
    /\ w.pc = "clear"
    /\ \/ /\ CrunchyExists
          /\ crunchy' = [crunchy EXCEPT !.manual = None]
          /\ WGoto("delProgress")
       \/ ~CrunchyExists /\ WStop /\ UNCHANGED crunchy
    /\ UNCHANGED <<bk, jobs, pg, ann, lease, p, c>>

\* Mutant of WDeleteProgress: the test of the PostgresCluster is inverted.
WDeleteProgressInverted ==
    /\ w.pc = "delProgress"
    /\ ann' = IF Clusters /\ crunchy.inProgress = None
              THEN [ann EXCEPT !.inProgress = None] ELSE ann
    /\ WStop
    /\ UNCHANGED <<bk, jobs, pg, crunchy, lease, p, c>>

\* deleteAnnotation(backup-in-progress); the exit is taken by a later reconcile.
WDeleteProgress ==
    /\ w.pc = "delProgress"
    /\ ann' = IF Clusters /\ crunchy.inProgress # None
              THEN [ann EXCEPT !.inProgress = None] ELSE ann
    /\ WStop
    /\ UNCHANGED <<bk, jobs, pg, crunchy, lease, p, c>>

\* RunFinalizer removes the finalizer; a deleted object goes with its last one.
WDropFinalizer ==
    /\ w.pc = "dropFin"
    /\ SetBackup(wb, IF bk[wb].deleting
                     THEN [Unborn EXCEPT !.phase = "gone"]
                     ELSE [bk[wb] EXCEPT !.fin = FALSE])
    /\ AfterFinalizer
    /\ UNCHANGED <<jobs, pg, ann, crunchy, lease, p, c>>

WComplete ==
    /\ w.pc = "complete"
    /\ SetBackup(wb, [bk[wb] EXCEPT !.state = w.then])
    /\ WStop
    /\ UNCHANGED <<jobs, pg, ann, crunchy, lease, p, c>>

WStep ==
    \/ WRelease \/ WAcquire \/ WEnsureFinalizers
    \/ WReject \/ WNew \/ WStarted \/ WStarting \/ WRunning \/ WSucceeded
    \/ WNoFinalizer \/ WFinalizeNoCluster \/ WRecordJob
    \/ WFinishExit \/ WFinishRequest \/ WFinishError
    \/ WUnlabel \/ WClearStatus \/ WDeleteProgress
    \/ WDropFinalizer \/ WComplete

-----------------------------------------------------------------------------
(* P: PGClusterReconciler, the part that concerns manual backups.          *)

\* Reconcile reads the PerconaPGCluster and lists the labelled Jobs.
PStart ==
    /\ p.pc = "idle" /\ pg = "live"
    /\ p' = [pc |-> "jobs", ann |-> ann,
             todo |-> {j \in Jobs : Exists(j) /\ jobs[j].labelled}]
    /\ UNCHANGED <<bk, jobs, pg, ann, crunchy, lease, w, c>>

\* Mutant of reconcileBackupJob: a Job without a backup is taken for an orphan
\* before it has finished.
reconcileBackupJobEager(j) ==
    LET owners == {b \in Backups : Live(b) /\ bk[b].job = j}
    IN  /\ p.pc = "jobs" /\ j \in p.todo
        /\ IF ~Exists(j) THEN UNCHANGED jobs
           ELSE IF owners = {}
           THEN SetJob(j, [RemoveKeepJobFinalizer(jobs[j]) EXCEPT !.labelled = FALSE])
           ELSE \E b \in owners : SetJob(j, [jobs[j] EXCEPT !.owner = b])
        /\ p' = [p EXCEPT !.todo = p.todo \ {j}]
        /\ UNCHANGED <<bk, pg, ann, crunchy, lease, w, c>>

\* reconcileBackupJob: a Job whose backup is found becomes its dependent; a
\* finished Job without one is released and unlabelled.  (The listed copy of a
\* Job may be older; a finished Job stays finished, so that is an earlier step.)
reconcileBackupJob(j) ==
    LET owners == {b \in Backups : Live(b) /\ bk[b].job = j}
    IN  /\ p.pc = "jobs" /\ j \in p.todo
        /\ \/ \E b \in owners : Exists(j) /\ SetJob(j, [jobs[j] EXCEPT !.owner = b])
           \/ /\ owners = {} /\ Exists(j) /\ Finished(jobs[j]) /\ jobs[j].keep
              /\ SetJob(j, [RemoveKeepJobFinalizer(jobs[j]) EXCEPT !.labelled = FALSE])
           \/ /\ ~Exists(j) \/ (owners = {} /\ ~(Finished(jobs[j]) /\ jobs[j].keep))
              /\ UNCHANGED jobs
        /\ p' = IF Exists(j) THEN [p EXCEPT !.todo = p.todo \ {j}] ELSE PIdle
        /\ UNCHANGED <<bk, pg, ann, crunchy, lease, w, c>>

\* cleanupOutdatedBackups: a succeeded backup that the repository does not know
\* any more is deleted, its Job first.
cleanupOutdatedBackups(b) ==
    LET j == bk[b].job
    IN  /\ "expire" \in Faults
        /\ p.pc = "jobs" /\ p.todo = {}
        /\ Live(b) /\ bk[b].state = "Succeeded" /\ j # None
        /\ jobs' = IF Exists(j) THEN [jobs EXCEPT ![j] = DeleteJob(@)] ELSE jobs
        /\ bk' = [bk EXCEPT ![b] = Deleted(b)]
        /\ UNCHANGED <<pg, ann, crunchy, lease, w, p, c>>

\* removeStaleBackupAnnotation, on the copy that ToCrunchy writes.
removeStaleBackupAnnotation(a) ==
    IF a.backup # None /\ ~Live(a.backup) THEN [a EXCEPT !.backup = None] ELSE a

\* CreateOrUpdate of the PostgresCluster with ToCrunchy.
PSync ==
    LET a == removeStaleBackupAnnotation(p.ann)
    IN  /\ p.pc = "jobs" /\ p.todo = {}
        /\ crunchy' = [crunchy EXCEPT !.backup = a.backup, !.inProgress = a.inProgress]
        /\ p' = PIdle
        /\ UNCHANGED <<bk, jobs, pg, ann, lease, w, c>>

\* Deletion of the PerconaPGCluster: the PostgresCluster is deleted and waited
\* for, then the finalizers run.
PDelete ==
    /\ p.pc = "idle" /\ pg = "deleting"
    /\ \/ /\ CrunchyExists
          /\ crunchy' = [crunchy EXCEPT !.life = "deleting"]
          /\ UNCHANGED <<pg, ann>>
       \/ /\ ~CrunchyExists
          /\ pg' = "gone" /\ ann' = NoAnnotations
          /\ UNCHANGED crunchy
    /\ UNCHANGED <<bk, jobs, lease, w, p, c>>

PStep == \/ PSync \/ PDelete
         \/ \E j \in Jobs : reconcileBackupJob(j)
         \/ \E b \in Backups : cleanupOutdatedBackups(b)

-----------------------------------------------------------------------------
(* C: the PostgresCluster reconciler, reconcileManualBackup.               *)

CStop == c' = CIdle

\* handleDelete: the last finalizer of a deleted PostgresCluster.  Only this
\* worker removes the object, so it is there while the worker reconciles it.
CHandleDelete ==
    /\ c.pc = "idle" /\ crunchy.life = "deleting"
    /\ crunchy' = [life |-> "gone", backup |-> None, inProgress |-> None, manual |-> None]
    /\ UNCHANGED <<bk, jobs, pg, ann, lease, w, p, c>>

\* getPGBackRestResources lists the labelled Jobs early in the reconcile, from
\* the informer cache, which may not have seen a Job that was just created.
CObserve ==
    LET labelled == {j \in Jobs : Exists(j) /\ jobs[j].labelled}
    IN  /\ c.pc = "idle" /\ crunchy.life = "live"
        /\ \/ \E j \in labelled :
                c' = [CIdle EXCEPT !.pc = "manual", !.job = j, !.rec = jobs[j],
                                   !.before = crunchy.manual]
           \/ /\ labelled = {} \/ "staleJobs" \in Faults
              /\ c' = [CIdle EXCEPT !.pc = "manual", !.before = crunchy.manual]
        /\ UNCHANGED <<bk, jobs, pg, ann, crunchy, lease, w, p>>

\* manualBackupJobNeeded, read from the API server.
manualBackupJobNeeded(n) ==
    Live(n) /\ ~bk[n].deleting /\ bk[n].state \notin Terminal /\ bk[n].job = None

\* status.pgbackrest.manualBackup.finished as reconcileManualBackup computes it
\* from the observed Job; it is a field of the copy and is not stored.
ManualFinished == c.job # None /\ Finished(c.rec) /\ crunchy.manual = c.rec.name

\* A finished Job of another backup makes way for the requested one.
Obsolete == /\ c.job # None /\ Finished(c.rec)
            /\ crunchy.backup \notin {None, c.rec.name}

CDeleteObsolete ==
    /\ c.pc = "manual" /\ Obsolete
    /\ jobs' = IF Exists(c.job) THEN [jobs EXCEPT ![c.job] = DeleteJob(@)] ELSE jobs
    /\ CStop
    /\ UNCHANGED <<bk, pg, ann, crunchy, lease, w, p>>

\* Nothing is requested, or there is no writable instance.
CNothing ==
    /\ c.pc = "manual" /\ ~Obsolete
    /\ crunchy.backup = None \/ "notReady" \in Faults
    /\ CStop
    /\ UNCHANGED <<bk, jobs, pg, ann, crunchy, lease, w, p>>

\* The status is reset for a new request; then the Job is needed, or not, or the
\* repository is not ready for it.
CRequest ==
    LET n == crunchy.backup
        next == [c EXCEPT !.ann = n,
                          !.reset = IF crunchy.manual # n THEN n ELSE None]
    IN  /\ c.pc = "manual" /\ ~Obsolete /\ n # None
        /\ \/ /\ (ManualFinished /\ crunchy.manual = n) \/ "notReady" \in Faults
              /\ c' = [next EXCEPT !.pc = "patch"]
           \/ /\ ~(ManualFinished /\ crunchy.manual = n)
              /\ c.job = None /\ ~manualBackupJobNeeded(n)
              /\ c' = [next EXCEPT !.pc = "patch"]
           \/ /\ ~(ManualFinished /\ crunchy.manual = n)
              /\ c.job = None => manualBackupJobNeeded(n)
              /\ c' = [next EXCEPT !.pc = "apply"]
        /\ UNCHANGED <<bk, jobs, pg, ann, crunchy, lease, w, p>>

\* A Job with a new name.
CCreate ==
    /\ c.pc = "apply" /\ c.job = None
    /\ \E j \in Jobs :
          /\ jobs[j].phase = "none"
          /\ j = CHOOSE k \in Jobs : jobs[k].phase = "none"
          /\ SetJob(j, [NoJob EXCEPT !.phase = "live", !.name = c.ann,
                                     !.labelled = TRUE, !.keep = TRUE])
    /\ c' = [c EXCEPT !.pc = "patch"]
    /\ UNCHANGED <<bk, pg, ann, crunchy, lease, w, p>>

\* Mutant of CApply: the apply is not bound to a resource version.
CApplyForced ==
    /\ c.pc = "apply" /\ c.job # None
    /\ jobs' = IF Exists(c.job) /\ c.rec.name = c.ann /\ ~jobs[c.job].deleting
               THEN [jobs EXCEPT ![c.job].labelled = TRUE, ![c.job].keep = TRUE]
               ELSE jobs
    /\ c' = [c EXCEPT !.pc = "patch"]
    /\ UNCHANGED <<bk, pg, ann, crunchy, lease, w, p>>

\* The apply of the observed Job carries its resource version: it conflicts when
\* the Job has changed; the pod template of a Job for another backup is
\* immutable; a Job being deleted takes no finalizer.
CApply ==
    /\ c.pc = "apply" /\ c.job # None
    /\ jobs' = IF jobs[c.job] = c.rec /\ c.rec.name = c.ann /\ ~c.rec.deleting
               THEN [jobs EXCEPT ![c.job].labelled = TRUE, ![c.job].keep = TRUE]
               ELSE jobs
    /\ c' = [c EXCEPT !.pc = "patch"]
    /\ UNCHANGED <<bk, pg, ann, crunchy, lease, w, p>>

\* patchClusterStatus at the end: a merge patch against what was read first.
CPatchStatus ==
    /\ c.pc = "patch"
    /\ crunchy' = IF c.reset \notin {None, c.before}
                  THEN [crunchy EXCEPT !.manual = c.reset] ELSE crunchy
    /\ CStop
    /\ UNCHANGED <<bk, jobs, pg, ann, lease, w, p>>

CStep == CHandleDelete \/ CDeleteObsolete \/ CNothing \/ CRequest \/ CCreate \/ CApply \/ CPatchStatus

-----------------------------------------------------------------------------
(* The environment.                                                        *)

Create(b) ==
    /\ bk[b].phase = "absent"
    /\ bk' = [bk EXCEPT ![b].phase = "live"]
    /\ UNCHANGED <<jobs, pg, ann, crunchy, lease, w, p, c>>

Delete(b) ==
    /\ "delete" \in Faults /\ Live(b) /\ ~bk[b].deleting
    /\ bk' = [bk EXCEPT ![b] = Deleted(b)]
    /\ UNCHANGED <<jobs, pg, ann, crunchy, lease, w, p, c>>

DeleteCluster ==
    /\ "clusterDelete" \in Faults /\ pg = "live"
    /\ pg' = "deleting"
    /\ UNCHANGED <<bk, jobs, ann, crunchy, lease, w, p, c>>

JobFinish(j) ==
    /\ Exists(j) /\ jobs[j].status = "running" /\ ~jobs[j].deleting
    /\ \/ "quickJobs" \in Faults
       \/ LET b == jobs[j].name
          IN  Live(b) => bk[b].job # None \/ bk[b].state \in Terminal
    /\ \E s \in {"succeeded"} \cup {x \in {"failed"} : "jobFails" \in Faults} :
          SetJob(j, [jobs[j] EXCEPT !.status = s])
    /\ UNCHANGED <<bk, pg, ann, crunchy, lease, w, p, c>>

\* Kubernetes deletes a finished Job after its time to live, and the dependents
\* of an object that is gone.
JobCollect(j) ==
    /\ Exists(j) /\ ~jobs[j].deleting
    /\ \/ "ttl" \in Faults /\ Finished(jobs[j])
       \/ jobs[j].owner # None /\ bk[jobs[j].owner].phase = "gone"
    /\ SetJob(j, DeleteJob(jobs[j]))
    /\ UNCHANGED <<bk, pg, ann, crunchy, lease, w, p, c>>

JobLost(j) ==
    /\ "jobLost" \in Faults /\ Exists(j)
    /\ SetJob(j, [jobs[j] EXCEPT !.phase = "gone", !.labelled = FALSE])
    /\ UNCHANGED <<bk, pg, ann, crunchy, lease, w, p, c>>

\* The operator's process ends, and another one starts with nothing but what the
\* API server has.
Crash ==
    /\ "crash" \in Faults
    /\ w.pc # "down" /\ <<w, p, c>> # <<WIdle, PIdle, CIdle>>
    /\ w' = [WIdle EXCEPT !.pc = "down"]
    /\ p' = [PIdle EXCEPT !.pc = "down"]
    /\ c' = [CIdle EXCEPT !.pc = "down"]
    /\ UNCHANGED <<bk, jobs, pg, ann, crunchy, lease>>

Restart ==
    /\ w.pc = "down"
    /\ w' = WIdle /\ p' = PIdle /\ c' = CIdle
    /\ UNCHANGED <<bk, jobs, pg, ann, crunchy, lease>>

Next ==
    \/ \E b \in Backups : WGet(b) \/ Create(b) \/ Delete(b)
    \/ WStep
    \/ PStart \/ PStep
    \/ CObserve \/ CStep
    \/ \E j \in Jobs : JobFinish(j) \/ JobCollect(j) \/ JobLost(j)
    \/ DeleteCluster \/ Crash \/ Restart

Spec == Init /\ [][Next]_vars

\* Requeues and watches bring every live backup back to W, and every change of
\* a cluster or a backup to P and C; a single worker with a FIFO queue serves
\* all keys.  Jobs end and Kubernetes collects garbage.  The operator is not
\* restarted for ever.
Fairness ==
    /\ WF_vars(WStep) /\ WF_vars(PStart \/ PStep) /\ WF_vars(CObserve \/ CStep)
    /\ \A b \in Backups : SF_vars(WGet(b))
    /\ \A j \in Jobs : WF_vars(JobFinish(j)) /\ WF_vars(JobCollect(j))
    /\ WF_vars(Restart) /\ <>[][~Crash]_vars

FairSpec == Spec /\ Fairness

-----------------------------------------------------------------------------
(* Properties.                                                             *)

\* No backup gets two Jobs: what K8SPG-804 and K8SPG-992 guard against in
\* reconcileManualBackup.  A second Job needs W, P and C to interleave: one hides
\* the first Job from C while the request is still in the annotations.
OneJobPerBackup ==
    \A j, k \in Jobs : jobs[j].name # None /\ jobs[j].name = jobs[k].name => j = k

\* A backup that is Succeeded was made by a Job of that backup which completed,
\* although W learns of the Job by polling and may meet it late, unlabelled,
\* expired or after a restart.
SucceededByOwnJob ==
    \A b \in Backups : bk[b].state = "Succeeded" =>
        /\ bk[b].job # None
        /\ jobs[bk[b].job].status = "succeeded" /\ jobs[bk[b].job].name = b

\* While backup-in-progress names a backup, that backup exists and carries the
\* delete-backup finalizer, which alone takes the annotation away again: without
\* an owner it would make startBackup refuse every later backup.
InProgressOwned ==
    pg = "live" /\ ann.inProgress # None =>
        Live(ann.inProgress) /\ bk[ann.inProgress].fin

\* finishBackup returns through its exit only when it is done: for a backup
\* whose Job has finished, the request is out of the PerconaPGCluster and the Job
\* has lost the labels by which C and P find it.
ExitIsClean ==
    w.pc \in {"dropFin", "complete"} /\ w.then # "none" /\ ~w.pgNil /\ pg = "live" =>
        /\ ann.backup # wb
        /\ Exists(w.snap.job) => ~jobs[w.snap.job].labelled

\* K8SPG-1125: labels removed from a Job are not put back by an apply that C
\* computed from an older copy of the Job.
LabelsStayOff ==
    [][\A j \in Jobs : jobs[j].phase = "live" /\ ~jobs[j].labelled
                          => ~jobs'[j].labelled]_vars

\* Every requested backup comes to an end: it passes the lock, its request
\* reaches C, and the result comes back to W, unless a user deletes it.
RequestEnds == \A b \in Backups :
    Live(b) /\ bk[b].state = "New"
        ~> (bk[b].state \in Terminal \/ bk[b].deleting \/ bk[b].phase = "gone")

\* A deleted backup goes: its finalizer finishes in whatever state the deletion
\* of the backup, of the cluster or of the Job caught it.
DeletionEnds == \A b \in Backups : bk[b].deleting ~> bk[b].phase = "gone"

=============================================================================
