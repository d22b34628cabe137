--------------------------- MODULE SnapshotVolume ---------------------------
(***************************************************************************)
(* The dedicated snapshot volume (internal/controller/postgrescluster/     *)
(* snapshots.go): after each backup a Job restores it into a volume of its *)
(* own, and a VolumeSnapshot is taken of that volume.  Job, snapshot and   *)
(* reconciler meet only in the annotations of the volume.                  *)
(***************************************************************************)
EXTENDS Naturals, FiniteSets

CONSTANTS
    MaxBackups,
    None,
    Scenarios   \* sets of changes: what may happen in a behaviour

VARIABLES
    enabled,    \* spec.backups.snapshots is set
    backup,     \* the latest complete backup Job, by its completion; 0: none
    volume,     \* [mark, of, clean, deleting], or None
    job,        \* the restore Job: [mark, state], or None
    snaps,      \* snapshots, by their mark: [state, of, clean], or None
    s, event,   \* the reconciler with the spec it has read, and something for it to do
    changes

vars == <<enabled, backup, volume, job, snaps, s, event, changes>>

Marks == 1..MaxBackups

\* Marks are what the PGBackRestBackupJobCompletion annotations hold.
Idle == [pc |-> "idle"]
Fresh == [mark |-> 0, of |-> 0, clean |-> TRUE, deleting |-> FALSE]

Init ==
    /\ changes \in Scenarios
    /\ enabled = TRUE /\ backup = 0 /\ volume = None /\ job = None
    /\ snaps = [m \in Marks |-> None]
    /\ s = Idle /\ event = TRUE

-----------------------------------------------------------------------------
(* reconcileDedicatedSnapshotVolume.                                       *)
Busy == job # None /\ job.state \in {"new", "running"}

To(pc) == s' = [s EXCEPT !.pc = pc]

\* Snapshots are disabled: the volume is deleted.
DeleteVolume ==
    /\ ~s.enabled
    /\ volume' = IF volume = None THEN None ELSE [volume EXCEPT !.deleting = TRUE]
    /\ To("snapshots")
    /\ UNCHANGED job

\* createDedicatedSnapshotVolume.
CreateVolume ==
    /\ s.enabled /\ volume = None
    /\ volume' = Fresh
    /\ UNCHANGED <<job, s>>

\* The volume holds the latest backup, or there is none (getLatestCompleteBackupJob).
Restored == backup = 0 \/ volume.mark >= backup

\* Mutant: takes the Job it finds for one that succeeded.
SucceededAny == job # None

Succeeded == job # None /\ job.state = "succeeded"

\* dedicatedSnapshotVolumeRestore: the Job is for the backup that is the latest now.
RestoreVolume ==
    /\ job' = [mark |-> backup, state |-> "new"]
    /\ To("snapshots")
    /\ UNCHANGED volume

AnnotateVolume ==
    /\ volume' = [volume EXCEPT !.mark = job.mark]
    /\ To("delete job")
    /\ UNCHANGED job

ReconcileVolume ==
    /\ s.pc = "volume"
    /\ \/ DeleteVolume
       \/ CreateVolume
       \/ /\ s.enabled /\ volume # None
          /\ IF Restored THEN To("snapshots") /\ UNCHANGED <<volume, job>>
             ELSE IF job = None THEN RestoreVolume
             ELSE IF Succeeded THEN AnnotateVolume
             ELSE To("snapshots") /\ UNCHANGED <<volume, job>>
    /\ UNCHANGED <<enabled, backup, snaps, event, changes>>

DeleteJob ==
    /\ s.pc = "delete job"
    /\ job' = None
    /\ To("snapshots")
    /\ UNCHANGED <<enabled, backup, volume, snaps, event, changes>>

-----------------------------------------------------------------------------
(* reconcileVolumeSnapshots.                                               *)
Failed == {m \in Marks : snaps[m] # None /\ snaps[m].state = "failed"}

\* getSnapshotWithLatestError: of the failed ones only the last is kept.
OldErrors == {m \in Failed : \E n \in Failed : n > m}

Without(set) == [m \in Marks |-> IF m \in set THEN None ELSE snaps[m]]

\* Mutant: the others go although the new snapshot may still fail.
SupersededAny ==
    IF volume.mark # 0 /\ snaps[volume.mark] # None THEN Marks \ {volume.mark} ELSE {}

\* A ready snapshot of the present mark replaces all others.
Superseded ==
    IF volume.mark # 0 /\ snaps[volume.mark] # None /\ snaps[volume.mark].state = "ready"
    THEN Marks \ {volume.mark} ELSE {}

\* generateSnapshotOfDedicatedSnapshotVolume.
NewSnapshots(present) ==
    IF volume.mark # 0 /\ snaps[volume.mark] = None
    THEN [present EXCEPT ![volume.mark] = [state |-> "new", of |-> 0, clean |-> FALSE]]
    ELSE present

ReconcileSnapshots ==
    /\ s.pc = "snapshots"
    /\ snaps' = IF ~s.enabled THEN Without(Marks)     \* deleteSnapshots
                ELSE IF volume = None THEN Without(OldErrors)
                ELSE NewSnapshots(Without(OldErrors \union Superseded))
    /\ s' = Idle
    /\ UNCHANGED <<enabled, backup, volume, job, event, changes>>

Wake ==
    /\ s = Idle /\ event
    /\ s' = [pc |-> "volume", enabled |-> enabled] /\ event' = FALSE
    /\ UNCHANGED <<enabled, backup, volume, job, snaps, changes>>

Reconcile == Wake \/ ReconcileVolume \/ DeleteJob \/ ReconcileSnapshots

-----------------------------------------------------------------------------
(* The Job, the storage provider and the cluster.                          *)
Change(what) == what \in changes /\ changes' = changes \ {what}

\* DedicatedSnapshotVolumeRestoreCommand changes the files in place; BackoffLimit is 0.
RestoreJob ==
    /\ job # None /\ volume # None
    /\ \/ /\ job.state = "new" /\ ~volume.deleting
          /\ job' = [job EXCEPT !.state = "running"]
          /\ volume' = [volume EXCEPT !.clean = FALSE]
          /\ UNCHANGED changes
       \/ /\ job.state = "running"
          /\ job' = [job EXCEPT !.state = "succeeded"]
          /\ volume' = [volume EXCEPT !.clean = TRUE, !.of = job.mark]
          /\ UNCHANGED changes
       \/ /\ job.state = "running" /\ Change("jobFails")
          /\ job' = [job EXCEPT !.state = "failed"]
          /\ UNCHANGED volume
    /\ event' = TRUE
    /\ UNCHANGED <<enabled, backup, snaps, s>>

\* A snapshot is cut some time after it was asked for, and ready later.
Provide(m) ==
    /\ snaps[m] # None
    /\ \/ /\ snaps[m].state = "new" /\ volume # None
          /\ snaps' = [snaps EXCEPT ![m] =
                [state |-> "cut", of |-> volume.of, clean |-> volume.clean]]
          /\ UNCHANGED changes
       \/ /\ snaps[m].state = "cut"
          /\ snaps' = [snaps EXCEPT ![m].state = "ready"]
          /\ UNCHANGED changes
       \/ /\ snaps[m].state \in {"new", "cut"} /\ Change("snapshotFails")
          /\ snaps' = [snaps EXCEPT ![m].state = "failed"]
    /\ event' = TRUE
    /\ UNCHANGED <<enabled, backup, volume, job, s>>

Pending == \E m \in Marks : snaps[m] # None /\ snaps[m].state \in {"new", "cut"}

\* A volume goes when neither a pod nor a snapshot uses it.
Terminate ==
    /\ volume # None /\ volume.deleting
    /\ ~Pending /\ ~(job # None /\ job.state = "running")
    /\ volume' = None
    /\ event' = TRUE
    /\ UNCHANGED <<enabled, backup, job, snaps, s, changes>>

World == RestoreJob \/ Terminate \/ \E m \in Marks : Provide(m)

\* A backup completes once the snapshot of the one before it is ready; with "busy"
\* at any time.
Backup ==
    /\ backup < MaxBackups
    /\ "busy" \in changes \/ (~event /\ s = Idle /\ ~Busy /\ ~Pending)
    /\ backup' = backup + 1
    /\ event' = TRUE
    /\ UNCHANGED <<enabled, volume, job, snaps, s, changes>>

\* Snapshots are disabled at any time, and the Job under way stays.  They are enabled
\* again once that Job has been removed; with "leftover" at any time.
Edit ==
    /\ \/ Change("disable") /\ enabled
       \/ Change("enable") /\ ~enabled /\ (job = None \/ "leftover" \in changes)
    /\ enabled' = ~enabled
    /\ event' = TRUE
    /\ UNCHANGED <<backup, volume, job, snaps, s>>

Crash ==
    /\ Change("crash") /\ s # Idle
    /\ s' = Idle /\ event' = TRUE
    /\ UNCHANGED <<enabled, backup, volume, job, snaps>>

Next == Reconcile \/ World \/ Backup \/ Edit \/ Crash

Spec == Init /\ [][Next]_vars

-----------------------------------------------------------------------------
(* Properties.                                                             *)
Wanted == enabled /\ (s = Idle \/ s.enabled)
Ready(m) == snaps[m] # None /\ snaps[m].state = "ready"

\* The volume "is dedicated for clean snapshots of the database": a snapshot that is
\* ready holds exactly the backup that it is marked with.
SnapshotClean == \A m \in Marks : Ready(m) => snaps[m].clean /\ snaps[m].of = m
\* "If an earlier snapshot is found, we take a new snapshot, annotate it and delete
\* the old": as long as snapshots stay enabled there is one to bootstrap from once
\* there has been one, although any Job or snapshot may fail.
SnapshotKept ==
    [][Wanted /\ (\E m \in Marks : Ready(m)) =>
        ~enabled' \/ (\E m \in Marks : Ready(m)')]_vars
=============================================================================
