---------------------------- MODULE RestoreSuite ----------------------------
(***************************************************************************)
(* The two kinds of restore, each with small sets.  A behaviour is one of  *)
(* either module, chosen at the start and named by "active": the cluster   *)
(* runs one restore at a time, and the recovery inside a snapshot restore  *)
(* is already part of SnapshotRestore.  The properties of Restore are the  *)
(* module's own.                                                           *)
(***************************************************************************)
EXTENDS Restore

CONSTANTS
    Instances,
    SnapshotScenarios   \* faults of SnapshotRestore, one set per behaviour

VARIABLES
    active,
    sr, request, status, inst, pvc, prep, skip, leader, backup, recovered, w,
    mishaps, once

svars == <<sr, request, status, inst, pvc, prep, skip, leader, backup, recovered, w,
           mishaps, once>>
allVars == <<active, vars, svars>>

S == INSTANCE SnapshotRestore WITH Scenarios <- SnapshotScenarios

SuiteInit ==
    /\ active \in {"repo", "snapshot"}
    /\ Init /\ S!Init
    /\ active # "repo" => faults = CHOOSE f \in Scenarios : TRUE
    /\ active # "snapshot" => mishaps = CHOOSE f \in SnapshotScenarios : TRUE

Repo == active = "repo" /\ Next /\ UNCHANGED <<active, svars>>
Snapshot == active = "snapshot" /\ S!Next /\ UNCHANGED <<active, vars>>

SuiteNext == Repo \/ Snapshot

\* The fairness of the modules, for the active one.
SuiteFairness ==
    /\ \A x \in Objects : SF_vars(active = "repo" /\ Reconcile(x))
    /\ WF_vars(active = "repo" /\ RStep)
    /\ WF_vars(active = "repo" /\ (PSync \/ PStatus))
    /\ WF_vars(active = "repo" /\ CStep)
    /\ WF_vars(active = "repo" /\ JobEnds)
    /\ WF_vars(active = "repo" /\ Kubelet)
    /\ WF_vars(active = "repo" /\ Patroni)
    /\ \A x \in Restores :
        /\ SF_svars(active = "snapshot" /\ S!SReconcile(x))
        /\ WF_svars(active = "snapshot" /\ S!PrepareJobEnds(x))
    /\ WF_svars(active = "snapshot" /\ S!Worker)
    /\ WF_svars(active = "snapshot" /\ S!Recover)
    /\ \A i \in Instances :
        /\ WF_svars(active = "snapshot" /\ S!Volume(i))
        /\ SF_svars(active = "snapshot" /\ S!RecreateVolume(i))

SuiteSpec == SuiteInit /\ [][SuiteNext]_allVars /\ SuiteFairness

-----------------------------------------------------------------------------
\* While the Job of a snapshot restore prepares the volumes no instance runs on
\* them, as long as no Pod of it has failed; when the restore is over no request is
\* left that would rewrite the data later, unless its recovery failed or its
\* preparation did; and when all are over no file skip-wal-recovery is left in a
\* volume, unless a preparation failed.
SnapshotVolumesSafe ==
    S!VolumesOffline /\ S!RecoveryWithdrawn /\ S!SkipFileRemoved

\* A snapshot restore succeeds only with all its volumes replaced, prepared and,
\* if asked for, recovered, although C recreates volumes in between; one that has
\* failed is not reported as Succeeded afterwards.
SnapshotVerdict == S!SucceedsRestored /\ S!RestoreVerdictKept

=============================================================================
