----------------------------- MODULE BackupsEnd -----------------------------
(***************************************************************************)
(* What a backup must leave behind when it ends, each part with small      *)
(* sets: the instance of a snapshot backup, started again, and the lock.   *)
(* A behaviour is one of either module, chosen at the start and named by   *)
(* "active".                                                               *)
(***************************************************************************)
EXTENDS SnapshotBackup

CONSTANTS Contenders, NoHolder, MaxCrashes   \* of BackupLease

VARIABLES active, lBk, lCluster, lLease, pc, seen, fresh, crashes

lvars == <<lBk, lCluster, lLease, pc, seen, fresh, crashes>>

L == INSTANCE BackupLease WITH
        Backups <- Contenders, Names <- Contenders, NameOf <- [b \in Contenders |-> b],
        bk <- lBk, cluster <- lCluster, lease <- lLease

BackupsInit ==
    /\ active \in {"snapshot", "lock"}
    /\ Init /\ L!Init
    /\ active # "snapshot" => primary = CHOOSE i \in Instances : TRUE

Snapshotting == active = "snapshot" /\ Next /\ UNCHANGED <<active, lvars>>
Locking == active = "lock" /\ L!Next /\ UNCHANGED <<active, vars>>

BackupsNext == Snapshotting \/ Locking

\* The fairness of the modules, for the active one.
BackupsFairness ==
    /\ WF_vars(active = "snapshot" /\ W) /\ WF_vars(active = "snapshot" /\ Restart)
    /\ \A b \in Backups : SF_vars(active = "snapshot" /\ WGet(b))
    /\ \A i \in Instances : WF_vars(active = "snapshot" /\ Scale(i))
    /\ \A b \in Backups, v \in Volumes :
        WF_vars(active = "snapshot" /\ (SnapshotReady(b, v) \/ SnapshotError(b, v)))
    /\ <>[][~Crash]_vars
    /\ \A b \in Contenders :
        /\ WF_lvars(active = "lock" /\ L!Reconcile(b))
        /\ SF_lvars(active = "lock" /\ L!Work(b) /\ L!WorkEnd(b))
        /\ SF_lvars(active = "lock" /\ L!Work(b) /\ L!WorkResume(b))
        /\ WF_lvars(active = "lock" /\ L!Purge(b))

BackupsSpec == BackupsInit /\ [][BackupsNext]_<<active, vars, lvars>> /\ BackupsFairness

-----------------------------------------------------------------------------
\* No holder wedges the lock, whether it crashed, failed or vanished: every backup gets
\* it or ends.
EveryoneGetsLease == L!EveryoneGetsLease
=============================================================================
