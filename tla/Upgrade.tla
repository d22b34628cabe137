------------------------------ MODULE Upgrade ------------------------------
(***************************************************************************)
(* Major upgrades.  A PerconaPGUpgrade is reconciled by two controllers:   *)
(* the Percona one creates a PGUpgrade, pauses the cluster, grants it the  *)
(* annotation and resumes it at the new version; the upstream one runs     *)
(* pg_upgrade on the volume of the primary and empties the replicas, all   *)
(* of it while the cluster is shut down.  They meet only in the conditions *)
(* of the PGUpgrade, which the Percona controller polls, and in the        *)
(* PostgresCluster that two more controllers work on.                      *)
(***************************************************************************)
EXTENDS Naturals, FiniteSets

CONSTANTS
    Upgrades,   \* 1..n: the upgrade u is one to the version u + 1
    Instances,
    Absent,     \* unset, or no object
    UpgradeScenarios    \* sets of changes: what may happen in a behaviour

VARIABLES
    from,       \* the version that an upgrade starts from
    created,    \* PerconaPGUpgrades
    wake,       \* the Percona controller has a request: "no", "now", "timer"
    p,          \* its progress: "idle", or "resume" between its two patches
    seen,       \* the conditions it copied to the PerconaPGUpgrade, Absent if never
    obj,        \* PGUpgrade: [progressing, succeeded], or Absent
    cwake,      \* PGUpgrades the upstream controller has to reconcile
    uc,         \* its progress
    pgc,        \* PerconaPGCluster: [pause, version, allow]
    cc,         \* PostgresCluster: [shutdown, version, allow, gen]
    ccStatus,   \* its status: [gen, replicas, startup, version]
    jobs,       \* Jobs of an upgrade: [pgdata, remove]
    endpoints,  \* Patroni's state in the Endpoints
    backup,     \* version of the backup that replicas are made from
    up,         \* the version that an instance runs, 0 if it is down
    data,       \* the version of its data, 0 if it has none
    primary,
    plan        \* what may still happen

upgradeVars == <<from, created, wake, p, seen, obj, cwake, uc, pgc, cc, ccStatus, jobs,
                 endpoints, backup, up, data, primary, plan>>
percona == <<created, wake, p, seen, pgc>>
upstream == <<cwake, uc>>
cluster == <<ccStatus, up, data, primary, endpoints, backup>>

To(u) == u + 1
NoCondition == [progressing |-> Absent, succeeded |-> Absent]
NoJobs == [pgdata |-> "none", remove |-> [i \in Instances |-> "none"]]
Idle == [pc |-> "idle"]

UpgradeInit ==
    /\ plan \in UpgradeScenarios
    /\ from = [u \in Upgrades |-> IF "both" \in plan THEN 1 ELSE u]
    /\ created = {} /\ cwake = {} /\ uc = Idle
    /\ wake = [u \in Upgrades |-> "no"] /\ p = [u \in Upgrades |-> "idle"]
    /\ seen = [u \in Upgrades |-> Absent] /\ obj = [u \in Upgrades |-> Absent]
    /\ pgc = [pause |-> FALSE, version |-> 1, allow |-> Absent]
    /\ cc = [shutdown |-> FALSE, version |-> 1, allow |-> Absent, gen |-> 1]
    /\ primary \in Instances
    /\ ccStatus = [gen |-> 1, replicas |-> Cardinality(Instances), startup |-> Absent,
                   version |-> 0]
    /\ jobs = [u \in Upgrades |-> NoJobs]
    /\ endpoints = TRUE /\ backup = 1
    /\ up = [i \in Instances |-> 1] /\ data = [i \in Instances |-> 1]

-----------------------------------------------------------------------------
(* The Percona controller (percona/controller/pgupgrade).                  *)

\* Its next request.  It watches nothing but its own objects, so an answer of
\* the upstream controller reaches it by polling only.
Requeue(u) == wake' = [wake EXCEPT ![u] = "timer"]
Done(u) == wake' = [wake EXCEPT ![u] = IF seen' # seen THEN "now" ELSE "no"]

\* The upstream controller gives its first answer in the five seconds, unless it
\* is slow.
Due(u) == wake[u] # "no" /\ (obj[u] = NoCondition => "slow" \in plan)

Create(u) ==
    /\ obj[u] = Absent
    /\ obj' = [obj EXCEPT ![u] = NoCondition]
    /\ cwake' = cwake \union {u}
    /\ Requeue(u)
    /\ UNCHANGED <<p, seen, pgc>>

PauseCluster == pgc' = [pgc EXCEPT !.pause = TRUE]
AnnotateCluster(u) == pgc' = [pgc EXCEPT !.allow = u]
FinalizeUpgrade(u) == pgc' = [pgc EXCEPT !.version = To(u), !.allow = Absent]

FollowConditions(u) ==
    /\ obj[u] # Absent
    /\ seen' = [seen EXCEPT ![u] = obj[u]]
    /\ CASE obj[u].progressing = "Progressing" ->
            Requeue(u) /\ UNCHANGED <<p, pgc>>
         [] obj[u].progressing = "InvalidForCluster" ->
            Done(u) /\ UNCHANGED <<p, pgc>>
         [] obj[u].progressing = "NotShutdown" ->
            PauseCluster /\ Requeue(u) /\ UNCHANGED p
         [] obj[u].progressing = "MissingAnnotation" ->
            AnnotateCluster(u) /\ Requeue(u) /\ UNCHANGED p
         [] OTHER ->
            IF obj[u].succeeded = "Succeeded"
            THEN /\ FinalizeUpgrade(u)
                 /\ p' = [p EXCEPT ![u] = "resume"]
                 /\ Done(u)
            ELSE Done(u) /\ UNCHANGED <<p, pgc>>
    /\ UNCHANGED <<obj, cwake>>

ReconcilePercona(u) ==
    /\ u \in created /\ p[u] = "idle" /\ Due(u)
    /\ Create(u) \/ FollowConditions(u)
    /\ UNCHANGED <<from, created, uc, cc, jobs, plan, cluster>>

\* Mutant: the cluster keeps its new version, and its pause.
ResumeForgotten(u) ==
    /\ p[u] = "resume"
    /\ p' = [p EXCEPT ![u] = "idle"]
    /\ UNCHANGED <<from, created, wake, seen, obj, pgc, cc, jobs, plan, upstream, cluster>>

\* finalizeUpgrade and resumeCluster are two patches.
Resume(u) ==
    /\ p[u] = "resume"
    /\ p' = [p EXCEPT ![u] = "idle"]
    /\ pgc' = [pgc EXCEPT !.pause = FALSE]
    /\ UNCHANGED <<from, created, wake, seen, obj, cc, jobs, plan, upstream, cluster>>

-----------------------------------------------------------------------------
(* The upstream controller (internal/controller/pgupgrade).                *)

\* observeWorld; it watches its Jobs and the PostgresCluster.
Observe(u) ==
    /\ uc.pc = "idle" /\ u \in cwake
    /\ cwake' = cwake \ {u}
    /\ uc' = [pc |-> "act", u |-> u, cc |-> cc, status |-> ccStatus, jobs |-> jobs[u],
              obj |-> obj[u], endpoints |-> endpoints]
    /\ UNCHANGED <<from, obj, cc, jobs, plan, percona, cluster>>

Replicas == Instances \ {uc.status.startup}
JobComplete == uc.jobs.pgdata = "done"
Removed == Cardinality({i \in Instances : uc.jobs.remove[i] = "done"})
               = Cardinality(Instances) - 1
Failed == uc.jobs.pgdata = "failed" \/ \E i \in Instances : uc.jobs.remove[i] = "failed"

\* Mutant: does not wait for the last instance to stop.
ClusterShutdownSpecified == uc.cc.shutdown /\ uc.status.gen = uc.cc.gen

\* populateShutdown: shutdown is asked for, the status is about that
\* generation, and no instance is left.
ClusterShutdown ==
    uc.cc.shutdown /\ uc.status.gen = uc.cc.gen /\ uc.status.replicas = 0

\* The checks, in their order; "Upgrade" if every one is passed.
Checks ==
    LET u == uc.u IN
    CASE from[u] >= To(u) -> "Invalid"
      [] uc.cc.version = To(u) /\ ~JobComplete -> "Resolved"
      [] uc.status.version = To(u) -> "Completed"
      [] uc.cc.version # from[u] -> "InvalidForCluster"
      [] ~ClusterShutdown -> "NotShutdown"
      [] uc.status.startup = Absent -> "PrimaryNotIdentified"
      [] uc.cc.allow # u -> "MissingAnnotation"
      [] OTHER -> "Upgrade"

\* Passing a check resets its reason; nothing resets "Completed".
Condition(v) ==
    IF v # "Upgrade" THEN v
    ELSE IF uc.obj.progressing = "Completed" THEN "Completed" ELSE "Progressing"

\* The Jobs are done: the backup that replicas are made from, and the state of
\* the repositories, make way for new ones.
Finished ==
    /\ ccStatus' = [ccStatus EXCEPT !.version = To(uc.u)]
    /\ backup' = 0

\* Apply of a Job that exists leaves it alone.
Apply(state) == IF state = "none" THEN "running" ELSE state
UpgradeJob == [jobs EXCEPT ![uc.u].pgdata = Apply(@)]
RemoveDataJobs ==
    [jobs EXCEPT ![uc.u].remove =
        [i \in Instances |-> IF i \in Replicas THEN Apply(@[i]) ELSE @[i]]]

Conditions(v) ==
    [progressing |-> Condition(v),
     succeeded |-> IF v = "Completed" /\ JobComplete /\ Removed THEN "Succeeded"
                   ELSE IF v = "Upgrade" /\ Failed THEN "Failed"
                   ELSE uc.obj.succeeded]

Act ==
    /\ uc.pc = "act"
    /\ IF uc.obj.succeeded = "Succeeded"
       THEN /\ uc' = Idle
            /\ UNCHANGED <<cwake, jobs, endpoints, ccStatus, backup>>
       ELSE LET v == Checks
                go == v = "Upgrade" /\ ~Failed
                run == go /\ ~(JobComplete /\ Removed)
            IN /\ uc' = [uc EXCEPT !.pc = "patch", !.obj = Conditions(v)]
               /\ IF go /\ ~run THEN Finished ELSE UNCHANGED <<ccStatus, backup>>
               /\ jobs' = IF ~run THEN jobs
                          ELSE IF JobComplete THEN RemoveDataJobs ELSE UpgradeJob
               /\ endpoints' = (endpoints /\ ~(run /\ uc.endpoints))
               /\ cwake' = IF go /\ ~run THEN created
                           ELSE IF run /\ uc.endpoints THEN cwake \union {uc.u}
                           ELSE cwake
    /\ UNCHANGED <<from, obj, cc, up, data, primary, plan, percona>>

PatchConditions ==
    /\ uc.pc = "patch"
    /\ obj' = [obj EXCEPT ![uc.u] = uc.obj]
    /\ uc' = Idle
    /\ UNCHANGED <<from, cwake, cc, jobs, plan, percona, cluster>>

ReconcileUpgrade == (\E u \in Upgrades : Observe(u)) \/ Act \/ PatchConditions

-----------------------------------------------------------------------------
(* The Jobs run in Pods with the volumes of an instance, exactly once.     *)

\* upgradeCommand: pg_upgrade links the files of the old version.
UpgradeData(u) ==
    /\ jobs[u].pgdata = "running"
    /\ \/ /\ data[primary] = from[u]
          /\ data' = [data EXCEPT ![primary] = To(u)]
          /\ jobs' = [jobs EXCEPT ![u].pgdata = "done"]
          /\ UNCHANGED plan
       \/ /\ data[primary] # from[u] \/ "jobFails" \in plan
          /\ plan' = plan \ {"jobFails"}
          /\ jobs' = [jobs EXCEPT ![u].pgdata = "failed"]
          /\ UNCHANGED data
    /\ cwake' = cwake \union {u}
    /\ UNCHANGED <<from, obj, uc, cc, ccStatus, endpoints, backup, up, primary, percona>>

\* removeDataCommand: only the data of a replica, "shut down in recovery", goes.
RemoveData(u, i) ==
    /\ jobs[u].remove[i] = "running"
    /\ \/ /\ data[i] = from[u] /\ i # primary
          /\ data' = [data EXCEPT ![i] = 0]
          /\ jobs' = [jobs EXCEPT ![u].remove[i] = "done"]
          /\ UNCHANGED plan
       \/ /\ data[i] # from[u] \/ i = primary \/ "jobFails" \in plan
          /\ plan' = plan \ {"jobFails"}
          /\ jobs' = [jobs EXCEPT ![u].remove[i] = "failed"]
          /\ UNCHANGED data
    /\ cwake' = cwake \union {u}
    /\ UNCHANGED <<from, obj, uc, cc, ccStatus, endpoints, backup, up, primary, percona>>

-----------------------------------------------------------------------------
(* The controllers of the cluster, as far as an upgrade depends on them.   *)

\* ToCrunchy: the PostgresCluster follows the PerconaPGCluster.
Sync ==
    LET new == [shutdown |-> pgc.pause, version |-> pgc.version] IN
    /\ \/ new.shutdown # cc.shutdown \/ new.version # cc.version
       \/ pgc.allow # cc.allow
    /\ cc' = [shutdown |-> new.shutdown, version |-> new.version, allow |-> pgc.allow,
              gen |-> IF new.shutdown = cc.shutdown /\ new.version = cc.version
                      THEN cc.gen ELSE cc.gen + 1]
    /\ cwake' = {u \in created : obj[u] # Absent}
    /\ UNCHANGED <<from, obj, uc, jobs, plan, percona, cluster>>

\* Replicas are stopped first; the status remembers the primary.
Stop(i) ==
    /\ cc.shutdown /\ up[i] # 0
    /\ i = primary => \A j \in Instances \ {i} : up[j] = 0
    /\ up' = [up EXCEPT ![i] = 0]
    /\ UNCHANGED <<ccStatus, data, endpoints, backup>>

\* What an empty replica is made from: the backup if there is one, else the primary.
Basis == IF backup # 0 THEN backup ELSE data[primary]

\* The primary comes first.
Start(i) ==
    /\ ~cc.shutdown /\ up[i] = 0
    /\ i # primary => up[primary] # 0
    /\ up' = [up EXCEPT ![i] = cc.version]
    /\ data' = [data EXCEPT ![i] = IF @ = 0 THEN Basis ELSE @]
    /\ endpoints' = TRUE
    /\ UNCHANGED <<ccStatus, backup>>

Backup ==
    /\ backup = 0 /\ up[primary] # 0
    /\ backup' = data[primary]
    /\ UNCHANGED <<ccStatus, up, data, endpoints>>

Report ==
    LET new == [ccStatus EXCEPT !.gen = cc.gen,
                   !.replicas = Cardinality({i \in Instances : up[i] # 0}),
                   !.startup = IF cc.shutdown THEN primary ELSE Absent]
    IN /\ ccStatus # new
       /\ ccStatus' = new
       /\ UNCHANGED <<up, data, endpoints, backup>>

ReconcileCluster ==
    \/ Sync
    \/ /\ (\E i \in Instances : Stop(i) \/ Start(i)) \/ Backup \/ Report
       /\ cwake' = IF ccStatus' # ccStatus THEN {u \in created : obj[u] # Absent} ELSE cwake
       /\ UNCHANGED <<from, obj, uc, cc, jobs, plan, primary, percona>>

-----------------------------------------------------------------------------
(* The user, who asks for the second upgrade when the cluster runs at the  *)
(* version of the first one, and faults.                                   *)
Ended(u) == seen[u] # Absent /\ seen[u].succeeded = "Succeeded"

CreateUpgrade(u) ==
    /\ u \notin created
    /\ \/ u = 1 \/ "both" \in plan
       \/ /\ "again" \in plan /\ Ended(1) /\ wake[1] = "no" /\ p[1] = "idle"
          /\ \A i \in Instances : up[i] = To(1)
    /\ created' = created \union {u}
    /\ wake' = [wake EXCEPT ![u] = "now"]
    /\ UNCHANGED <<from, p, seen, obj, pgc, cc, jobs, plan, upstream, cluster>>

\* The operator starts again and reconciles every object.
UpgradeCrash ==
    /\ "crash" \in plan /\ plan' = plan \ {"crash"}
    /\ uc' = Idle
    /\ cwake' = {u \in created : obj[u] # Absent}
    /\ p' = [u \in Upgrades |-> "idle"]
    /\ wake' = [u \in Upgrades |-> IF u \in created THEN "now" ELSE "no"]
    /\ UNCHANGED <<from, created, seen, obj, pgc, cc, jobs, cluster>>

System ==
    \/ \E u \in Upgrades :
        \/ ReconcilePercona(u) \/ Resume(u) \/ UpgradeData(u)
        \/ \E i \in Instances : RemoveData(u, i)
    \/ ReconcileUpgrade
    \/ ReconcileCluster

UpgradeNext == System \/ (\E u \in Upgrades : CreateUpgrade(u)) \/ UpgradeCrash

UpgradeSpec == UpgradeInit /\ [][UpgradeNext]_upgradeVars

-----------------------------------------------------------------------------
(* Properties.                                                             *)

Busy(u, i) ==
    \/ jobs[u].remove[i] = "running"
    \/ jobs[u].pgdata = "running" /\ i = primary

\* "The upgrade needs to manipulate the data directory of the primary while
\* Postgres is stopped": no instance runs while a Job works on any volume, and
\* what runs at other times finds the data of its own version, on a primary that
\* pg_upgrade converted and on replicas made from a backup alike.
UpgradeOffline ==
    /\ (\E u \in Upgrades, i \in Instances : Busy(u, i)) => \A i \in Instances : up[i] = 0
    /\ \A i \in Instances : up[i] \in {0, data[i]}

\* With nothing left to do, every upgrade that was asked for ended: the cluster
\* runs the new version everywhere, is resumed, and has lost the annotation; or the
\* upgrade is reported as failed and the cluster stays down.
UpgradeSettles ==
    (~ENABLED <<System>>_upgradeVars) =>
        \A u \in created : (\A v \in created : v <= u) =>
            \/ /\ obj[u] # Absent /\ obj[u].succeeded = "Failed"
               /\ \A i \in Instances : up[i] = 0
            \/ /\ pgc = [pause |-> FALSE, version |-> To(u), allow |-> Absent]
               /\ \A i \in Instances : up[i] = To(u)
               /\ Ended(u)
=============================================================================
