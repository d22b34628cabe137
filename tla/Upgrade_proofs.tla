--------------------------- MODULE Upgrade_proofs ---------------------------
(***************************************************************************)
(* No instance runs while a Job of an upgrade works on the volumes, and    *)
(* what runs finds data of its own version, for any number of instances.   *)
(***************************************************************************)
EXTENDS Upgrade, FiniteSetTheorems, TLAPS

-----------------------------------------------------------------------------
(* Types.                                                                  *)
Reasons == {Absent, "Invalid", "Resolved", "Completed", "InvalidForCluster", "NotShutdown",
            "PrimaryNotIdentified", "MissingAnnotation", "Progressing"}
Conds == [progressing : Reasons, succeeded : {Absent, "Succeeded", "Failed"}]
States == {"none", "running", "done", "failed"}
Work == [pgdata : States, remove : [Instances -> States]]
Specs == [shutdown : BOOLEAN, version : Nat, allow : Upgrades \union {Absent}, gen : Nat]
Reports == [gen : Nat, replicas : Nat, startup : Instances \union {Absent}, version : Nat]
Reconciles == [pc : {"act", "patch"}, u : Upgrades, cc : Specs, status : Reports, jobs : Work,
               obj : Conds, endpoints : BOOLEAN]

UpgradeTypes ==
    /\ created \in SUBSET Upgrades
    /\ wake \in [Upgrades -> {"no", "now", "timer"}]
    /\ p \in [Upgrades -> {"idle", "resume"}]
    /\ obj \in [Upgrades -> Conds \union {Absent}]
    /\ cwake \in SUBSET {u \in created : obj[u] \in Conds}
    /\ uc = Idle \/ uc \in Reconciles
    /\ pgc \in [pause : BOOLEAN, version : Nat, allow : Upgrades \union {Absent}]
    /\ cc \in Specs /\ ccStatus \in Reports
    /\ jobs \in [Upgrades -> Work]
    /\ backup \in Nat
    /\ up \in [Instances -> Nat] /\ data \in [Instances -> Nat]
    /\ endpoints \in BOOLEAN
    /\ primary \in Instances
    /\ from = [u \in Upgrades |-> u]

-----------------------------------------------------------------------------
(* The life of an upgrade.                                                 *)
Down == \A i \in Instances : up[i] = 0
Won(u) == obj[u] # Absent /\ obj[u].succeeded = "Succeeded"
Began(u) == jobs[u].pgdata # "none"
AllDone(w) == w.pgdata = "done" /\ \A i \in Instances \ {primary} : w.remove[i] = "done"

\* Users ask for upgrades one after the other, and not for a second one if the
\* operator may restart.
OneByOne(c) == "both" \notin c /\ ("again" \in c => "crash" \notin c)

\* When there is a second upgrade the Percona controller is through with the first.
Order ==
    /\ OneByOne(plan)
    /\ 2 \in created => wake[1] = "no" /\ p[1] = "idle" /\ "crash" \notin plan
    /\ \A u \in Upgrades \ created : obj[u] = Absent /\ ~Won(u) /\ ~Began(u)
    /\ \A u \in Upgrades : obj[u] = Absent => ~Began(u)
    /\ \A u \in Upgrades : p[u] = "resume" => Won(u) /\ pgc.version = To(u)

\* The version in the spec is the one of the last upgrade that has succeeded.
Versions ==
    /\ pgc.version \in {1, 2, 3}
    /\ \A u \in Upgrades : pgc.version > u => Won(u)
    /\ \A u \in created : u <= pgc.version
    /\ cc.version <= pgc.version
    /\ cc.version # pgc.version => cc.shutdown /\ Down
    /\ \A i \in Instances : up[i] \in {0, cc.version}

\* The cluster shuts down for an upgrade only, and stays so until it is resumed.
Pauses ==
    /\ pgc.version \in created /\ cc.shutdown => pgc.pause
    /\ pgc.version \notin created => (IF cc.shutdown THEN Down ELSE ~pgc.pause)
    /\ created = {} => ~cc.shutdown

\* The Jobs of an upgrade exist only while the cluster is down for it.
Held(u) == pgc.pause /\ cc.shutdown /\ cc.version = u /\ Down

JobsHeld ==
    \A u \in Upgrades :
        /\ jobs[u].remove[primary] = "none"
        /\ Began(u) /\ pgc.version = u => Held(u)
        /\ jobs[u].pgdata # "done" => \A i \in Instances : jobs[u].remove[i] = "none"
        /\ Won(u) => /\ AllDone(jobs[u]) /\ obj[u].progressing = "Completed"
                     /\ pgc.version = u => backup = 0
        /\ ccStatus.version = To(u) => /\ AllDone(jobs[u])
                                       /\ pgc.version = u => backup = 0

\* What the status says of the instances holds as long as the spec is the one that
\* it is about.
Reported(st) ==
    /\ st.gen <= cc.gen
    /\ st.gen = cc.gen /\ cc.shutdown /\ st.replicas = 0 => Down
    /\ st.startup \in {primary, Absent}

\* What the upstream controller has read.
WorkerReads ==
    /\ Reported(ccStatus)
    /\ uc.pc = "patch" /\ uc.obj.succeeded = "Succeeded" =>
             /\ AllDone(jobs[uc.u]) /\ uc.obj.progressing = "Completed"
             /\ pgc.version = uc.u => backup = 0
    /\ uc.pc \in {"act", "patch"} => uc.u \in created
    /\ uc.pc = "patch" => ~Won(uc.u)
    /\ uc.pc = "act" =>
         /\ Reported(uc.status)
         /\ uc.status.version = ccStatus.version
         /\ uc.obj = obj[uc.u]
         /\ uc.jobs.pgdata = "done" => jobs[uc.u].pgdata = "done"
         /\ uc.jobs.remove[primary] = "none"
         /\ \A i \in Instances : uc.jobs.remove[i] = "done" => jobs[uc.u].remove[i] = "done"
         /\ uc.cc.shutdown /\ uc.cc.version = uc.u /\ ~Won(uc.u) =>
               /\ cc.shutdown /\ pgc.pause /\ cc.version = uc.u /\ pgc.version = uc.u
               /\ uc.cc.gen = cc.gen

\* The data is of the version of the spec; the Jobs of the next upgrade bring that of
\* the primary to the next version and remove the others.
DataTrue ==
    LET u == pgc.version
    IN  /\ data[primary] = IF u \in Upgrades /\ jobs[u].pgdata = "done" THEN To(u) ELSE u
        /\ \A i \in Instances \ {primary} :
               IF u \in Upgrades /\ jobs[u].remove[i] = "done" THEN data[i] = 0 ELSE data[i] \in {0, u}
        /\ backup \in {0, u}
        /\ \A i \in Instances : up[i] # 0 => data[i] # 0

UpgradeInv == UpgradeTypes /\ Order /\ Versions /\ Pauses /\ JobsHeld /\ WorkerReads /\ DataTrue

-----------------------------------------------------------------------------
(* Types.                                                                  *)

\* What the constants are: two upgrades, a finite set of instances, and a value Absent
\* that is neither a verdict nor conditions.
Constants == /\ Upgrades = {1, 2} /\ IsFiniteSet(Instances)
             /\ Absent \notin {"Succeeded", "Failed"} \union Conds

\* The effects of a reconcile of the Percona controller.
Creates(u) ==
    /\ obj[u] = Absent
    /\ obj' = [obj EXCEPT ![u] = NoCondition] /\ cwake' = cwake \union {u}
    /\ UNCHANGED <<p, pgc>>
Waits(u) == UNCHANGED <<obj, cwake, p, pgc>>
ShutsDown(u) ==
    /\ obj[u].progressing = "NotShutdown"
    /\ PauseCluster /\ UNCHANGED <<obj, cwake, p>>
Annotates(u) == AnnotateCluster(u) /\ UNCHANGED <<obj, cwake, p>>
Finalizes(u) ==
    /\ Won(u)
    /\ FinalizeUpgrade(u) /\ p' = [p EXCEPT ![u] = "resume"] /\ UNCHANGED <<obj, cwake>>

\* What a reconcile of the Percona controller does, by the condition that it finds.
LEMMA PerconaReconciles ==
    ASSUME UpgradeTypes, NEW u \in Upgrades, ReconcilePercona(u)
    PROVE  /\ UNCHANGED <<from, created, uc, cc, jobs, plan, cluster>>
           /\ u \in created /\ wake[u] # "no" /\ p[u] = "idle"
           /\ \E x \in {"no", "now", "timer"} : wake' = [wake EXCEPT ![u] = x]
           /\ \/ Creates(u) \/ Waits(u) \/ ShutsDown(u) \/ Annotates(u) \/ Finalizes(u)
<1>1. /\ UNCHANGED <<from, created, uc, cc, jobs, plan, cluster>>
      /\ u \in created /\ p[u] = "idle" /\ wake[u] # "no"
  BY DEF ReconcilePercona, Due
<1>2. CASE Create(u)
  BY <1>1, <1>2 DEF Create, Requeue, Creates
<1>3. CASE FollowConditions(u)
  <2>1. UNCHANGED <<obj, cwake>>
    BY <1>3 DEF FollowConditions
  <2>2. CASE obj[u].progressing = "Progressing"
    BY <1>1, <1>3, <2>1, <2>2 DEF FollowConditions, Requeue, Waits
  <2>3. CASE obj[u].progressing = "InvalidForCluster"
    BY <1>1, <1>3, <2>1, <2>3 DEF FollowConditions, Done, Waits
  <2>4. CASE obj[u].progressing = "NotShutdown"
    BY <1>1, <1>3, <2>1, <2>4 DEF FollowConditions, Requeue, ShutsDown
  <2>5. CASE obj[u].progressing = "MissingAnnotation"
    BY <1>1, <1>3, <2>1, <2>5 DEF FollowConditions, Requeue, Annotates
  <2>6. CASE obj[u].progressing \notin
                 {"Progressing", "InvalidForCluster", "NotShutdown", "MissingAnnotation"}
    <3>1. IF obj[u].succeeded = "Succeeded"
          THEN FinalizeUpgrade(u) /\ p' = [p EXCEPT ![u] = "resume"] /\ Done(u)
          ELSE Done(u) /\ UNCHANGED <<p, pgc>>
      BY <1>3, <2>6 DEF FollowConditions
    <3>2. obj[u] # Absent
      BY <1>3 DEF FollowConditions
    <3> QED BY <1>1, <2>1, <3>1, <3>2 DEF Done, Waits, Finalizes, Won
  <2> QED BY <2>2, <2>3, <2>4, <2>5, <2>6
<1> QED BY <1>2, <1>3 DEF ReconcilePercona

\* The outcomes that change more than conditions.
Runs == Checks = "Upgrade" /\ ~Failed /\ ~(JobComplete /\ Removed)
Finishes == Checks = "Upgrade" /\ ~Failed /\ JobComplete /\ Removed

\* What the upstream controller does after it has looked at the world: nothing for an
\* upgrade that has succeeded, the Jobs or the end of one that may go on.
LEMMA Acts ==
    ASSUME UpgradeTypes, Act
    PROVE  /\ uc.pc = "act" /\ uc \in Reconciles
           /\ UNCHANGED <<from, obj, cc, up, data, primary, plan, percona>>
           /\ \/ /\ uc.obj.succeeded = "Succeeded" /\ uc' = Idle
                 /\ UNCHANGED <<cwake, jobs, endpoints, ccStatus, backup>>
              \/ /\ uc.obj.succeeded # "Succeeded"
                 /\ uc' = [uc EXCEPT !.pc = "patch", !.obj = Conditions(Checks)]
                 /\ endpoints' \in BOOLEAN
                 /\ \/ /\ Runs
                       /\ jobs' = IF JobComplete THEN RemoveDataJobs ELSE UpgradeJob
                       /\ cwake' \in {cwake, cwake \union {uc.u}}
                       /\ UNCHANGED <<ccStatus, backup>>
                    \/ /\ Finishes /\ Finished
                       /\ cwake' = created
                       /\ UNCHANGED jobs
                    \/ ~Runs /\ ~Finishes /\ UNCHANGED <<jobs, cwake, ccStatus, backup>>
<1>1. uc.pc = "act" /\ uc \in Reconciles
  BY DEF Act, UpgradeTypes, Idle
<1>2. UNCHANGED <<from, obj, cc, up, data, primary, plan, percona>>
  BY DEF Act
<1>3. CASE uc.obj.succeeded = "Succeeded"
  BY <1>1, <1>2, <1>3 DEF Act
<1>4. CASE uc.obj.succeeded # "Succeeded"
  <2> DEFINE v == Checks
             go == v = "Upgrade" /\ ~Failed
             run == go /\ ~(JobComplete /\ Removed)
  <2>1. /\ uc' = [uc EXCEPT !.pc = "patch", !.obj = Conditions(v)]
        /\ IF go /\ ~run THEN Finished ELSE UNCHANGED <<ccStatus, backup>>
        /\ jobs' = IF ~run THEN jobs ELSE IF JobComplete THEN RemoveDataJobs ELSE UpgradeJob
        /\ endpoints' = (endpoints /\ ~(run /\ uc.endpoints))
        /\ cwake' = IF go /\ ~run THEN created
                    ELSE IF run /\ uc.endpoints THEN cwake \union {uc.u} ELSE cwake
    BY <1>4 DEF Act
  <2>2. (run <=> Runs) /\ (go /\ ~run <=> Finishes)
    BY DEF Runs, Finishes
  <2>3. endpoints' \in BOOLEAN
    BY <2>1
  <2> HIDE DEF go, run
  <2>4. CASE Runs
    BY <1>1, <1>2, <1>4, <2>1, <2>2, <2>3, <2>4
  <2>5. CASE Finishes
    BY <1>1, <1>2, <1>4, <2>1, <2>2, <2>3, <2>5
  <2>6. CASE ~Runs /\ ~Finishes
    BY <1>1, <1>2, <1>4, <2>1, <2>2, <2>3, <2>6
  <2> QED BY <2>4, <2>5, <2>6
<1> QED BY <1>3, <1>4

\* What follows from a verdict.
LEMMA VerdictSays ==
    ASSUME UpgradeTypes, uc \in Reconciles, Constants
    PROVE  /\ Checks = "Upgrade" => /\ uc.cc.version = uc.u /\ ClusterShutdown
                                    /\ uc.status.startup # Absent
           /\ Checks = "Completed" => uc.status.version = To(uc.u)
           /\ Conditions(Checks) \in Conds
           /\ uc.obj.succeeded # "Succeeded" /\ Conditions(Checks).succeeded = "Succeeded" =>
                  Checks = "Completed" /\ Conditions(Checks).progressing = "Completed"
<1>1. from[uc.u] = uc.u /\ uc.u \in Nat /\ ~(from[uc.u] >= To(uc.u))
  BY DEF UpgradeTypes, Reconciles, Constants, To
<1>2. Checks \in {"Invalid", "Resolved", "Completed", "InvalidForCluster", "NotShutdown",
                  "PrimaryNotIdentified", "MissingAnnotation", "Upgrade"}
  BY DEF Checks
<1>3. Checks = "Upgrade" => uc.cc.version = uc.u /\ ClusterShutdown /\ uc.status.startup # Absent
  BY <1>1 DEF Checks
<1>4. Checks = "Completed" => uc.status.version = To(uc.u)
  BY <1>1 DEF Checks
<1> HIDE DEF Checks
<1>5. uc.obj.succeeded \in {Absent, "Succeeded", "Failed"}
  BY DEF Reconciles, Conds
<1>6. Condition(Checks) \in Reasons
  BY <1>2 DEF Condition, Reasons
<1>7. /\ Conditions(Checks) \in Conds
      /\ Conditions(Checks).progressing = Condition(Checks)
      /\ Conditions(Checks).succeeded \in {uc.obj.succeeded, "Failed"} \/ Checks = "Completed"
  BY <1>5, <1>6 DEF Conditions, Conds
<1>8. Checks = "Completed" => Condition(Checks) = "Completed"
  BY DEF Condition
<1> QED BY <1>3, <1>4, <1>7, <1>8

\* The Jobs that a step of the upstream controller leaves.
LEMMA JobsApplied ==
    ASSUME UpgradeTypes, uc \in Reconciles,
           jobs' = IF JobComplete THEN RemoveDataJobs ELSE UpgradeJob
    PROVE  /\ jobs' \in [Upgrades -> Work]
           /\ \A v \in Upgrades : v # uc.u => jobs'[v] = jobs[v]
           /\ jobs[uc.u].pgdata # "none" => jobs'[uc.u].pgdata = jobs[uc.u].pgdata
           /\ jobs[uc.u].pgdata = "none" => jobs'[uc.u].pgdata \in {"none", "running"}
           /\ ~JobComplete => jobs'[uc.u].remove = jobs[uc.u].remove
           /\ \A i \in Instances :
                 /\ jobs[uc.u].remove[i] # "none" \/ i = uc.status.startup =>
                        jobs'[uc.u].remove[i] = jobs[uc.u].remove[i]
                 /\ jobs[uc.u].remove[i] = "none" =>
                        jobs'[uc.u].remove[i] \in {"none", "running"}
<1>1. uc.u \in Upgrades /\ jobs[uc.u] \in Work
  BY DEF Reconciles, UpgradeTypes
<1> DEFINE w == jobs[uc.u]
           rem == [i \in Instances |-> IF i \in Replicas THEN Apply(w.remove[i]) ELSE w.remove[i]]
<1>2. \A x \in States : Apply(x) \in States /\ (x # "none" => Apply(x) = x)
                        /\ (x = "none" => Apply(x) = "running")
  BY DEF Apply, States
<1>3. w.pgdata \in States /\ w.remove \in [Instances -> States]
  BY <1>1 DEF Work
<1>4. rem \in [Instances -> States]
  BY <1>2, <1>3
<1>5. CASE JobComplete
  <2>1. jobs' = [jobs EXCEPT ![uc.u] = [w EXCEPT !.remove = rem]]
    BY <1>1, <1>5 DEF RemoveDataJobs, UpgradeTypes, Work
  <2>2. [w EXCEPT !.remove = rem] \in Work /\ [w EXCEPT !.remove = rem].pgdata = w.pgdata
        /\ [w EXCEPT !.remove = rem].remove = rem
    BY <1>1, <1>4 DEF Work
  <2>3. /\ jobs' \in [Upgrades -> Work] /\ \A v \in Upgrades : v # uc.u => jobs'[v] = jobs[v]
        /\ jobs'[uc.u].pgdata = w.pgdata /\ jobs'[uc.u].remove = rem
    BY <1>1, <2>1, <2>2 DEF UpgradeTypes
  <2>4. \A i \in Instances : /\ w.remove[i] # "none" \/ i = uc.status.startup => rem[i] = w.remove[i]
                             /\ w.remove[i] = "none" => rem[i] \in {"none", "running"}
    BY <1>2, <1>3 DEF Replicas
  <2> HIDE DEF rem
  <2> QED BY <1>5, <2>3, <2>4
<1>6. CASE ~JobComplete
  <2> DEFINE n == [w EXCEPT !.pgdata = Apply(w.pgdata)]
  <2>1. jobs' = [jobs EXCEPT ![uc.u] = n]
    BY <1>1, <1>6 DEF UpgradeJob, UpgradeTypes, Work
  <2>2. n \in Work /\ n.pgdata = Apply(w.pgdata) /\ n.remove = w.remove
    BY <1>1, <1>2, <1>3 DEF Work
  <2> HIDE DEF n
  <2>3. /\ jobs' \in [Upgrades -> Work] /\ \A v \in Upgrades : v # uc.u => jobs'[v] = jobs[v]
        /\ jobs'[uc.u].pgdata = Apply(w.pgdata) /\ jobs'[uc.u].remove = w.remove
    BY <1>1, <2>1, <2>2 DEF UpgradeTypes
  <2>4. /\ w.pgdata # "none" => Apply(w.pgdata) = w.pgdata
        /\ w.pgdata = "none" => Apply(w.pgdata) \in {"none", "running"}
    BY <1>2, <1>3
  <2> HIDE DEF rem
  <2>5. /\ w.pgdata # "none" => jobs'[uc.u].pgdata = w.pgdata
        /\ w.pgdata = "none" => jobs'[uc.u].pgdata \in {"none", "running"}
    BY <2>3, <2>4
  <2>6. \A i \in Instances : jobs'[uc.u].remove[i] = w.remove[i]
    BY <2>3
  <2> QED BY <1>6, <2>3, <2>5, <2>6
<1> QED BY <1>5, <1>6

\* One Job less than there are instances, and none for the primary: the Job of every
\* replica is done.
LEMMA ReplicasRemoved ==
    ASSUME UpgradeTypes, Constants, uc \in Reconciles, uc.jobs.remove[primary] = "none",
           JobComplete, Removed
    PROVE  AllDone(uc.jobs)
<1> DEFINE D == {i \in Instances : uc.jobs.remove[i] = "done"}
           R == Instances \ {primary}
<1>1. primary \in Instances /\ IsFiniteSet(Instances)
  BY DEF UpgradeTypes, Constants
<1>2. IsFiniteSet(R) /\ Cardinality(R) = Cardinality(Instances) - 1
  BY <1>1, FS_RemoveElement
<1>3. D \subseteq R
  OBVIOUS
<1>4. Cardinality(D) = Cardinality(R)
  BY <1>2 DEF Removed
<1>5. D = R
  BY <1>2, <1>3, <1>4, FS_Subset
<1> QED BY <1>5 DEF AllDone, JobComplete

\* The effect of pg_upgrade.
LEMMA DataUpgraded ==
    ASSUME UpgradeTypes, NEW u \in Upgrades, UpgradeData(u)
    PROVE  /\ UNCHANGED <<from, obj, uc, cc, ccStatus, endpoints, backup, up, primary, percona>>
           /\ jobs[u].pgdata = "running" /\ jobs' \in [Upgrades -> Work]
           /\ \A v \in Upgrades : v # u => jobs'[v] = jobs[v]
           /\ jobs'[u].remove = jobs[u].remove
           /\ cwake' = cwake \union {u} /\ plan' \subseteq plan
           /\ data' \in [Instances -> Nat]
           /\ \A i \in Instances \ {primary} : data'[i] = data[i]
           /\ \/ jobs'[u].pgdata = "done" /\ data'[primary] = To(u)
              \/ jobs'[u].pgdata = "failed" /\ data' = data
<1>1. /\ jobs[u] \in Work /\ jobs \in [Upgrades -> Work] /\ primary \in Instances
      /\ data \in [Instances -> Nat]
  BY DEF UpgradeTypes
<1>2. UNCHANGED <<from, obj, uc, cc, ccStatus, endpoints, backup, up, primary, percona>>
      /\ jobs[u].pgdata = "running" /\ cwake' = cwake \union {u} /\ plan' \subseteq plan
  BY DEF UpgradeData
<1>3. \A x \in {"done", "failed"} : /\ [jobs EXCEPT ![u].pgdata = x] \in [Upgrades -> Work]
                                    /\ [jobs EXCEPT ![u].pgdata = x][u].pgdata = x
                                    /\ [jobs EXCEPT ![u].pgdata = x][u].remove = jobs[u].remove
                                    /\ \A v \in Upgrades : v # u => [jobs EXCEPT ![u].pgdata = x][v] = jobs[v]
  BY <1>1 DEF Work, States
<1>4. CASE data' = [data EXCEPT ![primary] = To(u)] /\ jobs' = [jobs EXCEPT ![u].pgdata = "done"]
           /\ data[primary] = from[u]
  <2>1. To(u) \in Nat
    BY <1>1, <1>4 DEF To, UpgradeTypes
  <2> QED BY <1>1, <1>2, <1>3, <1>4, <2>1
<1>5. CASE data' = data /\ jobs' = [jobs EXCEPT ![u].pgdata = "failed"]
  BY <1>1, <1>2, <1>3, <1>5
<1> QED BY <1>4, <1>5 DEF UpgradeData

\* The effect of a Job that empties the volume of an instance.
LEMMA DataRemoved ==
    ASSUME UpgradeTypes, NEW u \in Upgrades, NEW i \in Instances, RemoveData(u, i)
    PROVE  /\ UNCHANGED <<from, obj, uc, cc, ccStatus, endpoints, backup, up, primary, percona>>
           /\ jobs[u].remove[i] = "running" /\ jobs' \in [Upgrades -> Work]
           /\ \A v \in Upgrades : v # u => jobs'[v] = jobs[v]
           /\ jobs'[u].pgdata = jobs[u].pgdata
           /\ \A j \in Instances : j # i => jobs'[u].remove[j] = jobs[u].remove[j]
           /\ cwake' = cwake \union {u} /\ plan' \subseteq plan
           /\ data' \in [Instances -> Nat]
           /\ \A j \in Instances : j # i => data'[j] = data[j]
           /\ \/ jobs'[u].remove[i] = "done" /\ data'[i] = 0
              \/ jobs'[u].remove[i] = "failed" /\ data' = data
<1>1. /\ jobs[u] \in Work /\ jobs \in [Upgrades -> Work] /\ data \in [Instances -> Nat]
  BY DEF UpgradeTypes
<1>2. UNCHANGED <<from, obj, uc, cc, ccStatus, endpoints, backup, up, primary, percona>>
      /\ jobs[u].remove[i] = "running" /\ cwake' = cwake \union {u} /\ plan' \subseteq plan
  BY DEF RemoveData
<1>3. \A x \in {"done", "failed"} :
          /\ [jobs EXCEPT ![u].remove[i] = x] \in [Upgrades -> Work]
          /\ [jobs EXCEPT ![u].remove[i] = x][u].pgdata = jobs[u].pgdata
          /\ [jobs EXCEPT ![u].remove[i] = x][u].remove[i] = x
          /\ \A j \in Instances : j # i => [jobs EXCEPT ![u].remove[i] = x][u].remove[j] = jobs[u].remove[j]
          /\ \A v \in Upgrades : v # u => [jobs EXCEPT ![u].remove[i] = x][v] = jobs[v]
  BY <1>1 DEF Work, States
<1>4. CASE data' = [data EXCEPT ![i] = 0] /\ jobs' = [jobs EXCEPT ![u].remove[i] = "done"]
  BY <1>1, <1>2, <1>3, <1>4
<1>5. CASE data' = data /\ jobs' = [jobs EXCEPT ![u].remove[i] = "failed"]
  BY <1>1, <1>2, <1>3, <1>5
<1> QED BY <1>4, <1>5 DEF RemoveData

-----------------------------------------------------------------------------
(* The steps.                                                              *)

\* A reconcile of the Percona controller pauses the cluster only for an upgrade that
\* has not ended, and moves the version on only when every Job of it is done.
LEMMA PerconaKeeps ==
    ASSUME Constants, UpgradeInv, NEW u \in Upgrades, ReconcilePercona(u)
    PROVE  UpgradeInv'
<1> USE DEF To
<1>1. UpgradeTypes /\ Order /\ Versions /\ Pauses /\ JobsHeld /\ WorkerReads /\ DataTrue
  BY DEF UpgradeInv
<1>2. /\ UNCHANGED <<from, created, uc, cc, jobs, plan, ccStatus, up, data, primary,
                     endpoints, backup>>
      /\ u \in created /\ wake[u] # "no" /\ p[u] = "idle"
      /\ \/ Creates(u) \/ Waits(u) \/ ShutsDown(u) \/ Annotates(u) \/ Finalizes(u)
  BY <1>1, PerconaReconciles DEF cluster
<1>3. /\ wake' \in [Upgrades -> {"no", "now", "timer"}]
      /\ \A v \in Upgrades : v # u => wake'[v] = wake[v]
  BY <1>1, PerconaReconciles DEF UpgradeTypes
<1>4. u \in Nat /\ (u = 1 \/ u = 2) /\ Upgrades = {1, 2}
  BY DEF Constants
<1>5. u = 1 => 2 \notin created
  BY <1>1, <1>2 DEF Order
<1>6. /\ pgc.version \in {1, 2, 3} /\ u <= pgc.version
      /\ 2 \in created => 2 <= pgc.version
      /\ \A v \in Upgrades : pgc.version > v => v \in created /\ Won(v)
  BY <1>1, <1>2, <1>4 DEF Versions, Order
<1>7. pgc.version \in {u, To(u)}
  BY <1>4, <1>5, <1>6
<1>s. created \subseteq {1, 2} /\ (uc.pc \in {"act", "patch"} => uc.u \in Upgrades)
  BY <1>1, <1>4 DEF UpgradeTypes, WorkerReads
<1>g. pgc \in [pause : BOOLEAN, version : Nat, allow : Upgrades \union {Absent}]
  BY <1>1 DEF UpgradeTypes
<1>8. CASE Creates(u)
  <2>1. /\ obj' \in [Upgrades -> Conds \union {Absent}]
        /\ obj'[u] = NoCondition /\ obj[u] = Absent /\ NoCondition \in Conds
        /\ \A v \in Upgrades : v # u => obj'[v] = obj[v]
        /\ cwake' = cwake \union {u} /\ p' = p /\ pgc' = pgc
    BY <1>1, <1>8 DEF Creates, UpgradeTypes, NoCondition, Conds, Reasons
  <2>2. \A v \in Upgrades : Won(v)' <=> Won(v)
    BY <2>1 DEF Won, NoCondition, Constants
  <2>3. UpgradeTypes'
    BY <1>1, <1>2, <1>3, <2>1 DEF UpgradeTypes
  <2>4. Order'
    BY <1>1, <1>2, <1>3, <1>4, <2>1, <2>2 DEF Order, Began
  <2>5. Versions' /\ Pauses'
    BY <1>1, <1>2, <2>1, <2>2 DEF Versions, Pauses, Down
  <2>6. JobsHeld'
    <3>1. \A v \in Upgrades : Won(v) => obj'[v] = obj[v]
      BY <2>1 DEF Won
    <3> QED BY <1>1, <1>2, <2>1, <2>2, <3>1 DEF JobsHeld, Began, Held, Down, AllDone
  <2>7. WorkerReads'
    <3>1. uc.pc = "act" => uc \in Reconciles /\ uc.obj = obj[uc.u]
      BY <1>1 DEF UpgradeTypes, Idle, WorkerReads
    <3>2. uc.pc = "act" => uc.u # u /\ uc.u \in Upgrades
      BY <2>1, <3>1 DEF Reconciles, Constants
    <3>3. uc.pc \in {"act", "patch"} => (Won(uc.u)' <=> Won(uc.u))
      BY <1>2, <1>s, <2>2
    <3> QED BY <1>1, <1>2, <2>1, <3>2, <3>3 DEF WorkerReads, Reported, Down, AllDone
  <2>8. DataTrue'
    BY <1>1, <1>2, <2>1 DEF DataTrue
  <2> QED BY <2>3, <2>4, <2>5, <2>6, <2>7, <2>8 DEF UpgradeInv
<1>9. CASE UNCHANGED <<obj, cwake>> /\ pgc' \in [pause : BOOLEAN, version : Nat, allow : Upgrades \union {Absent}]
           /\ pgc'.version = pgc.version /\ (pgc'.pause <=> pgc.pause \/ ShutsDown(u))
           /\ (p' = p \/ (p' = [p EXCEPT ![u] = "resume"] /\ Won(u) /\ pgc.version = To(u)))
  <2>1. /\ p' \in [Upgrades -> {"idle", "resume"}] /\ \A v \in Upgrades : v # u => p'[v] = p[v]
        /\ p'[u] = "resume" => Won(u) /\ pgc.version = To(u)
    BY <1>1, <1>2, <1>9 DEF UpgradeTypes
  <2>2. \A v \in Upgrades : Won(v)' <=> Won(v)
    BY <1>9 DEF Won
  <2>3. ShutsDown(u) => pgc.version = u
    <3>1. ShutsDown(u) => ~Won(u)
      BY <1>1 DEF ShutsDown, JobsHeld
    <3> QED BY <1>4, <1>6, <1>7, <3>1
  <2>4. UpgradeTypes'
    BY <1>1, <1>2, <1>3, <1>9, <2>1 DEF UpgradeTypes
  <2>5. Order'
    BY <1>1, <1>2, <1>3, <1>4, <1>5, <1>9, <2>1, <2>2 DEF Order, Began
  <2>6. Versions'
    BY <1>1, <1>2, <1>9, <2>2 DEF Versions, Down
  <2>7. Pauses'
    BY <1>1, <1>2, <1>9, <2>3 DEF Pauses, Down
  <2>8. JobsHeld'
    BY <1>1, <1>2, <1>9, <2>2 DEF JobsHeld, Began, Held, Down, AllDone
  <2>9. WorkerReads'
    <3>1. uc.pc \in {"act", "patch"} => (Won(uc.u)' <=> Won(uc.u))
      BY <1>2, <1>9 DEF Won
    <3> QED BY <1>1, <1>2, <1>9, <3>1 DEF WorkerReads, Reported, Down, AllDone
  <2>10. DataTrue'
    BY <1>1, <1>2, <1>9 DEF DataTrue
  <2> QED BY <2>4, <2>5, <2>6, <2>7, <2>8, <2>9, <2>10 DEF UpgradeInv
<1>10. CASE Finalizes(u) /\ pgc.version = u
  <2>1. /\ pgc' \in [pause : BOOLEAN, version : Nat, allow : Upgrades \union {Absent}]
        /\ pgc'.version = To(u) /\ (pgc'.pause <=> pgc.pause) /\ UNCHANGED <<obj, cwake>>
        /\ p' \in [Upgrades -> {"idle", "resume"}] /\ \A v \in Upgrades : v # u => p'[v] = p[v]
        /\ Won(u)
    <3>1. /\ pgc' = [pgc EXCEPT !.version = To(u), !.allow = Absent] /\ UNCHANGED <<obj, cwake>>
          /\ p' = [p EXCEPT ![u] = "resume"] /\ Won(u)
      BY <1>10 DEF Finalizes, FinalizeUpgrade
    <3>2. pgc' \in [pause : BOOLEAN, version : Nat, allow : Upgrades \union {Absent}]
      <4>1. To(u) \in Nat
        BY <1>4
      <4> QED BY <1>g, <3>1, <4>1
    <3>3. pgc'.version = To(u) /\ (pgc'.pause <=> pgc.pause)
      BY <1>g, <3>1
    <3>4. p' \in [Upgrades -> {"idle", "resume"}] /\ \A v \in Upgrades : v # u => p'[v] = p[v]
      BY <1>1, <3>1 DEF UpgradeTypes
    <3> QED BY <3>1, <3>2, <3>3, <3>4
  <2>2. \A v \in Upgrades : Won(v)' <=> Won(v)
    BY <2>1 DEF Won
  <2>3. AllDone(jobs[u]) /\ Began(u) /\ Held(u) /\ backup = 0
    BY <1>1, <1>10, <2>1 DEF JobsHeld, AllDone, Began
  <2>4. To(u) \notin created /\ \A v \in Upgrades : v = To(u) => ~Won(v) /\ ~Began(v)
    <3>1. To(u) \notin created
      BY <1>4, <1>5, <1>s
    <3> QED BY <1>1, <3>1 DEF Order
  <2>5. \A v \in created : v = u \/ (v < u /\ Won(v))
    <3> TAKE v \in created
    <3>1. v \in Upgrades /\ (v = 1 \/ v = 2)
      BY <1>4, <1>s
    <3>2. CASE v < u
      BY <1>6, <1>10, <3>1, <3>2
    <3> QED BY <1>4, <2>4, <3>1, <3>2
  <2>6. UpgradeTypes'
    BY <1>1, <1>2, <1>3, <2>1 DEF UpgradeTypes
  <2>7. Order'
    <3>1. \A v \in Upgrades : p'[v] = "resume" => v = u
      BY <1>1, <1>4, <1>10, <2>1 DEF Order
    <3> QED BY <1>1, <1>2, <1>3, <1>4, <2>1, <2>2, <3>1 DEF Order, Began
  <2>8. Versions'
    <3>1. pgc'.version \in {1, 2, 3} /\ (\A v \in Upgrades : pgc'.version > v => Won(v))
      BY <1>4, <1>6, <1>10, <2>1
    <3>2. \A v \in created' : v <= pgc'.version
      <4>1. \A v \in created : v \in Nat /\ v <= u
        BY <1>4, <1>s, <2>5
      <4>2. created' = created
        BY <1>2
      <4>3. pgc'.version = u + 1
        BY <2>1
      <4> QED BY <1>4, <4>1, <4>2, <4>3
    <3>3. cc.version = u /\ cc.shutdown /\ Down
      BY <2>3 DEF Held
    <3> QED BY <1>1, <1>2, <1>4, <2>1, <2>2, <3>1, <3>2, <3>3 DEF Versions, Down
  <2>9. Pauses'
    BY <1>1, <1>2, <2>1, <2>3, <2>4 DEF Pauses, Down, Held
  <2>10. JobsHeld'
    BY <1>1, <1>2, <2>1, <2>2, <2>3, <2>4 DEF JobsHeld, Began, Held, Down, AllDone
  <2>11. WorkerReads'
    <3>1. uc.pc \in {"act", "patch"} => uc.u \in created /\ uc.u # To(u) /\ Won(uc.u)
      BY <1>1, <2>1, <2>4, <2>5 DEF WorkerReads
    <3>2. uc.pc \in {"act", "patch"} => uc.u \in Upgrades
      BY <1>1, <3>1 DEF UpgradeTypes
    <3> QED BY <1>1, <1>2, <2>1, <2>2, <3>1, <3>2 DEF WorkerReads, Reported, Down, AllDone
  <2>12. DataTrue'
    <3>1. data[primary] = To(u) /\ (\A i \in Instances \ {primary} : data[i] = 0)
      BY <1>1, <1>10, <2>3 DEF DataTrue, AllDone
    <3>2. \A v \in Upgrades : v = To(u) => jobs[v].pgdata # "done" /\ (\A i \in Instances : jobs[v].remove[i] # "done")
      BY <1>1, <2>4 DEF Began, JobsHeld
    <3>3. \A i \in Instances : up[i] # 0 => data[i] # 0
      BY <1>1 DEF DataTrue
    <3> QED BY <1>2, <2>1, <2>3, <3>1, <3>2, <3>3 DEF DataTrue
  <2> QED BY <2>6, <2>7, <2>8, <2>9, <2>10, <2>11, <2>12 DEF UpgradeInv
<1>11. ~Creates(u) /\ ~(Finalizes(u) /\ pgc.version = u) =>
           /\ UNCHANGED <<obj, cwake>> /\ pgc' \in [pause : BOOLEAN, version : Nat, allow : Upgrades \union {Absent}]
           /\ pgc'.version = pgc.version /\ (pgc'.pause <=> pgc.pause \/ ShutsDown(u))
           /\ (p' = p \/ (p' = [p EXCEPT ![u] = "resume"] /\ Won(u) /\ pgc.version = To(u)))
  <2> SUFFICES ASSUME ~Creates(u), ~(Finalizes(u) /\ pgc.version = u)
               PROVE  /\ UNCHANGED <<obj, cwake>>
                      /\ pgc' \in [pause : BOOLEAN, version : Nat, allow : Upgrades \union {Absent}]
                      /\ pgc'.version = pgc.version /\ (pgc'.pause <=> pgc.pause \/ ShutsDown(u))
                      /\ (p' = p \/ (p' = [p EXCEPT ![u] = "resume"] /\ Won(u) /\ pgc.version = To(u)))
    OBVIOUS
  <2>1. CASE ShutsDown(u)
    <3>1. pgc' = [pgc EXCEPT !.pause = TRUE] /\ UNCHANGED <<obj, cwake, p>>
      BY <2>1 DEF ShutsDown, PauseCluster
    <3>2. pgc' \in [pause : BOOLEAN, version : Nat, allow : Upgrades \union {Absent}]
      BY <1>g, <3>1
    <3>3. pgc'.version = pgc.version /\ pgc'.pause
      BY <1>g, <3>1
    <3> QED BY <2>1, <3>1, <3>2, <3>3
  <2>2. CASE ~ShutsDown(u) /\ Waits(u)
    <3>1. UNCHANGED <<obj, cwake, p, pgc>>
      BY <2>2 DEF Waits
    <3>2. pgc' \in [pause : BOOLEAN, version : Nat, allow : Upgrades \union {Absent}]
      BY <1>g, <3>1
    <3> QED BY <2>2, <3>1, <3>2
  <2>3. CASE ~ShutsDown(u) /\ Annotates(u)
    <3>1. pgc' = [pgc EXCEPT !.allow = u] /\ UNCHANGED <<obj, cwake, p>>
      BY <2>3 DEF Annotates, AnnotateCluster
    <3>2. pgc' \in [pause : BOOLEAN, version : Nat, allow : Upgrades \union {Absent}]
      BY <1>g, <3>1
    <3>3. pgc'.version = pgc.version /\ (pgc'.pause <=> pgc.pause)
      BY <1>g, <3>1
    <3> QED BY <2>3, <3>1, <3>2, <3>3
  <2>4. CASE ~ShutsDown(u) /\ Finalizes(u)
    <3>1. /\ pgc' = [pgc EXCEPT !.version = To(u), !.allow = Absent] /\ UNCHANGED <<obj, cwake>>
          /\ p' = [p EXCEPT ![u] = "resume"] /\ Won(u) /\ pgc.version = To(u)
      BY <1>7, <2>4 DEF Finalizes, FinalizeUpgrade
    <3> QED BY <1>g, <2>4, <3>1
  <2> QED BY <1>2, <2>1, <2>2, <2>3, <2>4
<1> QED BY <1>8, <1>9, <1>10, <1>11

\* The cluster is resumed at its new version, for which there are no Jobs yet.
LEMMA ResumeKeeps ==
    ASSUME Constants, UpgradeInv, NEW u \in Upgrades, Resume(u)
    PROVE  UpgradeInv'
<1> USE DEF To
<1>1. UpgradeTypes /\ Order /\ Versions /\ Pauses /\ JobsHeld /\ WorkerReads /\ DataTrue
  BY DEF UpgradeInv
<1>2. UNCHANGED <<from, created, wake, obj, cwake, uc, cc, jobs, plan, ccStatus, up, data, primary,
                  endpoints, backup>>
  BY DEF Resume, cluster, upstream
<1>3. /\ p' \in [Upgrades -> {"idle", "resume"}]
      /\ \A v \in Upgrades : p'[v] = "resume" => p[v] = "resume"
      /\ \A v \in Upgrades : p[v] = "idle" => p'[v] = "idle"
  BY <1>1 DEF Resume, UpgradeTypes
<1>4. /\ pgc' \in [pause : BOOLEAN, version : Nat, allow : Upgrades \union {Absent}]
      /\ pgc'.version = pgc.version /\ ~pgc'.pause
  <2>1. pgc \in [pause : BOOLEAN, version : Nat, allow : Upgrades \union {Absent}]
        /\ pgc' = [pgc EXCEPT !.pause = FALSE]
    BY <1>1 DEF UpgradeTypes, Resume
  <2> QED BY <2>1
<1>5. pgc.version = To(u) /\ To(u) \notin created
  <2>1. p[u] = "resume" /\ pgc.version = To(u) /\ created \subseteq {1, 2} /\ u \in {1, 2}
    BY <1>1 DEF Resume, Order, UpgradeTypes, Constants
  <2>2. 2 \in created => u # 1
    BY <1>1, <2>1 DEF Order
  <2> QED BY <2>1, <2>2
<1>6. \A v \in Upgrades : v = pgc.version => ~Began(v) /\ ~Won(v)
  BY <1>1, <1>5 DEF Order
<1>7. \A v \in Upgrades : Won(v)' <=> Won(v)
  BY <1>2 DEF Won
<1>8. UpgradeTypes'
  BY <1>1, <1>2, <1>3, <1>4 DEF UpgradeTypes
<1>9. Order'
  BY <1>1, <1>2, <1>3, <1>4, <1>7, Upgrades = {1, 2} DEF Order, Began, Constants
<1>10. Versions' /\ Pauses'
  BY <1>1, <1>2, <1>4, <1>5, <1>7 DEF Versions, Pauses, Down
<1>11. JobsHeld'
  BY <1>1, <1>2, <1>4, <1>6, <1>7 DEF JobsHeld, Began, Held, Down, AllDone
<1>12. WorkerReads'
  <2>1. uc.pc \in {"act", "patch"} => uc.u \in created /\ uc.u # pgc.version
    BY <1>1, <1>5 DEF WorkerReads
  <2>2. uc.pc \in {"act", "patch"} => (Won(uc.u)' <=> Won(uc.u))
    BY <1>2 DEF Won
  <2> QED BY <1>1, <1>2, <1>4, <2>1, <2>2 DEF WorkerReads, Reported, Down, AllDone
<1>13. DataTrue'
  BY <1>1, <1>2, <1>4 DEF DataTrue
<1> QED BY <1>8, <1>9, <1>10, <1>11, <1>12, <1>13 DEF UpgradeInv

\* A Job that runs is one of the upgrade that the cluster is down for.
LEMMA RunningIsHeld ==
    ASSUME Constants, UpgradeInv, NEW u \in Upgrades, Began(u), ~AllDone(jobs[u])
    PROVE  pgc.version = u /\ Held(u) /\ u \in created /\ obj[u] # Absent /\ ~Won(u) /\ ccStatus.version # To(u)
<1>1. UpgradeTypes /\ Order /\ Versions /\ JobsHeld
  BY DEF UpgradeInv
<1>2. u \in created /\ obj[u] # Absent /\ ~Won(u) /\ ccStatus.version # To(u)
  BY <1>1 DEF Order, JobsHeld
<1>3. pgc.version \in {1, 2, 3} /\ u <= pgc.version /\ ~(pgc.version > u) /\ u \in {1, 2}
  BY <1>1, <1>2 DEF Versions, Constants
<1>4. pgc.version = u
  BY <1>3
<1> QED BY <1>1, <1>2, <1>4 DEF JobsHeld

\* pg_upgrade runs on the volume of the primary of a cluster that is down.
LEMMA UpgradeDataKeeps ==
    ASSUME Constants, UpgradeInv, NEW u \in Upgrades, UpgradeData(u)
    PROVE  UpgradeInv'
<1>1. UpgradeTypes /\ Order /\ Versions /\ Pauses /\ JobsHeld /\ WorkerReads /\ DataTrue
  BY DEF UpgradeInv
<1>2. /\ UNCHANGED <<from, obj, uc, cc, ccStatus, endpoints, backup, up, primary, created, wake, p, pgc>>
      /\ jobs[u].pgdata = "running" /\ jobs' \in [Upgrades -> Work]
      /\ \A v \in Upgrades : v # u => jobs'[v] = jobs[v]
      /\ jobs'[u].remove = jobs[u].remove
      /\ cwake' = cwake \union {u} /\ plan' \subseteq plan
      /\ data' \in [Instances -> Nat]
      /\ \A i \in Instances \ {primary} : data'[i] = data[i]
      /\ \/ jobs'[u].pgdata = "done" /\ data'[primary] = To(u)
         \/ jobs'[u].pgdata = "failed" /\ data' = data
  BY <1>1, DataUpgraded DEF percona
<1>3. Began(u) /\ ~AllDone(jobs[u])
  BY <1>2 DEF Began, AllDone
<1>4. pgc.version = u /\ Held(u) /\ u \in created /\ obj[u] # Absent /\ ~Won(u) /\ ccStatus.version # To(u)
  BY <1>3, RunningIsHeld
<1>5. \A v \in Upgrades : Won(v)' <=> Won(v)
  BY <1>2 DEF Won
<1>6. \A i \in Instances : jobs[u].remove[i] = "none"
  BY <1>1, <1>2 DEF JobsHeld
<1>7. UpgradeTypes'
  BY <1>1, <1>2, <1>4 DEF UpgradeTypes
<1>8. Order'
  <2>1. OneByOne(plan')
    BY <1>1, <1>2 DEF Order, OneByOne
  <2> QED BY <1>1, <1>2, <1>4, <1>5, <2>1 DEF Order, Began
<1>9. Versions' /\ Pauses'
  BY <1>1, <1>2, <1>5 DEF Versions, Pauses, Down
<1>10. JobsHeld'
  <2>1. Held(u)' /\ \A v \in Upgrades : Held(v)' <=> Held(v)
    BY <1>2, <1>4 DEF Held, Down
  <2>2. ~Won(u)' /\ ccStatus'.version # To(u)
    BY <1>2, <1>4, <1>5
  <2>3. jobs'[u].remove[primary'] = "none" /\ \A i \in Instances : jobs'[u].remove[i] = "none"
    BY <1>1, <1>2, <1>6 DEF UpgradeTypes
  <2> QED BY <1>1, <1>2, <1>4, <1>5, <2>1, <2>2, <2>3 DEF JobsHeld, Began, AllDone
<1>11. WorkerReads'
  <2>1. uc.pc \in {"act", "patch"} => uc.u \in Upgrades /\ (Won(uc.u)' <=> Won(uc.u))
    BY <1>1, <1>2 DEF Won, WorkerReads, UpgradeTypes
  <2>2. uc.pc = "patch" /\ uc.obj.succeeded = "Succeeded" => uc.u # u
    BY <1>1, <1>3 DEF WorkerReads
  <2>3. uc.pc = "act" /\ uc.u = u => uc.jobs.pgdata # "done"
    BY <1>1, <1>2 DEF WorkerReads
  <2> QED BY <1>1, <1>2, <2>1, <2>2, <2>3 DEF WorkerReads, Reported, Down, AllDone
<1>12. DataTrue'
  BY <1>1, <1>2, <1>4 DEF DataTrue, Held, Down
<1> QED BY <1>7, <1>8, <1>9, <1>10, <1>11, <1>12 DEF UpgradeInv

\* The Jobs that empty the replicas run on volumes of a cluster that is down.
LEMMA RemoveDataKeeps ==
    ASSUME Constants, UpgradeInv, NEW u \in Upgrades, NEW i \in Instances, RemoveData(u, i)
    PROVE  UpgradeInv'
<1>1. UpgradeTypes /\ Order /\ Versions /\ Pauses /\ JobsHeld /\ WorkerReads /\ DataTrue
  BY DEF UpgradeInv
<1>2. /\ UNCHANGED <<from, obj, uc, cc, ccStatus, endpoints, backup, up, primary, created, wake, p, pgc>>
      /\ jobs[u].remove[i] = "running" /\ jobs' \in [Upgrades -> Work]
      /\ \A v \in Upgrades : v # u => jobs'[v] = jobs[v]
      /\ jobs'[u].pgdata = jobs[u].pgdata
      /\ \A j \in Instances : j # i => jobs'[u].remove[j] = jobs[u].remove[j]
      /\ cwake' = cwake \union {u} /\ plan' \subseteq plan
      /\ data' \in [Instances -> Nat]
      /\ \A j \in Instances : j # i => data'[j] = data[j]
      /\ \/ jobs'[u].remove[i] = "done" /\ data'[i] = 0
         \/ jobs'[u].remove[i] = "failed" /\ data' = data
  BY <1>1, DataRemoved DEF percona
<1>3. i # primary /\ jobs[u].pgdata = "done"
  BY <1>1, <1>2 DEF JobsHeld
<1>4. Began(u) /\ ~AllDone(jobs[u])
  BY <1>2, <1>3 DEF Began, AllDone
<1>5. pgc.version = u /\ Held(u) /\ u \in created /\ obj[u] # Absent /\ ~Won(u) /\ ccStatus.version # To(u)
  BY <1>4, RunningIsHeld
<1>6. \A v \in Upgrades : Won(v)' <=> Won(v)
  BY <1>2 DEF Won
<1>7. UpgradeTypes'
  BY <1>1, <1>2, <1>5 DEF UpgradeTypes
<1>8. Order'
  <2>1. OneByOne(plan')
    BY <1>1, <1>2 DEF Order, OneByOne
  <2> QED BY <1>1, <1>2, <1>5, <1>6, <2>1 DEF Order, Began
<1>9. Versions' /\ Pauses'
  BY <1>1, <1>2, <1>6 DEF Versions, Pauses, Down
<1>10. JobsHeld'
  <2>1. Held(u)' /\ \A v \in Upgrades : Held(v)' <=> Held(v)
    BY <1>2, <1>5 DEF Held, Down
  <2>2. ~Won(u)' /\ ccStatus'.version # To(u)
    BY <1>2, <1>5, <1>6
  <2>3. jobs'[u].remove[primary'] = "none"
    BY <1>1, <1>2, <1>3 DEF JobsHeld, UpgradeTypes
  <2> QED BY <1>1, <1>2, <1>3, <1>5, <1>6, <2>1, <2>2, <2>3 DEF JobsHeld, Began, AllDone
<1>11. WorkerReads'
  <2>1. uc.pc \in {"act", "patch"} => uc.u \in Upgrades /\ (Won(uc.u)' <=> Won(uc.u))
    BY <1>1, <1>2 DEF Won, WorkerReads, UpgradeTypes
  <2>2. uc.pc = "patch" /\ uc.obj.succeeded = "Succeeded" => uc.u # u
    BY <1>1, <1>4 DEF WorkerReads
  <2>3. uc.pc = "act" /\ uc.u = u => uc.jobs.remove[i] # "done"
    BY <1>1, <1>2 DEF WorkerReads
  <2> QED BY <1>1, <1>2, <2>1, <2>2, <2>3 DEF WorkerReads, Reported, Down, AllDone
<1>12. DataTrue'
  <2>1. data'[primary] = data[primary] /\ primary \in Instances
    BY <1>1, <1>2, <1>3 DEF UpgradeTypes
  <2>2. \A j \in Instances : up[j] = 0
    BY <1>5 DEF Held, Down
  <2>3. \A j \in Instances \ {primary} :
            IF jobs'[u].remove[j] = "done" THEN data'[j] = 0 ELSE data'[j] \in {0, u}
    BY <1>1, <1>2, <1>5 DEF DataTrue
  <2> QED BY <1>1, <1>2, <1>5, <2>1, <2>2, <2>3 DEF DataTrue
<1> QED BY <1>7, <1>8, <1>9, <1>10, <1>11, <1>12 DEF UpgradeInv

\* What the upstream controller reads of a cluster that is shut down at the version of
\* an upgrade that has not succeeded is what the Percona controller asked for.
LEMMA ObserveKeeps ==
    ASSUME Constants, UpgradeInv, NEW u \in Upgrades, Observe(u)
    PROVE  UpgradeInv'
<1>1. UpgradeTypes /\ Order /\ Versions /\ Pauses /\ JobsHeld /\ WorkerReads /\ DataTrue
  BY DEF UpgradeInv
<1>2. /\ UNCHANGED <<from, obj, cc, jobs, plan, created, wake, p, pgc, ccStatus, up, data, primary,
                     endpoints, backup>>
      /\ u \in cwake /\ cwake' \subseteq cwake
  BY DEF Observe, percona, cluster
<1>3. /\ uc' \in Reconciles /\ uc'.pc = "act" /\ uc'.u = u /\ uc'.cc = cc /\ uc'.status = ccStatus
      /\ uc'.jobs = jobs[u] /\ uc'.obj = obj[u]
  BY <1>1 DEF Observe, UpgradeTypes, Reconciles
<1>4. u \in created /\ obj[u] \in Conds
  BY <1>1, <1>2 DEF UpgradeTypes
<1>5. \A v \in Upgrades : Won(v)' <=> Won(v)
  BY <1>2 DEF Won
<1>6. UpgradeTypes'
  BY <1>1, <1>2, <1>3 DEF UpgradeTypes
<1>7. Order' /\ Versions' /\ Pauses'
  BY <1>1, <1>2, <1>5 DEF Order, Versions, Pauses, Began, Down
<1>8. JobsHeld' /\ DataTrue'
  BY <1>1, <1>2, <1>5 DEF JobsHeld, Began, Held, Down, AllDone, DataTrue
<1>9. WorkerReads'
  <2>1. Reported(ccStatus)' /\ Reported(uc.status)'
    BY <1>1, <1>2, <1>3 DEF WorkerReads, Reported, Down
  <2>2. cc.shutdown /\ cc.version = u /\ ~Won(u) => pgc.pause /\ pgc.version = u
    <3>1. pgc.version \in {1, 2, 3} /\ u <= pgc.version /\ (pgc.version > u => Won(u)) /\ u \in {1, 2}
      BY <1>1, <1>4 DEF Versions, Constants
    <3>2. ~Won(u) => pgc.version = u
      BY <3>1
    <3> QED BY <1>1, <1>4, <3>2 DEF Pauses
  <2>3. jobs[u].remove[primary] = "none"
    BY <1>1 DEF JobsHeld
  <2>4. Won(uc.u)' <=> Won(u)
    BY <1>2, <1>3 DEF Won
  <2> QED BY <1>2, <1>3, <1>4, <2>1, <2>2, <2>3, <2>4 DEF WorkerReads
<1> QED BY <1>6, <1>7, <1>8, <1>9 DEF UpgradeInv

\* The upstream controller writes that an upgrade has succeeded when all its Jobs are
\* done, and never takes that back.
LEMMA PatchKeeps ==
    ASSUME Constants, UpgradeInv, PatchConditions
    PROVE  UpgradeInv'
<1>1. UpgradeTypes /\ Order /\ Versions /\ Pauses /\ JobsHeld /\ WorkerReads /\ DataTrue
  BY DEF UpgradeInv
<1>2. /\ UNCHANGED <<from, cwake, cc, jobs, plan, created, wake, p, pgc, ccStatus, up, data, primary,
                     endpoints, backup>>
      /\ uc.pc = "patch" /\ uc' = Idle /\ uc'.pc = "idle"
  BY DEF PatchConditions, percona, cluster, Idle
<1>u. PICK u \in Upgrades : u = uc.u
  BY <1>1, <1>2 DEF UpgradeTypes, Idle, Reconciles
<1>3. uc \in Reconciles /\ u \in created /\ uc.obj \in Conds /\ ~Won(u)
  BY <1>1, <1>2, <1>u DEF UpgradeTypes, Idle, WorkerReads, Reconciles
<1>4. /\ obj' \in [Upgrades -> Conds \union {Absent}] /\ obj'[u] = uc.obj
      /\ \A v \in Upgrades : v # u => obj'[v] = obj[v]
  BY <1>1, <1>3, <1>u DEF PatchConditions, UpgradeTypes
<1>5. /\ Won(u)' => uc.obj.succeeded = "Succeeded"
      /\ \A v \in Upgrades : v # u => (Won(v)' <=> Won(v))
  BY <1>4 DEF Won
<1>6. obj'[u] # Absent
  BY <1>3, <1>4 DEF Constants
<1>7. UpgradeTypes'
  BY <1>1, <1>2, <1>3, <1>4 DEF UpgradeTypes
<1>8. Order'
  BY <1>1, <1>2, <1>3, <1>4, <1>5, <1>6 DEF Order, Began
<1>v. Versions' /\ Pauses'
  BY <1>1, <1>2, <1>3, <1>5 DEF Versions, Pauses, Down
<1>9. JobsHeld'
  <2>1. Won(u)' => /\ AllDone(jobs[u]) /\ obj'[u].progressing = "Completed"
                   /\ pgc.version = u => backup = 0
    BY <1>1, <1>2, <1>4, <1>5, <1>u DEF WorkerReads
  <2> QED BY <1>1, <1>2, <1>4, <1>5, <2>1 DEF JobsHeld, Began, Held, Down, AllDone
<1>10. WorkerReads' /\ DataTrue'
  BY <1>1, <1>2 DEF WorkerReads, Reported, Down, DataTrue
<1> QED BY <1>7, <1>8, <1>v, <1>9, <1>10 DEF UpgradeInv

\* The PostgresCluster follows the PerconaPGCluster; its generation stands for its
\* shutdown and its version.
LEMMA SyncKeeps ==
    ASSUME Constants, UpgradeInv, Sync
    PROVE  UpgradeInv'
<1>1. UpgradeTypes /\ Order /\ Versions /\ Pauses /\ JobsHeld /\ WorkerReads /\ DataTrue
  BY DEF UpgradeInv
<1>2. /\ UNCHANGED <<from, obj, uc, jobs, plan, created, wake, p, pgc, ccStatus, up, data, primary,
                     endpoints, backup>>
      /\ cwake' = {u \in created : obj[u] # Absent}
  BY DEF Sync, percona, cluster
<1>3. /\ pgc \in [pause : BOOLEAN, version : Nat, allow : Upgrades \union {Absent}]
      /\ cc \in Specs
  BY <1>1 DEF UpgradeTypes
<1>4. /\ cc' \in Specs /\ (cc'.shutdown <=> pgc.pause) /\ cc'.version = pgc.version
      /\ cc'.gen \in {cc.gen, cc.gen + 1}
      /\ cc'.gen = cc.gen <=> (cc.shutdown <=> pgc.pause) /\ cc.version = pgc.version
  BY <1>3 DEF Sync, Specs
<1>5. cc.gen \in Nat /\ (\A u \in Upgrades : Won(u)' <=> Won(u)) /\ (Down' <=> Down)
  BY <1>2, <1>3 DEF Won, Specs, Down
<1>6. UpgradeTypes'
  BY <1>1, <1>2, <1>4 DEF UpgradeTypes
<1>7. Order'
  BY <1>1, <1>2, <1>5 DEF Order, Began
<1>8. Versions'
  BY <1>1, <1>2, <1>4, <1>5 DEF Versions, Down
<1>9. Pauses'
  BY <1>1, <1>2, <1>4, <1>5 DEF Pauses
<1>10. JobsHeld'
  BY <1>1, <1>2, <1>4, <1>5 DEF JobsHeld, Began, Held, AllDone
<1>11. WorkerReads'
  <2>1. ASSUME NEW st, st \in Reports, Reported(st)
        PROVE  /\ st.gen <= cc'.gen
               /\ st.gen = cc'.gen /\ cc'.shutdown /\ st.replicas = 0 => Down
               /\ st.startup \in {primary, Absent}
    BY <1>4, <1>5, <2>1 DEF Reported, Reports
  <2>2. Reported(ccStatus)'
    BY <1>1, <1>2, <1>5, <2>1 DEF WorkerReads, Reported, UpgradeTypes
  <2>3. uc.pc = "act" => Reported(uc.status)'
    BY <1>1, <1>2, <1>5, <2>1 DEF WorkerReads, Reported, UpgradeTypes, Idle, Reconciles
  <2>4. uc.pc \in {"act", "patch"} => uc.u \in Upgrades /\ (Won(uc.u)' <=> Won(uc.u))
    BY <1>1, <1>2 DEF Won, WorkerReads, UpgradeTypes
  <2> QED BY <1>1, <1>2, <1>4, <1>5, <2>2, <2>3, <2>4 DEF WorkerReads, AllDone
<1>12. DataTrue'
  BY <1>1, <1>2 DEF DataTrue
<1> QED BY <1>6, <1>7, <1>8, <1>9, <1>10, <1>11, <1>12 DEF UpgradeInv

\* The upstream controller starts Jobs when it has seen the cluster down for the
\* upgrade, which nothing has changed since; it ends the upgrade when all are done.
LEMMA ActKeeps ==
    ASSUME Constants, UpgradeInv, Act
    PROVE  UpgradeInv'
<1>1. UpgradeTypes /\ Order /\ Versions /\ Pauses /\ JobsHeld /\ WorkerReads /\ DataTrue
  BY DEF UpgradeInv
<1>2. /\ uc.pc = "act" /\ uc \in Reconciles
      /\ UNCHANGED <<from, obj, cc, up, data, primary, plan, created, wake, p, pgc>>
  BY <1>1, Acts DEF percona
<1>3. /\ uc.u \in Upgrades /\ uc.u \in created /\ uc.obj = obj[uc.u] /\ uc.obj \in Conds
      /\ Reported(uc.status) /\ uc.status.version = ccStatus.version
  BY <1>1, <1>2 DEF Reconciles, WorkerReads
<1>4. \A v \in Upgrades : (Won(v)' <=> Won(v)) /\ (Held(v)' <=> Held(v))
  BY <1>2 DEF Won, Held, Down
<1>5. Versions' /\ Pauses' /\ (Down' <=> Down)
  BY <1>1, <1>2, <1>4 DEF Versions, Pauses, Down
<1>6. CASE uc.obj.succeeded = "Succeeded"
  <2>1. uc' = Idle /\ uc'.pc = "idle" /\ UNCHANGED <<cwake, jobs, endpoints, ccStatus, backup>>
    BY <1>1, <1>6, Acts DEF Idle
  <2>2. UpgradeTypes'
    BY <1>1, <1>2, <2>1 DEF UpgradeTypes
  <2>3. Order'
    BY <1>1, <1>2, <1>4, <2>1 DEF Order, Began
  <2>4. JobsHeld'
    BY <1>1, <1>2, <1>4, <2>1 DEF JobsHeld, Began, AllDone
  <2>5. WorkerReads' /\ DataTrue'
    BY <1>1, <1>2, <2>1 DEF WorkerReads, Reported, Down, DataTrue
  <2> QED BY <1>5, <2>2, <2>3, <2>4, <2>5 DEF UpgradeInv
<1>7. CASE uc.obj.succeeded # "Succeeded"
  <2>1. /\ uc' = [uc EXCEPT !.pc = "patch", !.obj = Conditions(Checks)] /\ endpoints' \in BOOLEAN
        /\ \/ /\ Runs
              /\ jobs' = IF JobComplete THEN RemoveDataJobs ELSE UpgradeJob
              /\ cwake' \in {cwake, cwake \union {uc.u}}
              /\ UNCHANGED <<ccStatus, backup>>
           \/ Finishes /\ Finished /\ cwake' = created /\ UNCHANGED jobs
           \/ ~Runs /\ ~Finishes /\ UNCHANGED <<jobs, cwake, ccStatus, backup>>
    BY <1>1, <1>7, Acts
  <2>2. /\ uc' \in Reconciles /\ uc'.pc = "patch" /\ uc'.u = uc.u /\ uc'.obj = Conditions(Checks)
    <3>1. Conditions(Checks) \in Conds
      BY <1>1, <1>2, VerdictSays
    <3> HIDE DEF Conditions, Checks
    <3> QED BY <1>2, <2>1, <3>1 DEF Reconciles
  <2>3. ~Won(uc.u) /\ ~Won(uc.u)'
    <3>1. ~Won(uc.u)
      BY <1>3, <1>7 DEF Won
    <3>2. Won(uc.u)' <=> Won(uc.u)
      BY <1>2, <2>2 DEF Won
    <3> QED BY <3>1, <3>2
  <2>4. uc'.obj.succeeded = "Succeeded" =>
             /\ Checks = "Completed" /\ uc'.obj.progressing = "Completed"
             /\ AllDone(jobs[uc.u]) /\ (pgc.version = uc.u => backup = 0)
    <3>1. uc'.obj.succeeded = "Succeeded" => /\ Checks = "Completed" /\ uc'.obj.progressing = "Completed"
                                             /\ ccStatus.version = To(uc.u)
      BY <1>1, <1>2, <1>3, <1>7, <2>2, VerdictSays
    <3> QED BY <1>1, <1>3, <3>1 DEF JobsHeld
  <2>5. Checks = "Upgrade" =>
            pgc.version = uc.u /\ Held(uc.u) /\ uc.status.startup = primary
    <3> SUFFICES ASSUME Checks = "Upgrade"
                 PROVE  pgc.version = uc.u /\ Held(uc.u) /\ uc.status.startup = primary
      OBVIOUS
    <3>1. uc.cc.version = uc.u /\ ClusterShutdown /\ uc.status.startup # Absent
      BY <1>1, <1>2, VerdictSays
    <3>2. /\ cc.shutdown /\ pgc.pause /\ cc.version = uc.u /\ pgc.version = uc.u
          /\ uc.cc.gen = cc.gen
      BY <1>1, <1>2, <2>3, <3>1 DEF WorkerReads, ClusterShutdown
    <3>3. Down /\ uc.status.startup = primary
      BY <1>3, <3>1, <3>2 DEF Reported, ClusterShutdown
    <3> QED BY <3>2, <3>3 DEF Held
  <2>6. CASE Runs
    <3>1. /\ pgc.version = uc.u /\ Held(uc.u) /\ uc.status.startup = primary /\ Checks = "Upgrade"
          /\ jobs' = IF JobComplete THEN RemoveDataJobs ELSE UpgradeJob
          /\ cwake' \in {cwake, cwake \union {uc.u}} /\ UNCHANGED <<ccStatus, backup>>
      BY <2>1, <2>5, <2>6 DEF Runs, Finishes
    <3>2. /\ jobs' \in [Upgrades -> Work]
          /\ \A v \in Upgrades : v # uc.u => jobs'[v] = jobs[v]
          /\ jobs[uc.u].pgdata # "none" => jobs'[uc.u].pgdata = jobs[uc.u].pgdata
          /\ jobs[uc.u].pgdata = "none" => jobs'[uc.u].pgdata \in {"none", "running"}
          /\ ~JobComplete => jobs'[uc.u].remove = jobs[uc.u].remove
          /\ \A i \in Instances :
                /\ jobs[uc.u].remove[i] # "none" \/ i = uc.status.startup =>
                       jobs'[uc.u].remove[i] = jobs[uc.u].remove[i]
                /\ jobs[uc.u].remove[i] = "none" => jobs'[uc.u].remove[i] \in {"none", "running"}
      BY <1>1, <1>2, <3>1, JobsApplied
    <3> DEFINE same(v) == /\ jobs'[v].pgdata = "done" <=> jobs[v].pgdata = "done"
                          /\ \A i \in Instances : jobs'[v].remove[i] = "done" <=> jobs[v].remove[i] = "done"
    <3>3. \A v \in Upgrades : same(v) /\ (AllDone(jobs[v])' <=> AllDone(jobs[v]))
      <4>1. \A v \in Upgrades : same(v)
        BY <1>3, <3>2
      <4> QED BY <1>2, <4>1 DEF AllDone
    <3>4. primary \in Instances /\ ~AllDone(jobs[uc.u])' = ~AllDone(jobs[uc.u])
      BY <1>1, <1>3, <2>2, <3>3 DEF UpgradeTypes, AllDone
    <3>5. JobComplete => jobs[uc.u].pgdata = "done"
      BY <1>1, <1>2 DEF WorkerReads, JobComplete
    <3>6. UpgradeTypes'
      BY <1>1, <1>2, <1>3, <2>1, <2>2, <3>1, <3>2 DEF UpgradeTypes
    <3>7. Order'
      BY <1>1, <1>2, <1>3, <1>4, <3>2 DEF Order, Began, Constants
    <3>8. JobsHeld'
      <4>1. \A v \in Upgrades : jobs'[v].remove[primary] = "none"
        BY <1>1, <1>3, <3>1, <3>2, <3>4 DEF JobsHeld
      <4>2. \A v \in Upgrades : Began(v)' /\ pgc.version = v => Held(v)
        BY <1>1, <3>1, <3>2 DEF JobsHeld, Began
      <4>3. \A v \in Upgrades : jobs'[v].pgdata # "done" => \A i \in Instances : jobs'[v].remove[i] = "none"
        BY <1>1, <1>3, <3>2, <3>3, <3>5 DEF JobsHeld
      <4> QED BY <1>1, <1>2, <1>4, <3>1, <3>3, <4>1, <4>2, <4>3 DEF JobsHeld
    <3>9. WorkerReads'
      <4>1. uc'.obj.succeeded # "Succeeded"
        BY <2>4, <3>1
      <4> QED BY <1>1, <1>2, <1>3, <2>2, <2>3, <3>1, <4>1 DEF WorkerReads, Reported, Down
    <3>10. DataTrue'
      BY <1>1, <1>2, <3>1, <3>3 DEF DataTrue
    <3> QED BY <1>5, <3>6, <3>7, <3>8, <3>9, <3>10 DEF UpgradeInv
  <2>7. CASE Finishes
    <3>1. /\ pgc.version = uc.u /\ Held(uc.u) /\ Checks = "Upgrade" /\ JobComplete /\ Removed
          /\ Finished /\ cwake' = created /\ UNCHANGED jobs
      BY <2>1, <2>5, <2>7 DEF Runs, Finishes
    <3>2. /\ ccStatus \in Reports /\ ccStatus' = [ccStatus EXCEPT !.version = To(uc.u)] /\ backup' = 0
          /\ To(uc.u) \in Nat
      BY <1>1, <1>3, <3>1 DEF Finished, UpgradeTypes, To, Constants
    <3>3. /\ ccStatus' \in Reports /\ ccStatus'.version = To(uc.u) /\ ccStatus'.gen = ccStatus.gen
          /\ ccStatus'.replicas = ccStatus.replicas /\ ccStatus'.startup = ccStatus.startup
      BY <3>2 DEF Reports
    <3>4. AllDone(jobs[uc.u])
      <4>1. uc.jobs.remove[primary] = "none"
        BY <1>1, <1>2 DEF WorkerReads
      <4>2. AllDone(uc.jobs)
        BY <1>1, <1>2, <3>1, <4>1, ReplicasRemoved
      <4> QED BY <1>1, <1>2, <4>2 DEF AllDone, WorkerReads
    <3>5. created \subseteq {v \in created : obj[v] \in Conds}
      <4>1. created \subseteq Upgrades /\ pgc.version \in {1, 2, 3} /\ \A v \in created : v <= pgc.version
        BY <1>1 DEF UpgradeTypes, Versions
      <4>2. \A v \in created : v # uc.u => pgc.version > v
        BY <3>1, <4>1 DEF Constants
      <4>3. \A v \in created : v # uc.u => Won(v)
        BY <1>1, <4>1, <4>2 DEF Versions
      <4> QED BY <1>1, <1>3, <4>1, <4>3 DEF UpgradeTypes, Won
    <3>6. UpgradeTypes'
      BY <1>1, <1>2, <2>1, <2>2, <3>1, <3>2, <3>3, <3>5 DEF UpgradeTypes
    <3>7. Order'
      BY <1>1, <1>2, <1>4, <3>1 DEF Order, Began
    <3>8. JobsHeld'
      <4>1. \A v \in Upgrades : To(v) = To(uc.u) => v = uc.u
        BY <1>3 DEF To, Constants
      <4> QED BY <1>1, <1>2, <1>4, <3>1, <3>2, <3>3, <3>4, <4>1 DEF JobsHeld, Began, AllDone
    <3>9. WorkerReads'
      <4>1. uc'.obj.succeeded # "Succeeded"
        BY <2>4, <3>1
      <4> QED BY <1>1, <1>2, <1>3, <2>2, <2>3, <3>3, <4>1 DEF WorkerReads, Reported, Down
    <3>10. DataTrue'
      BY <1>1, <1>2, <3>1, <3>2 DEF DataTrue
    <3> QED BY <1>5, <3>6, <3>7, <3>8, <3>9, <3>10 DEF UpgradeInv
  <2>8. CASE ~Runs /\ ~Finishes
    <3>1. UNCHANGED <<jobs, cwake, ccStatus, backup>>
      BY <2>1, <2>8
    <3>2. UpgradeTypes'
      BY <1>1, <1>2, <2>1, <2>2, <3>1 DEF UpgradeTypes
    <3>3. Order'
      BY <1>1, <1>2, <1>4, <3>1 DEF Order, Began
    <3>4. JobsHeld' /\ DataTrue'
      BY <1>1, <1>2, <1>4, <3>1 DEF JobsHeld, Began, AllDone, DataTrue
    <3>5. WorkerReads'
      BY <1>1, <1>2, <1>3, <2>2, <2>3, <2>4, <3>1 DEF WorkerReads, Reported, Down, AllDone
    <3> QED BY <1>5, <3>2, <3>3, <3>4, <3>5 DEF UpgradeInv
  <2> QED BY <2>6, <2>7, <2>8
<1> QED BY <1>6, <1>7

\* Instances stop, start and report, and a backup is made, as the PostgresCluster says:
\* none starts while it is shut down.
LEMMA ClusterKeeps ==
    ASSUME Constants, UpgradeInv,
           (\E i \in Instances : Stop(i) \/ Start(i)) \/ Backup \/ Report,
           cwake' = IF ccStatus' # ccStatus THEN {u \in created : obj[u] # Absent} ELSE cwake,
           UNCHANGED <<from, obj, uc, cc, jobs, plan, primary, percona>>
    PROVE  UpgradeInv'
<1>1. UpgradeTypes /\ Order /\ Versions /\ Pauses /\ JobsHeld /\ WorkerReads /\ DataTrue
  BY DEF UpgradeInv
<1>2. UNCHANGED <<from, obj, uc, cc, jobs, plan, primary, created, wake, p, pgc>>
  BY DEF percona
<1>3. cwake' \in SUBSET {u \in created' : obj'[u] \in Conds}
  BY <1>1, <1>2 DEF UpgradeTypes
<1>4. \A v \in Upgrades : Won(v)' <=> Won(v)
  BY <1>2 DEF Won
<1>5. uc.pc \in {"act", "patch"} => (Won(uc.u)' <=> Won(uc.u)) /\ uc.u \in Upgrades
  BY <1>1, <1>2 DEF Won, WorkerReads, UpgradeTypes
<1>6. Order'
  BY <1>1, <1>2, <1>4 DEF Order, Began
<1>7. ~cc.shutdown => /\ cc.version = pgc.version /\ pgc.version \in Nat \ {0}
                      /\ \A u \in Upgrades : pgc.version = u => ~Began(u) /\ ~Won(u)
  BY <1>1 DEF Versions, JobsHeld, Held, AllDone, Began
<1>8. ~Down => /\ pgc.version \in Nat \ {0}
               /\ \A u \in Upgrades : pgc.version = u => ~Began(u) /\ ~Won(u) /\ ccStatus.version # To(u)
  BY <1>1 DEF Versions, JobsHeld, Held, AllDone, Began
<1>9. ASSUME NEW i \in Instances, Stop(i)
      PROVE  UpgradeInv'
  <2>1. /\ up' \in [Instances -> Nat] /\ \A j \in Instances : up'[j] \in {0, up[j]}
        /\ UNCHANGED <<ccStatus, data, endpoints, backup>>
    BY <1>1, <1>9 DEF Stop, UpgradeTypes
  <2>2. Down => Down'
    BY <2>1 DEF Down
  <2>3. UpgradeTypes'
    BY <1>1, <1>2, <1>3, <2>1 DEF UpgradeTypes
  <2>4. Versions' /\ Pauses'
    BY <1>1, <1>2, <1>4, <2>1, <2>2 DEF Versions, Pauses
  <2>5. JobsHeld' /\ DataTrue'
    BY <1>1, <1>2, <1>4, <2>1, <2>2 DEF JobsHeld, Began, Held, AllDone, DataTrue
  <2>6. WorkerReads'
    BY <1>1, <1>2, <1>5, <2>1, <2>2 DEF WorkerReads, Reported, AllDone
  <2> QED BY <1>6, <2>3, <2>4, <2>5, <2>6 DEF UpgradeInv
<1>10. ASSUME NEW i \in Instances, Start(i)
       PROVE  UpgradeInv'
  <2>1. /\ ~cc.shutdown
        /\ up' = [up EXCEPT ![i] = cc.version]
        /\ data' = [data EXCEPT ![i] = IF @ = 0 THEN Basis ELSE @]
        /\ endpoints' = TRUE /\ UNCHANGED <<ccStatus, backup>>
        /\ Basis \in Nat
    BY <1>1, <1>10 DEF Start, Basis, UpgradeTypes
  <2>2. /\ up' \in [Instances -> Nat] /\ \A j \in Instances : up'[j] \in {up[j], cc.version}
        /\ \A j \in Instances : j # i => up'[j] = up[j]
        /\ data' \in [Instances -> Nat] /\ \A j \in Instances : j # i => data'[j] = data[j]
        /\ data'[i] = IF data[i] = 0 THEN Basis ELSE data[i]
    BY <1>1, <2>1 DEF UpgradeTypes, Specs
  <2>3. UpgradeTypes'
    BY <1>1, <1>2, <1>3, <2>1, <2>2 DEF UpgradeTypes
  <2>4. Versions' /\ Pauses'
    BY <1>1, <1>2, <1>4, <1>7, <2>1, <2>2 DEF Versions, Pauses
  <2>5. JobsHeld'
    BY <1>1, <1>2, <1>4, <1>7, <2>1 DEF JobsHeld, Began, AllDone
  <2>6. WorkerReads'
    BY <1>1, <1>2, <1>5, <2>1 DEF WorkerReads, Reported, AllDone
  <2>7. DataTrue'
    <3>1. \A u \in Upgrades : pgc.version = u =>
              jobs[u].pgdata # "done" /\ \A j \in Instances : jobs[u].remove[j] # "done"
      BY <1>1, <1>7, <2>1 DEF Began, JobsHeld
    <3>2. data[primary] = pgc.version /\ pgc.version # 0 /\ primary \in Instances
      BY <1>1, <1>7, <2>1, <3>1 DEF DataTrue, UpgradeTypes
    <3>3. backup \in {0, pgc.version} /\ \A j \in Instances \ {primary} : data[j] \in {0, pgc.version}
      BY <1>1 , <3>1 DEF DataTrue
    <3>4. data'[primary] = pgc.version
      BY <2>2, <3>2
    <3>5. data'[i] # 0 /\ \A j \in Instances \ {primary} : data'[j] \in {0, pgc.version}
      BY <2>1, <2>2, <3>2, <3>3 DEF Basis
    <3>6. \A j \in Instances : up'[j] # 0 => data'[j] # 0
      BY <1>1, <2>2, <3>5 DEF DataTrue
    <3> QED BY <1>2, <2>1, <3>1, <3>3, <3>4, <3>5, <3>6 DEF DataTrue
  <2> QED BY <1>6, <2>3, <2>4, <2>5, <2>6, <2>7 DEF UpgradeInv
<1>11. ASSUME Backup
       PROVE  UpgradeInv'
  <2>1. /\ backup' = data[primary] /\ up[primary] # 0 /\ primary \in Instances
        /\ UNCHANGED <<ccStatus, up, data, endpoints>>
    BY <1>1, <1>11 DEF Backup, UpgradeTypes
  <2>2. ~Down /\ (Down' <=> Down)
    BY <2>1 DEF Down
  <2>3. backup' = pgc.version
    BY <1>1, <1>8, <2>1, <2>2 DEF DataTrue, Began
  <2>4. UpgradeTypes'
    BY <1>1, <1>2, <1>3, <2>1 DEF UpgradeTypes
  <2>5. Versions' /\ Pauses'
    BY <1>1, <1>2, <1>4, <2>1 DEF Versions, Pauses, Down
  <2>6. JobsHeld'
    BY <1>1, <1>2, <1>4, <1>8, <2>1, <2>2 DEF JobsHeld, Began, AllDone, Held
  <2>7. WorkerReads'
    <3>1. uc.pc = "patch" /\ uc.obj.succeeded = "Succeeded" => pgc.version # uc.u
      BY <1>1, <1>5, <1>8, <2>2 DEF WorkerReads, AllDone, Began
    <3> QED BY <1>1, <1>2, <1>5, <2>1, <3>1 DEF WorkerReads, Reported, AllDone, Down
  <2>8. DataTrue'
    BY <1>1, <1>2, <2>1, <2>3 DEF DataTrue
  <2> QED BY <1>6, <2>4, <2>5, <2>6, <2>7, <2>8 DEF UpgradeInv
<1>12. ASSUME Report
       PROVE  UpgradeInv'
  <2> DEFINE n == Cardinality({i \in Instances : up[i] # 0})
  <2>1. /\ ccStatus' = [ccStatus EXCEPT !.gen = cc.gen, !.replicas = n,
                                        !.startup = IF cc.shutdown THEN primary ELSE Absent]
        /\ UNCHANGED <<up, data, endpoints, backup>>
    BY <1>12 DEF Report
  <2>2. n \in Nat /\ (n = 0 => Down)
    <3>1. IsFiniteSet({i \in Instances : up[i] # 0})
      BY FS_Subset DEF Constants
    <3>2. n \in Nat /\ (n = 0 => {i \in Instances : up[i] # 0} = {})
      BY <3>1, FS_CardinalityType, FS_EmptySet
    <3> QED BY <3>2 DEF Down
  <2> HIDE DEF n
  <2>3. ccStatus \in Reports /\ cc.gen \in Nat /\ primary \in Instances
    BY <1>1 DEF UpgradeTypes, Specs
  <2>4. /\ ccStatus' \in Reports /\ ccStatus'.gen = cc.gen /\ ccStatus'.replicas = n
        /\ ccStatus'.startup \in {primary, Absent} /\ ccStatus'.version = ccStatus.version
    BY <2>1, <2>2, <2>3 DEF Reports
  <2>5. UpgradeTypes'
    BY <1>1, <1>2, <1>3, <2>1, <2>4 DEF UpgradeTypes
  <2>6. Versions' /\ Pauses'
    BY <1>1, <1>2, <1>4, <2>1 DEF Versions, Pauses, Down
  <2>7. JobsHeld' /\ DataTrue'
    BY <1>1, <1>2, <1>4, <2>1, <2>4 DEF JobsHeld, Began, Held, AllDone, DataTrue, Down
  <2>8. WorkerReads'
    BY <1>1, <1>2, <1>5, <2>1, <2>2, <2>3, <2>4 DEF WorkerReads, Reported, AllDone, Down
  <2> QED BY <1>6, <2>5, <2>6, <2>7, <2>8 DEF UpgradeInv
<1> QED BY <1>9, <1>10, <1>11, <1>12

\* A user asks for an upgrade of a cluster that runs.
LEMMA CreateKeeps ==
    ASSUME Constants, UpgradeInv, NEW u \in Upgrades, CreateUpgrade(u)
    PROVE  UpgradeInv'
<1>1. UpgradeTypes /\ Order /\ Versions /\ Pauses /\ JobsHeld /\ WorkerReads /\ DataTrue
  BY DEF UpgradeInv
<1>2. /\ UNCHANGED <<from, p, obj, pgc, cc, jobs, plan, cwake, uc, ccStatus, up, data, primary, endpoints, backup>>
      /\ u \notin created /\ created' = created \union {u} /\ created \subseteq Upgrades
      /\ Upgrades = {1, 2}
  BY <1>1 DEF CreateUpgrade, cluster, upstream, UpgradeTypes, Constants
<1>3. wake' \in [Upgrades -> {"no", "now", "timer"}] /\ \A v \in Upgrades : v # u => wake'[v] = wake[v]
  BY <1>1 DEF CreateUpgrade, UpgradeTypes
<1>4. \A v \in Upgrades : Won(v)' <=> Won(v)
  BY <1>2 DEF Won
<1>5. ~Won(u) /\ obj[u] = Absent /\ ~Began(u)
  BY <1>1, <1>2 DEF Order
<1>6. u = 1 \/ u = 2
  BY <1>2
<1>7. u = 2 => /\ wake[1] = "no" /\ p[1] = "idle" /\ "crash" \notin plan
               /\ \A i \in Instances : up[i] = 2
  BY <1>1 DEF CreateUpgrade, Order, OneByOne, To
<1>8. pgc.version = u /\ ~cc.shutdown
  <2>1. primary \in Instances /\ pgc.version \in {1, 2, 3} /\ cc.version <= pgc.version
        /\ ~(pgc.version > u) /\ cc.version \in Nat
    BY <1>1, <1>5 DEF UpgradeTypes, Versions, Specs
  <2>2. CASE u = 1
    <3>1. pgc.version = 1
      BY <2>1, <2>2
    <3>2. created = {}
      BY <1>1, <1>2, <2>2, <3>1 DEF Versions
    <3> QED BY <1>1, <2>2, <3>1, <3>2 DEF Pauses
  <2>3. CASE u = 2
    <3>1. cc.version = 2 /\ ~Down
      BY <1>1, <1>7, <2>1, <2>3 DEF Versions, Down
    <3>2. pgc.version = 2
      BY <2>1, <2>3, <3>1
    <3> QED BY <1>1, <1>2, <2>3, <3>1, <3>2 DEF Pauses
  <2> QED BY <1>6, <2>2, <2>3
<1>9. UpgradeTypes'
  BY <1>1, <1>2, <1>3 DEF UpgradeTypes
<1>10. Order'
  <2>1. 2 \in created' => wake'[1] = "no" /\ p[1] = "idle" /\ "crash" \notin plan
    <3>1. CASE u = 2
      BY <1>2, <1>3, <1>7, <3>1
    <3>2. CASE u = 1
      <4>1. 2 \notin created
        BY <1>1, <1>8, <3>2 DEF Versions
      <4> QED BY <1>2, <3>2, <4>1
    <3> QED BY <1>6, <3>1, <3>2
  <2> QED BY <1>1, <1>2, <1>4, <2>1 DEF Order, Began
<1>11. Versions'
  <2>1. pgc'.version = u /\ u <= u
    BY <1>2, <1>6, <1>8
  <2> QED BY <1>1, <1>2, <1>4, <2>1 DEF Versions, Down
<1>12. Pauses'
  BY <1>1, <1>2, <1>8 DEF Pauses, Down
<1>13. JobsHeld' /\ DataTrue'
  BY <1>1, <1>2, <1>4 DEF JobsHeld, Began, Held, AllDone, DataTrue, Down
<1>14. WorkerReads'
  <2>1. uc.pc \in {"act", "patch"} => (Won(uc.u)' <=> Won(uc.u))
    BY <1>2 DEF Won
  <2> QED BY <1>1, <1>2, <2>1 DEF WorkerReads, Reported, AllDone, Down
<1> QED BY <1>9, <1>10, <1>11, <1>12, <1>13, <1>14 DEF UpgradeInv

\* The operator restarts while there is one upgrade at most.
LEMMA CrashKeeps ==
    ASSUME Constants, UpgradeInv, UpgradeCrash
    PROVE  UpgradeInv'
<1>1. UpgradeTypes /\ Order /\ Versions /\ Pauses /\ JobsHeld /\ WorkerReads /\ DataTrue
  BY DEF UpgradeInv
<1>2. /\ UNCHANGED <<from, created, obj, pgc, cc, jobs, ccStatus, up, data, primary, endpoints, backup>>
      /\ uc' = Idle /\ uc'.pc = "idle" /\ plan' \subseteq plan /\ "crash" \in plan
      /\ cwake' = {u \in created : obj[u] # Absent}
      /\ wake' \in [Upgrades -> {"no", "now", "timer"}]
      /\ p' \in [Upgrades -> {"idle", "resume"}] /\ \A u \in Upgrades : p'[u] = "idle"
  BY DEF UpgradeCrash, cluster, Idle
<1>3. \A v \in Upgrades : Won(v)' <=> Won(v)
  BY <1>2 DEF Won
<1>4. UpgradeTypes'
  BY <1>1, <1>2 DEF UpgradeTypes
<1>5. Order'
  <2>1. OneByOne(plan') /\ 2 \notin created
    BY <1>1, <1>2 DEF Order, OneByOne
  <2> QED BY <1>1, <1>2, <1>3, <2>1 DEF Order, Began
<1>6. Versions' /\ Pauses'
  BY <1>1, <1>2, <1>3 DEF Versions, Pauses, Down
<1>7. JobsHeld' /\ DataTrue'
  BY <1>1, <1>2, <1>3 DEF JobsHeld, Began, Held, AllDone, DataTrue, Down
<1>8. WorkerReads'
  BY <1>1, <1>2 DEF WorkerReads, Reported, Down
<1> QED BY <1>4, <1>5, <1>6, <1>7, <1>8 DEF UpgradeInv

-----------------------------------------------------------------------------
(* The theorems.                                                           *)

\* The invariant holds at first.
LEMMA UpgradeStarts ==
    ASSUME Constants, \A c \in UpgradeScenarios : OneByOne(c), UpgradeInit
    PROVE  UpgradeInv
<1>1. OneByOne(plan) /\ Upgrades = {1, 2} /\ from = [u \in Upgrades |-> u]
  BY DEF UpgradeInit, OneByOne, Constants
<1>2. NoJobs \in Work /\ NoJobs.pgdata = "none" /\ \A i \in Instances : NoJobs.remove[i] = "none"
  BY DEF NoJobs, Work, States
<1>3. /\ created = {} /\ cwake = {} /\ uc = Idle /\ uc.pc = "idle" /\ primary \in Instances
      /\ obj = [u \in Upgrades |-> Absent] /\ jobs = [u \in Upgrades |-> NoJobs]
      /\ p = [u \in Upgrades |-> "idle"] /\ wake = [u \in Upgrades |-> "no"]
      /\ up = [i \in Instances |-> 1] /\ data = [i \in Instances |-> 1]
      /\ endpoints = TRUE /\ backup = 1
  BY DEF UpgradeInit, Idle
<1>4. /\ pgc \in [pause : BOOLEAN, version : Nat, allow : Upgrades \union {Absent}]
      /\ pgc.version = 1 /\ ~pgc.pause
  BY DEF UpgradeInit
<1>5. cc \in Specs /\ cc.version = 1 /\ ~cc.shutdown /\ cc.gen = 1
  BY DEF UpgradeInit, Specs
<1>6. ccStatus \in Reports /\ ccStatus.gen = 1 /\ ccStatus.version = 0 /\ ccStatus.startup = Absent
  BY FS_CardinalityType DEF UpgradeInit, Reports, Constants
<1>7. \A u \in Upgrades : obj[u] = Absent /\ ~Won(u) /\ ~Began(u) /\ jobs[u] = NoJobs
  BY <1>2, <1>3 DEF Won, Began
<1>8. UpgradeTypes
  BY <1>1, <1>2, <1>3, <1>4, <1>5, <1>6 DEF UpgradeTypes
<1>9. Order
  BY <1>1, <1>3, <1>7 DEF Order
<1>10. Versions /\ Pauses
  BY <1>1, <1>3, <1>4, <1>5, <1>7 DEF Versions, Pauses
<1>11. JobsHeld
  BY <1>1, <1>2, <1>3, <1>6, <1>7 DEF JobsHeld, To
<1>12. WorkerReads
  BY <1>3, <1>5, <1>6 DEF WorkerReads, Reported
<1>13. DataTrue
  BY <1>1, <1>2, <1>3, <1>4, <1>7 DEF DataTrue
<1> QED BY <1>8, <1>9, <1>10, <1>11, <1>12, <1>13 DEF UpgradeInv

\* The inductive invariant of the upgrades: the controllers of both operators, the Jobs
\* and the instances agree on the version that the cluster is down for.
THEOREM UpgradeInvariant ==
    ASSUME Constants, \A c \in UpgradeScenarios : OneByOne(c)
    PROVE  UpgradeSpec => []UpgradeInv
<1>1. UpgradeInit => UpgradeInv
  BY UpgradeStarts
<1>2. UpgradeInv /\ [UpgradeNext]_upgradeVars => UpgradeInv'
  <2> SUFFICES ASSUME UpgradeInv, [UpgradeNext]_upgradeVars
               PROVE  UpgradeInv'
    OBVIOUS
  <2>1. ASSUME NEW u \in Upgrades, ReconcilePercona(u) PROVE UpgradeInv'
    BY <2>1, PerconaKeeps
  <2>2. ASSUME NEW u \in Upgrades, Resume(u) PROVE UpgradeInv'
    BY <2>2, ResumeKeeps
  <2>3. ASSUME NEW u \in Upgrades, UpgradeData(u) PROVE UpgradeInv'
    BY <2>3, UpgradeDataKeeps
  <2>4. ASSUME NEW u \in Upgrades, NEW i \in Instances, RemoveData(u, i) PROVE UpgradeInv'
    BY <2>4, RemoveDataKeeps
  <2>5. CASE ReconcileUpgrade
    BY <2>5, ObserveKeeps, ActKeeps, PatchKeeps DEF ReconcileUpgrade
  <2>6. CASE ReconcileCluster
    BY <2>6, SyncKeeps, ClusterKeeps DEF ReconcileCluster
  <2>7. ASSUME NEW u \in Upgrades, CreateUpgrade(u) PROVE UpgradeInv'
    BY <2>7, CreateKeeps
  <2>8. CASE UpgradeCrash
    BY <2>8, CrashKeeps
  <2>9. CASE UNCHANGED upgradeVars
    BY <2>9 DEF upgradeVars, UpgradeInv, UpgradeTypes, Order, Versions, Pauses, JobsHeld, WorkerReads,
           DataTrue, Won, Began, Held, Down, AllDone, Reported
  <2> QED BY <2>1, <2>2, <2>3, <2>4, <2>5, <2>6, <2>7, <2>8, <2>9 DEF UpgradeNext, System
<1> QED BY <1>1, <1>2, PTL DEF UpgradeSpec

\* "The upgrade needs to manipulate the data directory of the primary while Postgres is
\* stopped": no instance runs while a Job of any upgrade works on a volume, and what runs
\* finds data of its own version, for any number of instances, with Jobs that fail and
\* an operator that restarts during a single upgrade, or that runs through two.
THEOREM UpgradeStaysOffline ==
    ASSUME Constants, \A c \in UpgradeScenarios : OneByOne(c)
    PROVE  UpgradeSpec => []UpgradeOffline
<1>1. UpgradeInv => UpgradeOffline
  <2> SUFFICES ASSUME UpgradeInv PROVE UpgradeOffline
    OBVIOUS
  <2>1. UpgradeTypes /\ Versions /\ JobsHeld /\ DataTrue
    BY DEF UpgradeInv
  <2>2. ASSUME NEW u \in Upgrades, NEW i \in Instances, Busy(u, i)
        PROVE  Down
    <3>1. Began(u) /\ ~AllDone(jobs[u])
      <4>1. CASE jobs[u].pgdata = "running"
        BY <4>1 DEF Began, AllDone
      <4>2. CASE jobs[u].remove[i] = "running"
        <5>1. i # primary /\ jobs[u].pgdata = "done"
          BY <2>1, <4>2 DEF JobsHeld
        <5> QED BY <4>2, <5>1 DEF Began, AllDone
      <4> QED BY <2>2, <4>1, <4>2 DEF Busy
    <3> QED BY <3>1, RunningIsHeld DEF Held
  <2>3. ASSUME NEW i \in Instances, up[i] # 0
        PROVE  up[i] = data[i]
    <3>1. ~Down /\ up[i] = cc.version /\ cc.version = pgc.version /\ data[i] # 0
      BY <2>1, <2>3 DEF Down, Versions, DataTrue
    <3>2. \A u \in Upgrades : pgc.version = u =>
              jobs[u].pgdata # "done" /\ \A j \in Instances : jobs[u].remove[j] # "done"
      BY <2>1, <3>1 DEF JobsHeld, Began, Held
    <3> QED BY <2>1, <3>1, <3>2 DEF DataTrue
  <2> QED BY <2>2, <2>3 DEF UpgradeOffline, Down
<1> QED BY <1>1, UpgradeInvariant, PTL
=============================================================================
