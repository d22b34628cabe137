----------------------------- MODULE Repository -----------------------------
(***************************************************************************)
(* The pgBackRest repositories of a PostgresCluster (pgbackrest.go): the   *)
(* repository host, the volumes, the configuration, the stanzas, the       *)
(* CronJobs and the first backup, from which replicas are made.  The       *)
(* status that one reconcile leaves behind decides what the next one does, *)
(* and users add, move and remove repositories meanwhile.                  *)
(***************************************************************************)
EXTENDS Naturals, FiniteSets

CONSTANTS
    Repos,
    None,
    MaxVolume,  \* bound on the volumes that are ever provisioned
    RepositoryScenarios \* sets of changes: what may happen in a behaviour

VARIABLES
    spec,       \* [on, authorized, first, kind, bucket, scheduled, shutdown]
    status,     \* of each repository: [kind, id, stanza, complete], or None
    cond,       \* conditions in the status: [host, repo, create]
    host,       \* StatefulSet of the repository host: "none", "starting", "ready"
    volume,     \* the volume of a repository, 0 if it has no claim
    lastVolume,
    cm,         \* the configuration in the ConfigMap, and as the containers of
    mounted,    \* the instances and of the repository host have it
    stanzas,    \* storages with a stanza
    backups,    \* storages with a backup
    job,        \* the Job of the first backup: [repo, hash, state], or None
    cron,       \* CronJob of a repository: "none", "active", "suspended"
    writable,   \* an instance is writable
    s,          \* the reconciler
    event,      \* something for it to do
    changes     \* what may still happen

repositoryVars == <<spec, status, cond, host, volume, lastVolume, cm, mounted, stanzas,
                    backups, job, cron, writable, s, event, changes>>

NoConf == [hash |-> None, kind |-> [r \in Repos |-> "none"]]
Unknown == [host |-> FALSE, repo |-> FALSE, create |-> FALSE]

\* CalculateConfigHashes: only what describes the cloud repositories counts.
Hash(sp) == IF \E r \in Repos : sp.kind[r] = "cloud" THEN sp.bucket ELSE None
Conf(sp) == [hash |-> Hash(sp), kind |-> sp.kind]

\* Where the backups of a repository are.
Storage(r, c) ==
    IF c.kind[r] = "volume" THEN <<r, "volume", volume[r]>> ELSE <<r, "cloud", c.hash>>
Usable(r, c) ==
    \/ c.kind[r] = "cloud"
    \/ c.kind[r] = "volume" /\ volume[r] # 0 /\ host = "ready"

RepositoryInit ==
    /\ changes \in RepositoryScenarios
    /\ \E k \in [Repos -> {"volume", "cloud"}], f \in Repos :
        spec = [on |-> TRUE, authorized |-> FALSE, first |-> f, bucket |-> 0, kind |-> k,
                scheduled |-> "schedule" \in changes, shutdown |-> FALSE]
    /\ status = [r \in Repos |-> None] /\ cond = Unknown
    /\ host = "none" /\ volume = [r \in Repos |-> 0] /\ lastVolume = 0
    /\ cm = NoConf /\ mounted = [instance |-> NoConf, host |-> NoConf]
    /\ stanzas = {} /\ backups = {} /\ job = None
    /\ cron = [r \in Repos |-> "none"]
    /\ writable = FALSE
    /\ s = [pc |-> "idle"] /\ event = TRUE

-----------------------------------------------------------------------------
(* Reconcile reads the cluster.  BackupsEnabled: destroying backups takes  *)
(* two keys, or there is no repository host.                               *)

\* Mutant: one key is enough.
BackupsEnabledAlways(sp) == TRUE

BackupsEnabled(sp) == sp.on \/ sp.authorized \/ host = "none"

Read ==
    /\ s.pc = "idle" /\ event
    /\ event' = FALSE
    /\ s' = IF BackupsEnabled(spec)
            THEN [pc |-> "cron", spec |-> spec, status |-> status, cond |-> cond]
            ELSE [pc |-> "idle"]
    /\ UNCHANGED <<spec, status, cond, host, volume, lastVolume, cm, mounted, stanzas,
                   backups, job, cron, writable, changes>>

\* backupScheduleFound: the spec has a schedule for the repository.
Scheduled(r) == s.spec.on /\ s.spec.kind[r] # "none" /\ s.spec.scheduled

(* getPGBackRestResources deletes kind by kind what the spec no longer has. *)
CleanCron ==
    /\ s.pc = "cron"
    /\ host' = IF s.spec.on THEN host ELSE "none"
    /\ cron' = [r \in Repos |-> IF Scheduled(r) THEN cron[r] ELSE "none"]
    /\ s' = [s EXCEPT !.pc = "jobs"]
    /\ UNCHANGED <<spec, status, cond, volume, lastVolume, cm, mounted, stanzas, backups,
                   job, writable, event, changes>>

CleanJobs ==
    /\ s.pc = "jobs"
    /\ job' = IF job # None /\ s.spec.on /\ s.spec.kind[job.repo] # "none" THEN job ELSE None
    /\ cm' = IF s.spec.on THEN cm ELSE NoConf
    /\ s' = [s EXCEPT !.pc = "volumes"]
    /\ UNCHANGED <<spec, status, cond, host, volume, lastVolume, mounted, stanzas, backups,
                   cron, writable, event, changes>>

CleanVolumes ==
    /\ s.pc = "volumes"
    /\ volume' = [r \in Repos |->
        IF s.spec.on /\ s.spec.kind[r] = "volume" THEN volume[r] ELSE 0]
    /\ s' = IF s.spec.on THEN [s EXCEPT !.pc = "host"]
            ELSE [s EXCEPT !.pc = "patch", !.status = [r \in Repos |-> None]]
    /\ UNCHANGED <<spec, status, cond, host, lastVolume, cm, mounted, stanzas, backups, job,
                   cron, writable, event, changes>>

\* The StatefulSet is applied; an existing one goes on.
ApplyRepoHost == host' = IF host = "none" THEN "starting" ELSE host

(* reconcileDedicatedRepoHost.                                             *)
RepoHost ==
    /\ s.pc = "host"
    /\ ApplyRepoHost
    /\ s' = [s EXCEPT !.pc = "repos", !.cond.host = (host = "ready")]
    /\ UNCHANGED <<spec, status, cond, volume, lastVolume, cm, mounted, stanzas, backups,
                   job, cron, writable, event, changes>>

\* Mutant: another volume or bucket does not count as another repository.
RepoStatusAnyVolume(r) ==
    LET old == s.status[r]
        k == s.spec.kind[r]
        id == IF k = "volume" THEN volume'[r] ELSE Hash(s.spec)
        new == [kind |-> k, id |-> id, stanza |-> FALSE, complete |-> FALSE]
    IN IF k = "none" THEN None
       ELSE IF old = None THEN new
       ELSE [old EXCEPT !.id = id, !.complete = @ /\ r = s.spec.first]

\* getRepoVolumeStatus: what is known of a repository is kept as long as it is the
\* same volume or the same bucket; a backup counts only for the first repository.
RepoStatus(r) ==
    LET old == s.status[r]
        k == s.spec.kind[r]
        id == IF k = "volume" THEN volume'[r] ELSE Hash(s.spec)
        new == [kind |-> k, id |-> id, stanza |-> FALSE, complete |-> FALSE]
    IN IF k = "none" THEN None
       ELSE IF old = None THEN new
       ELSE IF old.kind # k \/ old.id # id THEN new
       ELSE [old EXCEPT !.complete = @ /\ r = s.spec.first]

\* A claim for each repository on a volume that has none; each gets a new volume.
ApplyRepoVolumes ==
    LET need == {r \in Repos : s.spec.kind[r] = "volume" /\ volume[r] = 0} IN
    /\ \E ids \in [need -> (lastVolume + 1)..(lastVolume + Cardinality(need))] :
        /\ \A q, r \in need : ids[q] = ids[r] => q = r
        /\ volume' = [r \in Repos |-> IF r \in need THEN ids[r] ELSE volume[r]]
    /\ lastVolume' = lastVolume + Cardinality(need)

(* reconcileRepos: a claim for each volume, and the status of each one.     *)
ReconcileRepos ==
    /\ s.pc = "repos"
    /\ ApplyRepoVolumes
    /\ s' = [s EXCEPT !.pc = "config", !.status = [r \in Repos |-> RepoStatus(r)]]
    /\ UNCHANGED <<spec, status, cond, host, cm, mounted, stanzas, backups, job, cron,
                   writable, event, changes>>

(* reconcilePGBackRestConfig writes the ConfigMap.                         *)
WriteConfig ==
    /\ s.pc = "config"
    /\ cm' = Conf(s.spec)
    /\ s' = [s EXCEPT !.pc = "stanza"]
    /\ UNCHANGED <<spec, status, cond, host, volume, lastVolume, mounted, stanzas, backups,
                   job, cron, writable, event, changes>>

\* Mutant: without looking whether the configuration has reached the container.
StanzaCreateBlind ==
    IF \A r \in Repos : mounted.instance.kind[r] = "none" \/ Usable(r, mounted.instance)
    THEN "ok" ELSE "failed"

\* StanzaCreateOrUpgrade, run in the writable instance.
StanzaCreate ==
    IF /\ mounted.instance.hash = Hash(s.spec)
       /\ \A r \in Repos : s.spec.kind[r] = "volume" => mounted.instance.kind[r] # "none"
       /\ \A r \in Repos :
            mounted.instance.kind[r] = "none" \/ Usable(r, mounted.instance)
    THEN "ok" ELSE "failed"

(* reconcileStanzaCreate; a failure is tried again after ten seconds.      *)
Listed == {r \in Repos : s.status[r] # None}
ReconcileStanza ==
    /\ s.pc = "stanza"
    /\ LET needed == writable /\ \E r \in Listed : ~s.status[r].stanza
           ok == needed /\ StanzaCreate = "ok"
           st == [r \in Repos |->
                    IF ok /\ r \in Listed THEN [s.status[r] EXCEPT !.stanza = TRUE]
                    ELSE s.status[r]]
       IN /\ stanzas' = IF ok
              THEN stanzas \union {Storage(r, mounted.instance) :
                     r \in {q \in Repos : mounted.instance.kind[q] # "none"}}
              ELSE stanzas
          /\ event' = (event \/ (needed /\ ~ok))
          /\ s' = [s EXCEPT !.pc = "schedule", !.status = st,
                      !.cond.repo = s.spec.first \in Listed /\ st[s.spec.first].stanza]
    /\ UNCHANGED <<spec, status, cond, host, volume, lastVolume, cm, mounted, backups, job,
                   cron, writable, changes>>

\* reconcilePGBackRestCronJob: once the first backup and the stanza are there.
CronJob(r) ==
    IF s.cond.create /\ r \in Listed /\ s.status[r].stanza
    THEN IF s.spec.shutdown THEN "suspended" ELSE "active"
    ELSE cron[r]

(* reconcileScheduledBackups.                                              *)
ReconcileSchedules ==
    /\ s.pc = "schedule"
    /\ cron' = [r \in Repos |-> IF s.spec.scheduled THEN CronJob(r) ELSE cron[r]]
    /\ s' = [s EXCEPT !.pc = "backup"]
    /\ UNCHANGED <<spec, status, cond, host, volume, lastVolume, cm, mounted, stanzas,
                   backups, job, writable, event, changes>>

\* The Job of the first backup.
NewJob == [repo |-> s.spec.first, hash |-> Hash(s.spec), state |-> "running"]

Complete(st) == s.spec.first \in Listed /\ st[s.spec.first].complete

(* reconcileReplicaCreateBackup.                                           *)
ReplicaCreateBackup ==
    /\ s.pc = "backup"
    /\ LET f == s.spec.first
           done == [s.status EXCEPT ![f].complete = TRUE]
           nothing == ~writable \/ f \notin Listed \/ Complete(s.status)
           outdated == job # None /\ (job.state = "failed" \/ job.repo # f
                                        \/ job.hash # Hash(s.spec))
           finished == job # None /\ job.state = "done"
           st == IF ~nothing /\ ~outdated /\ finished THEN done ELSE s.status
       IN /\ job' = IF nothing THEN job
                    ELSE IF outdated THEN None
                    ELSE IF job = None /\ s.cond.host /\ s.cond.repo
                    THEN NewJob
                    ELSE job
          /\ s' = [s EXCEPT !.pc = "patch", !.status = st,
                            !.cond.create = f \in Listed /\ st[f].complete]
    /\ event' = (event \/ job' # job)
    /\ UNCHANGED <<spec, status, cond, host, volume, lastVolume, cm, mounted, stanzas,
                   backups, cron, writable, changes>>

PatchStatus ==
    /\ s.pc = "patch"
    /\ status' = s.status /\ cond' = s.cond
    /\ event' = (event \/ status' # status \/ cond' # cond)
    /\ s' = [pc |-> "idle"]
    /\ UNCHANGED <<spec, host, volume, lastVolume, cm, mounted, stanzas, backups, job, cron,
                   writable, changes>>

Reconcile ==
    \/ Read \/ CleanCron \/ CleanJobs \/ CleanVolumes \/ RepoHost \/ ReconcileRepos
    \/ WriteConfig \/ ReconcileStanza \/ ReconcileSchedules \/ ReplicaCreateBackup
    \/ PatchStatus

-----------------------------------------------------------------------------
(* Kubernetes, the backup Job and PostgreSQL.                              *)
HostStarts ==
    /\ host = "starting"
    /\ host' = "ready" /\ event' = TRUE
    /\ UNCHANGED <<mounted, job, backups, writable, changes>>

\* The kubelets bring the ConfigMap to the containers in their own time.
Propagate(where) ==
    /\ mounted[where] # cm
    /\ mounted' = [mounted EXCEPT ![where] = cm]
    /\ UNCHANGED <<host, job, backups, writable, event, changes>>

\* A writable instance appears; watchPods tells the reconciler.
Promote ==
    /\ ~writable /\ writable' = TRUE /\ event' = TRUE
    /\ UNCHANGED <<host, mounted, job, backups, changes>>

\* compareHashAndRunCommand: the Pod of the Job has the ConfigMap of now and runs
\* pgBackRest only if the repository host has it, too.
SameConfiguration == mounted.host = cm /\ host = "ready"

\* pgbackrest backup.
CanBackup ==
    /\ writable /\ cm.kind[job.repo] # "none" /\ Usable(job.repo, cm)
    /\ Storage(job.repo, cm) \in stanzas

\* The backup Job.  One that keeps failing gives up.
RunJob ==
    /\ job # None /\ job.state = "running"
    /\ \/ /\ SameConfiguration /\ CanBackup
          /\ backups' = backups \union {Storage(job.repo, cm)}
          /\ job' = [job EXCEPT !.state = "done"]
          /\ UNCHANGED changes
       \/ /\ "jobFails" \in changes
          /\ changes' = changes \ {"jobFails"}
          /\ job' = [job EXCEPT !.state = "failed"]
          /\ UNCHANGED backups
    /\ event' = TRUE
    /\ UNCHANGED <<host, mounted, writable>>

World ==
    /\ HostStarts \/ Promote \/ RunJob \/ \E w \in {"instance", "host"} : Propagate(w)
    /\ UNCHANGED <<spec, status, cond, volume, lastVolume, cm, stanzas, cron, s>>

-----------------------------------------------------------------------------
(* The user, and faults.                                                   *)
Change(what) == what \in changes /\ changes' = changes \ {what}

Edit ==
    /\ \/ Change("move") /\ \E r \in Repos : spec' = [spec EXCEPT !.first = r]
       \/ Change("move back") /\ \E r \in Repos : spec' = [spec EXCEPT !.first = r]
       \/ Change("bucket") /\ spec' = [spec EXCEPT !.bucket = 1]
       \/ Change("kind") /\ \E r \in Repos, k \in {"volume", "cloud", "none"} :
            /\ r # spec.first \/ k # "none"
            /\ lastVolume < MaxVolume
            /\ spec' = [spec EXCEPT !.kind[r] = k]
       \/ Change("remove") /\ spec' = [spec EXCEPT !.on = FALSE]
       \/ Change("authorize") /\ spec' = [spec EXCEPT !.authorized = TRUE]
       \/ Change("return") /\ spec' = [spec EXCEPT !.on = TRUE]
       \/ Change("shutdown") /\ spec' = [spec EXCEPT !.shutdown = TRUE]
       \/ Change("unschedule") /\ spec' = [spec EXCEPT !.scheduled = FALSE]
    /\ event' = TRUE
    /\ UNCHANGED <<status, cond, host, volume, lastVolume, cm, mounted, stanzas, backups,
                   job, cron, writable, s>>

\* A volume is replaced: its claim is deleted with the Pod that used it.  With
\* "late" it may be one that replicas are made from.
Replace ==
    /\ Change("replace")
    /\ \E r \in Repos :
        /\ volume[r] # 0 /\ (r # spec.first \/ "late" \in changes)
        /\ volume' = [volume EXCEPT ![r] = 0]
    /\ host' = (IF host = "ready" THEN "starting" ELSE host)
    /\ event' = TRUE
    /\ UNCHANGED <<spec, status, cond, lastVolume, cm, mounted, stanzas, backups, job, cron,
                   writable, s>>

Crash ==
    /\ Change("crash") /\ s.pc # "idle"
    /\ s' = [pc |-> "idle"] /\ event' = TRUE
    /\ UNCHANGED <<spec, status, cond, host, volume, lastVolume, cm, mounted, stanzas,
                   backups, job, cron, writable>>

RepositoryNext == Reconcile \/ World \/ Edit \/ Replace \/ Crash

RepositorySpec == RepositoryInit /\ [][RepositoryNext]_repositoryVars

-----------------------------------------------------------------------------
(* Properties.                                                             *)

\* Replicas are made from the first repository once its status says that this is
\* possible: then the very volume or bucket of that status holds a backup, however
\* repositories were added, moved and removed and wherever the operator stopped.
FirstBackupExists ==
    \A r \in Repos :
        status[r] # None =>
            (status[r].complete => <<r, status[r].kind, status[r].id>> \in backups)

\* "Destroying backups is a two key operation" (pgbackrest.go:3589): the reconciler
\* deletes a volume with a backup only if the spec that it read lists its
\* repositories without that one, or the removal was authorised.
TwoKeys ==
    [][\A r \in Repos :
        s.pc = "volumes" /\ volume[r] # 0 /\ volume'[r] = 0
                         /\ <<r, "volume", volume[r]>> \in backups
        => s.spec.on \/ s.spec.authorized]_repositoryVars

\* With nothing left to do the repositories of the spec are in use: the first one
\* holds a backup, every one has its stanza and its CronJob; and backups that were
\* removed for good have left nothing behind.
RepositoriesSettle ==
    ~ENABLED (Reconcile \/ World) =>
        IF spec.on
        THEN /\ host = "ready" /\ cond.create
             /\ \A r \in Repos : spec.kind[r] # "none" =>
                    /\ Storage(r, Conf(spec)) \in stanzas
                    /\ (cron[r] # "none") = spec.scheduled
             /\ Storage(spec.first, Conf(spec)) \in backups
        ELSE spec.authorized =>
             /\ host = "none" /\ job = None
             /\ \A r \in Repos : volume[r] = 0 /\ cron[r] = "none"
=============================================================================
