-------------------------- MODULE Repository_proofs --------------------------
(***************************************************************************)
(* Backups are destroyed only with two keys, and a status that offers the  *)
(* first backup to replicas is right, for any number of repositories.      *)
(***************************************************************************)
EXTENDS Repository, FiniteSetTheorems, TLAPS


-----------------------------------------------------------------------------
(* Types.                                                                  *)

Specs == [on : BOOLEAN, authorized : BOOLEAN, first : Repos, bucket : {0, 1},
          kind : [Repos -> {"volume", "cloud", "none"}], scheduled : BOOLEAN,
          shutdown : BOOLEAN]
Known == [kind : {"volume", "cloud"}, id : Nat \cup {None}, stanza : BOOLEAN,
          complete : BOOLEAN]
Statuses == [Repos -> Known \cup {None}]
Conditions == [host : BOOLEAN, repo : BOOLEAN, create : BOOLEAN]
Steps == {"cron", "jobs", "volumes", "host", "repos", "config", "stanza", "schedule",
          "backup", "patch"}
Busy == [pc : Steps, spec : Specs, status : Statuses, cond : Conditions]
Jobs == [repo : Repos, hash : {0, 1, None}, state : {"running", "done", "failed"}]

RepositoryTypes ==
    /\ spec \in Specs /\ status \in Statuses /\ cond \in Conditions
    /\ volume \in [Repos -> Nat] /\ lastVolume \in Nat
    /\ job \in Jobs \cup {None}
    /\ s = [pc |-> "idle"] \/ s \in Busy

\* A reconcile is under way.
Reading == s.pc # "idle"

-----------------------------------------------------------------------------
(* Two keys.                                                               *)

\* An authorisation that the reconciler has read is still there.  Without it there
\* is no backup to lose where there is no host, and the reconciler removes
\* repositories only there.
HostGuards ==
    /\ Reading /\ s.spec.authorized => spec.authorized
    /\ host = "none" /\ ~spec.authorized => backups = {}
    /\ s.pc \in {"cron", "jobs", "volumes"} /\ ~s.spec.on /\ ~s.spec.authorized =>
           host = "none" /\ backups = {}

-----------------------------------------------------------------------------
(* The first backup.                                                       *)

\* The changes under which a repository stays the storage it was when the Job of
\* the first backup was made: no repository changes its kind, and while volumes are
\* replaced the repository that replicas are made from stays the same one.
Careful(c) == /\ "kind" \notin c
              /\ "replace" \in c => "late" \notin c /\ "move" \notin c /\ "move back" \notin c

HasCloud == \E r \in Repos : spec.kind[r] = "cloud"

\* With fixed kinds a reconcile works on the repositories of now, and on their
\* bucket of now or an earlier one.
ReadTrue ==
    /\ Careful(changes)
    /\ \A r \in Repos : spec.kind[r] # "none"
    /\ Reading => s.spec.kind = spec.kind /\ s.spec.bucket <= spec.bucket
    /\ "replace" \in changes /\ Reading => s.spec.first = spec.first

\* The configuration is empty or one that a reconcile has written, whose bucket no
\* later reconcile goes behind.
ConfTrue ==
    /\ \/ \A r \in Repos : cm.kind[r] = "none"
       \/ /\ cm.kind = spec.kind
          /\ HasCloud => /\ cm.hash \in {0, 1} /\ cm.hash <= spec.bucket
                         /\ Reading => cm.hash <= s.spec.bucket
    /\ s.pc \in {"stanza", "schedule", "backup"} => cm = Conf(s.spec)

\* What the reconcile knows of the first repository names its storage of now.
StorageKnown ==
    s.pc \in {"config", "stanza", "schedule", "backup"} =>
        LET f == s.spec.first IN
        /\ s.status[f].kind = s.spec.kind[f]
        /\ s.status[f].id = IF s.spec.kind[f] = "volume" THEN volume[f] ELSE Hash(s.spec)

\* A Job that is done has left a backup in the storage of now, or is older than the
\* bucket, which makes it outdated.  A Job goes before the volumes do.
JobTrue ==
    /\ s.pc = "volumes" /\ ~s.spec.on => job = None
    /\ job # None =>
        /\ cm.kind = spec.kind
        /\ "replace" \in changes => job.repo = spec.first
        /\ HasCloud => job.hash \in {0, 1} /\ job.hash <= cm.hash
        /\ job.state = "done" =>
            IF spec.kind[job.repo] = "volume"
            THEN volume[job.repo] # 0 /\ <<job.repo, "volume", volume[job.repo]>> \in backups
            ELSE \/ <<job.repo, "cloud", job.hash>> \in backups
                 \/ job.hash = 0 /\ cm.hash = 1

\* What a status says of backups is so.
Justified(st) == \A r \in Repos : st[r] # None =>
    (st[r].complete => <<r, st[r].kind, st[r].id>> \in backups)

StatusTrue == Justified(status) /\ (Reading => Justified(s.status))

FirstBackupInv ==
    RepositoryTypes /\ ReadTrue /\ ConfTrue /\ StorageKnown /\ JobTrue /\ StatusTrue


-----------------------------------------------------------------------------
(* Types are kept.                                                         *)

\* A status that the reconciler computes has the type of a status.
LEMMA StatusesComputed ==
    ASSUME RepositoryTypes, s \in Busy, volume' \in [Repos -> Nat]
    PROVE  /\ \A r \in Repos : Hash(s.spec) \in {0, 1, None}
           /\ [r \in Repos |-> RepoStatus(r)] \in Statuses
<1>1. Hash(s.spec) \in {0, 1, None}
  BY DEF Hash, Busy, Specs
<1>2. ASSUME NEW r \in Repos PROVE RepoStatus(r) \in Known \cup {None}
  <2>1. /\ s.status[r] \in Known \cup {None} /\ volume'[r] \in Nat
        /\ s.spec.kind[r] \in {"volume", "cloud", "none"}
    BY DEF Busy, Statuses, Specs
  <2>2. \A o \in Known, x \in BOOLEAN : [o EXCEPT !.complete = x] \in Known
    BY DEF Known
  <2>3. s.status[r] # None =>
            [s.status[r] EXCEPT !.complete = @ /\ r = s.spec.first] \in Known
    BY <2>1, <2>2 DEF Known
  <2>4. \A k \in {"volume", "cloud"}, i \in Nat \cup {None} :
            [kind |-> k, id |-> i, stanza |-> FALSE, complete |-> FALSE] \in Known
    BY DEF Known
  <2> QED BY <1>1, <2>1, <2>3, <2>4 DEF RepoStatus
<1> QED BY <1>1, <1>2 DEF Statuses

\* What a stanza and a finished Job add to a status keeps its type and what it
\* says of the storage.
LEMMA StatusesUpdated ==
    ASSUME NEW k \in Known
    PROVE  /\ [k EXCEPT !.stanza = TRUE] \in Known
           /\ [k EXCEPT !.stanza = TRUE].kind = k.kind
           /\ [k EXCEPT !.stanza = TRUE].id = k.id
           /\ [k EXCEPT !.stanza = TRUE].complete = k.complete
           /\ [k EXCEPT !.complete = TRUE] \in Known
           /\ [k EXCEPT !.complete = TRUE].kind = k.kind
           /\ [k EXCEPT !.complete = TRUE].id = k.id
BY DEF Known

\* New claims get numbers for volumes.
LEMMA VolumesApplied ==
    ASSUME RepositoryTypes, IsFiniteSet(Repos), ApplyRepoVolumes
    PROVE  /\ volume' \in [Repos -> Nat] /\ lastVolume' \in Nat
           /\ \A r \in Repos : volume[r] # 0 => volume'[r] = volume[r]
<1> DEFINE need == {r \in Repos : s.spec.kind[r] = "volume" /\ volume[r] = 0}
<1>1. Cardinality(need) \in Nat
  BY FS_Subset, FS_CardinalityType
<1>2. PICK ids \in [need -> (lastVolume + 1)..(lastVolume + Cardinality(need))] :
          volume' = [r \in Repos |-> IF r \in need THEN ids[r] ELSE volume[r]]
  BY DEF ApplyRepoVolumes
<1>3. lastVolume' = lastVolume + Cardinality(need)
  BY DEF ApplyRepoVolumes
<1>4. \A r \in need : ids[r] \in Nat
  BY <1>1, <1>2 DEF RepositoryTypes
<1> QED BY <1>1, <1>2, <1>3, <1>4 DEF RepositoryTypes

\* Every step keeps the types, and no step of a reconcile changes the spec that it
\* has read.
LEMMA TypesKept ==
    ASSUME IsFiniteSet(Repos), RepositoryTypes, RepositoryNext
    PROVE  RepositoryTypes'
<1> USE DEF RepositoryTypes
<1>0. Reading => s \in Busy
  BY DEF Reading
<1>1. CASE Read
  <2>1. BackupsEnabled(spec) =>
            [pc |-> "cron", spec |-> spec, status |-> status, cond |-> cond] \in Busy
    BY DEF Busy, Steps
  <2> QED BY <1>1, <2>1 DEF Read
<1>2. CASE CleanCron
  BY <1>2, <1>0 DEF CleanCron, Reading, Busy, Steps
<1>3. CASE CleanJobs
  BY <1>3, <1>0 DEF CleanJobs, Reading, Busy, Steps
<1>4. CASE CleanVolumes
  <2>1. s \in Busy
    BY <1>4, <1>0 DEF CleanVolumes, Reading
  <2>2. volume' \in [Repos -> Nat]
    BY <1>4 DEF CleanVolumes
  <2>3. [r \in Repos |-> None] \in Statuses
    BY DEF Statuses
  <2>4. s' \in Busy
    BY <1>4, <2>1, <2>3 DEF CleanVolumes, Busy, Steps
  <2> QED BY <1>4, <2>2, <2>4 DEF CleanVolumes
<1>5. CASE RepoHost
  <2>1. s \in Busy
    BY <1>5, <1>0 DEF RepoHost, Reading
  <2>2. \A c \in Conditions, x \in BOOLEAN : [c EXCEPT !.host = x] \in Conditions
    BY DEF Conditions
  <2>3. s' = [s EXCEPT !.pc = "repos", !.cond = [s.cond EXCEPT !.host = (host = "ready")]]
    BY <1>5, <2>1 DEF RepoHost, Busy
  <2>4. [s.cond EXCEPT !.host = (host = "ready")] \in Conditions
    BY <2>1, <2>2 DEF Busy
  <2>5. s' \in Busy
    BY <2>1, <2>3, <2>4 DEF Busy, Steps
  <2> QED BY <1>5, <2>5 DEF RepoHost
<1>6. CASE ReconcileRepos
  <2>1. s \in Busy
    BY <1>6, <1>0 DEF ReconcileRepos, Reading
  <2>2. volume' \in [Repos -> Nat] /\ lastVolume' \in Nat
    BY <1>6, VolumesApplied DEF ReconcileRepos
  <2>3. [r \in Repos |-> RepoStatus(r)] \in Statuses
    BY <2>1, <2>2, StatusesComputed
  <2>4. s' \in Busy
    BY <1>6, <2>1, <2>3 DEF ReconcileRepos, Busy, Steps
  <2> QED BY <1>6, <2>2, <2>4 DEF ReconcileRepos
<1>7. CASE WriteConfig
  BY <1>7, <1>0 DEF WriteConfig, Reading, Busy, Steps
<1>8. CASE ReconcileStanza
  <2>1. s \in Busy
    BY <1>8, <1>0 DEF ReconcileStanza, Reading
  <2> DEFINE ok == (writable /\ \E r \in Listed : ~s.status[r].stanza)
                   /\ StanzaCreate = "ok"
             st == [r \in Repos |->
                      IF ok /\ r \in Listed THEN [s.status[r] EXCEPT !.stanza = TRUE]
                      ELSE s.status[r]]
             x == s.spec.first \in Listed /\ st[s.spec.first].stanza
  <2>2. s' = [s EXCEPT !.pc = "schedule", !.status = st,
                       !.cond = [s.cond EXCEPT !.repo = x]]
    BY <1>8, <2>1 DEF ReconcileStanza, Busy
  <2>3. st \in Statuses
    <3>1. \A r \in Repos : s.status[r] \in Known \cup {None}
      BY <2>1 DEF Busy, Statuses
    <3>2. \A r \in Repos : st[r] \in Known \cup {None}
      BY <3>1, StatusesUpdated DEF Listed
    <3> QED BY <3>2 DEF Statuses
  <2>4. x \in BOOLEAN
    OBVIOUS
  <2> HIDE DEF st, x
  <2>5. [s.cond EXCEPT !.repo = x] \in Conditions
    BY <2>1, <2>4 DEF Busy, Conditions
  <2>6. s' \in Busy
    BY <2>1, <2>2, <2>3, <2>5 DEF Busy, Steps
  <2> QED BY <1>8, <2>6 DEF ReconcileStanza
<1>9. CASE ReconcileSchedules
  BY <1>9, <1>0 DEF ReconcileSchedules, Reading, Busy, Steps
<1>10. CASE ReplicaCreateBackup
  <2>1. s \in Busy
    BY <1>10, <1>0 DEF ReplicaCreateBackup, Reading
  <2> DEFINE f == s.spec.first
             done == [s.status EXCEPT ![f].complete = TRUE]
             nothing == ~writable \/ f \notin Listed \/ Complete(s.status)
             outdated == job # None /\ (job.state = "failed" \/ job.repo # f
                                          \/ job.hash # Hash(s.spec))
             finished == job # None /\ job.state = "done"
             st == IF ~nothing /\ ~outdated /\ finished THEN done ELSE s.status
             x == f \in Listed /\ st[f].complete
  <2>2. /\ s' = [s EXCEPT !.pc = "patch", !.status = st,
                          !.cond = [s.cond EXCEPT !.create = x]]
        /\ job' \in {job, None, NewJob}
        /\ UNCHANGED <<spec, status, cond, volume, lastVolume>>
    BY <1>10, <2>1 DEF ReplicaCreateBackup, Busy
  <2>3. f \in Repos /\ s.status \in Statuses
    BY <2>1 DEF Busy, Specs
  <2>4. st \in Statuses
    BY <2>3, StatusesUpdated DEF Statuses, Listed
  <2>5. x \in BOOLEAN
    OBVIOUS
  <2>6. NewJob \in Jobs
    BY <2>1, StatusesComputed DEF NewJob, Jobs, Hash, Busy, Specs
  <2> HIDE DEF st, x
  <2>7. [s.cond EXCEPT !.create = x] \in Conditions
    BY <2>1, <2>5 DEF Busy, Conditions
  <2>8. s' \in Busy
    BY <2>1, <2>2, <2>4, <2>7 DEF Busy, Steps
  <2> QED BY <2>2, <2>6, <2>8
<1>11. CASE PatchStatus
  BY <1>11, <1>0 DEF PatchStatus, Reading, Busy
<1>12. CASE World
  <2>1. UNCHANGED <<spec, status, cond, volume, lastVolume, s>>
    BY <1>12 DEF World
  <2>2. job' \in Jobs \cup {None}
    BY <1>12 DEF World, HostStarts, Promote, RunJob, Propagate, Jobs
  <2> QED BY <2>1, <2>2
<1>13. CASE Edit
  <2>1. UNCHANGED <<status, cond, volume, lastVolume, job, s>>
    BY <1>13 DEF Edit
  <2>2. spec' \in Specs
    <3>1. \A q \in Specs, r \in Repos : [q EXCEPT !.first = r] \in Specs
      BY DEF Specs
    <3>2. \A q \in Specs : [q EXCEPT !.bucket = 1] \in Specs
      BY DEF Specs
    <3>4. \A q \in Specs : [q EXCEPT !.on = FALSE] \in Specs
      BY DEF Specs
    <3>5. \A q \in Specs : [q EXCEPT !.authorized = TRUE] \in Specs
      BY DEF Specs
    <3>6. \A q \in Specs : [q EXCEPT !.on = TRUE] \in Specs
      BY DEF Specs
    <3>7. \A q \in Specs : [q EXCEPT !.shutdown = TRUE] \in Specs
      BY DEF Specs
    <3>8. \A q \in Specs : [q EXCEPT !.scheduled = FALSE] \in Specs
      BY DEF Specs
    <3>9. \/ \E r \in Repos : spec' = [spec EXCEPT !.first = r]
          \/ \E r \in Repos, k \in {"volume", "cloud", "none"} :
                spec' = [spec EXCEPT !.kind[r] = k]
          \/ spec' = [spec EXCEPT !.bucket = 1]
          \/ spec' = [spec EXCEPT !.on = FALSE]
          \/ spec' = [spec EXCEPT !.authorized = TRUE]
          \/ spec' = [spec EXCEPT !.on = TRUE]
          \/ spec' = [spec EXCEPT !.shutdown = TRUE]
          \/ spec' = [spec EXCEPT !.scheduled = FALSE]
      BY <1>13, Zenon DEF Edit
    <3>10. spec \in Specs
      OBVIOUS
    <3> HIDE DEF RepositoryTypes
    <3>11. CASE \E r \in Repos : spec' = [spec EXCEPT !.first = r]
      BY ONLY <3>11, <3>1, <3>10
    <3>12. CASE \E r \in Repos, k \in {"volume", "cloud", "none"} :
                    spec' = [spec EXCEPT !.kind[r] = k]
      <4>1. PICK r \in Repos, k \in {"volume", "cloud", "none"} :
                spec' = [spec EXCEPT !.kind[r] = k]
        BY <3>12
      <4> QED BY ONLY <4>1, <3>10 DEF Specs
    <3> QED BY ONLY <3>2, <3>4, <3>5, <3>6, <3>7, <3>8, <3>9, <3>10, <3>11, <3>12
  <2> QED BY <2>1, <2>2
<1>14. CASE Replace
  BY <1>14 DEF Replace
<1>15. CASE Crash
  BY <1>15 DEF Crash
<1> QED
  BY <1>1, <1>2, <1>3, <1>4, <1>5, <1>6, <1>7, <1>8, <1>9, <1>10, <1>11, <1>12, <1>13,
     <1>14, <1>15 DEF RepositoryNext, Reconcile

\* Init has the types.
LEMMA TypesInit == RepositoryInit => RepositoryTypes
BY DEF RepositoryInit, RepositoryTypes, Specs, Statuses, Conditions, Unknown

-----------------------------------------------------------------------------
(* Two keys.                                                               *)

\* Every step keeps what guards the backups.
LEMMA HostGuardsKept ==
    ASSUME RepositoryTypes, HostGuards, RepositoryNext
    PROVE  HostGuards'
<1> USE DEF HostGuards, Reading
<1>0. Reading => s \in Busy
  BY DEF RepositoryTypes
<1>1. CASE Read
  BY <1>1 DEF Read, BackupsEnabled
<1>2. CASE CleanCron
  BY <1>2, <1>0 DEF CleanCron, Busy
<1>3. CASE CleanJobs
  BY <1>3, <1>0 DEF CleanJobs, Busy
<1>4. CASE CleanVolumes
  BY <1>4, <1>0 DEF CleanVolumes, Busy
<1>5. CASE RepoHost
  BY <1>5, <1>0 DEF RepoHost, ApplyRepoHost, Busy
<1>6. CASE ReconcileRepos
  BY <1>6, <1>0 DEF ReconcileRepos, Busy
<1>7. CASE WriteConfig
  BY <1>7, <1>0 DEF WriteConfig, Busy
<1>8. CASE ReconcileStanza
  BY <1>8, <1>0 DEF ReconcileStanza, Busy
<1>9. CASE ReconcileSchedules
  BY <1>9, <1>0 DEF ReconcileSchedules, Busy
<1>10. CASE ReplicaCreateBackup
  BY <1>10, <1>0 DEF ReplicaCreateBackup, Busy
<1>11. CASE PatchStatus
  BY <1>11 DEF PatchStatus
<1>12. CASE World
  BY <1>12 DEF World, HostStarts, Promote, RunJob, Propagate, SameConfiguration
<1>13. CASE Edit
  <2>1. UNCHANGED <<host, backups, s>>
    BY <1>13 DEF Edit
  <2>2. spec.authorized => spec'.authorized
    BY <1>13 DEF Edit, RepositoryTypes, Specs
  <2> QED BY <2>1, <2>2
<1>14. CASE Replace
  BY <1>14 DEF Replace
<1>15. CASE Crash
  BY <1>15 DEF Crash
<1> QED
  BY <1>1, <1>2, <1>3, <1>4, <1>5, <1>6, <1>7, <1>8, <1>9, <1>10, <1>11, <1>12, <1>13,
     <1>14, <1>15 DEF RepositoryNext, Reconcile

\* A volume with a backup is deleted only by a reconcile that has read a spec which
\* lists its repositories without it, or the authorisation to remove them all,
\* whatever users change and wherever the operator stops.
THEOREM BackupsNeedTwoKeys ==
    ASSUME IsFiniteSet(Repos)
    PROVE  RepositorySpec => TwoKeys
<1> DEFINE Inv == RepositoryTypes /\ HostGuards
           Guarded == \A r \in Repos :
               s.pc = "volumes" /\ volume[r] # 0 /\ volume'[r] = 0
                                /\ <<r, "volume", volume[r]>> \in backups
               => s.spec.on \/ s.spec.authorized
<1>1. RepositoryInit => Inv
  <2>1. RepositoryInit => HostGuards
    BY DEF RepositoryInit, HostGuards, Reading
  <2> QED BY <2>1, TypesInit
<1>2. Inv /\ [RepositoryNext]_repositoryVars => Inv'
  <2>1. CASE RepositoryNext
    BY <2>1, TypesKept, HostGuardsKept
  <2>2. CASE UNCHANGED repositoryVars
    BY <2>2 DEF repositoryVars, RepositoryTypes, HostGuards, Reading
  <2> QED BY <2>1, <2>2
<1>3. Inv => [Guarded]_repositoryVars
  BY DEF HostGuards
<1> QED BY <1>1, <1>2, <1>3, PTL DEF RepositorySpec, TwoKeys, Guarded

-----------------------------------------------------------------------------
(* The first backup.                                                       *)

\* What an edit by the user leaves alone where the changes are careful ones.
LEMMA EditsCareful ==
    ASSUME RepositoryTypes, Careful(changes), Edit
    PROVE  /\ spec'.kind = spec.kind
           /\ spec.bucket <= spec'.bucket
           /\ spec'.bucket \in {0, 1}
           /\ "replace" \in changes' => "replace" \in changes /\ spec'.first = spec.first
           /\ Careful(changes')
<1>1. spec \in Specs
  BY DEF RepositoryTypes
<1>2. \E w \in {"move", "move back", "bucket", "remove", "authorize", "return", "shutdown",
                "unschedule"} : Change(w)
  BY DEF Edit, Change, Careful
<1>3. Careful(changes') /\ ("replace" \in changes' => "replace" \in changes)
  BY <1>2 DEF Change, Careful
<1>4. \/ /\ Change("move") \/ Change("move back")
         /\ \E r \in Repos : spec' = [spec EXCEPT !.first = r]
      \/ spec' = [spec EXCEPT !.bucket = 1]
      \/ spec' = [spec EXCEPT !.on = FALSE]
      \/ spec' = [spec EXCEPT !.authorized = TRUE]
      \/ spec' = [spec EXCEPT !.on = TRUE]
      \/ spec' = [spec EXCEPT !.shutdown = TRUE]
      \/ spec' = [spec EXCEPT !.scheduled = FALSE]
  BY DEF Edit, Change, Careful
<1>5. CASE /\ Change("move") \/ Change("move back")
           /\ \E r \in Repos : spec' = [spec EXCEPT !.first = r]
  <2>1. "replace" \notin changes
    BY <1>5 DEF Change, Careful
  <2>2. PICK r \in Repos : spec' = [spec EXCEPT !.first = r]
    BY <1>5
  <2>3. spec'.kind = spec.kind /\ spec'.bucket = spec.bucket
    BY <1>1, <2>2 DEF Specs
  <2> QED BY <1>1, <1>3, <2>1, <2>3 DEF Specs
<1>6. CASE ~\E r \in Repos : spec' = [spec EXCEPT !.first = r]
  <2>1. /\ spec'.kind = spec.kind /\ spec'.first = spec.first
        /\ spec'.bucket \in {spec.bucket, 1}
    BY <1>1, <1>4, <1>6 DEF Specs
  <2>2. spec.bucket \in {0, 1}
    BY <1>1 DEF Specs
  <2> QED BY <1>3, <2>1, <2>2
<1>7. CASE ~(Change("move") \/ Change("move back"))
  <2>1. /\ spec'.kind = spec.kind /\ spec'.first = spec.first
        /\ spec'.bucket \in {spec.bucket, 1}
    BY <1>1, <1>4, <1>7 DEF Specs
  <2>2. spec.bucket \in {0, 1}
    BY <1>1 DEF Specs
  <2> QED BY <1>3, <2>1, <2>2
<1> QED BY <1>5, <1>6, <1>7

\* A step that writes neither configuration, volumes, backups, spec nor Job keeps
\* the invariant if what the reconcile knows stays true.
LEMMA ReconcileMoves ==
    ASSUME FirstBackupInv, Reading, s' \in Busy, s'.spec = s.spec, s'.status = s.status,
           UNCHANGED <<spec, status, volume, cm, job, backups, changes>>,
           s'.pc = "volumes" => job = None \/ s.spec.on,
           s'.pc \in {"stanza", "schedule", "backup"} =>
               s.pc \in {"stanza", "schedule", "backup"},
           s'.pc \in {"config", "stanza", "schedule", "backup"} =>
               s.pc \in {"config", "stanza", "schedule", "backup"}
    PROVE  ReadTrue' /\ ConfTrue' /\ StorageKnown' /\ JobTrue' /\ StatusTrue'
<1> USE DEF FirstBackupInv
<1>1. ReadTrue'
  BY DEF ReadTrue, Reading
<1>2. ConfTrue'
  BY DEF ConfTrue, HasCloud, Reading, Conf, Hash
<1>3. StorageKnown'
  BY DEF StorageKnown, Hash
<1>4. JobTrue'
  BY DEF JobTrue, HasCloud
<1>5. StatusTrue'
  BY DEF StatusTrue, Justified, Reading
<1> QED BY <1>1, <1>2, <1>3, <1>4, <1>5

\* Every step keeps what justifies a completed first backup.
LEMMA FirstBackupKept ==
    ASSUME IsFiniteSet(Repos), FirstBackupInv, RepositoryNext
    PROVE  FirstBackupInv'
<1>0. RepositoryTypes'
  BY TypesKept DEF FirstBackupInv
<1>b. Reading => s \in Busy
  BY DEF FirstBackupInv, RepositoryTypes, Reading
<1>t. RepositoryTypes /\ ReadTrue /\ ConfTrue /\ StorageKnown /\ JobTrue /\ StatusTrue
  BY DEF FirstBackupInv
<1> SUFFICES ReadTrue' /\ ConfTrue' /\ StorageKnown' /\ JobTrue' /\ StatusTrue'
  BY <1>0 DEF FirstBackupInv
<1>1. CASE Read
  <2>1. UNCHANGED <<spec, status, volume, cm, job, backups, changes>>
    BY <1>1 DEF Read
  <2>2. \/ s' = [pc |-> "idle"]
        \/ s'.pc = "cron" /\ s'.spec = spec /\ s'.status = status
    BY <1>1 DEF Read
  <2>3. ReadTrue'
    BY <1>t, <2>1, <2>2 DEF ReadTrue, Reading, RepositoryTypes, Specs
  <2>4. ConfTrue'
    BY <1>t, <2>1, <2>2 DEF ConfTrue, HasCloud, Reading
  <2>5. StorageKnown'
    BY <2>2 DEF StorageKnown
  <2>6. JobTrue'
    BY <1>t, <2>1, <2>2 DEF JobTrue, HasCloud
  <2>7. StatusTrue'
    BY <1>t, <2>1, <2>2 DEF StatusTrue, Justified, Reading
  <2> QED BY <2>3, <2>4, <2>5, <2>6, <2>7
<1>2. CASE CleanCron
  <2>1. s \in Busy /\ Reading
    BY <1>2, <1>b DEF CleanCron, Reading
  <2>2. /\ s' \in Busy /\ s'.pc = "jobs" /\ s'.spec = s.spec /\ s'.status = s.status
        /\ UNCHANGED <<spec, status, volume, cm, job, backups, changes>>
    BY <1>2, <2>1 DEF CleanCron, Busy, Steps
  <2> QED BY <2>1, <2>2, ReconcileMoves
<1>3. CASE CleanJobs
  <2>1. s \in Busy /\ Reading
    BY <1>3, <1>b DEF CleanJobs, Reading
  <2>2. /\ s' \in Busy /\ s'.pc = "volumes" /\ s'.spec = s.spec /\ s'.status = s.status
        /\ UNCHANGED <<spec, status, volume, backups, changes>>
    BY <1>3, <2>1 DEF CleanJobs, Busy, Steps
  <2>3. CASE s.spec.on
    <3>1. cm' = cm /\ job' \in {job, None}
      BY <1>3, <2>3 DEF CleanJobs
    <3>2. ReadTrue'
      BY <1>t, <2>1, <2>2 DEF ReadTrue, Reading
    <3>3. ConfTrue'
      BY <1>t, <2>1, <2>2, <3>1 DEF ConfTrue, HasCloud, Reading
    <3>4. StorageKnown'
      BY <2>2 DEF StorageKnown
    <3>5. JobTrue'
      BY <1>t, <2>2, <2>3, <3>1 DEF JobTrue, HasCloud
    <3>6. StatusTrue'
      BY <1>t, <2>1, <2>2 DEF StatusTrue, Justified, Reading
    <3> QED BY <3>2, <3>3, <3>4, <3>5, <3>6
  <2>4. CASE ~s.spec.on
    <3>1. cm' = NoConf /\ job' = None
      BY <1>3, <2>4 DEF CleanJobs
    <3>2. ReadTrue'
      BY <1>t, <2>1, <2>2 DEF ReadTrue, Reading
    <3>3. ConfTrue'
      BY <2>2, <3>1 DEF ConfTrue, NoConf
    <3>4. StorageKnown'
      BY <2>2 DEF StorageKnown
    <3>5. JobTrue'
      BY <3>1 DEF JobTrue
    <3>6. StatusTrue'
      BY <1>t, <2>1, <2>2 DEF StatusTrue, Justified, Reading
    <3> QED BY <3>2, <3>3, <3>4, <3>5, <3>6
  <2> QED BY <2>3, <2>4
<1>4. CASE CleanVolumes
  <2>1. s \in Busy /\ Reading
    BY <1>4, <1>b DEF CleanVolumes, Reading
  <2>2. /\ s'.pc \in {"host", "patch"} /\ s'.spec = s.spec
        /\ s'.status = s.status \/ s'.status = [r \in Repos |-> None]
        /\ UNCHANGED <<spec, status, backups, changes, cm, job>>
    BY <1>4, <2>1 DEF CleanVolumes, Busy, Steps
  <2>3. ReadTrue'
    BY <1>t, <2>1, <2>2 DEF ReadTrue, Reading
  <2>4. ConfTrue'
    BY <1>t, <2>1, <2>2 DEF ConfTrue, HasCloud, Reading
  <2>5. StorageKnown'
    BY <2>2 DEF StorageKnown
  <2>6. JobTrue'
    <3>1. job # None => s.spec.on
      BY <1>t, <1>4 DEF CleanVolumes, JobTrue
    <3>2. job # None => job.repo \in Repos
      BY <1>t DEF RepositoryTypes, Jobs
    <3>3. job # None /\ spec.kind[job.repo] = "volume" => volume'[job.repo] = volume[job.repo]
      BY <1>4, <1>t, <2>1, <3>1, <3>2 DEF CleanVolumes, ReadTrue
    <3> QED BY <1>t, <2>2, <3>3 DEF JobTrue, HasCloud
  <2>7. StatusTrue'
    BY <1>t, <2>1, <2>2 DEF StatusTrue, Justified, Reading
  <2> QED BY <2>3, <2>4, <2>5, <2>6, <2>7
<1>5. CASE RepoHost
  <2>1. s \in Busy /\ Reading
    BY <1>5, <1>b DEF RepoHost, Reading
  <2>2. /\ s'.pc = "repos" /\ s'.spec = s.spec /\ s'.status = s.status
        /\ UNCHANGED <<spec, status, volume, cm, job, backups, changes>>
    BY <1>5, <2>1 DEF RepoHost, Busy
  <2>3. s' \in Busy
    BY <1>0, <2>2 DEF RepositoryTypes
  <2> QED BY <2>1, <2>2, <2>3, ReconcileMoves
<1>6. CASE ReconcileRepos
  <2>1. s \in Busy /\ Reading
    BY <1>6, <1>b DEF ReconcileRepos, Reading
  <2>2. /\ s'.pc = "config" /\ s'.spec = s.spec
        /\ s'.status = [r \in Repos |-> RepoStatus(r)]
        /\ UNCHANGED <<spec, status, cm, job, backups, changes>>
    BY <1>6, <2>1 DEF ReconcileRepos, Busy
  <2>3. /\ volume' \in [Repos -> Nat]
        /\ \A r \in Repos : volume[r] # 0 => volume'[r] = volume[r]
    BY <1>6, <1>t, VolumesApplied DEF ReconcileRepos
  <2>4. ReadTrue'
    BY <1>t, <2>1, <2>2 DEF ReadTrue, Reading
  <2>5. ConfTrue'
    BY <1>t, <2>1, <2>2 DEF ConfTrue, HasCloud, Reading
  <2>6. \A r \in Repos : s.status[r] \in Known \cup {None}
    BY <2>1 DEF Busy, Statuses
  <2>7. StorageKnown'
    <3> DEFINE f == s.spec.first
    <3>1. f \in Repos /\ s.spec.kind[f] # "none"
      BY <1>t, <2>1 DEF ReadTrue, Busy, Specs
    <3>2. /\ RepoStatus(f).kind = s.spec.kind[f]
          /\ RepoStatus(f).id = IF s.spec.kind[f] = "volume" THEN volume'[f] ELSE Hash(s.spec)
      BY <2>6, <3>1 DEF RepoStatus, Known
    <3> QED BY <2>2, <3>1, <3>2 DEF StorageKnown, Hash
  <2>8. JobTrue'
    <3>1. job # None => job.repo \in Repos
      BY <1>t DEF RepositoryTypes, Jobs
    <3> QED BY <1>t, <2>2, <2>3, <3>1 DEF JobTrue, HasCloud
  <2>9. StatusTrue'
    <3>1. ASSUME NEW r \in Repos, RepoStatus(r) # None, RepoStatus(r).complete
          PROVE  <<r, RepoStatus(r).kind, RepoStatus(r).id>> \in backups
      <4>1. s.status[r] # None /\ s.status[r] \in Known
            /\ RepoStatus(r) = [s.status[r] EXCEPT !.complete = @ /\ r = s.spec.first]
        BY <2>6, <3>1 DEF RepoStatus
      <4>2. /\ s.status[r].complete
            /\ RepoStatus(r).kind = s.status[r].kind /\ RepoStatus(r).id = s.status[r].id
        BY <3>1, <4>1 DEF Known
      <4> QED BY <1>t, <2>1, <4>1, <4>2 DEF StatusTrue, Justified
    <3> QED BY <1>t, <2>2, <3>1 DEF StatusTrue, Justified
  <2> QED BY <2>4, <2>5, <2>7, <2>8, <2>9
<1>7. CASE WriteConfig
  <2>1. s \in Busy /\ Reading
    BY <1>7, <1>b DEF WriteConfig, Reading
  <2>2. /\ s'.pc = "stanza" /\ s'.spec = s.spec /\ s'.status = s.status
        /\ cm' = Conf(s.spec) /\ s.pc = "config"
        /\ UNCHANGED <<spec, status, volume, job, backups, changes>>
    BY <1>7, <2>1 DEF WriteConfig, Busy
  <2>3. /\ cm'.kind = spec.kind /\ s.spec.kind = spec.kind
        /\ HasCloud => cm'.hash = s.spec.bucket
    BY <1>t, <2>1, <2>2 DEF ReadTrue, Conf, Hash, HasCloud
  <2>4. s.spec.bucket \in {0, 1} /\ s.spec.bucket <= spec.bucket
    BY <1>t, <2>1 DEF ReadTrue, Busy, Specs
  <2>5. ReadTrue'
    BY <1>t, <2>1, <2>2 DEF ReadTrue, Reading
  <2>6. ConfTrue'
    BY <2>2, <2>3, <2>4 DEF ConfTrue, HasCloud, Reading, Conf, Hash
  <2>7. StorageKnown'
    BY <1>t, <2>2 DEF StorageKnown, Hash
  <2>8. JobTrue'
    <3>1. CASE job = None
      BY <3>1, <2>2 DEF JobTrue
    <3>2. CASE job # None
      <4>1. cm.kind = spec.kind /\ spec.first \in Repos /\ spec.kind[spec.first] # "none"
        BY <1>t, <3>2 DEF JobTrue, RepositoryTypes, ReadTrue, Specs
      <4>2. HasCloud => cm.hash \in {0, 1} /\ cm.hash <= s.spec.bucket
        BY <1>t, <2>1, <4>1 DEF ConfTrue
      <4>3. job.repo \in Repos /\ spec.kind \in [Repos -> {"volume", "cloud", "none"}]
        BY <1>t, <3>2 DEF RepositoryTypes, Jobs, Specs
      <4>4. spec.kind[job.repo] # "volume" => HasCloud
        BY <1>t, <4>3 DEF ReadTrue, HasCloud
      <4>5. HasCloud => job.hash \in {0, 1} /\ job.hash <= cm.hash /\ job.hash <= cm'.hash
        BY <1>t, <2>3, <2>4, <3>2, <4>2 DEF JobTrue
      <4>6. HasCloud' = HasCloud
        BY <2>2 DEF HasCloud
      <4>7. HasCloud /\ cm.hash = 1 => cm'.hash = 1
        BY <2>3, <2>4, <4>2
      <4> QED BY <1>t, <2>2, <2>3, <3>2, <4>4, <4>5, <4>6, <4>7 DEF JobTrue
    <3> QED BY <3>1, <3>2
  <2>9. StatusTrue'
    BY <1>t, <2>1, <2>2 DEF StatusTrue, Justified, Reading
  <2> QED BY <2>5, <2>6, <2>7, <2>8, <2>9
<1>8. CASE ReconcileStanza
  <2>1. s \in Busy /\ Reading
    BY <1>8, <1>b DEF ReconcileStanza, Reading
  <2>2. /\ s'.pc = "schedule" /\ s'.spec = s.spec /\ s.pc = "stanza"
        /\ UNCHANGED <<spec, status, volume, cm, job, backups, changes>>
    BY <1>8, <2>1 DEF ReconcileStanza, Busy
  <2>3. \E P \in BOOLEAN : s'.status = [r \in Repos |->
            IF P /\ r \in Listed THEN [s.status[r] EXCEPT !.stanza = TRUE] ELSE s.status[r]]
    BY <1>8, <2>1 DEF ReconcileStanza, Busy
  <2>4. \A r \in Repos : s.status[r] \in Known \cup {None}
    BY <2>1 DEF Busy, Statuses
  <2>5. \A r \in Repos :
            \/ s'.status[r] = s.status[r]
            \/ /\ s.status[r] \in Known /\ s.status[r] # None
               /\ s'.status[r] = [s.status[r] EXCEPT !.stanza = TRUE]
    BY <2>3, <2>4 DEF Listed
  <2>6. \A r \in Repos :
            \/ s'.status[r] = s.status[r]
            \/ /\ s.status[r] # None
               /\ s'.status[r].kind = s.status[r].kind /\ s'.status[r].id = s.status[r].id
               /\ s'.status[r].complete = s.status[r].complete
    BY <2>5, StatusesUpdated
  <2>7. ReadTrue'
    BY <1>t, <2>1, <2>2 DEF ReadTrue, Reading
  <2>8. ConfTrue'
    BY <1>t, <2>1, <2>2 DEF ConfTrue, HasCloud, Reading, Conf, Hash
  <2>9. StorageKnown'
    <3>1. s.spec.first \in Repos
      BY <2>1 DEF Busy, Specs
    <3> QED BY <1>t, <2>2, <2>6, <3>1 DEF StorageKnown, Hash
  <2>10. JobTrue'
    BY <1>t, <2>2 DEF JobTrue, HasCloud
  <2>11. StatusTrue'
    BY <1>t, <2>1, <2>2, <2>6 DEF StatusTrue, Justified
  <2> QED BY <2>7, <2>8, <2>9, <2>10, <2>11
<1>9. CASE ReconcileSchedules
  <2>1. s \in Busy /\ Reading
    BY <1>9, <1>b DEF ReconcileSchedules, Reading
  <2>2. /\ s' \in Busy /\ s'.pc = "backup" /\ s'.spec = s.spec /\ s'.status = s.status
        /\ s.pc = "schedule"
        /\ UNCHANGED <<spec, status, volume, cm, job, backups, changes>>
    BY <1>9, <2>1 DEF ReconcileSchedules, Busy, Steps
  <2> QED BY <2>1, <2>2, ReconcileMoves
<1>10. CASE ReplicaCreateBackup
  <2>1. s \in Busy /\ Reading
    BY <1>10, <1>b DEF ReplicaCreateBackup, Reading
  <2> DEFINE f == s.spec.first
             outdated == job # None /\ (job.state = "failed" \/ job.repo # f
                                          \/ job.hash # Hash(s.spec))
             finished == job # None /\ job.state = "done"
  <2>2. /\ s'.pc = "patch" /\ s'.spec = s.spec /\ s.pc = "backup"
        /\ job' \in {job, None, NewJob}
        /\ UNCHANGED <<spec, status, volume, cm, backups, changes>>
    BY <1>10, <2>1 DEF ReplicaCreateBackup, Busy
  <2>3. \/ s'.status = s.status
        \/ /\ f \in Listed /\ ~outdated /\ finished
           /\ s'.status = [s.status EXCEPT ![f].complete = TRUE]
    BY <1>10, <2>1 DEF ReplicaCreateBackup, Busy
  <2>4. /\ f \in Repos /\ cm = Conf(s.spec) /\ s.spec.kind = spec.kind
        /\ spec.kind[f] \in {"volume", "cloud"}
        /\ spec.kind \in [Repos -> {"volume", "cloud", "none"}]
        /\ s.spec.bucket \in {0, 1}
        /\ "replace" \in changes => f = spec.first
    BY <1>t, <2>1, <2>2 DEF ReadTrue, ConfTrue, Busy, Specs, RepositoryTypes
  <2>5. cm.kind = spec.kind /\ cm.hash = Hash(s.spec)
        /\ (HasCloud => Hash(s.spec) = s.spec.bucket)
    BY <2>4 DEF Conf, Hash, HasCloud
  <2>6. ReadTrue'
    BY <1>t, <2>1, <2>2 DEF ReadTrue, Reading
  <2>7. ConfTrue'
    BY <1>t, <2>1, <2>2 DEF ConfTrue, HasCloud, Reading
  <2>8. StorageKnown'
    BY <2>2 DEF StorageKnown
  <2>9. JobTrue'
    <3>1. CASE job' = NewJob
      <4>1. job'.repo = f /\ job'.hash = cm.hash /\ job'.state = "running"
        BY <3>1, <2>5 DEF NewJob
      <4> QED BY <2>2, <2>4, <2>5, <4>1 DEF JobTrue, HasCloud
    <3>2. CASE job' \in {job, None}
      BY <1>t, <2>2, <3>2 DEF JobTrue, HasCloud
    <3> QED BY <2>2, <3>1, <3>2
  <2>10. StatusTrue'
    <3>1. CASE s'.status = s.status
      BY <1>t, <2>1, <2>2, <3>1 DEF StatusTrue, Justified
    <3>2. CASE /\ f \in Listed /\ ~outdated /\ finished
               /\ s'.status = [s.status EXCEPT ![f].complete = TRUE]
      <4>1. job.repo = f /\ job.hash = cm.hash /\ job.state = "done" /\ job # None
        BY <3>2, <2>5
      <4>2. /\ s.status[f].kind = spec.kind[f]
            /\ s.status[f].id = IF spec.kind[f] = "volume" THEN volume[f] ELSE cm.hash
        BY <1>t, <2>2, <2>4, <2>5 DEF StorageKnown
      <4>3. <<f, s.status[f].kind, s.status[f].id>> \in backups
        <5>1. CASE spec.kind[f] = "volume"
          BY <1>t, <4>1, <4>2, <5>1 DEF JobTrue
        <5>2. CASE spec.kind[f] = "cloud"
          <6>1. cm.hash \in {0, 1}
            BY <2>4, <2>5, <5>2 DEF HasCloud
          <6> QED BY <1>t, <4>1, <4>2, <5>2, <6>1 DEF JobTrue
        <5> QED BY <2>4, <5>1, <5>2
      <4>4. s.status \in Statuses /\ s.status[f] \in Known
        BY <2>1, <2>4, <3>2 DEF Busy, Statuses, Listed
      <4>5. /\ s'.status[f].kind = s.status[f].kind /\ s'.status[f].id = s.status[f].id
            /\ \A r \in Repos \ {f} : s'.status[r] = s.status[r]
        BY <3>2, <4>4, <2>4, StatusesUpdated DEF Statuses
      <4> QED BY <1>t, <2>1, <2>2, <4>3, <4>5 DEF StatusTrue, Justified
    <3> QED BY <2>3, <3>1, <3>2
  <2> QED BY <2>6, <2>7, <2>8, <2>9, <2>10
<1>11. CASE PatchStatus
  <2>1. s \in Busy /\ Reading
    BY <1>11, <1>b DEF PatchStatus, Reading
  <2>2. /\ s' = [pc |-> "idle"] /\ status' = s.status
        /\ UNCHANGED <<spec, volume, cm, job, backups, changes>>
    BY <1>11 DEF PatchStatus
  <2>3. ReadTrue'
    BY <1>t, <2>2 DEF ReadTrue, Reading
  <2>4. ConfTrue'
    BY <1>t, <2>2 DEF ConfTrue, HasCloud, Reading
  <2>5. StorageKnown'
    BY <2>2 DEF StorageKnown
  <2>6. JobTrue'
    BY <1>t, <2>2 DEF JobTrue, HasCloud
  <2>7. StatusTrue'
    BY <1>t, <2>1, <2>2 DEF StatusTrue, Justified, Reading
  <2> QED BY <2>3, <2>4, <2>5, <2>6, <2>7
<1>12. CASE World
  <2>1. UNCHANGED <<spec, status, cond, volume, lastVolume, cm, stanzas, cron, s>>
    BY <1>12 DEF World
  <2>2. /\ backups \subseteq backups'
        /\ changes' = changes \/ changes' = changes \ {"jobFails"}
    BY <1>12 DEF World, HostStarts, Promote, RunJob, Propagate
  <2>3. ReadTrue'
    BY <1>t, <2>1, <2>2 DEF ReadTrue, Reading, Careful
  <2>4. ConfTrue'
    BY <1>t, <2>1 DEF ConfTrue, HasCloud, Reading, Conf, Hash
  <2>5. StorageKnown'
    BY <1>t, <2>1 DEF StorageKnown, Hash
  <2>6. JobTrue'
    <3>1. CASE job' = job
      BY <1>t, <2>1, <2>2, <3>1 DEF JobTrue, HasCloud
    <3>2. CASE job' # job
      <4>1. RunJob
        BY <1>12, <3>2 DEF World, HostStarts, Promote, Propagate
      <4>2. job # None /\ job \in Jobs
        BY <1>t, <4>1 DEF RunJob, RepositoryTypes
      <4>3. job'.repo = job.repo /\ job'.hash = job.hash
        BY <4>1, <4>2 DEF RunJob, Jobs
      <4>4. CASE job'.state # "done"
        BY <1>t, <2>1, <2>2, <4>2, <4>3, <4>4 DEF JobTrue, HasCloud
      <4>5. CASE job'.state = "done"
        <5>1. CanBackup /\ backups' = backups \union {Storage(job.repo, cm)}
          BY <4>1, <4>2, <4>5 DEF RunJob, Jobs
        <5>2. cm.kind = spec.kind /\ job.repo \in Repos
              /\ spec.kind \in [Repos -> {"volume", "cloud", "none"}]
              /\ spec.kind[job.repo] \in {"volume", "cloud"}
          BY <1>t, <4>2 DEF JobTrue, ReadTrue, RepositoryTypes, Specs, Jobs
        <5>3. CASE spec.kind[job.repo] = "volume"
          <6>1. volume[job.repo] # 0 /\ <<job.repo, "volume", volume[job.repo]>> \in backups'
            BY <5>1, <5>2, <5>3 DEF CanBackup, Usable, Storage
          <6> QED BY <1>t, <2>1, <2>2, <4>2, <4>3, <5>3, <6>1 DEF JobTrue, HasCloud
        <5>4. CASE spec.kind[job.repo] = "cloud"
          <6>1. <<job.repo, "cloud", cm.hash>> \in backups'
            BY <5>1, <5>2, <5>4 DEF Storage
          <6>2. HasCloud
            BY <5>2, <5>4 DEF HasCloud
          <6>3. cm.hash \in {0, 1} /\ job.hash \in {0, 1} /\ job.hash <= cm.hash
            BY <1>t, <4>2, <5>2, <6>2 DEF ConfTrue, JobTrue
          <6>4. job.hash = cm.hash \/ (job.hash = 0 /\ cm.hash = 1)
            BY <6>3
          <6> QED BY <1>t, <2>1, <2>2, <4>2, <4>3, <5>4, <6>1, <6>4 DEF JobTrue, HasCloud
        <5> QED BY <5>2, <5>3, <5>4
      <4> QED BY <4>4, <4>5
    <3> QED BY <3>1, <3>2
  <2>7. StatusTrue'
    BY <1>t, <2>1, <2>2 DEF StatusTrue, Justified, Reading
  <2> QED BY <2>3, <2>4, <2>5, <2>6, <2>7
<1>13. CASE Edit
  <2>1. UNCHANGED <<status, volume, cm, backups, job, s>>
    BY <1>13 DEF Edit
  <2>2. /\ spec'.kind = spec.kind /\ spec.bucket <= spec'.bucket
        /\ "replace" \in changes' => "replace" \in changes /\ spec'.first = spec.first
        /\ Careful(changes')
        /\ spec.bucket \in {0, 1} /\ spec'.bucket \in {0, 1}
    BY <1>13, <1>t, EditsCareful DEF ReadTrue, RepositoryTypes, Specs
  <2>3. Reading => s.spec.bucket \in {0, 1}
    BY <1>b DEF Busy, Specs
  <2>4. ReadTrue'
    BY <1>t, <2>1, <2>2, <2>3 DEF ReadTrue, Reading
  <2>5. ConfTrue'
    BY <1>t, <2>1, <2>2 DEF ConfTrue, HasCloud, Reading, Conf, Hash
  <2>6. StorageKnown'
    BY <1>t, <2>1 DEF StorageKnown, Hash
  <2>7. JobTrue'
    BY <1>t, <2>1, <2>2 DEF JobTrue, HasCloud
  <2>8. StatusTrue'
    BY <1>t, <2>1 DEF StatusTrue, Justified, Reading
  <2> QED BY <2>4, <2>5, <2>6, <2>7, <2>8
<1>14. CASE Replace
  <2>1. UNCHANGED <<spec, status, cm, backups, job, s>>
    BY <1>14 DEF Replace
  <2>2. "replace" \in changes /\ "late" \notin changes /\ changes' = changes \ {"replace"}
    BY <1>14, <1>t DEF Replace, Change, ReadTrue, Careful
  <2>3. spec.first \in Repos /\ volume'[spec.first] = volume[spec.first]
    BY <1>14, <1>t, <2>2 DEF Replace, RepositoryTypes, Specs
  <2>4. ReadTrue'
    BY <1>t, <2>1, <2>2 DEF ReadTrue, Reading, Careful
  <2>5. ConfTrue'
    BY <1>t, <2>1 DEF ConfTrue, HasCloud, Reading, Conf, Hash
  <2>6. StorageKnown'
    BY <1>t, <2>1, <2>2, <2>3 DEF StorageKnown, Hash, ReadTrue, Reading
  <2>7. JobTrue'
    BY <1>t, <2>1, <2>2, <2>3 DEF JobTrue, HasCloud
  <2>8. StatusTrue'
    BY <1>t, <2>1 DEF StatusTrue, Justified, Reading
  <2> QED BY <2>4, <2>5, <2>6, <2>7, <2>8
<1>15. CASE Crash
  <2>1. UNCHANGED <<spec, status, volume, cm, backups, job>> /\ s' = [pc |-> "idle"]
        /\ changes' = changes \ {"crash"}
    BY <1>15 DEF Crash, Change
  <2>2. ReadTrue'
    BY <1>t, <2>1 DEF ReadTrue, Reading, Careful
  <2>3. ConfTrue'
    BY <1>t, <2>1 DEF ConfTrue, HasCloud, Reading
  <2>4. StorageKnown'
    BY <2>1 DEF StorageKnown
  <2>5. JobTrue'
    BY <1>t, <2>1 DEF JobTrue, HasCloud
  <2>6. StatusTrue'
    BY <1>t, <2>1 DEF StatusTrue, Justified, Reading
  <2> QED BY <2>2, <2>3, <2>4, <2>5, <2>6
<1> QED
  BY <1>1, <1>2, <1>3, <1>4, <1>5, <1>6, <1>7, <1>8, <1>9, <1>10, <1>11, <1>12, <1>13,
     <1>14, <1>15 DEF RepositoryNext, Reconcile

\* A status that says that replicas can be made from a repository names a volume or
\* bucket with a backup: however often repositories are moved, removed, brought
\* back, scheduled and given another bucket, volumes are replaced, Jobs fail and the
\* operator stops, as long as repositories keep their kinds and the repository that
\* replicas are made from keeps its volume and place while volumes are replaced.
THEOREM FirstBackupIsThere ==
    ASSUME IsFiniteSet(Repos), \A c \in RepositoryScenarios : Careful(c)
    PROVE  RepositorySpec => []FirstBackupExists
<1>1. RepositoryInit => FirstBackupInv
  <2> SUFFICES ASSUME RepositoryInit PROVE FirstBackupInv
    OBVIOUS
  <2>1. /\ s = [pc |-> "idle"] /\ job = None /\ cm = NoConf /\ backups = {}
        /\ status = [r \in Repos |-> None] /\ changes \in RepositoryScenarios
    BY DEF RepositoryInit
  <2>2. \A r \in Repos : spec.kind[r] \in {"volume", "cloud"}
    BY DEF RepositoryInit
  <2>3. ReadTrue
    BY <2>1, <2>2 DEF ReadTrue, Reading
  <2>4. ConfTrue /\ StorageKnown /\ JobTrue
    BY <2>1 DEF ConfTrue, NoConf, StorageKnown, JobTrue
  <2>5. StatusTrue
    BY <2>1 DEF StatusTrue, Justified, Reading
  <2> QED BY <2>3, <2>4, <2>5, TypesInit DEF FirstBackupInv
<1>2. FirstBackupInv /\ [RepositoryNext]_repositoryVars => FirstBackupInv'
  <2>1. CASE RepositoryNext
    BY <2>1, FirstBackupKept
  <2>2. CASE UNCHANGED repositoryVars
    BY <2>2 DEF repositoryVars, FirstBackupInv, RepositoryTypes, ReadTrue, ConfTrue, StorageKnown,
                JobTrue, StatusTrue, Justified, Reading, HasCloud, Conf, Hash
  <2> QED BY <2>1, <2>2
<1>3. FirstBackupInv => FirstBackupExists
  BY DEF FirstBackupInv, StatusTrue, Justified, FirstBackupExists
<1> QED BY <1>1, <1>2, <1>3, PTL DEF RepositorySpec

=============================================================================
