------------------------ MODULE ManualBackup_proofs ------------------------
(***************************************************************************)
(* A pgBackRest backup, for any set of backups and Jobs.  Under every      *)
(* fault a backup succeeds only by its own Job, and no apply gives a Job   *)
(* its labels back.  With the faults that each theorem names excluded, a   *)
(* backup has one Job, the annotation backup-in-progress has an owner, and *)
(* finishBackup is done only when everything is undone.                    *)
(*                                                                         *)
(* The invariant comes in layers, each proved from the ones before:        *)
(*   RecordInv  what W has read and recorded of its backup and its Job;    *)
(*   JobInv     a Job that a backup wants is there for C to find;          *)
(*   OrderInv   the request on its way through the copies of the           *)
(*              annotations, and what the state of a backup says of it;    *)
(*   AloneInv   the finalizer and the annotation of a single backup.       *)
(* What each step does to the fields is stated once, in the lemmas called  *)
(* ...Does, which are all that the later proofs use of the actions.        *)
(***************************************************************************)
EXTENDS ManualBackup, TLAPS

-----------------------------------------------------------------------------
(* Types.                                                                  *)

Worker == [pc : WPCs, b : Backups \cup {None}, snap : Backup, pgNil : BOOLEAN,
           job : Jobs \cup {None}, then : {"none"} \cup Terminal]
SyncWorker == [pc : {"idle", "down", "jobs"}, ann : Annotations, todo : SUBSET Jobs]
JobWorker == [pc : {"idle", "down", "manual", "apply", "patch"}, job : Jobs \cup {None},
              rec : Job, before : Backups \cup {None}, ann : Backups \cup {None},
              reset : Backups \cup {None}]
Crunchy == [life : {"live", "deleting", "gone"}, backup : Backups \cup {None},
            inProgress : Backups \cup {None}, manual : Backups \cup {None}]

\* The worker W has a backup in hand; it is in the finalizer of that backup.
Awake == w.pc \notin {"idle", "down"}
FinPCs == {"finalize", "unlabel", "clear", "delProgress", "dropFin", "complete"}

\* Where the workers are says what they have in hand.
Shape ==
    /\ Awake => wb \in Backups
    /\ w.then # "none" => w.pc \in FinPCs /\ w.snap.state = "Running"
    /\ w.pc = "complete" => w.then # "none"
    /\ w.pc = "started" => w.snap.state = "New"
    /\ c.pc = "apply" => c.ann # None

TypeInv == TypeOK /\ Shape

-----------------------------------------------------------------------------
(* What a step does, field by field.                                       *)

OnlyBackup(b) == /\ bk' \in [Backups -> Backup]
                 /\ \A x \in Backups \ {b} : bk'[x] = bk[x]
OnlyJob(j) == /\ jobs' \in [Jobs -> Job]
              /\ \A k \in Jobs \ {j} : jobs'[k] = jobs[k]

\* The state, the finalizer and the Job of b are written; the rest stays.
Wrote(b, st, fn, jb) ==
    /\ OnlyBackup(b)
    /\ bk'[b].phase = bk[b].phase /\ bk'[b].deleting = bk[b].deleting
    /\ bk'[b].state = st /\ bk'[b].fin = fn /\ bk'[b].job = jb

\* Nothing but the condition of b changes.
Kept(b) == Wrote(b, bk[b].state, bk[b].fin, bk[b].job)

\* A new state of b, when b is still there.
WroteState(b, st) == \/ Live(b) /\ Wrote(b, st, bk[b].fin, bk[b].job)
                     \/ ~Live(b) /\ Kept(b)

\* b is marked for deletion; b is gone.
Marked(b) == /\ OnlyBackup(b) /\ bk[b].fin
             /\ bk'[b].phase = bk[b].phase /\ bk'[b].state = bk[b].state
             /\ bk'[b].fin = bk[b].fin /\ bk'[b].job = bk[b].job
             /\ bk'[b].deleting
Gone(b) == /\ OnlyBackup(b)
           /\ bk'[b].phase = "gone" /\ bk'[b].state = "New"
           /\ ~bk'[b].deleting /\ ~bk'[b].fin /\ bk'[b].job = None

\* The Job's name, status and owner stay.
SameJob(j) == /\ jobs'[j].name = jobs[j].name /\ jobs'[j].status = jobs[j].status
              /\ jobs'[j].owner = jobs[j].owner

\* A Job loses its labels, its finalizer, or goes.
Shrunk(j) == /\ OnlyJob(j) /\ SameJob(j)
             /\ jobs'[j].phase = jobs[j].phase \/ jobs'[j].phase = "gone"
             /\ jobs'[j].labelled => jobs[j].labelled
             /\ jobs'[j].keep => jobs[j].keep

\* A Job is deleted: one with its finalizer is only marked.
Doomed(j) == /\ Shrunk(j) /\ jobs'[j].keep = jobs[j].keep
             /\ jobs[j].keep => /\ jobs'[j].phase = jobs[j].phase
                                /\ jobs'[j].labelled = jobs[j].labelled

\* The worker W goes on with what it has read, or stops.
WentTo(l) == /\ w' \in Worker /\ w'.pc = l /\ w'.b = w.b /\ w'.snap = w.snap
             /\ w'.pgNil = w.pgNil /\ w'.job = w.job /\ w'.then = w.then
Stopped == /\ w' \in Worker /\ w'.pc = "idle" /\ w'.then = "none" /\ w'.job = None

PStopped == p' \in SyncWorker /\ p'.pc = "idle"
CStopped == c' \in JobWorker /\ c'.pc = "idle" /\ c'.job = None

-----------------------------------------------------------------------------
(* The operators.                                                          *)

LEMMA Constants ==
    /\ Unborn \in Backup /\ NoJob \in Job /\ NoAnnotations \in Annotations
    /\ WIdle \in Worker /\ PIdle \in SyncWorker /\ CIdle \in JobWorker
  <1>1. Unborn \in Backup
    BY DEF Unborn, Backup, States, Terminal
  <1>2. NoJob \in Job
    BY DEF NoJob, Job
  <1>3. NoAnnotations \in Annotations
    BY DEF NoAnnotations, Annotations
  <1>4. WIdle \in Worker
    BY <1>1 DEF WIdle, Worker, WPCs
  <1>5. PIdle \in SyncWorker
    BY <1>3 DEF PIdle, SyncWorker
  <1>6. CIdle \in JobWorker
    BY <1>2 DEF CIdle, JobWorker
  <1> QED BY <1>1, <1>2, <1>3, <1>4, <1>5, <1>6

LEMMA Types ==
    TypeOK <=> /\ bk \in [Backups -> Backup] /\ jobs \in [Jobs -> Job]
               /\ pg \in {"live", "deleting", "gone"} /\ ann \in Annotations
               /\ crunchy \in Crunchy /\ lease \in Backups \cup {None}
               /\ w \in Worker /\ p \in SyncWorker /\ c \in JobWorker
  BY DEF TypeOK, Crunchy, Worker, SyncWorker, JobWorker

LEMMA TypesNext ==
    TypeOK' <=> /\ bk' \in [Backups -> Backup] /\ jobs' \in [Jobs -> Job]
                /\ pg' \in {"live", "deleting", "gone"} /\ ann' \in Annotations
                /\ crunchy' \in Crunchy /\ lease' \in Backups \cup {None}
                /\ w' \in Worker /\ p' \in SyncWorker /\ c' \in JobWorker
  BY DEF TypeOK, Crunchy, Worker, SyncWorker, JobWorker

LEMMA WStopDoes == ASSUME WStop PROVE Stopped
  BY Constants DEF WStop, Stopped, WIdle

LEMMA WGotoDoes ==
    ASSUME NEW l \in WPCs, w \in Worker, WGoto(l) PROVE WentTo(l)
  BY DEF WGoto, WentTo, Worker

LEMMA CStopDoes == ASSUME CStop PROVE CStopped
  BY Constants DEF CStop, CStopped, CIdle

LEMMA PIdleDoes == ASSUME p' = PIdle PROVE PStopped
  BY Constants DEF PStopped, PIdle

\* What SetBackup writes for an object that is there.
LEMMA SetBackupDoes ==
    ASSUME NEW b \in Backups, NEW val \in Backup, bk \in [Backups -> Backup],
           SetBackup(b, val)
    PROVE  /\ OnlyBackup(b)
           /\ Live(b) => bk'[b] = val
           /\ ~Live(b) => bk'[b] = bk[b]
  BY DEF SetBackup, OnlyBackup

LEMMA BackupFields ==
    ASSUME NEW x \in Backup
    PROVE  /\ \A s \in {"none", "True", "False"} : [x EXCEPT !.cond = s] \in Backup
           /\ \A s \in States : [x EXCEPT !.state = s] \in Backup
           /\ \A s \in BOOLEAN : [x EXCEPT !.fin = s] \in Backup
           /\ \A s \in BOOLEAN : [x EXCEPT !.deleting = s] \in Backup
           /\ \A s \in Jobs : [x EXCEPT !.job = s] \in Backup
           /\ \A s \in Jobs : [x EXCEPT !.state = "Running", !.job = s] \in Backup
           /\ [x EXCEPT !.phase = "live"] \in Backup
  BY DEF Backup, States

\* A write of the state.
LEMMA StateWritten ==
    ASSUME NEW b \in Backups, NEW st \in States, bk \in [Backups -> Backup],
           SetBackup(b, [bk[b] EXCEPT !.state = st])
    PROVE  WroteState(b, st)
  <1> DEFINE val == [bk[b] EXCEPT !.state = st]
  <1>1. val \in Backup
    BY BackupFields
  <1>2. /\ OnlyBackup(b)
        /\ Live(b) => bk'[b] = val
        /\ ~Live(b) => bk'[b] = bk[b]
    BY <1>1, SetBackupDoes
  <1>3. /\ val.phase = bk[b].phase /\ val.deleting = bk[b].deleting
        /\ val.state = st /\ val.fin = bk[b].fin /\ val.job = bk[b].job
    BY DEF Backup
  <1> QED BY <1>2, <1>3 DEF WroteState, Wrote, Kept

\* A write of the condition.
LEMMA CondWritten ==
    ASSUME NEW b \in Backups, NEW s \in {"none", "True", "False"},
           bk \in [Backups -> Backup], SetBackup(b, [bk[b] EXCEPT !.cond = s])
    PROVE  Kept(b)
  <1> DEFINE val == [bk[b] EXCEPT !.cond = s]
  <1>1. val \in Backup
    BY BackupFields
  <1>2. /\ OnlyBackup(b)
        /\ Live(b) => bk'[b] = val
        /\ ~Live(b) => bk'[b] = bk[b]
    BY <1>1, SetBackupDoes
  <1>3. /\ val.phase = bk[b].phase /\ val.deleting = bk[b].deleting
        /\ val.state = bk[b].state /\ val.fin = bk[b].fin /\ val.job = bk[b].job
    BY DEF Backup
  <1> QED BY <1>2, <1>3 DEF Wrote, Kept

LEMMA SameBackups ==
    ASSUME NEW b \in Backups, bk \in [Backups -> Backup], UNCHANGED bk
    PROVE  Kept(b)
  BY DEF Kept, Wrote, OnlyBackup

\* The deletion of a backup.
LEMMA DeletedDoes ==
    ASSUME NEW b \in Backups, bk \in [Backups -> Backup],
           bk' = [bk EXCEPT ![b] = Deleted(b)]
    PROVE  Marked(b) \/ (Gone(b) /\ ~bk[b].fin)
  <1>1. CASE bk[b].fin
    <2>1. [bk[b] EXCEPT !.deleting = TRUE] \in Backup
      BY BackupFields
    <2>2. bk'[b] = [bk[b] EXCEPT !.deleting = TRUE] /\ OnlyBackup(b)
      BY <1>1, <2>1 DEF Deleted, OnlyBackup
    <2> QED BY <1>1, <2>2 DEF Marked, Backup
  <1>2. CASE ~bk[b].fin
    <2>1. [Unborn EXCEPT !.phase = "gone"] \in Backup
      BY DEF Unborn, Backup, States
    <2>2. bk'[b] = [Unborn EXCEPT !.phase = "gone"] /\ OnlyBackup(b)
      BY <1>2, <2>1 DEF Deleted, OnlyBackup
    <2> QED BY <1>2, <2>2 DEF Gone, Unborn
  <1> QED BY <1>1, <1>2

\* What becomes of a Job.
LEMMA SettleDoes ==
    ASSUME NEW x \in Job
    PROVE  /\ Settle(x) \in Job
           /\ Settle(x).name = x.name /\ Settle(x).status = x.status
           /\ Settle(x).owner = x.owner /\ Settle(x).keep = x.keep
           /\ Settle(x).phase = x.phase \/ Settle(x).phase = "gone"
           /\ Settle(x).labelled => x.labelled
           /\ x.keep => Settle(x) = x
  BY DEF Settle, Job

LEMMA DeleteJobDoes ==
    ASSUME NEW x \in Job
    PROVE  /\ DeleteJob(x) \in Job
           /\ DeleteJob(x).name = x.name /\ DeleteJob(x).status = x.status
           /\ DeleteJob(x).owner = x.owner /\ DeleteJob(x).keep = x.keep
           /\ DeleteJob(x).phase = x.phase \/ DeleteJob(x).phase = "gone"
           /\ DeleteJob(x).labelled => x.labelled
           /\ x.keep => DeleteJob(x).phase = x.phase /\ DeleteJob(x).labelled = x.labelled
  <1> DEFINE y == [x EXCEPT !.deleting = TRUE]
  <1>1. /\ y \in Job /\ y.name = x.name /\ y.status = x.status /\ y.owner = x.owner
        /\ y.keep = x.keep /\ y.phase = x.phase /\ y.labelled = x.labelled
    BY DEF Job
  <1> HIDE DEF y
  <1>2. DeleteJob(x) = Settle(y)
    BY DEF DeleteJob, y
  <1> QED BY <1>1, <1>2, SettleDoes

LEMMA ReleaseJobDoes ==
    ASSUME NEW x \in Job
    PROVE  LET r == RemoveKeepJobFinalizer(x)
           IN  /\ r \in Job
               /\ r.name = x.name /\ r.status = x.status /\ r.owner = x.owner
               /\ r.phase = x.phase \/ r.phase = "gone"
               /\ r.labelled => x.labelled
               /\ ~r.keep
  <1> DEFINE y == [x EXCEPT !.keep = FALSE]
  <1>1. /\ y \in Job /\ y.name = x.name /\ y.status = x.status /\ y.owner = x.owner
        /\ ~y.keep /\ y.phase = x.phase /\ y.labelled = x.labelled
    BY DEF Job
  <1> HIDE DEF y
  <1>2. RemoveKeepJobFinalizer(x) = Settle(y)
    BY DEF RemoveKeepJobFinalizer, y
  <1> QED BY <1>1, <1>2, SettleDoes

LEMMA SetJobDoes ==
    ASSUME NEW j \in Jobs, NEW x \in Job, jobs \in [Jobs -> Job], SetJob(j, x)
    PROVE  OnlyJob(j) /\ jobs'[j] = x
  BY DEF SetJob, OnlyJob

LEMMA Dooms ==
    ASSUME NEW j \in Jobs, jobs \in [Jobs -> Job], SetJob(j, DeleteJob(jobs[j]))
    PROVE  Doomed(j)
  <1>1. OnlyJob(j) /\ jobs'[j] = DeleteJob(jobs[j])
    BY DeleteJobDoes, SetJobDoes
  <1> QED BY <1>1, DeleteJobDoes DEF Doomed, Shrunk, SameJob

LEMMA Releases ==
    ASSUME NEW j \in Jobs, jobs \in [Jobs -> Job],
           SetJob(j, RemoveKeepJobFinalizer(jobs[j]))
    PROVE  Shrunk(j)
  <1> DEFINE x == RemoveKeepJobFinalizer(jobs[j])
  <1>1. /\ x \in Job
        /\ x.name = jobs[j].name /\ x.status = jobs[j].status /\ x.owner = jobs[j].owner
        /\ x.phase = jobs[j].phase \/ x.phase = "gone"
        /\ x.labelled => jobs[j].labelled
        /\ ~x.keep
    BY ReleaseJobDoes
  <1> HIDE DEF x
  <1>2. SetJob(j, x)
    BY DEF x
  <1> QED BY <1>1, <1>2, SetJobDoes DEF Shrunk, SameJob

LEMMA DeletesAndReleases ==
    ASSUME NEW j \in Jobs, jobs \in [Jobs -> Job],
           SetJob(j, RemoveKeepJobFinalizer(DeleteJob(jobs[j])))
    PROVE  Shrunk(j)
  <1> DEFINE y == DeleteJob(jobs[j])
             x == RemoveKeepJobFinalizer(y)
  <1>0. /\ y \in Job
        /\ y.name = jobs[j].name /\ y.status = jobs[j].status /\ y.owner = jobs[j].owner
        /\ y.phase = jobs[j].phase \/ y.phase = "gone"
        /\ y.labelled => jobs[j].labelled
    BY DeleteJobDoes
  <1>1. /\ x \in Job
        /\ x.name = y.name /\ x.status = y.status /\ x.owner = y.owner
        /\ x.phase = y.phase \/ x.phase = "gone"
        /\ x.labelled => y.labelled
        /\ ~x.keep
    BY <1>0, ReleaseJobDoes
  <1>2. SetJob(j, x)
    OBVIOUS
  <1> HIDE DEF x, y
  <1>3. OnlyJob(j) /\ jobs'[j] = x
    BY <1>1, <1>2, SetJobDoes
  <1> QED BY <1>0, <1>1, <1>3 DEF Shrunk, SameJob

-----------------------------------------------------------------------------
(* The steps of W.                                                         *)

\* The state that WGet leaves.
GotState(b) == IF pg # "live" /\ bk[b].state \in {"Starting", "Running"}
               THEN "Failed" ELSE bk[b].state

LEMMA WGetDoes ==
    ASSUME TypeInv, NEW b \in Backups, WGet(b)
    PROVE  /\ w.pc = "idle" /\ Live(b)
           /\ Wrote(b, GotState(b), bk[b].fin, bk[b].job)
           /\ w' \in Worker /\ w'.pc = "lease" /\ w'.b = b
           /\ w'.snap.state = GotState(b) /\ w'.snap.fin = bk[b].fin
           /\ w'.snap.job = bk[b].job /\ w'.snap.deleting = bk[b].deleting
           /\ w'.pgNil = (pg # "live") /\ w'.job = None /\ w'.then = "none"
           /\ UNCHANGED <<jobs, pg, ann, crunchy, lease, p, c>>
  <1>0. bk \in [Backups -> Backup]
    BY Types DEF TypeInv
  <1>1. /\ w.pc = "idle" /\ Live(b)
        /\ bk' = [bk EXCEPT ![b].state = GotState(b)]
        /\ w' = [WIdle EXCEPT !.pc = "lease", !.b = b, !.snap = bk'[b], !.pgNil = pg # "live"]
        /\ UNCHANGED <<jobs, pg, ann, crunchy, lease, p, c>>
    BY DEF WGet, GotState
  <1>2. GotState(b) \in States
    BY <1>0 DEF GotState, Backup, States, Terminal
  <1>3. bk'[b] = [bk[b] EXCEPT !.state = GotState(b)]
    BY <1>0, <1>1
  <1>4. bk'[b] \in Backup
    <2>1. \A s \in States : [bk[b] EXCEPT !.state = s] \in Backup
      BY <1>0, BackupFields
    <2> QED BY <1>2, <1>3, <2>1
  <1>5. OnlyBackup(b)
    BY <1>0, <1>1, <1>4 DEF OnlyBackup
  <1>6. /\ bk'[b].phase = bk[b].phase /\ bk'[b].deleting = bk[b].deleting
        /\ bk'[b].state = GotState(b) /\ bk'[b].fin = bk[b].fin /\ bk'[b].job = bk[b].job
    BY <1>0, <1>3 DEF Backup
  <1>7. /\ w'.snap = bk'[b] /\ w'.pc = "lease" /\ w'.b = b /\ w'.pgNil = (pg # "live")
        /\ w'.job = None /\ w'.then = "none"
    BY <1>1 DEF WIdle
  <1>8. w' \in Worker
    BY <1>1, <1>4 DEF WIdle, Worker, WPCs
  <1> QED BY <1>1, <1>5, <1>6, <1>7, <1>8 DEF Wrote

LEMMA WReleaseDoes ==
    ASSUME TypeInv, WRelease
    PROVE  /\ w.pc = "lease" /\ (w.snap.state \in Terminal \/ w.snap.deleting)
           /\ Kept(wb)
           /\ lease' = lease \/ (lease' = None /\ lease \in {None, wb})
           /\ \/ Stopped
              \/ WentTo("finalize") /\ (w.snap.deleting \/ w.snap.state = "Failed")
              \/ WentTo("state") /\ ~w.snap.deleting /\ w.snap.state = "Succeeded"
           /\ UNCHANGED <<jobs, pg, ann, crunchy, p, c>>
  <1>0. bk \in [Backups -> Backup] /\ w \in Worker /\ w.snap \in Backup
    BY Types DEF TypeInv, Worker
  <1>1. w.pc = "lease" /\ wb \in Backups
    BY DEF WRelease, TypeInv, Shape, Awake
  <1>2. Kept(wb)
    BY <1>0, <1>1, CondWritten, SameBackups DEF WRelease
  <1> DEFINE l == AfterLease(w.snap)
  <1>3. w.snap.state \in Terminal \/ w.snap.deleting
    BY DEF WRelease
  <1>4. \/ l = "finalize" /\ (w.snap.deleting \/ w.snap.state = "Failed")
        \/ l = "state" /\ ~w.snap.deleting /\ w.snap.state = "Succeeded"
    BY <1>0, <1>3 DEF AfterLease, Terminal, Backup
  <1>5. WGoto(l) \/ WStop
    BY DEF WRelease
  <1>6. WentTo(l) \/ Stopped
    BY <1>0, <1>4, <1>5, WGotoDoes, WStopDoes DEF WPCs
  <1> HIDE DEF l
  <1> QED BY <1>1, <1>2, <1>3, <1>4, <1>6 DEF WRelease

LEMMA WAcquireDoes ==
    ASSUME TypeInv, WAcquire
    PROVE  /\ w.pc = "lease" /\ w.snap.state \notin Terminal /\ ~w.snap.deleting
           /\ Kept(wb)
           /\ lease' = lease \/ (lease' = wb /\ Obtainable)
           /\ \/ Stopped
              \/ WentTo("ensure") /\ lease' = wb /\ Live(wb)
           /\ UNCHANGED <<jobs, pg, ann, crunchy, p, c>>
  <1>0. bk \in [Backups -> Backup] /\ w \in Worker /\ w.snap \in Backup
    BY Types DEF TypeInv, Worker
  <1>1. w.pc = "lease" /\ wb \in Backups
    BY DEF WAcquire, TypeInv, Shape, Awake
  <1>2. Kept(wb)
    BY <1>0, <1>1, CondWritten, SameBackups DEF WAcquire
  <1>3. w.snap.state \notin Terminal /\ ~w.snap.deleting
    BY DEF WAcquire
  <1>4. AfterLease(w.snap) = "ensure"
    BY <1>0, <1>3 DEF AfterLease, Terminal, Backup
  <1>5. (WGoto("ensure") /\ lease' = wb /\ Live(wb)) \/ WStop
    BY <1>4 DEF WAcquire
  <1>6. (WentTo("ensure") /\ lease' = wb /\ Live(wb)) \/ Stopped
    BY <1>0, <1>5, WGotoDoes, WStopDoes DEF WPCs
  <1> QED BY <1>1, <1>2, <1>3, <1>6 DEF WAcquire

LEMMA WEnsureFinalizersDoes ==
    ASSUME TypeInv, WEnsureFinalizers
    PROVE  /\ w.pc = "ensure"
           /\ \/ /\ Live(wb) /\ Wrote(wb, bk[wb].state, TRUE, bk[wb].job)
                 /\ w' \in Worker /\ w'.pc = "state" /\ w'.b = w.b
                 /\ w'.snap.state = w.snap.state /\ w'.snap.job = w.snap.job
                 /\ w'.snap.deleting = w.snap.deleting /\ w'.snap.fin
                 /\ w'.pgNil = w.pgNil /\ w'.job = w.job /\ w'.then = w.then
              \/ Kept(wb) /\ Stopped
           /\ UNCHANGED <<jobs, pg, ann, crunchy, lease, p, c>>
  <1>0. bk \in [Backups -> Backup] /\ w \in Worker /\ w.snap \in Backup
    BY Types DEF TypeInv, Worker
  <1>1. w.pc = "ensure" /\ wb \in Backups
    BY DEF WEnsureFinalizers, TypeInv, Shape, Awake
  <1> DEFINE val == [bk[wb] EXCEPT !.fin = TRUE]
  <1>2. val \in Backup
    BY <1>0, <1>1, BackupFields
  <1>3. /\ OnlyBackup(wb)
        /\ Live(wb) => bk'[wb] = val
        /\ ~Live(wb) => bk'[wb] = bk[wb]
    BY <1>0, <1>1, <1>2, SetBackupDoes DEF WEnsureFinalizers
  <1>4. CASE Live(wb)
    <2>1. w' = [w EXCEPT !.pc = "state", !.snap.fin = TRUE]
      BY <1>4 DEF WEnsureFinalizers
    <2>2. w'.snap = [w.snap EXCEPT !.fin = TRUE] /\ w'.pc = "state" /\ w'.b = w.b
          /\ w'.pgNil = w.pgNil /\ w'.job = w.job /\ w'.then = w.then
      BY <1>0, <2>1 DEF Worker
    <2>3. w'.snap \in Backup
      BY <1>0, <2>2, BackupFields
    <2>4. w' \in Worker
      BY <1>0, <2>1, <2>3 DEF Worker, WPCs
    <2>5. Wrote(wb, bk[wb].state, TRUE, bk[wb].job)
      BY <1>0, <1>1, <1>3, <1>4 DEF Wrote, Backup
    <2>6. /\ w'.snap.state = w.snap.state /\ w'.snap.job = w.snap.job
          /\ w'.snap.deleting = w.snap.deleting /\ w'.snap.fin
      BY <1>0, <2>2 DEF Backup
    <2> QED BY <1>1, <1>4, <2>2, <2>4, <2>5, <2>6 DEF WEnsureFinalizers
  <1>5. CASE ~Live(wb)
    BY <1>1, <1>3, <1>5, WStopDoes DEF WEnsureFinalizers, Kept, Wrote
  <1> QED BY <1>4, <1>5

LEMMA WRejectDoes ==
    ASSUME TypeInv, WReject
    PROVE  /\ "reject" \in Faults /\ w.pc = "state" /\ w.snap.state = "New"
           /\ WroteState(wb, "Failed") /\ Stopped
           /\ UNCHANGED <<jobs, pg, ann, crunchy, lease, p, c>>
  <1>1. w.pc = "state" /\ w.snap.state = "New" /\ wb \in Backups
    BY DEF WReject, InState, TypeInv, Shape, Awake
  <1>2. WroteState(wb, "Failed")
    BY <1>1, Types, StateWritten DEF WReject, TypeInv, States, Terminal
  <1> QED BY <1>1, <1>2, WStopDoes DEF WReject

LEMMA WNewDoes ==
    ASSUME TypeInv, WNew
    PROVE  /\ w.pc = "state" /\ w.snap.state = "New"
           /\ \/ WentTo("started") /\ ann' = ann /\ findBackupJob # {}
              \/ /\ WentTo("started") /\ ann' \in Annotations
                 /\ ann.inProgress \in {None, wb}
                 /\ ann'.backup = wb /\ ann'.inProgress = wb
              \/ Stopped /\ ann' = ann
           /\ UNCHANGED <<bk, jobs, pg, crunchy, lease, p, c>>
  <1>0. w \in Worker
    BY Types DEF TypeInv
  <1>1. w.pc = "state" /\ w.snap.state = "New" /\ wb \in Backups
    BY DEF WNew, InState, TypeInv, Shape, Awake
  <1>2. WGoto("started") => WentTo("started")
    BY <1>0, WGotoDoes DEF WPCs
  <1>3. \/ WGoto("started") /\ ann' = ann /\ findBackupJob # {}
        \/ WGoto("started") /\ startBackup
        \/ WStop /\ ann' = ann
    BY DEF WNew
  <1>4. startBackup => /\ ann' \in Annotations /\ ann.inProgress \in {None, wb}
                       /\ ann'.backup = wb /\ ann'.inProgress = wb
    BY <1>1 DEF startBackup, Annotations
  <1> QED BY <1>1, <1>2, <1>3, <1>4, WStopDoes DEF WNew

LEMMA WStartedDoes ==
    ASSUME TypeInv, WStarted
    PROVE  /\ w.pc = "started"
           /\ WroteState(wb, "Starting") \/ ("reject" \in Faults /\ Kept(wb))
           /\ Stopped
           /\ UNCHANGED <<jobs, pg, ann, crunchy, lease, p, c>>
  <1>1. w.pc = "started" /\ wb \in Backups
    BY DEF WStarted, TypeInv, Shape, Awake
  <1>2. WroteState(wb, "Starting") \/ ("reject" \in Faults /\ Kept(wb))
    BY <1>1, Types, StateWritten, SameBackups DEF WStarted, TypeInv, States
  <1> QED BY <1>1, <1>2, WStopDoes DEF WStarted

LEMMA FoundJobs ==
    ASSUME TypeInv, Awake, NEW j \in findBackupJob
    PROVE  /\ j \in Jobs /\ Exists(j)
           /\ \/ w.snap.job = None /\ jobs[j].labelled /\ jobs[j].name = wb
              \/ w.snap.job # None /\ j = w.snap.job
  BY DEF findBackupJob

LEMMA WStartingDoes ==
    ASSUME TypeInv, WStarting
    PROVE  /\ w.pc = "state" /\ w.snap.state = "Starting"
           /\ \/ \E j \in findBackupJob :
                    Live(wb) /\ Wrote(wb, "Running", bk[wb].fin, j)
              \/ "notReady" \in Faults /\ findBackupJob = {} /\ WroteState(wb, "Failed")
              \/ Kept(wb)
           /\ Stopped
           /\ UNCHANGED <<jobs, pg, ann, crunchy, lease, p, c>>
  <1>0. bk \in [Backups -> Backup]
    BY Types DEF TypeInv
  <1>1. w.pc = "state" /\ w.snap.state = "Starting" /\ wb \in Backups /\ Awake
    BY DEF WStarting, InState, TypeInv, Shape, Awake
  <1>2. ASSUME NEW j \in findBackupJob,
               SetBackup(wb, [bk[wb] EXCEPT !.state = "Running", !.job = j])
        PROVE  (Live(wb) /\ Wrote(wb, "Running", bk[wb].fin, j)) \/ Kept(wb)
    <2> DEFINE val == [bk[wb] EXCEPT !.state = "Running", !.job = j]
    <2>1. j \in Jobs
      BY <1>1, FoundJobs
    <2>2. val \in Backup
      BY <1>0, <1>1, <2>1, BackupFields
    <2>3. /\ OnlyBackup(wb)
          /\ Live(wb) => bk'[wb] = val
          /\ ~Live(wb) => bk'[wb] = bk[wb]
      BY <1>0, <1>1, <1>2, <2>2, SetBackupDoes
    <2>4. /\ val.phase = bk[wb].phase /\ val.deleting = bk[wb].deleting
          /\ val.state = "Running" /\ val.fin = bk[wb].fin /\ val.job = j
      BY <1>0, <1>1 DEF Backup
    <2> QED BY <2>3, <2>4 DEF Wrote, Kept
  <1>3. ASSUME SetBackup(wb, [bk[wb] EXCEPT !.state = "Failed"])
        PROVE  WroteState(wb, "Failed")
    BY <1>0, <1>1, <1>3, StateWritten DEF States, Terminal
  <1>4. \/ \E j \in findBackupJob :
              SetBackup(wb, [bk[wb] EXCEPT !.state = "Running", !.job = j])
        \/ /\ "notReady" \in Faults /\ findBackupJob = {}
           /\ SetBackup(wb, [bk[wb] EXCEPT !.state = "Failed"])
        \/ UNCHANGED bk
    BY DEF WStarting, failIfClusterIsNotReady
  <1>5. \/ \E j \in findBackupJob : Live(wb) /\ Wrote(wb, "Running", bk[wb].fin, j)
        \/ "notReady" \in Faults /\ findBackupJob = {} /\ WroteState(wb, "Failed")
        \/ Kept(wb)
    BY <1>0, <1>1, <1>2, <1>3, <1>4, SameBackups
  <1> QED BY <1>1, <1>5, WStopDoes DEF WStarting

LEMMA WRunningDoes ==
    ASSUME TypeInv, WRunning
    PROVE  /\ w.pc = "state" /\ w.snap.state = "Running"
           /\ \/ ~Exists(w.snap.job) /\ WroteState(wb, "Failed") /\ Stopped
              \/ Kept(wb) /\ Stopped
              \/ /\ Kept(wb) /\ Exists(w.snap.job)
                 /\ w' \in Worker /\ w'.pc = "finalize" /\ w'.b = w.b /\ w'.snap = w.snap
                 /\ w'.pgNil = w.pgNil /\ w'.job = w.job /\ w'.then \in Terminal
                 /\ w'.then = "Succeeded" => jobs[w.snap.job].status = "succeeded"
           /\ UNCHANGED <<jobs, pg, ann, crunchy, lease, p, c>>
  <1>0. bk \in [Backups -> Backup] /\ w \in Worker
    BY Types DEF TypeInv
  <1>1. w.pc = "state" /\ w.snap.state = "Running" /\ wb \in Backups
    BY DEF WRunning, InState, TypeInv, Shape, Awake
  <1> DEFINE th == IF jobs[w.snap.job].status = "succeeded" THEN "Succeeded" ELSE "Failed"
  <1>2. w' = [w EXCEPT !.pc = "finalize", !.then = th] =>
            /\ w' \in Worker /\ w'.pc = "finalize" /\ w'.b = w.b /\ w'.snap = w.snap
            /\ w'.pgNil = w.pgNil /\ w'.job = w.job /\ w'.then \in Terminal
            /\ w'.then = "Succeeded" => jobs[w.snap.job].status = "succeeded"
    <2>1. th \in Terminal /\ (th = "Succeeded" => jobs[w.snap.job].status = "succeeded")
      BY DEF Terminal
    <2> HIDE DEF th
    <2> QED BY <1>0, <2>1 DEF Worker, WPCs
  <1>3. \/ /\ ~Exists(w.snap.job)
           /\ SetBackup(wb, [bk[wb] EXCEPT !.state = "Failed"])
           /\ WStop
        \/ WStop /\ UNCHANGED bk
        \/ /\ Exists(w.snap.job)
           /\ w' = [w EXCEPT !.pc = "finalize", !.then = th]
           /\ UNCHANGED bk
    BY DEF WRunning
  <1>4. SetBackup(wb, [bk[wb] EXCEPT !.state = "Failed"]) => WroteState(wb, "Failed")
    BY <1>0, <1>1, StateWritten DEF States, Terminal
  <1>5. UNCHANGED <<jobs, pg, ann, crunchy, lease, p, c>>
    BY DEF WRunning
  <1> HIDE DEF th
  <1> QED BY <1>0, <1>1, <1>2, <1>3, <1>4, <1>5, WStopDoes, SameBackups

LEMMA WSucceededDoes ==
    ASSUME TypeInv, WSucceeded
    PROVE  /\ w.pc = "state" /\ w.snap.state = "Succeeded"
           /\ \/ UNCHANGED jobs
              \/ \E j \in findBackupJob : j \in Jobs /\ Shrunk(j)
           /\ Stopped
           /\ UNCHANGED <<bk, pg, ann, crunchy, lease, p, c>>
  <1>1. w.pc = "state" /\ w.snap.state = "Succeeded" /\ Awake
    BY DEF WSucceeded, InState, Awake
  <1>2. ASSUME NEW j \in findBackupJob, SetJob(j, RemoveKeepJobFinalizer(jobs[j]))
        PROVE  j \in Jobs /\ Shrunk(j)
    BY <1>1, <1>2, FoundJobs, Types, Releases DEF TypeInv
  <1> QED BY <1>1, <1>2, WStopDoes DEF WSucceeded

-----------------------------------------------------------------------------
(* The steps of W, continued: the finalizer.                               *)

LEMMA AfterFinalizerDoes ==
    ASSUME w \in Worker, AfterFinalizer
    PROVE  \/ w.then = "none" /\ Stopped
           \/ w.then # "none" /\ WentTo("complete")
  BY WStopDoes, WGotoDoes DEF AfterFinalizer, WPCs

LEMMA WNoFinalizerDoes ==
    ASSUME TypeInv, WNoFinalizer
    PROVE  /\ w.pc = "finalize" /\ ~w.snap.fin
           /\ \/ w.then = "none" /\ Stopped
              \/ w.then # "none" /\ WentTo("complete")
           /\ UNCHANGED <<bk, jobs, pg, ann, crunchy, lease, p, c>>
  BY Types, AfterFinalizerDoes DEF WNoFinalizer, TypeInv

LEMMA WFinalizeNoClusterDoes ==
    ASSUME TypeInv, WFinalizeNoCluster
    PROVE  /\ w.pc = "finalize" /\ w.snap.fin /\ FinalizerPgNil
           /\ \/ UNCHANGED jobs /\ WentTo("dropFin")
              \/ /\ \E j \in findBackupJob : j \in Jobs /\ Shrunk(j)
                 /\ Stopped
           /\ UNCHANGED <<bk, pg, ann, crunchy, lease, p, c>>
  <1>1. w.pc = "finalize" /\ w.snap.fin /\ FinalizerPgNil /\ Awake
    BY DEF WFinalizeNoCluster, Finalizing, Awake
  <1>2. ASSUME NEW j \in findBackupJob,
               SetJob(j, RemoveKeepJobFinalizer(DeleteJob(jobs[j])))
        PROVE  j \in Jobs /\ Shrunk(j)
    BY <1>1, <1>2, FoundJobs, Types, DeletesAndReleases DEF TypeInv
  <1>3. WGoto("dropFin") => WentTo("dropFin")
    BY Types, WGotoDoes DEF TypeInv, WPCs
  <1> QED BY <1>1, <1>2, <1>3, WStopDoes DEF WFinalizeNoCluster

LEMMA WRecordJobDoes ==
    ASSUME TypeInv, WRecordJob
    PROVE  /\ w.pc = "finalize" /\ w.snap.fin /\ w.snap.job = None
           /\ \/ \E j \in findBackupJob :
                    Live(wb) /\ Wrote(wb, bk[wb].state, bk[wb].fin, j)
              \/ Kept(wb)
           /\ Stopped
           /\ UNCHANGED <<jobs, pg, ann, crunchy, lease, p, c>>
  <1>0. bk \in [Backups -> Backup]
    BY Types DEF TypeInv
  <1>1. w.pc = "finalize" /\ w.snap.fin /\ w.snap.job = None /\ wb \in Backups /\ Awake
    BY DEF WRecordJob, Finalizing, TypeInv, Shape, Awake
  <1>2. ASSUME NEW j \in findBackupJob, SetBackup(wb, [bk[wb] EXCEPT !.job = j])
        PROVE  (Live(wb) /\ Wrote(wb, bk[wb].state, bk[wb].fin, j)) \/ Kept(wb)
    <2> DEFINE val == [bk[wb] EXCEPT !.job = j]
    <2>1. j \in Jobs
      BY <1>1, FoundJobs
    <2>2. val \in Backup
      BY <1>0, <1>1, <2>1, BackupFields
    <2>3. /\ OnlyBackup(wb)
          /\ Live(wb) => bk'[wb] = val
          /\ ~Live(wb) => bk'[wb] = bk[wb]
      BY <1>0, <1>1, <1>2, <2>2, SetBackupDoes
    <2>4. /\ val.phase = bk[wb].phase /\ val.deleting = bk[wb].deleting
          /\ val.state = bk[wb].state /\ val.fin = bk[wb].fin /\ val.job = j
      BY <1>0, <1>1 DEF Backup
    <2> QED BY <2>3, <2>4 DEF Wrote, Kept
  <1> QED BY <1>1, <1>2, WStopDoes DEF WRecordJob

LEMMA WFinishExitDoes ==
    ASSUME TypeInv, WFinishExit
    PROVE  /\ w.pc = "finalize" /\ w.snap.fin /\ ~FinalizerPgNil
           /\ getBackupInProgress # wb
           /\ w.snap.job # None \/ findBackupJob = {}
           /\ \/ UNCHANGED jobs
              \/ w.snap.deleting /\ \E j \in findBackupJob : j \in Jobs /\ Shrunk(j)
           /\ WentTo("dropFin")
           /\ UNCHANGED <<bk, pg, ann, crunchy, lease, p, c>>
  <1>1. w.pc = "finalize" /\ w.snap.fin /\ Awake
    BY DEF WFinishExit, Finishing, Finalizing, Awake
  <1>2. ASSUME NEW j \in findBackupJob,
               SetJob(j, RemoveKeepJobFinalizer(DeleteJob(jobs[j])))
        PROVE  j \in Jobs /\ Shrunk(j)
    BY <1>1, <1>2, FoundJobs, Types, DeletesAndReleases DEF TypeInv
  <1>3. WGoto("dropFin") => WentTo("dropFin")
    BY Types, WGotoDoes DEF TypeInv, WPCs
  <1> QED BY <1>1, <1>2, <1>3 DEF WFinishExit, Finishing

LEMMA WFinishRequestDoes ==
    ASSUME TypeInv, WFinishRequest
    PROVE  /\ w.pc = "finalize" /\ w.snap.fin /\ ~FinalizerPgNil
           /\ getBackupInProgress = wb
           /\ w.snap.job # None \/ findBackupJob = {}
           /\ \/ /\ crunchy.backup # None /\ Stopped
                 /\ ann' \in Annotations /\ ann'.backup = None
                 /\ ann'.inProgress = ann.inProgress
              \/ /\ crunchy.backup = None /\ ann' = ann
                 /\ w' \in Worker /\ w'.pc = "unlabel" /\ w'.b = w.b /\ w'.snap = w.snap
                 /\ w'.pgNil = w.pgNil /\ w'.then = w.then
                 /\ \/ w'.job = None /\ findBackupJob = {}
                    \/ w'.job \in findBackupJob /\ w'.job # None
           /\ UNCHANGED <<bk, jobs, pg, crunchy, lease, p, c>>
  <1>0. w \in Worker /\ ann \in Annotations
    BY Types DEF TypeInv
  <1>1. w.pc = "finalize" /\ w.snap.fin /\ Awake
    BY DEF WFinishRequest, Finishing, Finalizing, Awake
  <1>2. ASSUME NEW j \in {None} \cup findBackupJob,
               w' = [w EXCEPT !.pc = "unlabel", !.job = j]
        PROVE  /\ w' \in Worker /\ w'.pc = "unlabel" /\ w'.b = w.b /\ w'.snap = w.snap
               /\ w'.pgNil = w.pgNil /\ w'.then = w.then /\ w'.job = j
    <2>1. j \in Jobs \cup {None}
      BY <1>1, FoundJobs
    <2> QED BY <1>0, <1>2, <2>1 DEF Worker, WPCs
  <1>3. ann' = [ann EXCEPT !.backup = None] =>
           /\ ann' \in Annotations /\ ann'.backup = None
           /\ ann'.inProgress = ann.inProgress
    BY <1>0 DEF Annotations
  <1>4. \/ crunchy.backup # None /\ ann' = [ann EXCEPT !.backup = None] /\ WStop
        \/ /\ crunchy.backup = None /\ ann' = ann
           /\ \E j \in {None} \cup findBackupJob :
                /\ j = None <=> findBackupJob = {}
                /\ w' = [w EXCEPT !.pc = "unlabel", !.job = j]
    BY DEF WFinishRequest
  <1>5. crunchy.backup = None /\ ann' = ann =>
            \/ crunchy.backup # None /\ WStop
            \/ /\ w' \in Worker /\ w'.pc = "unlabel" /\ w'.b = w.b /\ w'.snap = w.snap
               /\ w'.pgNil = w.pgNil /\ w'.then = w.then
               /\ \/ w'.job = None /\ findBackupJob = {}
                  \/ w'.job \in findBackupJob /\ w'.job # None
    BY <1>2, <1>4
  <1>6. /\ ~FinalizerPgNil /\ getBackupInProgress = wb
        /\ w.snap.job # None \/ findBackupJob = {}
        /\ UNCHANGED <<bk, jobs, pg, crunchy, lease, p, c>>
    BY DEF WFinishRequest, Finishing
  <1> QED BY <1>1, <1>3, <1>4, <1>5, <1>6, WStopDoes

LEMMA WFinishErrorDoes ==
    ASSUME TypeInv, WFinishError
    PROVE  /\ w.pc = "finalize" /\ Stopped
           /\ UNCHANGED <<bk, jobs, pg, ann, crunchy, lease, p, c>>
  BY WStopDoes DEF WFinishError, Finishing, Finalizing

\* A Job loses its labels and nothing else.
Unlabelled(j) == /\ OnlyJob(j) /\ SameJob(j) /\ ~jobs'[j].labelled
                 /\ jobs'[j].phase = jobs[j].phase /\ jobs'[j].keep = jobs[j].keep

LEMMA WUnlabelDoes ==
    ASSUME TypeInv, WUnlabel
    PROVE  /\ w.pc = "unlabel"
           /\ \/ w.job = None /\ WentTo("clear") /\ UNCHANGED jobs
              \/ /\ w.job \in Jobs /\ Exists(w.job) /\ Unlabelled(w.job)
                 /\ WentTo("clear")
              \/ Stopped /\ UNCHANGED jobs
           /\ UNCHANGED <<bk, pg, ann, crunchy, lease, p, c>>
  <1>0. w \in Worker /\ jobs \in [Jobs -> Job] /\ w.job \in Jobs \cup {None}
    BY Types DEF TypeInv, Worker
  <1>1. ASSUME w.job # None, SetJob(w.job, [jobs[w.job] EXCEPT !.labelled = FALSE])
        PROVE  w.job \in Jobs /\ Unlabelled(w.job)
    <2> DEFINE x == [jobs[w.job] EXCEPT !.labelled = FALSE]
    <2>1. w.job \in Jobs
      BY <1>0, <1>1
    <2>2. /\ x \in Job /\ x.name = jobs[w.job].name /\ x.status = jobs[w.job].status
          /\ x.owner = jobs[w.job].owner /\ ~x.labelled
          /\ x.phase = jobs[w.job].phase /\ x.keep = jobs[w.job].keep
      BY <1>0, <2>1 DEF Job
    <2>3. OnlyJob(w.job) /\ jobs'[w.job] = x
      BY <1>0, <1>1, <2>1, <2>2, SetJobDoes
    <2> HIDE DEF x
    <2> QED BY <2>1, <2>2, <2>3 DEF Unlabelled, SameJob
  <1>2. WGoto("clear") => WentTo("clear")
    BY <1>0, WGotoDoes DEF WPCs
  <1> QED BY <1>1, <1>2, WStopDoes DEF WUnlabel

LEMMA WClearStatusDoes ==
    ASSUME TypeInv, WClearStatus
    PROVE  /\ w.pc = "clear"
           /\ WentTo("delProgress") \/ Stopped
           /\ crunchy' \in Crunchy /\ crunchy'.life = crunchy.life
           /\ crunchy'.backup = crunchy.backup /\ crunchy'.inProgress = crunchy.inProgress
           /\ UNCHANGED <<bk, jobs, pg, ann, lease, p, c>>
  <1>0. w \in Worker /\ crunchy \in Crunchy
    BY Types DEF TypeInv
  <1>1. WGoto("delProgress") => WentTo("delProgress")
    BY <1>0, WGotoDoes DEF WPCs
  <1>2. crunchy' = [crunchy EXCEPT !.manual = None] \/ crunchy' = crunchy
    BY DEF WClearStatus
  <1>3. /\ crunchy' \in Crunchy /\ crunchy'.life = crunchy.life
        /\ crunchy'.backup = crunchy.backup /\ crunchy'.inProgress = crunchy.inProgress
    BY <1>0, <1>2 DEF Crunchy
  <1> QED BY <1>1, <1>3, WStopDoes DEF WClearStatus

LEMMA WDeleteProgressDoes ==
    ASSUME TypeInv, WDeleteProgress
    PROVE  /\ w.pc = "delProgress" /\ Stopped
           /\ \/ ann' = ann
              \/ /\ ann' \in Annotations /\ ann'.inProgress = None
                 /\ ann'.backup = ann.backup
           /\ UNCHANGED <<bk, jobs, pg, crunchy, lease, p, c>>
  <1>0. ann \in Annotations
    BY Types DEF TypeInv
  <1>1. ann' = ann \/ ann' = [ann EXCEPT !.inProgress = None]
    BY DEF WDeleteProgress
  <1>2. \/ ann' = ann
        \/ ann' \in Annotations /\ ann'.inProgress = None /\ ann'.backup = ann.backup
    BY <1>0, <1>1 DEF Annotations
  <1> QED BY <1>2, WStopDoes DEF WDeleteProgress

LEMMA WDropFinalizerDoes ==
    ASSUME TypeInv, WDropFinalizer
    PROVE  /\ w.pc = "dropFin"
           /\ \/ ~Live(wb) /\ Kept(wb)
              \/ Live(wb) /\ bk[wb].deleting /\ Gone(wb)
              \/ Live(wb) /\ ~bk[wb].deleting /\ Wrote(wb, bk[wb].state, FALSE, bk[wb].job)
           /\ \/ w.then = "none" /\ Stopped
              \/ w.then # "none" /\ WentTo("complete")
           /\ UNCHANGED <<jobs, pg, ann, crunchy, lease, p, c>>
  <1>0. bk \in [Backups -> Backup] /\ w \in Worker
    BY Types DEF TypeInv
  <1>1. w.pc = "dropFin" /\ wb \in Backups
    BY DEF WDropFinalizer, TypeInv, Shape, Awake
  <1> DEFINE val == IF bk[wb].deleting THEN [Unborn EXCEPT !.phase = "gone"]
                                       ELSE [bk[wb] EXCEPT !.fin = FALSE]
  <1>2. val \in Backup
    BY <1>0, <1>1 DEF Unborn, Backup, States
  <1>3. /\ OnlyBackup(wb)
        /\ Live(wb) => bk'[wb] = val
        /\ ~Live(wb) => bk'[wb] = bk[wb]
    BY <1>0, <1>1, <1>2, SetBackupDoes DEF WDropFinalizer
  <1>4. CASE bk[wb].deleting
    <2>1. /\ val.phase = "gone" /\ val.state = "New" /\ ~val.deleting /\ ~val.fin
          /\ val.job = None
      BY <1>4 DEF Unborn
    <2> HIDE DEF val
    <2>2. \/ ~Live(wb) /\ Kept(wb)
          \/ Live(wb) /\ bk[wb].deleting /\ Gone(wb)
      BY <1>3, <1>4, <2>1 DEF Kept, Wrote, Gone
    <2> QED BY <1>0, <1>1, <2>2, AfterFinalizerDoes DEF WDropFinalizer
  <1>5. CASE ~bk[wb].deleting
    <2>1. /\ val.phase = bk[wb].phase /\ val.deleting = bk[wb].deleting
          /\ val.state = bk[wb].state /\ val.fin = FALSE /\ val.job = bk[wb].job
      BY <1>0, <1>1, <1>5 DEF Backup
    <2> HIDE DEF val
    <2>2. \/ ~Live(wb) /\ Kept(wb)
          \/ Live(wb) /\ Wrote(wb, bk[wb].state, FALSE, bk[wb].job)
      BY <1>3, <1>5, <2>1 DEF Kept, Wrote
    <2> QED BY <1>0, <1>1, <1>5, <2>2, AfterFinalizerDoes DEF WDropFinalizer
  <1> QED BY <1>4, <1>5

LEMMA WCompleteDoes ==
    ASSUME TypeInv, WComplete
    PROVE  /\ w.pc = "complete" /\ WroteState(wb, w.then) /\ Stopped
           /\ w.then \in Terminal
           /\ UNCHANGED <<jobs, pg, ann, crunchy, lease, p, c>>
  <1>1. w.pc = "complete" /\ wb \in Backups /\ w.then # "none"
    BY DEF WComplete, TypeInv, Shape, Awake
  <1>2. w.then \in Terminal
    BY <1>1, Types DEF TypeInv, Worker
  <1>3. WroteState(wb, w.then)
    BY <1>1, <1>2, Types, StateWritten DEF WComplete, TypeInv, States
  <1> QED BY <1>1, <1>2, <1>3, WStopDoes DEF WComplete

-----------------------------------------------------------------------------
(* The steps of P.                                                         *)

LEMMA PStartDoes ==
    ASSUME TypeInv, PStart
    PROVE  /\ p.pc = "idle" /\ pg = "live"
           /\ p' \in SyncWorker /\ p'.pc = "jobs" /\ p'.ann = ann
           /\ UNCHANGED <<bk, jobs, pg, ann, crunchy, lease, w, c>>
  BY Types DEF PStart, TypeInv, SyncWorker

LEMMA reconcileBackupJobDoes ==
    ASSUME TypeInv, NEW j \in Jobs, reconcileBackupJob(j)
    PROVE  /\ p.pc = "jobs" /\ p' \in SyncWorker
           /\ \/ p'.pc = "idle"
              \/ p'.pc = "jobs" /\ p'.ann = p.ann
           /\ \/ UNCHANGED jobs
              \/ \E b \in Backups :
                    /\ Live(b) /\ bk[b].job = j /\ Exists(j) /\ OnlyJob(j)
                    /\ jobs'[j].owner = b /\ jobs'[j].name = jobs[j].name
                    /\ jobs'[j].status = jobs[j].status /\ jobs'[j].phase = jobs[j].phase
                    /\ jobs'[j].labelled = jobs[j].labelled /\ jobs'[j].keep = jobs[j].keep
              \/ /\ \A b \in Backups : ~(Live(b) /\ bk[b].job = j)
                 /\ Exists(j) /\ Finished(jobs[j]) /\ Shrunk(j)
                 /\ ~jobs'[j].labelled
           /\ UNCHANGED <<bk, pg, ann, crunchy, lease, w, c>>
  <1>0. jobs \in [Jobs -> Job] /\ p \in SyncWorker /\ jobs[j] \in Job
    BY Types DEF TypeInv
  <1> DEFINE owners == {b \in Backups : Live(b) /\ bk[b].job = j}
  <1>1. /\ p.pc = "jobs"
        /\ \/ \E b \in owners : Exists(j) /\ SetJob(j, [jobs[j] EXCEPT !.owner = b])
           \/ /\ owners = {} /\ Exists(j) /\ Finished(jobs[j])
              /\ SetJob(j, [RemoveKeepJobFinalizer(jobs[j]) EXCEPT !.labelled = FALSE])
           \/ UNCHANGED jobs
        /\ p' = [p EXCEPT !.todo = p.todo \ {j}] \/ p' = PIdle
        /\ UNCHANGED <<bk, pg, ann, crunchy, lease, w, c>>
    BY DEF reconcileBackupJob
  <1>2. p' \in SyncWorker /\ (p'.pc = "idle" \/ (p'.pc = "jobs" /\ p'.ann = p.ann))
    <2>1. CASE p' = PIdle
      BY <2>1, PIdleDoes DEF PStopped
    <2>2. CASE p' = [p EXCEPT !.todo = p.todo \ {j}]
      BY <1>0, <1>1, <2>2 DEF SyncWorker
    <2> QED BY <1>1, <2>1, <2>2
  <1>3. ASSUME NEW b \in owners, Exists(j), SetJob(j, [jobs[j] EXCEPT !.owner = b])
        PROVE  /\ b \in Backups /\ Live(b) /\ bk[b].job = j /\ Exists(j) /\ OnlyJob(j)
               /\ jobs'[j].owner = b /\ jobs'[j].name = jobs[j].name
               /\ jobs'[j].status = jobs[j].status /\ jobs'[j].phase = jobs[j].phase
               /\ jobs'[j].labelled = jobs[j].labelled /\ jobs'[j].keep = jobs[j].keep
    <2> DEFINE x == [jobs[j] EXCEPT !.owner = b]
    <2>1. /\ x \in Job /\ x.owner = b /\ x.name = jobs[j].name /\ x.status = jobs[j].status
          /\ x.phase = jobs[j].phase /\ x.labelled = jobs[j].labelled /\ x.keep = jobs[j].keep
      BY <1>0 DEF Job
    <2>2. OnlyJob(j) /\ jobs'[j] = x
      BY <1>0, <1>3, <2>1, SetJobDoes
    <2> HIDE DEF x
    <2> QED BY <1>3, <2>1, <2>2
  <1>4. ASSUME SetJob(j, [RemoveKeepJobFinalizer(jobs[j]) EXCEPT !.labelled = FALSE])
        PROVE  Shrunk(j) /\ ~jobs'[j].labelled
    <2> DEFINE r == RemoveKeepJobFinalizer(jobs[j])
               x == [r EXCEPT !.labelled = FALSE]
    <2>1. /\ r \in Job /\ r.name = jobs[j].name /\ r.status = jobs[j].status
          /\ r.owner = jobs[j].owner /\ (r.phase = jobs[j].phase \/ r.phase = "gone")
          /\ ~r.keep
      BY <1>0, ReleaseJobDoes
    <2> HIDE DEF r
    <2>2. /\ x \in Job /\ x.name = r.name /\ x.status = r.status /\ x.owner = r.owner
          /\ x.phase = r.phase /\ ~x.labelled /\ x.keep = r.keep
      BY <2>1 DEF Job
    <2>3. OnlyJob(j) /\ jobs'[j] = x
      BY <1>0, <1>4, <2>2, SetJobDoes DEF r
    <2> HIDE DEF x
    <2> QED BY <2>1, <2>2, <2>3 DEF Shrunk, SameJob
  <1> QED BY <1>1, <1>2, <1>3, <1>4

LEMMA cleanupOutdatedBackupsDoes ==
    ASSUME TypeInv, NEW b \in Backups, cleanupOutdatedBackups(b)
    PROVE  /\ Live(b) /\ bk[b].state = "Succeeded" /\ bk[b].job \in Jobs
           /\ UNCHANGED jobs \/ (Exists(bk[b].job) /\ Doomed(bk[b].job))
           /\ Marked(b) \/ (Gone(b) /\ ~bk[b].fin)
           /\ UNCHANGED <<pg, ann, crunchy, lease, w, p, c>>
  <1>0. bk \in [Backups -> Backup] /\ jobs \in [Jobs -> Job]
    BY Types DEF TypeInv
  <1>1. Live(b) /\ bk[b].state = "Succeeded" /\ bk[b].job # None
    BY DEF cleanupOutdatedBackups
  <1>2. bk[b].job \in Jobs
    BY <1>0, <1>1 DEF Backup
  <1>3. \/ UNCHANGED jobs
        \/ /\ Exists(bk[b].job)
           /\ jobs' = [jobs EXCEPT ![bk[b].job] = DeleteJob(jobs[bk[b].job])]
    BY <1>0, <1>2 DEF cleanupOutdatedBackups
  <1>4. UNCHANGED jobs \/ (Exists(bk[b].job) /\ Doomed(bk[b].job))
    BY <1>0, <1>2, <1>3, Dooms DEF SetJob
  <1>5. Marked(b) \/ (Gone(b) /\ ~bk[b].fin)
    BY <1>0, DeletedDoes DEF cleanupOutdatedBackups
  <1> QED BY <1>1, <1>2, <1>4, <1>5 DEF cleanupOutdatedBackups

LEMMA PSyncDoes ==
    ASSUME TypeInv, PSync
    PROVE  /\ p.pc = "jobs" /\ PStopped
           /\ crunchy' \in Crunchy /\ crunchy'.life = crunchy.life
           /\ crunchy'.inProgress = p.ann.inProgress
           /\ \/ crunchy'.backup = p.ann.backup
              \/ p.ann.backup # None /\ ~Live(p.ann.backup) /\ crunchy'.backup = None
           /\ UNCHANGED <<bk, jobs, pg, ann, lease, w, c>>
  <1>0. crunchy \in Crunchy /\ p \in SyncWorker /\ p.ann \in Annotations
    BY Types DEF TypeInv, SyncWorker
  <1> DEFINE a == removeStaleBackupAnnotation(p.ann)
  <1>1. /\ a \in Annotations /\ a.inProgress = p.ann.inProgress
        /\ \/ a.backup = p.ann.backup
           \/ p.ann.backup # None /\ ~Live(p.ann.backup) /\ a.backup = None
    BY <1>0 DEF removeStaleBackupAnnotation, Annotations
  <1>2. /\ p.pc = "jobs" /\ p' = PIdle
        /\ crunchy' = [crunchy EXCEPT !.backup = a.backup, !.inProgress = a.inProgress]
        /\ UNCHANGED <<bk, jobs, pg, ann, lease, w, c>>
    BY DEF PSync
  <1> HIDE DEF a
  <1>3. /\ crunchy' \in Crunchy /\ crunchy'.life = crunchy.life
        /\ crunchy'.inProgress = a.inProgress /\ crunchy'.backup = a.backup
    BY <1>0, <1>1, <1>2 DEF Crunchy, Annotations
  <1> QED BY <1>1, <1>2, <1>3, PIdleDoes

LEMMA PDeleteDoes ==
    ASSUME TypeInv, PDelete
    PROVE  /\ pg = "deleting" /\ pg' \in {"deleting", "gone"}
           /\ ann' \in Annotations /\ crunchy' \in Crunchy
           /\ UNCHANGED <<bk, jobs, lease, w, p, c>>
  <1>0. crunchy \in Crunchy /\ ann \in Annotations
    BY Types DEF TypeInv
  <1>1. crunchy' = [crunchy EXCEPT !.life = "deleting"] \/ crunchy' = crunchy
    BY DEF PDelete
  <1>2. crunchy' \in Crunchy
    BY <1>0, <1>1 DEF Crunchy
  <1> QED BY <1>0, <1>2, Constants DEF PDelete

-----------------------------------------------------------------------------
(* The steps of C.                                                         *)

LEMMA CObserveDoes ==
    ASSUME TypeInv, CObserve
    PROVE  /\ c' \in JobWorker /\ c'.pc = "manual" /\ c'.ann = None
           /\ \/ /\ c'.job \in Jobs /\ Exists(c'.job) /\ jobs[c'.job].labelled
                 /\ c'.rec = jobs[c'.job]
              \/ /\ c'.job = None
                 /\ \/ "staleJobs" \in Faults
                    \/ \A j \in Jobs : ~(Exists(j) /\ jobs[j].labelled)
           /\ UNCHANGED <<bk, jobs, pg, ann, crunchy, lease, w, p>>
  <1>0. crunchy.manual \in Backups \cup {None} /\ jobs \in [Jobs -> Job]
    BY Types DEF TypeInv, Crunchy
  <1> DEFINE labelled == {j \in Jobs : Exists(j) /\ jobs[j].labelled}
  <1>1. \/ \E j \in labelled :
              c' = [CIdle EXCEPT !.pc = "manual", !.job = j, !.rec = jobs[j],
                                 !.before = crunchy.manual]
        \/ /\ labelled = {} \/ "staleJobs" \in Faults
           /\ c' = [CIdle EXCEPT !.pc = "manual", !.before = crunchy.manual]
    BY DEF CObserve
  <1>2. ASSUME NEW j \in labelled,
               c' = [CIdle EXCEPT !.pc = "manual", !.job = j, !.rec = jobs[j],
                                  !.before = crunchy.manual]
        PROVE  /\ c' \in JobWorker /\ c'.pc = "manual" /\ c'.ann = None
               /\ c'.job = j /\ c'.rec = jobs[j]
    BY <1>0, <1>2 DEF CIdle, JobWorker
  <1>3. ASSUME c' = [CIdle EXCEPT !.pc = "manual", !.before = crunchy.manual]
        PROVE  c' \in JobWorker /\ c'.pc = "manual" /\ c'.ann = None /\ c'.job = None
    BY <1>0, <1>3, Constants DEF CIdle, JobWorker
  <1>4. UNCHANGED <<bk, jobs, pg, ann, crunchy, lease, w, p>>
    BY DEF CObserve
  <1> QED BY <1>1, <1>2, <1>3, <1>4

LEMMA CHandleDeleteDoes ==
    ASSUME TypeInv, CHandleDelete
    PROVE  /\ crunchy.life = "deleting" /\ crunchy' \in Crunchy
           /\ UNCHANGED <<bk, jobs, pg, ann, lease, w, p, c>>
  BY DEF CHandleDelete, Crunchy

LEMMA CDeleteObsoleteDoes ==
    ASSUME TypeInv, CDeleteObsolete
    PROVE  /\ c.pc = "manual" /\ c.job \in Jobs /\ Finished(c.rec)
           /\ UNCHANGED jobs \/ (Exists(c.job) /\ Doomed(c.job))
           /\ CStopped
           /\ UNCHANGED <<bk, pg, ann, crunchy, lease, w, p>>
  <1>0. c.job \in Jobs \cup {None} /\ jobs \in [Jobs -> Job]
    BY Types DEF TypeInv, JobWorker
  <1>1. c.pc = "manual" /\ c.job # None /\ Finished(c.rec)
    BY DEF CDeleteObsolete, Obsolete
  <1>2. \/ UNCHANGED jobs
        \/ Exists(c.job) /\ jobs' = [jobs EXCEPT ![c.job] = DeleteJob(jobs[c.job])]
    BY <1>0, <1>1 DEF CDeleteObsolete
  <1>3. UNCHANGED jobs \/ (Exists(c.job) /\ Doomed(c.job))
    BY <1>0, <1>1, <1>2, Dooms DEF SetJob
  <1> QED BY <1>0, <1>1, <1>3, CStopDoes DEF CDeleteObsolete

LEMMA CNothingDoes ==
    ASSUME TypeInv, CNothing
    PROVE  CStopped /\ UNCHANGED <<bk, jobs, pg, ann, crunchy, lease, w, p>>
  BY CStopDoes DEF CNothing

LEMMA CRequestDoes ==
    ASSUME TypeInv, CRequest
    PROVE  /\ c.pc = "manual" /\ crunchy.backup \in Backups
           /\ c' \in JobWorker /\ c'.ann = crunchy.backup
           /\ c'.job = c.job /\ c'.rec = c.rec
           /\ \/ c'.pc = "patch"
              \/ c'.pc = "apply" /\ (c.job = None => manualBackupJobNeeded(crunchy.backup))
           /\ UNCHANGED <<bk, jobs, pg, ann, crunchy, lease, w, p>>
  <1>0. crunchy \in Crunchy /\ c \in JobWorker
    BY Types DEF TypeInv
  <1> DEFINE n == crunchy.backup
             next == [c EXCEPT !.ann = n, !.reset = IF crunchy.manual # n THEN n ELSE None]
  <1>1. /\ c.pc = "manual" /\ n # None
        /\ \/ c' = [next EXCEPT !.pc = "patch"]
           \/ c' = [next EXCEPT !.pc = "apply"] /\ (c.job = None => manualBackupJobNeeded(n))
        /\ UNCHANGED <<bk, jobs, pg, ann, crunchy, lease, w, p>>
    BY DEF CRequest
  <1>2. n \in Backups
    BY <1>0, <1>1 DEF Crunchy
  <1>3. next \in JobWorker /\ next.ann = n /\ next.job = c.job /\ next.rec = c.rec
    BY <1>0, <1>2 DEF JobWorker
  <1> HIDE DEF next
  <1>4. \A l \in {"patch", "apply"} :
            /\ [next EXCEPT !.pc = l] \in JobWorker
            /\ [next EXCEPT !.pc = l].pc = l /\ [next EXCEPT !.pc = l].ann = next.ann
            /\ [next EXCEPT !.pc = l].job = next.job /\ [next EXCEPT !.pc = l].rec = next.rec
    BY <1>3 DEF JobWorker
  <1> QED BY <1>1, <1>2, <1>3, <1>4

\* C goes on to patch the status.
Patching == /\ c' \in JobWorker /\ c'.pc = "patch" /\ c'.job = c.job /\ c'.rec = c.rec
            /\ c'.ann = c.ann

LEMMA CCreateDoes ==
    ASSUME TypeInv, CCreate
    PROVE  /\ c.pc = "apply" /\ c.job = None /\ c.ann \in Backups
           /\ \E j \in Jobs :
                 /\ jobs[j].phase = "none" /\ OnlyJob(j)
                 /\ jobs'[j].phase = "live" /\ jobs'[j].name = c.ann
                 /\ jobs'[j].status = "running" /\ jobs'[j].owner = None
                 /\ jobs'[j].labelled /\ jobs'[j].keep
           /\ Patching
           /\ UNCHANGED <<bk, pg, ann, crunchy, lease, w, p>>
  <1>0. jobs \in [Jobs -> Job] /\ c \in JobWorker /\ c.ann \in Backups \cup {None}
    BY Types DEF TypeInv, JobWorker
  <1>1. c.pc = "apply" /\ c.job = None
    BY DEF CCreate
  <1>2. c.ann \in Backups
    BY <1>0, <1>1 DEF TypeInv, Shape
  <1> DEFINE x == [NoJob EXCEPT !.phase = "live", !.name = c.ann,
                                !.labelled = TRUE, !.keep = TRUE]
  <1>3. /\ x \in Job /\ x.phase = "live" /\ x.name = c.ann /\ x.status = "running"
        /\ x.owner = None /\ x.labelled /\ x.keep
    BY <1>2 DEF NoJob, Job
  <1>4. PICK j \in Jobs : jobs[j].phase = "none" /\ SetJob(j, x)
    BY DEF CCreate
  <1> HIDE DEF x
  <1>5. OnlyJob(j) /\ jobs'[j] = x
    BY <1>0, <1>3, <1>4, SetJobDoes
  <1>6. Patching
    BY <1>0 DEF CCreate, Patching, JobWorker
  <1> QED BY <1>1, <1>2, <1>3, <1>4, <1>5, <1>6 DEF CCreate

LEMMA CApplyDoes ==
    ASSUME TypeInv, CApply
    PROVE  /\ c.pc = "apply" /\ c.job \in Jobs
           /\ \/ UNCHANGED jobs
              \/ /\ jobs[c.job] = c.rec /\ OnlyJob(c.job) /\ SameJob(c.job)
                 /\ jobs'[c.job].phase = jobs[c.job].phase
                 /\ jobs'[c.job].labelled /\ jobs'[c.job].keep
           /\ Patching
           /\ UNCHANGED <<bk, pg, ann, crunchy, lease, w, p>>
  <1>0. jobs \in [Jobs -> Job] /\ c \in JobWorker /\ c.job \in Jobs \cup {None}
    BY Types DEF TypeInv, JobWorker
  <1>1. c.pc = "apply" /\ c.job \in Jobs
    BY <1>0 DEF CApply
  <1> DEFINE x == [jobs[c.job] EXCEPT !.labelled = TRUE, !.keep = TRUE]
  <1>2. /\ x \in Job /\ x.phase = jobs[c.job].phase /\ x.name = jobs[c.job].name
        /\ x.status = jobs[c.job].status /\ x.owner = jobs[c.job].owner
        /\ x.labelled /\ x.keep
    <2>1. jobs[c.job] \in Job
      BY <1>0, <1>1
    <2> QED BY <2>1 DEF Job
  <1>3. \/ UNCHANGED jobs
        \/ jobs[c.job] = c.rec
           /\ jobs' = [jobs EXCEPT ![c.job].labelled = TRUE, ![c.job].keep = TRUE]
    BY DEF CApply
  <1>4. [jobs EXCEPT ![c.job].labelled = TRUE, ![c.job].keep = TRUE]
            = [jobs EXCEPT ![c.job] = x]
    BY <1>0, <1>1
  <1> HIDE DEF x
  <1>5. \/ UNCHANGED jobs
        \/ jobs[c.job] = c.rec /\ OnlyJob(c.job) /\ jobs'[c.job] = x
    <2>1. ASSUME jobs' = [jobs EXCEPT ![c.job] = x]
          PROVE  OnlyJob(c.job) /\ jobs'[c.job] = x
      BY <1>0, <1>1, <1>2, <2>1 DEF OnlyJob
    <2> QED BY <1>3, <1>4, <2>1
  <1>6. Patching
    BY <1>0 DEF CApply, Patching, JobWorker
  <1> QED BY <1>1, <1>2, <1>5, <1>6 DEF CApply, SameJob

LEMMA CPatchStatusDoes ==
    ASSUME TypeInv, CPatchStatus
    PROVE  /\ crunchy' \in Crunchy /\ crunchy'.life = crunchy.life
           /\ crunchy'.backup = crunchy.backup /\ crunchy'.inProgress = crunchy.inProgress
           /\ CStopped
           /\ UNCHANGED <<bk, jobs, pg, ann, lease, w, p>>
  <1>0. crunchy \in Crunchy /\ c.reset \in Backups \cup {None}
    BY Types DEF TypeInv, JobWorker
  <1>1. \/ crunchy' = [crunchy EXCEPT !.manual = c.reset]
        \/ crunchy' = crunchy
    BY DEF CPatchStatus
  <1>2. /\ crunchy' \in Crunchy /\ crunchy'.life = crunchy.life
        /\ crunchy'.backup = crunchy.backup /\ crunchy'.inProgress = crunchy.inProgress
    BY <1>0, <1>1 DEF Crunchy
  <1> QED BY <1>2, CStopDoes DEF CPatchStatus

-----------------------------------------------------------------------------
(* The steps of the environment.                                           *)

LEMMA CreateDoes ==
    ASSUME TypeInv, NEW b \in Backups, Create(b)
    PROVE  /\ bk[b].phase = "absent" /\ OnlyBackup(b)
           /\ bk'[b].phase = "live" /\ bk'[b].state = bk[b].state
           /\ bk'[b].deleting = bk[b].deleting /\ bk'[b].fin = bk[b].fin
           /\ bk'[b].job = bk[b].job
           /\ UNCHANGED <<jobs, pg, ann, crunchy, lease, w, p, c>>
  <1>0. bk \in [Backups -> Backup] /\ bk[b] \in Backup
    BY Types DEF TypeInv
  <1>1. bk'[b] = [bk[b] EXCEPT !.phase = "live"]
    BY <1>0 DEF Create
  <1>2. bk'[b] \in Backup
    BY <1>0, <1>1, BackupFields
  <1>3. OnlyBackup(b)
    BY <1>0, <1>2 DEF Create, OnlyBackup
  <1>4. /\ bk'[b].phase = "live" /\ bk'[b].state = bk[b].state
        /\ bk'[b].deleting = bk[b].deleting /\ bk'[b].fin = bk[b].fin
        /\ bk'[b].job = bk[b].job
    BY <1>0, <1>1 DEF Backup
  <1> QED BY <1>3, <1>4 DEF Create

LEMMA DeleteDoes ==
    ASSUME TypeInv, NEW b \in Backups, Delete(b)
    PROVE  /\ "delete" \in Faults /\ Live(b)
           /\ Marked(b) \/ (Gone(b) /\ ~bk[b].fin)
           /\ UNCHANGED <<jobs, pg, ann, crunchy, lease, w, p, c>>
  BY Types, DeletedDoes DEF TypeInv, Delete

LEMMA JobFinishDoes ==
    ASSUME TypeInv, NEW j \in Jobs, JobFinish(j)
    PROVE  /\ Exists(j) /\ jobs[j].status = "running" /\ OnlyJob(j)
           /\ \/ "quickJobs" \in Faults
              \/ Live(jobs[j].name) => \/ bk[jobs[j].name].job # None
                                       \/ bk[jobs[j].name].state \in Terminal
           /\ jobs'[j].name = jobs[j].name /\ jobs'[j].owner = jobs[j].owner
           /\ jobs'[j].phase = jobs[j].phase /\ jobs'[j].labelled = jobs[j].labelled
           /\ jobs'[j].keep = jobs[j].keep
           /\ UNCHANGED <<bk, pg, ann, crunchy, lease, w, p, c>>
  <1>0. jobs \in [Jobs -> Job] /\ jobs[j] \in Job
    BY Types DEF TypeInv
  <1>1. PICK s \in {"succeeded", "failed"} : SetJob(j, [jobs[j] EXCEPT !.status = s])
    BY DEF JobFinish
  <1> DEFINE x == [jobs[j] EXCEPT !.status = s]
  <1>2. /\ x \in Job /\ x.name = jobs[j].name /\ x.owner = jobs[j].owner
        /\ x.phase = jobs[j].phase /\ x.labelled = jobs[j].labelled /\ x.keep = jobs[j].keep
    BY <1>0 DEF Job
  <1>3. OnlyJob(j) /\ jobs'[j] = x
    BY <1>0, <1>1, <1>2, SetJobDoes
  <1> HIDE DEF x
  <1> QED BY <1>2, <1>3 DEF JobFinish

LEMMA JobCollectDoes ==
    ASSUME TypeInv, NEW j \in Jobs, JobCollect(j)
    PROVE  /\ Exists(j) /\ Doomed(j)
           /\ \/ Finished(jobs[j])
              \/ jobs[j].owner # None /\ bk[jobs[j].owner].phase = "gone"
           /\ UNCHANGED <<bk, pg, ann, crunchy, lease, w, p, c>>
  BY Types, Dooms DEF TypeInv, JobCollect

LEMMA JobLostDoes ==
    ASSUME TypeInv, NEW j \in Jobs, JobLost(j)
    PROVE  /\ "jobLost" \in Faults /\ Exists(j) /\ Shrunk(j)
           /\ UNCHANGED <<bk, pg, ann, crunchy, lease, w, p, c>>
  <1>0. jobs \in [Jobs -> Job] /\ jobs[j] \in Job
    BY Types DEF TypeInv
  <1> DEFINE x == [jobs[j] EXCEPT !.phase = "gone", !.labelled = FALSE]
  <1>1. /\ x \in Job /\ x.name = jobs[j].name /\ x.status = jobs[j].status
        /\ x.owner = jobs[j].owner /\ x.phase = "gone" /\ ~x.labelled
        /\ x.keep = jobs[j].keep
    BY <1>0 DEF Job
  <1>2. OnlyJob(j) /\ jobs'[j] = x
    BY <1>0, <1>1, SetJobDoes DEF JobLost
  <1> HIDE DEF x
  <1> QED BY <1>1, <1>2 DEF JobLost, Shrunk, SameJob

\* The operator ends or starts: no worker has anything in hand.
Reset == /\ w' \in Worker /\ w'.pc \in {"idle", "down"} /\ w'.then = "none" /\ w'.job = None
         /\ p' \in SyncWorker /\ p'.pc \in {"idle", "down"}
         /\ c' \in JobWorker /\ c'.pc \in {"idle", "down"} /\ c'.job = None

LEMMA ResetDoes ==
    ASSUME TypeInv, Crash \/ Restart
    PROVE  Reset /\ UNCHANGED <<bk, jobs, pg, ann, crunchy, lease>>
  <1>1. CASE Restart
    BY <1>1, Constants DEF Restart, Reset, WIdle, PIdle, CIdle
  <1>2. CASE Crash
    <2>1. /\ w' = [WIdle EXCEPT !.pc = "down"] /\ p' = [PIdle EXCEPT !.pc = "down"]
          /\ c' = [CIdle EXCEPT !.pc = "down"]
          /\ UNCHANGED <<bk, jobs, pg, ann, crunchy, lease>>
      BY <1>2 DEF Crash
    <2>2. w' \in Worker /\ w'.pc = "down" /\ w'.then = "none" /\ w'.job = None
      BY <2>1, Constants DEF WIdle, Worker, WPCs
    <2>3. p' \in SyncWorker /\ p'.pc = "down"
      BY <2>1, Constants DEF PIdle, SyncWorker
    <2>4. c' \in JobWorker /\ c'.pc = "down" /\ c'.job = None
      BY <2>1, Constants DEF CIdle, JobWorker
    <2> QED BY <2>1, <2>2, <2>3, <2>4 DEF Reset
  <1> QED BY <1>1, <1>2

LEMMA DeleteClusterDoes ==
    ASSUME TypeInv, DeleteCluster
    PROVE  /\ pg = "live" /\ pg' = "deleting"
           /\ UNCHANGED <<bk, jobs, ann, crunchy, lease, w, p, c>>
  BY DEF DeleteCluster

-----------------------------------------------------------------------------
(* Types and shape.                                                        *)

LEMMA TypeInit == Init => TypeInv
  <1> SUFFICES ASSUME Init PROVE TypeInv
    OBVIOUS
  <1>1. TypeOK
    BY Constants, Types DEF Init, Crunchy
  <1>2. Shape
    BY DEF Init, Shape, Awake, WIdle, CIdle
  <1> QED BY <1>1, <1>2 DEF TypeInv

LEMMA TypeNext == TypeInv /\ [Next]_vars => TypeInv'
  <1> SUFFICES ASSUME TypeInv, [Next]_vars PROVE TypeInv'
    OBVIOUS
  <1>0. TypeInv
    OBVIOUS
  <1>1. ASSUME NEW b \in Backups, WGet(b)
        PROVE  TypeInv'
    <2>1. TypeOK'
      BY <1>1, WGetDoes, Types, TypesNext DEF TypeInv, Wrote, OnlyBackup
    <2>2. Shape'
      BY <1>1, WGetDoes DEF TypeInv, Shape, wb
    <2> QED BY <2>1, <2>2 DEF TypeInv
  <1>2. ASSUME NEW b \in Backups, Create(b)
        PROVE  TypeInv'
    <2>1. TypeOK'
      BY <1>2, CreateDoes, Types, TypesNext DEF TypeInv, OnlyBackup
    <2>2. Shape'
      BY <1>2, CreateDoes DEF TypeInv, Shape, Awake, wb
    <2> QED BY <2>1, <2>2 DEF TypeInv
  <1>3. ASSUME NEW b \in Backups, Delete(b)
        PROVE  TypeInv'
    <2>1. TypeOK'
      BY <1>3, DeleteDoes, Types, TypesNext DEF TypeInv, Marked, Gone, OnlyBackup
    <2>2. Shape'
      BY <1>3, DeleteDoes DEF TypeInv, Shape, Awake, wb
    <2> QED BY <2>1, <2>2 DEF TypeInv
  <1>4. CASE WRelease
    <2>1. TypeOK'
      BY <1>4, WReleaseDoes, Types, TypesNext DEF TypeInv, Stopped, WentTo, Kept, Wrote,
         OnlyBackup
    <2>2. Shape'
      BY <1>4, WReleaseDoes DEF TypeInv, Shape, Awake, wb, FinPCs, Stopped, WentTo
    <2> QED BY <2>1, <2>2 DEF TypeInv
  <1>5. CASE WAcquire
    <2>1. TypeOK'
      BY <1>5, WAcquireDoes, Types, TypesNext DEF TypeInv, Shape, Awake, Stopped, WentTo, Kept,
         Wrote, OnlyBackup
    <2>2. Shape'
      BY <1>5, WAcquireDoes DEF TypeInv, Shape, Awake, wb, FinPCs, Stopped, WentTo
    <2> QED BY <2>1, <2>2 DEF TypeInv
  <1>6. CASE WEnsureFinalizers
    <2>1. TypeOK'
      BY <1>6, WEnsureFinalizersDoes, Types, TypesNext DEF TypeInv, Stopped, Kept, Wrote,
         OnlyBackup
    <2>2. Shape'
      BY <1>6, WEnsureFinalizersDoes DEF TypeInv, Shape, Awake, wb, FinPCs, Stopped
    <2> QED BY <2>1, <2>2 DEF TypeInv
  <1>7. CASE WReject
    <2>1. TypeOK'
      BY <1>7, WRejectDoes, Types, TypesNext DEF TypeInv, Stopped, WroteState, Kept, Wrote,
         OnlyBackup
    <2>2. Shape'
      BY <1>7, WRejectDoes DEF TypeInv, Shape, Awake, Stopped
    <2> QED BY <2>1, <2>2 DEF TypeInv
  <1>8. CASE WNew
    <2>1. TypeOK'
      BY <1>8, WNewDoes, Types, TypesNext DEF TypeInv, Stopped, WentTo
    <2>2. Shape'
      BY <1>8, WNewDoes DEF TypeInv, Shape, Awake, wb, Stopped, WentTo
    <2> QED BY <2>1, <2>2 DEF TypeInv
  <1>9. CASE WStarted
    <2>1. TypeOK'
      BY <1>9, WStartedDoes, Types, TypesNext DEF TypeInv, Stopped, WroteState, Kept, Wrote,
         OnlyBackup
    <2>2. Shape'
      BY <1>9, WStartedDoes DEF TypeInv, Shape, Awake, Stopped
    <2> QED BY <2>1, <2>2 DEF TypeInv
  <1>10. CASE WStarting
    <2>1. TypeOK'
      BY <1>10, WStartingDoes, Types, TypesNext DEF TypeInv, Stopped, WroteState, Kept, Wrote,
         OnlyBackup
    <2>2. Shape'
      BY <1>10, WStartingDoes DEF TypeInv, Shape, Awake, Stopped
    <2> QED BY <2>1, <2>2 DEF TypeInv
  <1>11. CASE WRunning
    <2>1. TypeOK'
      BY <1>11, WRunningDoes, Types, TypesNext DEF TypeInv, Stopped, WroteState, Kept, Wrote,
         OnlyBackup
    <2>2. Shape'
      BY <1>11, WRunningDoes DEF TypeInv, Shape, Awake, wb, FinPCs, Stopped
    <2> QED BY <2>1, <2>2 DEF TypeInv
  <1>12. CASE WSucceeded
    <2>1. TypeOK'
      BY <1>12, WSucceededDoes, Types, TypesNext DEF TypeInv, Stopped, Shrunk, OnlyJob
    <2>2. Shape'
      BY <1>12, WSucceededDoes DEF TypeInv, Shape, Awake, Stopped
    <2> QED BY <2>1, <2>2 DEF TypeInv
  <1>13. CASE WNoFinalizer
    <2>1. TypeOK'
      BY <1>13, WNoFinalizerDoes, Types, TypesNext DEF TypeInv, Stopped, WentTo
    <2>2. Shape'
      BY <1>13, WNoFinalizerDoes DEF TypeInv, Shape, Awake, wb, FinPCs, Stopped, WentTo
    <2> QED BY <2>1, <2>2 DEF TypeInv
  <1>14. CASE WFinalizeNoCluster
    <2>1. TypeOK'
      BY <1>14, WFinalizeNoClusterDoes, Types, TypesNext DEF TypeInv, Stopped, WentTo, Shrunk,
         OnlyJob
    <2>2. Shape'
      BY <1>14, WFinalizeNoClusterDoes DEF TypeInv, Shape, Awake, wb, FinPCs, Stopped, WentTo
    <2> QED BY <2>1, <2>2 DEF TypeInv
  <1>15. CASE WRecordJob
    <2>1. TypeOK'
      BY <1>15, WRecordJobDoes, Types, TypesNext DEF TypeInv, Stopped, Kept, Wrote, OnlyBackup
    <2>2. Shape'
      BY <1>15, WRecordJobDoes DEF TypeInv, Shape, Awake, Stopped
    <2> QED BY <2>1, <2>2 DEF TypeInv
  <1>16. CASE WFinishExit
    <2>1. TypeOK'
      BY <1>16, WFinishExitDoes, Types, TypesNext DEF TypeInv, WentTo, Shrunk, OnlyJob
    <2>2. Shape'
      BY <1>16, WFinishExitDoes DEF TypeInv, Shape, Awake, wb, FinPCs, WentTo
    <2> QED BY <2>1, <2>2 DEF TypeInv
  <1>17. CASE WFinishRequest
    <2>1. TypeOK'
      BY <1>17, WFinishRequestDoes, Types, TypesNext DEF TypeInv, Stopped
    <2>2. Shape'
      BY <1>17, WFinishRequestDoes DEF TypeInv, Shape, Awake, wb, FinPCs, Stopped
    <2> QED BY <2>1, <2>2 DEF TypeInv
  <1>18. CASE WFinishError
    <2>1. TypeOK'
      BY <1>18, WFinishErrorDoes, Types, TypesNext DEF TypeInv, Stopped
    <2>2. Shape'
      BY <1>18, WFinishErrorDoes DEF TypeInv, Shape, Awake, Stopped
    <2> QED BY <2>1, <2>2 DEF TypeInv
  <1>19. CASE WUnlabel
    <2>1. TypeOK'
      BY <1>19, WUnlabelDoes, Types, TypesNext DEF TypeInv, Stopped, WentTo, Unlabelled, OnlyJob
    <2>2. Shape'
      BY <1>19, WUnlabelDoes DEF TypeInv, Shape, Awake, wb, FinPCs, Stopped, WentTo
    <2> QED BY <2>1, <2>2 DEF TypeInv
  <1>20. CASE WClearStatus
    <2>1. TypeOK'
      BY <1>20, WClearStatusDoes, Types, TypesNext DEF TypeInv, Stopped, WentTo
    <2>2. Shape'
      BY <1>20, WClearStatusDoes DEF TypeInv, Shape, Awake, wb, FinPCs, Stopped, WentTo
    <2> QED BY <2>1, <2>2 DEF TypeInv
  <1>21. CASE WDeleteProgress
    <2>1. TypeOK'
      BY <1>21, WDeleteProgressDoes, Types, TypesNext DEF TypeInv, Stopped
    <2>2. Shape'
      BY <1>21, WDeleteProgressDoes DEF TypeInv, Shape, Awake, Stopped
    <2> QED BY <2>1, <2>2 DEF TypeInv
  <1>22. CASE WDropFinalizer
    <2>1. TypeOK'
      BY <1>22, WDropFinalizerDoes, Types, TypesNext DEF TypeInv, Stopped, WentTo, Kept, Wrote,
         OnlyBackup, Gone
    <2>2. Shape'
      BY <1>22, WDropFinalizerDoes DEF TypeInv, Shape, Awake, wb, FinPCs, Stopped, WentTo
    <2> QED BY <2>1, <2>2 DEF TypeInv
  <1>23. CASE WComplete
    <2>1. TypeOK'
      BY <1>23, WCompleteDoes, Types, TypesNext DEF TypeInv, Stopped, WroteState, Kept, Wrote,
         OnlyBackup
    <2>2. Shape'
      BY <1>23, WCompleteDoes DEF TypeInv, Shape, Awake, Stopped
    <2> QED BY <2>1, <2>2 DEF TypeInv
  <1>24. CASE PStart
    <2>1. TypeOK'
      BY <1>0, <1>24, PStartDoes, Types, TypesNext DEF TypeInv, Shape
    <2>2. Shape'
      BY <1>24, PStartDoes DEF TypeInv, Shape, Awake, wb
    <2> QED BY <2>1, <2>2 DEF TypeInv
  <1>25. CASE PSync
    <2>1. TypeOK'
      BY <1>25, PSyncDoes, Types, TypesNext DEF TypeInv, PStopped
    <2>2. Shape'
      BY <1>25, PSyncDoes DEF TypeInv, Shape, Awake, wb
    <2> QED BY <2>1, <2>2 DEF TypeInv
  <1>26. CASE PDelete
    <2>1. TypeOK'
      BY <1>0, <1>26, PDeleteDoes, Types, TypesNext DEF TypeInv, Shape
    <2>2. Shape'
      BY <1>26, PDeleteDoes DEF TypeInv, Shape, Awake, wb
    <2> QED BY <2>1, <2>2 DEF TypeInv
  <1>27. ASSUME NEW j \in Jobs, reconcileBackupJob(j)
        PROVE  TypeInv'
    <2>1. TypeOK'
      BY <1>27, reconcileBackupJobDoes, Types, TypesNext DEF TypeInv, Shrunk, OnlyJob
    <2>2. Shape'
      BY <1>27, reconcileBackupJobDoes DEF TypeInv, Shape, Awake, wb
    <2> QED BY <2>1, <2>2 DEF TypeInv
  <1>28. ASSUME NEW b \in Backups, cleanupOutdatedBackups(b)
        PROVE  TypeInv'
    <2>1. TypeOK'
      BY <1>28, cleanupOutdatedBackupsDoes, Types, TypesNext DEF TypeInv, Marked, Gone,
         OnlyBackup, Doomed, Shrunk, OnlyJob
    <2>2. Shape'
      BY <1>28, cleanupOutdatedBackupsDoes DEF TypeInv, Shape, Awake, wb
    <2> QED BY <2>1, <2>2 DEF TypeInv
  <1>29. CASE CObserve
    <2>1. TypeOK'
      BY <1>0, <1>29, CObserveDoes, Types, TypesNext DEF TypeInv, Shape
    <2>2. Shape'
      BY <1>29, CObserveDoes DEF TypeInv, Shape, Awake, wb
    <2> QED BY <2>1, <2>2 DEF TypeInv
  <1>30. CASE CHandleDelete
    <2>1. TypeOK'
      BY <1>0, <1>30, CHandleDeleteDoes, Types, TypesNext DEF TypeInv, Shape
    <2>2. Shape'
      BY <1>30, CHandleDeleteDoes DEF TypeInv, Shape, Awake, wb
    <2> QED BY <2>1, <2>2 DEF TypeInv
  <1>31. CASE CDeleteObsolete
    <2>1. TypeOK'
      BY <1>31, CDeleteObsoleteDoes, Types, TypesNext DEF TypeInv, Doomed, Shrunk, OnlyJob,
         CStopped
    <2>2. Shape'
      BY <1>31, CDeleteObsoleteDoes DEF TypeInv, Shape, Awake, wb, CStopped
    <2> QED BY <2>1, <2>2 DEF TypeInv
  <1>32. CASE CNothing
    <2>1. TypeOK'
      BY <1>32, CNothingDoes, Types, TypesNext DEF TypeInv, CStopped
    <2>2. Shape'
      BY <1>32, CNothingDoes DEF TypeInv, Shape, Awake, wb, CStopped
    <2> QED BY <2>1, <2>2 DEF TypeInv
  <1>33. CASE CRequest
    <2>1. TypeOK'
      BY <1>0, <1>33, CRequestDoes, Types, TypesNext DEF TypeInv, Shape
    <2>2. Shape'
      BY <1>33, CRequestDoes, NoneAssumption DEF TypeInv, Shape, Awake, wb
    <2> QED BY <2>1, <2>2 DEF TypeInv
  <1>34. CASE CCreate
    <2>1. TypeOK'
      BY <1>34, CCreateDoes, Types, TypesNext DEF TypeInv, OnlyJob, Patching
    <2>2. Shape'
      BY <1>34, CCreateDoes DEF TypeInv, Shape, Awake, wb, Patching
    <2> QED BY <2>1, <2>2 DEF TypeInv
  <1>35. CASE CApply
    <2>1. TypeOK'
      BY <1>35, CApplyDoes, Types, TypesNext DEF TypeInv, OnlyJob, Patching
    <2>2. Shape'
      BY <1>35, CApplyDoes DEF TypeInv, Shape, Awake, wb, Patching
    <2> QED BY <2>1, <2>2 DEF TypeInv
  <1>36. CASE CPatchStatus
    <2>1. TypeOK'
      BY <1>36, CPatchStatusDoes, Types, TypesNext DEF TypeInv, CStopped
    <2>2. Shape'
      BY <1>36, CPatchStatusDoes DEF TypeInv, Shape, Awake, wb, CStopped
    <2> QED BY <2>1, <2>2 DEF TypeInv
  <1>37. ASSUME NEW j \in Jobs, JobFinish(j)
        PROVE  TypeInv'
    <2>1. TypeOK'
      BY <1>37, JobFinishDoes, Types, TypesNext DEF TypeInv, OnlyJob
    <2>2. Shape'
      BY <1>37, JobFinishDoes DEF TypeInv, Shape, Awake, wb
    <2> QED BY <2>1, <2>2 DEF TypeInv
  <1>38. ASSUME NEW j \in Jobs, JobCollect(j)
        PROVE  TypeInv'
    <2>1. TypeOK'
      BY <1>38, JobCollectDoes, Types, TypesNext DEF TypeInv, Doomed, Shrunk, OnlyJob
    <2>2. Shape'
      BY <1>38, JobCollectDoes DEF TypeInv, Shape, Awake, wb
    <2> QED BY <2>1, <2>2 DEF TypeInv
  <1>39. ASSUME NEW j \in Jobs, JobLost(j)
        PROVE  TypeInv'
    <2>1. TypeOK'
      BY <1>39, JobLostDoes, Types, TypesNext DEF TypeInv, Shrunk, OnlyJob
    <2>2. Shape'
      BY <1>39, JobLostDoes DEF TypeInv, Shape, Awake, wb
    <2> QED BY <2>1, <2>2 DEF TypeInv
  <1>40. CASE DeleteCluster
    <2>1. TypeOK'
      BY <1>0, <1>40, DeleteClusterDoes, Types, TypesNext DEF TypeInv, Shape
    <2>2. Shape'
      BY <1>40, DeleteClusterDoes DEF TypeInv, Shape, Awake, wb
    <2> QED BY <2>1, <2>2 DEF TypeInv
  <1>41. CASE Crash \/ Restart
    <2>1. TypeOK'
      BY <1>41, ResetDoes, Types, TypesNext DEF TypeInv, Reset
    <2>2. Shape'
      BY <1>41, ResetDoes DEF Shape, Awake, Reset
    <2> QED BY <2>1, <2>2 DEF TypeInv
  <1>42. CASE UNCHANGED vars
    BY <1>0, <1>42 DEF vars, TypeInv, TypeOK, Shape, Awake, wb
  <1> QED
    BY <1>1, <1>2, <1>3, <1>4, <1>5, <1>6, <1>7, <1>8, <1>9, <1>10, <1>11, <1>12, <1>13, <1>14,
       <1>15, <1>16, <1>17, <1>18, <1>19, <1>20, <1>21, <1>22, <1>23, <1>24, <1>25, <1>26, <1>27,
       <1>28, <1>29, <1>30, <1>31, <1>32, <1>33, <1>34, <1>35, <1>36, <1>37, <1>38, <1>39, <1>40,
       <1>41, <1>42 DEF Next, WStep, PStep, CStep



-----------------------------------------------------------------------------
(* What W has read and recorded, under every fault.                        *)

\* A Job in a backup's status is a Job of that backup.
JobOf(b, val) == val.job # None =>
    val.job \in Jobs /\ jobs[val.job].phase # "none" /\ jobs[val.job].name = b

\* W alone writes the state and the Job of a backup: what it has read is current
\* for as long as the backup is there.
ReadTrue ==
    Awake => /\ bk[wb].phase # "absent"
             /\ Live(wb) => /\ bk[wb].state = w.snap.state
                            /\ bk[wb].job = w.snap.job
                            /\ w.snap.deleting => bk[wb].deleting

\* Recorded Jobs are the backup's own, and W ends a backup as its Job ended.
JobsRecorded ==
    /\ \A b \in Backups : JobOf(b, bk[b])
    /\ \A b \in Backups : bk[b].state = "Running" => bk[b].job # None
    /\ Awake => JobOf(wb, w.snap)
    /\ Awake => (w.snap.state \in {"Running", "Succeeded"} => w.snap.job # None)
    /\ w.then = "Succeeded" => jobs[w.snap.job].status = "succeeded"

\* C works on a copy of a Job that had its labels.
ObservedLabelled == c.job # None => c.rec.labelled /\ c.rec.phase = "live"

RecordInv == ReadTrue /\ JobsRecorded /\ SucceededByOwnJob /\ ObservedLabelled

\* What no step does to a Job that was created: name it anew, bring it back,
\* change its result, or give a live one its labels back.
JobsMove == \A j \in Jobs :
    /\ jobs[j].phase = "none" =>
           \/ jobs'[j] = jobs[j]
           \/ /\ c.pc = "apply" /\ c.job = None /\ c'.pc = "patch"
              /\ jobs'[j].name = c.ann
    /\ jobs[j].phase # "none" =>
           /\ jobs'[j].phase # "none" /\ jobs'[j].name = jobs[j].name
           /\ jobs'[j].phase = "live" => jobs[j].phase = "live"
           /\ Finished(jobs[j]) => jobs'[j].status = jobs[j].status
           /\ jobs[j].phase = "live" /\ ~jobs[j].labelled => ~jobs'[j].labelled

LEMMA JobsMoveNext == TypeInv /\ ObservedLabelled /\ [Next]_vars => JobsMove
  <1> SUFFICES ASSUME TypeInv, ObservedLabelled, [Next]_vars PROVE JobsMove
    OBVIOUS
  <1>0. TypeInv /\ ObservedLabelled
    OBVIOUS
  <1>a. ASSUME NEW j \in Jobs, Exists(j), Shrunk(j) PROVE JobsMove
    BY <1>a DEF JobsMove, Shrunk, OnlyJob, SameJob, Exists
  <1>b. ASSUME UNCHANGED jobs PROVE JobsMove
    BY <1>b DEF JobsMove
  <1>1. ASSUME NEW b \in Backups, WGet(b)
        PROVE  JobsMove
    BY <1>0, <1>b, <1>1, WGetDoes
  <1>2. ASSUME NEW b \in Backups, Create(b)
        PROVE  JobsMove
    BY <1>0, <1>b, <1>2, CreateDoes
  <1>3. ASSUME NEW b \in Backups, Delete(b)
        PROVE  JobsMove
    BY <1>0, <1>b, <1>3, DeleteDoes
  <1>4. CASE WRelease
    BY <1>0, <1>b, <1>4, WReleaseDoes
  <1>5. CASE WAcquire
    BY <1>0, <1>b, <1>5, WAcquireDoes
  <1>6. CASE WEnsureFinalizers
    BY <1>0, <1>b, <1>6, WEnsureFinalizersDoes
  <1>7. CASE WReject
    BY <1>0, <1>b, <1>7, WRejectDoes
  <1>8. CASE WNew
    BY <1>0, <1>b, <1>8, WNewDoes
  <1>9. CASE WStarted
    BY <1>0, <1>b, <1>9, WStartedDoes
  <1>10. CASE WStarting
    BY <1>0, <1>b, <1>10, WStartingDoes
  <1>11. CASE WRunning
    BY <1>0, <1>b, <1>11, WRunningDoes
  <1>12. CASE WSucceeded
    BY <1>0, <1>a, <1>b, <1>12, WSucceededDoes, FoundJobs DEF Awake
  <1>13. CASE WNoFinalizer
    BY <1>0, <1>b, <1>13, WNoFinalizerDoes
  <1>14. CASE WFinalizeNoCluster
    BY <1>0, <1>a, <1>b, <1>14, WFinalizeNoClusterDoes, FoundJobs DEF Awake
  <1>15. CASE WRecordJob
    BY <1>0, <1>b, <1>15, WRecordJobDoes
  <1>16. CASE WFinishExit
    BY <1>0, <1>a, <1>b, <1>16, WFinishExitDoes, FoundJobs DEF Awake
  <1>17. CASE WFinishRequest
    BY <1>0, <1>b, <1>17, WFinishRequestDoes
  <1>18. CASE WFinishError
    BY <1>0, <1>b, <1>18, WFinishErrorDoes
  <1>19. CASE WUnlabel
    BY <1>19, WUnlabelDoes DEF JobsMove, Unlabelled, OnlyJob, SameJob, Exists
  <1>20. CASE WClearStatus
    BY <1>0, <1>b, <1>20, WClearStatusDoes
  <1>21. CASE WDeleteProgress
    BY <1>0, <1>b, <1>21, WDeleteProgressDoes
  <1>22. CASE WDropFinalizer
    BY <1>0, <1>b, <1>22, WDropFinalizerDoes
  <1>23. CASE WComplete
    BY <1>0, <1>b, <1>23, WCompleteDoes
  <1>24. CASE PStart
    BY <1>0, <1>b, <1>24, PStartDoes
  <1>25. CASE PSync
    BY <1>0, <1>b, <1>25, PSyncDoes
  <1>26. CASE PDelete
    BY <1>0, <1>b, <1>26, PDeleteDoes
  <1>27. ASSUME NEW j \in Jobs, reconcileBackupJob(j)
        PROVE  JobsMove
    BY <1>0, <1>a, <1>b, <1>27, reconcileBackupJobDoes DEF JobsMove, OnlyJob, Exists
  <1>28. ASSUME NEW b \in Backups, cleanupOutdatedBackups(b)
        PROVE  JobsMove
    BY <1>0, <1>a, <1>b, <1>28, cleanupOutdatedBackupsDoes DEF Doomed
  <1>29. CASE CObserve
    BY <1>0, <1>b, <1>29, CObserveDoes
  <1>30. CASE CHandleDelete
    BY <1>0, <1>b, <1>30, CHandleDeleteDoes
  <1>31. CASE CDeleteObsolete
    BY <1>0, <1>a, <1>b, <1>31, CDeleteObsoleteDoes DEF Doomed
  <1>32. CASE CNothing
    BY <1>0, <1>b, <1>32, CNothingDoes
  <1>33. CASE CRequest
    BY <1>0, <1>b, <1>33, CRequestDoes
  <1>34. CASE CCreate
    BY <1>0, <1>34, CCreateDoes DEF JobsMove, OnlyJob, Exists, Finished, Patching
  <1>35. CASE CApply
    BY <1>35, CApplyDoes, NoneAssumption DEF ObservedLabelled, JobsMove, OnlyJob, SameJob
  <1>36. CASE CPatchStatus
    BY <1>0, <1>b, <1>36, CPatchStatusDoes
  <1>37. ASSUME NEW j \in Jobs, JobFinish(j)
        PROVE  JobsMove
    BY <1>0, <1>37, JobFinishDoes DEF JobsMove, OnlyJob, Exists, Finished
  <1>38. ASSUME NEW j \in Jobs, JobCollect(j)
        PROVE  JobsMove
    BY <1>0, <1>a, <1>b, <1>38, JobCollectDoes DEF Doomed
  <1>39. ASSUME NEW j \in Jobs, JobLost(j)
        PROVE  JobsMove
    BY <1>0, <1>a, <1>39, JobLostDoes
  <1>40. CASE DeleteCluster
    BY <1>0, <1>b, <1>40, DeleteClusterDoes
  <1>41. CASE Crash \/ Restart
    BY <1>0, <1>b, <1>41, ResetDoes
  <1>42. CASE UNCHANGED vars
    BY <1>b, <1>42 DEF vars
  <1> QED
    BY <1>1, <1>2, <1>3, <1>4, <1>5, <1>6, <1>7, <1>8, <1>9, <1>10, <1>11, <1>12, <1>13, <1>14,
       <1>15, <1>16, <1>17, <1>18, <1>19, <1>20, <1>21, <1>22, <1>23, <1>24, <1>25, <1>26, <1>27,
       <1>28, <1>29, <1>30, <1>31, <1>32, <1>33, <1>34, <1>35, <1>36, <1>37, <1>38, <1>39, <1>40,
       <1>41, <1>42 DEF Next, WStep, PStep, CStep

LEMMA RecordInit == Init => RecordInv
  BY DEF Init, RecordInv, ReadTrue, JobsRecorded, JobOf, SucceededByOwnJob, ObservedLabelled,
     Awake, WIdle, CIdle, Unborn

LEMMA RecordNext == TypeInv /\ RecordInv /\ [Next]_vars => RecordInv'
  <1> SUFFICES ASSUME TypeInv, RecordInv, [Next]_vars PROVE RecordInv'
    OBVIOUS
  <1>0. TypeInv /\ RecordInv
    OBVIOUS
  <1>m. JobsMove
    BY JobsMoveNext DEF RecordInv
  <1>k. ASSUME NEW b \in Backups, NEW x, JobOf(b, x) PROVE JobOf(b, x)'
    BY <1>k, <1>m DEF JobOf, JobsMove

  <1>1. ASSUME NEW b \in Backups, WGet(b)
        PROVE  RecordInv'
    <2>1. ReadTrue'
      BY <1>1, WGetDoes DEF ReadTrue, wb, Live, Wrote
    <2>2. JobsRecorded'
      BY <1>1, WGetDoes DEF JobOf, RecordInv, JobsRecorded, SucceededByOwnJob, wb, GotState,
         Wrote, OnlyBackup
    <2>3. SucceededByOwnJob'
      BY <1>1, WGetDoes DEF RecordInv, SucceededByOwnJob, GotState, Wrote, OnlyBackup
    <2>4. ObservedLabelled'
      BY <1>0, <1>1, WGetDoes DEF RecordInv, ObservedLabelled
    <2> QED BY <2>1, <2>2, <2>3, <2>4 DEF RecordInv
  <1>2. ASSUME NEW b \in Backups, Create(b)
        PROVE  RecordInv'
    <2>1. ReadTrue'
      BY <1>2, CreateDoes DEF TypeInv, Shape, RecordInv, ReadTrue, wb, Awake, Live, OnlyBackup
    <2>2. JobsRecorded'
      BY <1>2, CreateDoes DEF JobOf, RecordInv, JobsRecorded, wb, Awake, OnlyBackup
    <2>3. SucceededByOwnJob'
      BY <1>2, CreateDoes DEF RecordInv, SucceededByOwnJob, OnlyBackup
    <2>4. ObservedLabelled'
      BY <1>0, <1>2, CreateDoes DEF RecordInv, ObservedLabelled
    <2> QED BY <2>1, <2>2, <2>3, <2>4 DEF RecordInv
  <1>3. ASSUME NEW b \in Backups, Delete(b)
        PROVE  RecordInv'
    <2>1. ReadTrue'
      BY <1>3, DeleteDoes DEF TypeInv, Shape, RecordInv, ReadTrue, wb, Awake, Live, Marked, Gone,
         OnlyBackup
    <2>2. JobsRecorded'
      BY <1>3, DeleteDoes DEF JobOf, RecordInv, JobsRecorded, FinPCs, wb, Awake, Marked, Gone,
         OnlyBackup
    <2>3. SucceededByOwnJob'
      BY <1>3, DeleteDoes DEF RecordInv, SucceededByOwnJob, Marked, Gone, OnlyBackup
    <2>4. ObservedLabelled'
      BY <1>0, <1>3, DeleteDoes DEF RecordInv, ObservedLabelled
    <2> QED BY <2>1, <2>2, <2>3, <2>4 DEF RecordInv
  <1>4. CASE WRelease
    <2>1. ReadTrue'
      BY <1>4, WReleaseDoes DEF RecordInv, ReadTrue, wb, Awake, Live, Stopped, WentTo, Kept,
         Wrote
    <2>2. JobsRecorded'
      BY <1>4, WReleaseDoes, Types DEF JobsMove, JobOf, RecordInv, JobsRecorded, wb, Awake,
         Stopped, WentTo, Kept, Wrote, OnlyBackup
    <2>3. SucceededByOwnJob'
      BY <1>4, WReleaseDoes DEF RecordInv, SucceededByOwnJob, Live, Kept, Wrote, OnlyBackup
    <2>4. ObservedLabelled'
      BY <1>0, <1>4, WReleaseDoes DEF RecordInv, ObservedLabelled
    <2> QED BY <2>1, <2>2, <2>3, <2>4 DEF RecordInv
  <1>5. CASE WAcquire
    <2>1. ReadTrue'
      BY <1>5, WAcquireDoes DEF RecordInv, ReadTrue, wb, Awake, Stopped, WentTo, Kept, Wrote
    <2>2. JobsRecorded'
      BY <1>5, WAcquireDoes, NoneAssumption, Types DEF JobOf, RecordInv, JobsRecorded, wb, Awake,
         Stopped, WentTo, Kept, Wrote, OnlyBackup
    <2>3. SucceededByOwnJob'
      BY <1>5, WAcquireDoes DEF RecordInv, SucceededByOwnJob, Kept, Wrote, OnlyBackup
    <2>4. ObservedLabelled'
      BY <1>0, <1>5, WAcquireDoes DEF RecordInv, ObservedLabelled
    <2> QED BY <2>1, <2>2, <2>3, <2>4 DEF RecordInv
  <1>6. CASE WEnsureFinalizers
    <2>0. \A x \in Backups : bk'[x].state = bk[x].state /\ bk'[x].job = bk[x].job
      BY <1>6, WEnsureFinalizersDoes DEF Kept, Wrote, OnlyBackup
    <2>00. /\ UNCHANGED jobs
           /\ \/ Stopped
              \/ /\ Awake /\ w'.b = w.b /\ w'.then = w.then
                 /\ w'.snap.state = w.snap.state /\ w'.snap.job = w.snap.job
      BY <1>0, <1>6, WEnsureFinalizersDoes DEF Awake
    <2>1. ReadTrue'
      BY <1>6, WEnsureFinalizersDoes DEF RecordInv, ReadTrue, wb, Awake, Stopped, Wrote, FinPCs
    <2>2. JobsRecorded'
      BY <2>0, <2>00 DEF RecordInv, JobsRecorded, JobOf, Awake, wb, Stopped
    <2>3. SucceededByOwnJob'
      BY <1>0, <2>0, <2>00 DEF RecordInv, SucceededByOwnJob
    <2>4. ObservedLabelled'
      BY <1>0, <1>6, WEnsureFinalizersDoes DEF RecordInv, ObservedLabelled
    <2> QED BY <2>1, <2>2, <2>3, <2>4 DEF RecordInv
  <1>7. CASE WReject
    <2>1. ReadTrue'
      BY <1>7, WRejectDoes DEF ReadTrue, Awake, Stopped
    <2>2. JobsRecorded'
      BY <1>7, WRejectDoes DEF JobOf, RecordInv, JobsRecorded, Awake, Stopped, WroteState, Kept,
         Wrote, OnlyBackup
    <2>3. SucceededByOwnJob'
      BY <1>7, WRejectDoes DEF RecordInv, SucceededByOwnJob, WroteState, Kept, Wrote, OnlyBackup
    <2>4. ObservedLabelled'
      BY <1>0, <1>7, WRejectDoes DEF RecordInv, ObservedLabelled
    <2> QED BY <2>1, <2>2, <2>3, <2>4 DEF RecordInv
  <1>8. CASE WNew
    <2>1. ReadTrue'
      BY <1>8, WNewDoes DEF RecordInv, ReadTrue, wb, Awake, Live, Stopped, WentTo
    <2>2. JobsRecorded'
      BY <1>8, WNewDoes DEF JobOf, RecordInv, JobsRecorded, wb, Awake, Stopped, WentTo
    <2>3. SucceededByOwnJob'
      BY <1>8, WNewDoes DEF RecordInv, Finished, SucceededByOwnJob
    <2>4. ObservedLabelled'
      BY <1>0, <1>8, WNewDoes DEF RecordInv, ObservedLabelled
    <2> QED BY <2>1, <2>2, <2>3, <2>4 DEF RecordInv
  <1>9. CASE WStarted
    <2>1. ReadTrue'
      BY <1>9, WStartedDoes DEF ReadTrue, Awake, Stopped
    <2>2. JobsRecorded'
      BY <1>9, WStartedDoes, NoneAssumption, Types DEF JobOf, RecordInv, JobsRecorded, Awake,
         Live, Stopped, WroteState, Kept, Wrote, OnlyBackup
    <2>3. SucceededByOwnJob'
      BY <1>9, WStartedDoes DEF RecordInv, SucceededByOwnJob, WroteState, Kept, Wrote, OnlyBackup
    <2>4. ObservedLabelled'
      BY <1>0, <1>9, WStartedDoes DEF RecordInv, ObservedLabelled
    <2> QED BY <2>1, <2>2, <2>3, <2>4 DEF RecordInv
  <1>10. CASE WStarting
    <2>1. ReadTrue'
      BY <1>10, WStartingDoes DEF ReadTrue, Awake, Stopped
    <2>2. JobsRecorded'
      BY <1>m, <1>10, WStartingDoes, NoneAssumption, Types, FoundJobs DEF JobOf, TypeInv,
         RecordInv, JobsRecorded, Awake, Live, Exists, Stopped, WroteState, Kept, Wrote,
         OnlyBackup
    <2>3. SucceededByOwnJob'
      BY <1>m, <1>10, WStartingDoes DEF RecordInv, SucceededByOwnJob, Live, WroteState, Kept,
         Wrote, OnlyBackup
    <2>4. ObservedLabelled'
      BY <1>0, <1>10, WStartingDoes DEF RecordInv, ObservedLabelled
    <2> QED BY <2>1, <2>2, <2>3, <2>4 DEF RecordInv
  <1>11. CASE WRunning
    <2>1. ReadTrue'
      BY <1>11, WRunningDoes DEF RecordInv, ReadTrue, wb, Awake, Live, Stopped, Kept, Wrote
    <2>2. JobsRecorded'
      BY <1>0, <1>11, WRunningDoes DEF JobOf, TypeInv, Shape, RecordInv, JobsRecorded, Finished,
         FinPCs, wb, Awake, Live, Stopped, WroteState, Kept, Wrote, OnlyBackup
    <2>3. SucceededByOwnJob'
      BY <1>11, WRunningDoes DEF RecordInv, SucceededByOwnJob, Live, WroteState, Kept, Wrote,
         OnlyBackup
    <2>4. ObservedLabelled'
      BY <1>0, <1>11, WRunningDoes DEF RecordInv, ObservedLabelled
    <2> QED BY <2>1, <2>2, <2>3, <2>4 DEF RecordInv
  <1>12. CASE WSucceeded
    <2>1. ReadTrue'
      BY <1>12, WSucceededDoes DEF ReadTrue, Awake, Stopped
    <2>2. JobsRecorded'
      BY <1>m, <1>12, WSucceededDoes DEF JobsMove, JobOf, RecordInv, JobsRecorded, Awake, Stopped
    <2>3. SucceededByOwnJob'
      BY <1>m, <1>12, WSucceededDoes DEF JobsMove, JobOf, RecordInv, JobsRecorded, Finished,
         SucceededByOwnJob
    <2>4. ObservedLabelled'
      BY <1>0, <1>12, WSucceededDoes DEF RecordInv, ObservedLabelled
    <2> QED BY <2>1, <2>2, <2>3, <2>4 DEF RecordInv
  <1>13. CASE WNoFinalizer
    <2>1. ReadTrue'
      BY <1>13, WNoFinalizerDoes DEF RecordInv, ReadTrue, wb, Awake, Live, Stopped, WentTo
    <2>2. JobsRecorded'
      BY <1>13, WNoFinalizerDoes DEF JobOf, RecordInv, JobsRecorded, wb, Awake, Stopped, WentTo
    <2>3. SucceededByOwnJob'
      BY <1>13, WNoFinalizerDoes DEF RecordInv, SucceededByOwnJob
    <2>4. ObservedLabelled'
      BY <1>0, <1>13, WNoFinalizerDoes DEF RecordInv, ObservedLabelled
    <2> QED BY <2>1, <2>2, <2>3, <2>4 DEF RecordInv
  <1>14. CASE WFinalizeNoCluster
    <2>1. ReadTrue'
      BY <1>14, WFinalizeNoClusterDoes DEF RecordInv, ReadTrue, wb, Awake, Live, Stopped, WentTo
    <2>2. JobsRecorded'
      BY <1>m, <1>14, WFinalizeNoClusterDoes DEF JobsMove, JobOf, RecordInv, JobsRecorded, wb,
         Awake, Stopped, WentTo
    <2>3. SucceededByOwnJob'
      BY <1>m, <1>14, WFinalizeNoClusterDoes DEF JobsMove, JobOf, RecordInv, JobsRecorded,
         Finished, SucceededByOwnJob
    <2>4. ObservedLabelled'
      BY <1>0, <1>14, WFinalizeNoClusterDoes DEF RecordInv, ObservedLabelled
    <2> QED BY <2>1, <2>2, <2>3, <2>4 DEF RecordInv
  <1>15. CASE WRecordJob
    <2>1. ReadTrue'
      BY <1>15, WRecordJobDoes DEF ReadTrue, Awake, Stopped
    <2>2. JobsRecorded'
      BY <1>m, <1>15, WRecordJobDoes, NoneAssumption, Types, FoundJobs DEF JobOf, RecordInv,
         JobsRecorded, Awake, Exists, Stopped, Kept, Wrote, OnlyBackup
    <2>3. SucceededByOwnJob'
      BY <1>15, WRecordJobDoes DEF RecordInv, ReadTrue, SucceededByOwnJob, Awake, Kept, Wrote,
         OnlyBackup
    <2>4. ObservedLabelled'
      BY <1>0, <1>15, WRecordJobDoes DEF RecordInv, ObservedLabelled
    <2> QED BY <2>1, <2>2, <2>3, <2>4 DEF RecordInv
  <1>16. CASE WFinishExit
    <2>1. ReadTrue'
      BY <1>16, WFinishExitDoes DEF RecordInv, ReadTrue, wb, Awake, Live, WentTo
    <2>2. JobsRecorded'
      BY <1>m, <1>16, WFinishExitDoes DEF JobsMove, JobOf, RecordInv, JobsRecorded, Finished, wb,
         Awake, WentTo
    <2>3. SucceededByOwnJob'
      BY <1>m, <1>16, WFinishExitDoes DEF JobsMove, JobOf, RecordInv, JobsRecorded, Finished,
         SucceededByOwnJob
    <2>4. ObservedLabelled'
      BY <1>0, <1>16, WFinishExitDoes DEF RecordInv, ObservedLabelled
    <2> QED BY <2>1, <2>2, <2>3, <2>4 DEF RecordInv
  <1>17. CASE WFinishRequest
    <2>1. ReadTrue'
      BY <1>17, WFinishRequestDoes DEF RecordInv, ReadTrue, wb, Awake, Live, Stopped
    <2>2. JobsRecorded'
      BY <1>17, WFinishRequestDoes DEF JobOf, RecordInv, JobsRecorded, wb, Awake, Stopped
    <2>3. SucceededByOwnJob'
      BY <1>17, WFinishRequestDoes DEF RecordInv, SucceededByOwnJob
    <2>4. ObservedLabelled'
      BY <1>0, <1>17, WFinishRequestDoes DEF RecordInv, ObservedLabelled
    <2> QED BY <2>1, <2>2, <2>3, <2>4 DEF RecordInv
  <1>18. CASE WFinishError
    <2>1. ReadTrue'
      BY <1>18, WFinishErrorDoes DEF ReadTrue, Awake, Stopped
    <2>2. JobsRecorded'
      BY <1>18, WFinishErrorDoes DEF JobOf, RecordInv, JobsRecorded, Awake, Stopped
    <2>3. SucceededByOwnJob'
      BY <1>18, WFinishErrorDoes DEF RecordInv, SucceededByOwnJob
    <2>4. ObservedLabelled'
      BY <1>0, <1>18, WFinishErrorDoes DEF RecordInv, ObservedLabelled
    <2> QED BY <2>1, <2>2, <2>3, <2>4 DEF RecordInv
  <1>19. CASE WUnlabel
    <2>1. ReadTrue'
      BY <1>19, WUnlabelDoes DEF RecordInv, ReadTrue, wb, Awake, Live, Stopped, WentTo
    <2>2. JobsRecorded'
      BY <1>m, <1>19, WUnlabelDoes DEF JobsMove, JobOf, TypeInv, Shape, RecordInv, JobsRecorded,
         Finished, wb, Awake, Stopped, WentTo
    <2>3. SucceededByOwnJob'
      BY <1>m, <1>19, WUnlabelDoes DEF JobsMove, JobOf, RecordInv, JobsRecorded, Finished,
         SucceededByOwnJob
    <2>4. ObservedLabelled'
      BY <1>0, <1>19, WUnlabelDoes DEF RecordInv, ObservedLabelled
    <2> QED BY <2>1, <2>2, <2>3, <2>4 DEF RecordInv
  <1>20. CASE WClearStatus
    <2>1. ReadTrue'
      BY <1>20, WClearStatusDoes DEF RecordInv, ReadTrue, wb, Awake, Live, Stopped, WentTo
    <2>2. JobsRecorded'
      BY <1>20, WClearStatusDoes DEF JobOf, RecordInv, JobsRecorded, wb, Awake, Stopped, WentTo
    <2>3. SucceededByOwnJob'
      BY <1>20, WClearStatusDoes DEF RecordInv, SucceededByOwnJob
    <2>4. ObservedLabelled'
      BY <1>0, <1>20, WClearStatusDoes DEF RecordInv, ObservedLabelled
    <2> QED BY <2>1, <2>2, <2>3, <2>4 DEF RecordInv
  <1>21. CASE WDeleteProgress
    <2>1. ReadTrue'
      BY <1>21, WDeleteProgressDoes DEF ReadTrue, Awake, Stopped
    <2>2. JobsRecorded'
      BY <1>21, WDeleteProgressDoes DEF JobOf, RecordInv, JobsRecorded, Awake, Stopped
    <2>3. SucceededByOwnJob'
      BY <1>21, WDeleteProgressDoes DEF RecordInv, SucceededByOwnJob
    <2>4. ObservedLabelled'
      BY <1>0, <1>21, WDeleteProgressDoes DEF RecordInv, ObservedLabelled
    <2> QED BY <2>1, <2>2, <2>3, <2>4 DEF RecordInv
  <1>22. CASE WDropFinalizer
    <2>0. \A x \in Backups : 
            \/ bk'[x].state = bk[x].state /\ bk'[x].job = bk[x].job
            \/ bk'[x].state = "New" /\ bk'[x].job = None
      BY <1>22, WDropFinalizerDoes DEF Kept, Wrote, OnlyBackup, Gone
    <2>00. /\ UNCHANGED jobs
           /\ \/ Stopped
              \/ /\ Awake /\ w'.b = w.b /\ w'.then = w.then
                 /\ w'.snap.state = w.snap.state /\ w'.snap.job = w.snap.job
      BY <1>0, <1>22, WDropFinalizerDoes DEF Awake, WentTo
    <2>1. ReadTrue'
      BY <1>22, WDropFinalizerDoes DEF RecordInv, ReadTrue, wb, Awake, Live, Stopped, WentTo,
         Kept, Wrote, Gone
    <2>2. JobsRecorded'
      BY <2>0, <2>00 DEF RecordInv, JobsRecorded, JobOf, Awake, wb, Stopped
    <2>3. SucceededByOwnJob'
      BY <1>0, <2>0, <2>00 DEF RecordInv, SucceededByOwnJob
    <2>4. ObservedLabelled'
      BY <1>0, <1>22, WDropFinalizerDoes DEF RecordInv, ObservedLabelled
    <2> QED BY <2>1, <2>2, <2>3, <2>4 DEF RecordInv
  <1>23. CASE WComplete
    <2>1. ReadTrue'
      BY <1>23, WCompleteDoes DEF ReadTrue, Awake, Stopped
    <2>2. JobsRecorded'
      BY <1>23, WCompleteDoes DEF JobOf, TypeInv, Shape, RecordInv, ReadTrue, JobsRecorded,
         Awake, Live, Stopped, WroteState, Kept, Wrote, OnlyBackup
    <2>3. SucceededByOwnJob'
      BY <1>23, WCompleteDoes DEF JobOf, TypeInv, Shape, RecordInv, ReadTrue, JobsRecorded,
         SucceededByOwnJob, Awake, Live, WroteState, Kept, Wrote, OnlyBackup
    <2>4. ObservedLabelled'
      BY <1>0, <1>23, WCompleteDoes DEF RecordInv, ObservedLabelled
    <2> QED BY <2>1, <2>2, <2>3, <2>4 DEF RecordInv
  <1>24. CASE PStart
    <2>1. ReadTrue'
      BY <1>24, PStartDoes DEF RecordInv, ReadTrue, wb, Awake, Live
    <2>2. JobsRecorded'
      BY <1>24, PStartDoes DEF JobOf, RecordInv, JobsRecorded, wb, Awake
    <2>3. SucceededByOwnJob'
      BY <1>24, PStartDoes DEF RecordInv, SucceededByOwnJob
    <2>4. ObservedLabelled'
      BY <1>0, <1>24, PStartDoes DEF RecordInv, ObservedLabelled
    <2> QED BY <2>1, <2>2, <2>3, <2>4 DEF RecordInv
  <1>25. CASE PSync
    <2>1. ReadTrue'
      BY <1>25, PSyncDoes DEF RecordInv, ReadTrue, wb, Awake, Live
    <2>2. JobsRecorded'
      BY <1>25, PSyncDoes DEF JobOf, RecordInv, JobsRecorded, wb, Awake
    <2>3. SucceededByOwnJob'
      BY <1>25, PSyncDoes DEF RecordInv, SucceededByOwnJob
    <2>4. ObservedLabelled'
      BY <1>0, <1>25, PSyncDoes DEF RecordInv, ObservedLabelled
    <2> QED BY <2>1, <2>2, <2>3, <2>4 DEF RecordInv
  <1>26. CASE PDelete
    <2>1. ReadTrue'
      BY <1>26, PDeleteDoes DEF RecordInv, ReadTrue, wb, Awake, Live
    <2>2. JobsRecorded'
      BY <1>26, PDeleteDoes DEF JobOf, RecordInv, JobsRecorded, wb, Awake
    <2>3. SucceededByOwnJob'
      BY <1>26, PDeleteDoes DEF RecordInv, SucceededByOwnJob
    <2>4. ObservedLabelled'
      BY <1>0, <1>26, PDeleteDoes DEF RecordInv, ObservedLabelled
    <2> QED BY <2>1, <2>2, <2>3, <2>4 DEF RecordInv
  <1>27. ASSUME NEW j \in Jobs, reconcileBackupJob(j)
        PROVE  RecordInv'
    <2>1. ReadTrue'
      BY <1>27, reconcileBackupJobDoes DEF RecordInv, ReadTrue, wb, Awake, Live
    <2>2. JobsRecorded'
      BY <1>m, <1>27, reconcileBackupJobDoes DEF JobsMove, JobOf, TypeInv, Shape, RecordInv,
         JobsRecorded, Finished, FinPCs, wb, Awake
    <2>3. SucceededByOwnJob'
      BY <1>m, <1>27, reconcileBackupJobDoes DEF JobsMove, JobOf, RecordInv, JobsRecorded,
         Finished, SucceededByOwnJob
    <2>4. ObservedLabelled'
      BY <1>0, <1>27, reconcileBackupJobDoes DEF RecordInv, ObservedLabelled
    <2> QED BY <2>1, <2>2, <2>3, <2>4 DEF RecordInv
  <1>28. ASSUME NEW b \in Backups, cleanupOutdatedBackups(b)
        PROVE  RecordInv'
    <2>1. ReadTrue'
      BY <1>28, cleanupOutdatedBackupsDoes DEF TypeInv, Shape, RecordInv, ReadTrue, wb, Awake,
         Live, Marked, Gone, OnlyBackup
    <2>2. JobsRecorded'
      BY <1>m, <1>28, cleanupOutdatedBackupsDoes DEF JobsMove, JobOf, TypeInv, Shape, RecordInv,
         JobsRecorded, Finished, FinPCs, wb, Awake, Marked, Gone, OnlyBackup
    <2>3. SucceededByOwnJob'
      BY <1>m, <1>28, cleanupOutdatedBackupsDoes DEF JobsMove, JobOf, RecordInv, JobsRecorded,
         Finished, SucceededByOwnJob, Marked, Gone, OnlyBackup
    <2>4. ObservedLabelled'
      BY <1>0, <1>28, cleanupOutdatedBackupsDoes DEF RecordInv, ObservedLabelled
    <2> QED BY <2>1, <2>2, <2>3, <2>4 DEF RecordInv
  <1>29. CASE CObserve
    <2>1. ReadTrue'
      BY <1>29, CObserveDoes DEF RecordInv, ReadTrue, wb, Awake, Live
    <2>2. JobsRecorded'
      BY <1>29, CObserveDoes DEF JobOf, RecordInv, JobsRecorded, wb, Awake
    <2>3. SucceededByOwnJob'
      BY <1>29, CObserveDoes DEF RecordInv, SucceededByOwnJob
    <2>4. ObservedLabelled'
      BY <1>0, <1>29, CObserveDoes DEF RecordInv, ObservedLabelled, Exists
    <2> QED BY <2>1, <2>2, <2>3, <2>4 DEF RecordInv
  <1>30. CASE CHandleDelete
    <2>1. ReadTrue'
      BY <1>30, CHandleDeleteDoes DEF RecordInv, ReadTrue, wb, Awake, Live
    <2>2. JobsRecorded'
      BY <1>30, CHandleDeleteDoes DEF JobOf, RecordInv, JobsRecorded, wb, Awake
    <2>3. SucceededByOwnJob'
      BY <1>30, CHandleDeleteDoes DEF RecordInv, SucceededByOwnJob
    <2>4. ObservedLabelled'
      BY <1>0, <1>30, CHandleDeleteDoes DEF RecordInv, ObservedLabelled
    <2> QED BY <2>1, <2>2, <2>3, <2>4 DEF RecordInv
  <1>31. CASE CDeleteObsolete
    <2>1. ReadTrue'
      BY <1>31, CDeleteObsoleteDoes DEF RecordInv, ReadTrue, wb, Awake, Live
    <2>2. JobsRecorded'
      BY <1>m, <1>31, CDeleteObsoleteDoes DEF JobsMove, JobOf, TypeInv, Shape, RecordInv,
         JobsRecorded, Finished, FinPCs, wb, Awake
    <2>3. SucceededByOwnJob'
      BY <1>m, <1>31, CDeleteObsoleteDoes DEF JobsMove, JobOf, RecordInv, JobsRecorded, Finished,
         SucceededByOwnJob
    <2>4. ObservedLabelled'
      BY <1>0, <1>31, CDeleteObsoleteDoes DEF RecordInv, ObservedLabelled, CStopped
    <2> QED BY <2>1, <2>2, <2>3, <2>4 DEF RecordInv
  <1>32. CASE CNothing
    <2>1. ReadTrue'
      BY <1>32, CNothingDoes DEF RecordInv, ReadTrue, wb, Awake, Live
    <2>2. JobsRecorded'
      BY <1>32, CNothingDoes DEF JobOf, RecordInv, JobsRecorded, wb, Awake
    <2>3. SucceededByOwnJob'
      BY <1>32, CNothingDoes DEF RecordInv, SucceededByOwnJob
    <2>4. ObservedLabelled'
      BY <1>0, <1>32, CNothingDoes DEF RecordInv, ObservedLabelled, CStopped
    <2> QED BY <2>1, <2>2, <2>3, <2>4 DEF RecordInv
  <1>33. CASE CRequest
    <2>1. ReadTrue'
      BY <1>33, CRequestDoes DEF RecordInv, ReadTrue, wb, Awake, Live
    <2>2. JobsRecorded'
      BY <1>33, CRequestDoes DEF JobOf, RecordInv, JobsRecorded, wb, Awake
    <2>3. SucceededByOwnJob'
      BY <1>33, CRequestDoes DEF RecordInv, SucceededByOwnJob
    <2>4. ObservedLabelled'
      BY <1>0, <1>33, CRequestDoes DEF RecordInv, ObservedLabelled
    <2> QED BY <2>1, <2>2, <2>3, <2>4 DEF RecordInv
  <1>34. CASE CCreate
    <2>1. ReadTrue'
      BY <1>34, CCreateDoes DEF RecordInv, ReadTrue, wb, Awake, Live
    <2>2. JobsRecorded'
      BY <1>m, <1>34, CCreateDoes DEF JobsMove, JobOf, TypeInv, Shape, RecordInv, JobsRecorded,
         Finished, FinPCs, wb, Awake
    <2>3. SucceededByOwnJob'
      BY <1>m, <1>34, CCreateDoes DEF JobsMove, JobOf, RecordInv, JobsRecorded, Finished,
         SucceededByOwnJob
    <2>4. ObservedLabelled'
      BY <1>0, <1>34, CCreateDoes DEF RecordInv, ObservedLabelled, Patching
    <2> QED BY <2>1, <2>2, <2>3, <2>4 DEF RecordInv
  <1>35. CASE CApply
    <2>1. ReadTrue'
      BY <1>35, CApplyDoes DEF RecordInv, ReadTrue, wb, Awake, Live
    <2>2. JobsRecorded'
      BY <1>m, <1>35, CApplyDoes DEF JobsMove, JobOf, TypeInv, Shape, RecordInv, JobsRecorded,
         Finished, FinPCs, wb, Awake
    <2>3. SucceededByOwnJob'
      BY <1>m, <1>35, CApplyDoes DEF JobsMove, JobOf, RecordInv, JobsRecorded, Finished,
         SucceededByOwnJob
    <2>4. ObservedLabelled'
      BY <1>0, <1>35, CApplyDoes DEF RecordInv, ObservedLabelled, Patching
    <2> QED BY <2>1, <2>2, <2>3, <2>4 DEF RecordInv
  <1>36. CASE CPatchStatus
    <2>1. ReadTrue'
      BY <1>36, CPatchStatusDoes DEF RecordInv, ReadTrue, wb, Awake, Live
    <2>2. JobsRecorded'
      BY <1>36, CPatchStatusDoes DEF JobOf, RecordInv, JobsRecorded, wb, Awake
    <2>3. SucceededByOwnJob'
      BY <1>36, CPatchStatusDoes DEF RecordInv, SucceededByOwnJob
    <2>4. ObservedLabelled'
      BY <1>0, <1>36, CPatchStatusDoes DEF RecordInv, ObservedLabelled, CStopped
    <2> QED BY <2>1, <2>2, <2>3, <2>4 DEF RecordInv
  <1>37. ASSUME NEW j \in Jobs, JobFinish(j)
        PROVE  RecordInv'
    <2>1. ReadTrue'
      BY <1>37, JobFinishDoes DEF RecordInv, ReadTrue, wb, Awake, Live
    <2>2. JobsRecorded'
      BY <1>m, <1>37, JobFinishDoes DEF JobsMove, JobOf, TypeInv, Shape, RecordInv, JobsRecorded,
         Finished, FinPCs, wb, Awake
    <2>3. SucceededByOwnJob'
      BY <1>m, <1>37, JobFinishDoes DEF JobsMove, JobOf, RecordInv, JobsRecorded, Finished,
         SucceededByOwnJob
    <2>4. ObservedLabelled'
      BY <1>0, <1>37, JobFinishDoes DEF RecordInv, ObservedLabelled
    <2> QED BY <2>1, <2>2, <2>3, <2>4 DEF RecordInv
  <1>38. ASSUME NEW j \in Jobs, JobCollect(j)
        PROVE  RecordInv'
    <2>1. ReadTrue'
      BY <1>38, JobCollectDoes DEF RecordInv, ReadTrue, wb, Awake, Live
    <2>2. JobsRecorded'
      BY <1>m, <1>38, JobCollectDoes DEF JobsMove, JobOf, TypeInv, Shape, RecordInv,
         JobsRecorded, Finished, FinPCs, wb, Awake
    <2>3. SucceededByOwnJob'
      BY <1>m, <1>38, JobCollectDoes DEF JobsMove, JobOf, RecordInv, JobsRecorded, Finished,
         SucceededByOwnJob
    <2>4. ObservedLabelled'
      BY <1>0, <1>38, JobCollectDoes DEF RecordInv, ObservedLabelled
    <2> QED BY <2>1, <2>2, <2>3, <2>4 DEF RecordInv
  <1>39. ASSUME NEW j \in Jobs, JobLost(j)
        PROVE  RecordInv'
    <2>1. ReadTrue'
      BY <1>39, JobLostDoes DEF RecordInv, ReadTrue, wb, Awake, Live
    <2>2. JobsRecorded'
      BY <1>m, <1>39, JobLostDoes DEF JobsMove, JobOf, TypeInv, Shape, RecordInv, JobsRecorded,
         Finished, FinPCs, wb, Awake
    <2>3. SucceededByOwnJob'
      BY <1>m, <1>39, JobLostDoes DEF JobsMove, JobOf, RecordInv, JobsRecorded, Finished,
         SucceededByOwnJob
    <2>4. ObservedLabelled'
      BY <1>0, <1>39, JobLostDoes DEF RecordInv, ObservedLabelled
    <2> QED BY <2>1, <2>2, <2>3, <2>4 DEF RecordInv
  <1>40. CASE DeleteCluster
    <2>1. ReadTrue'
      BY <1>40, DeleteClusterDoes DEF RecordInv, ReadTrue, wb, Awake, Live
    <2>2. JobsRecorded'
      BY <1>40, DeleteClusterDoes DEF JobOf, RecordInv, JobsRecorded, wb, Awake
    <2>3. SucceededByOwnJob'
      BY <1>40, DeleteClusterDoes DEF RecordInv, SucceededByOwnJob
    <2>4. ObservedLabelled'
      BY <1>0, <1>40, DeleteClusterDoes DEF RecordInv, ObservedLabelled
    <2> QED BY <2>1, <2>2, <2>3, <2>4 DEF RecordInv
  <1>41. CASE Crash \/ Restart
    <2>1. ReadTrue'
      BY <1>41, ResetDoes DEF ReadTrue, Awake, Reset
    <2>2. JobsRecorded'
      BY <1>41, ResetDoes DEF JobOf, RecordInv, JobsRecorded, Awake, Reset
    <2>3. SucceededByOwnJob'
      BY <1>41, ResetDoes DEF RecordInv, SucceededByOwnJob
    <2>4. ObservedLabelled'
      BY <1>0, <1>41, ResetDoes DEF RecordInv, ObservedLabelled, Reset
    <2> QED BY <2>1, <2>2, <2>3, <2>4 DEF RecordInv
  <1>42. CASE UNCHANGED vars
    BY <1>42 DEF vars, RecordInv, ReadTrue, JobsRecorded, JobOf, SucceededByOwnJob,
       ObservedLabelled, Awake, wb, Live
  <1> QED
    BY <1>1, <1>2, <1>3, <1>4, <1>5, <1>6, <1>7, <1>8, <1>9, <1>10, <1>11, <1>12, <1>13, <1>14,
       <1>15, <1>16, <1>17, <1>18, <1>19, <1>20, <1>21, <1>22, <1>23, <1>24, <1>25, <1>26, <1>27,
       <1>28, <1>29, <1>30, <1>31, <1>32, <1>33, <1>34, <1>35, <1>36, <1>37, <1>38, <1>39, <1>40,
       <1>41, <1>42 DEF Next, WStep, PStep, CStep

\* W looks for Jobs of its backup, and in the finalizer the backup wants no Job.
LEMMA FoundOwn ==
    ASSUME TypeInv, RecordInv, Awake, NEW j \in findBackupJob
    PROVE  j \in Jobs /\ Exists(j) /\ jobs[j].name = wb
  BY FoundJobs DEF RecordInv, JobsRecorded, JobOf




-----------------------------------------------------------------------------
(* One Job per backup.                                                     *)

\* Jobs do not end before W polls for them and are not removed behind their
\* finalizer, and the cache of Jobs is current.
Prompt == \A f \in {"quickJobs", "jobLost", "staleJobs"} : f \notin Faults

\* A Job is named after a backup that exists or existed, and is owned by that one
\* only.  As long as the backup wants a Job, this one is there for C to find.
NamedJobs == \A j \in Jobs : jobs[j].name # None =>
    /\ bk[jobs[j].name].phase # "absent"
    /\ manualBackupJobNeeded(jobs[j].name) =>
           Exists(j) /\ jobs[j].labelled /\ ~Finished(jobs[j])
OwnerNamed == \A j \in Jobs : jobs[j].owner # None => jobs[j].owner = jobs[j].name

\* C creates a Job only if there is none of that name.
Observed ==
    /\ c.pc = "manual" /\ c.job = None =>
           \A j \in Jobs : ~(Exists(j) /\ jobs[j].labelled)
    /\ c.pc = "apply" /\ c.job = None =>
           /\ c.ann \in Backups /\ bk[c.ann].phase # "absent"
           /\ \A j \in Jobs : jobs[j].name # c.ann
    /\ c.job # None =>
           jobs[c.job].phase # "none" /\ (Finished(c.rec) => Finished(jobs[c.job]))

\* W unlabels the Job that the backup's status names.
InHand ==
    /\ w.pc = "unlabel" => w.job \in {None, w.snap.job}
    /\ w.pc \in FinPCs => w.snap.deleting \/ w.snap.state = "Failed" \/ w.snap.job # None

JobInv == NamedJobs /\ OwnerNamed /\ Observed /\ InHand /\ OneJobPerBackup

\* A backup that does not want a Job any more never wants one again.
NeededMove == \A b \in Backups : bk[b].phase # "absent" =>
    /\ bk'[b].phase # "absent"
    /\ manualBackupJobNeeded(b)' => manualBackupJobNeeded(b)

LEMMA NeededMoveNext == TypeInv /\ RecordInv /\ [Next]_vars => NeededMove
  <1> SUFFICES ASSUME TypeInv, RecordInv, [Next]_vars PROVE NeededMove
    OBVIOUS
  <1>0. TypeInv /\ RecordInv
    OBVIOUS
  <1>a. ASSUME UNCHANGED bk PROVE NeededMove
    BY <1>a DEF NeededMove, manualBackupJobNeeded, Live
  <1>b. ASSUME NEW b \in Backups, Kept(b) PROVE NeededMove
    BY <1>b DEF NeededMove, manualBackupJobNeeded, Live, Kept, Wrote, OnlyBackup
  <1>c. ASSUME NEW b \in Backups, Marked(b) \/ (Gone(b) /\ Live(b)) PROVE NeededMove
    BY <1>c DEF NeededMove, manualBackupJobNeeded, Live, Marked, Gone, OnlyBackup
  <1>d. ASSUME NEW b \in Backups, NEW st \in Terminal, WroteState(b, st) PROVE NeededMove
    BY <1>b, <1>d DEF NeededMove, manualBackupJobNeeded, Live, WroteState, Wrote, OnlyBackup
  <1>e. Awake => wb \in Backups
    BY DEF TypeInv, Shape
  <1>1. ASSUME NEW b \in Backups, WGet(b)
        PROVE  NeededMove
    BY <1>1, WGetDoes DEF NeededMove, manualBackupJobNeeded, Live, Wrote, OnlyBackup, GotState,
       Terminal
  <1>2. ASSUME NEW b \in Backups, Create(b)
        PROVE  NeededMove
    BY <1>0, <1>2, CreateDoes DEF NeededMove, manualBackupJobNeeded, Live, OnlyBackup
  <1>3. ASSUME NEW b \in Backups, Delete(b)
        PROVE  NeededMove
    BY <1>0, <1>c, <1>3, DeleteDoes
  <1>4. CASE WRelease
    BY <1>0, <1>b, <1>e, <1>4, WReleaseDoes DEF Awake
  <1>5. CASE WAcquire
    BY <1>0, <1>b, <1>e, <1>5, WAcquireDoes DEF Awake
  <1>6. CASE WEnsureFinalizers
    BY <1>b, <1>e, <1>6, WEnsureFinalizersDoes DEF Awake, NeededMove, manualBackupJobNeeded,
       Live, Wrote, OnlyBackup
  <1>7. CASE WReject
    BY <1>0, <1>d, <1>e, <1>7, WRejectDoes DEF Awake, Terminal
  <1>8. CASE WNew
    BY <1>0, <1>a, <1>8, WNewDoes
  <1>9. CASE WStarted
    BY <1>b, <1>9, WStartedDoes DEF TypeInv, Awake, NeededMove, manualBackupJobNeeded, Live,
       Wrote, OnlyBackup, Shape, WroteState, RecordInv, ReadTrue, Terminal
  <1>10. CASE WStarting
    BY <1>b, <1>e, <1>10, WStartingDoes, FoundJobs, NoneAssumption, <1>d DEF Awake, NeededMove,
       manualBackupJobNeeded, Live, Wrote, OnlyBackup, Terminal
  <1>11. CASE WRunning
    BY <1>0, <1>b, <1>d, <1>e, <1>11, WRunningDoes DEF Awake, Terminal
  <1>12. CASE WSucceeded
    BY <1>0, <1>a, <1>12, WSucceededDoes
  <1>13. CASE WNoFinalizer
    BY <1>0, <1>a, <1>13, WNoFinalizerDoes
  <1>14. CASE WFinalizeNoCluster
    BY <1>0, <1>a, <1>14, WFinalizeNoClusterDoes
  <1>15. CASE WRecordJob
    BY <1>b, <1>e, <1>15, WRecordJobDoes, FoundJobs, NoneAssumption DEF Awake, NeededMove,
       manualBackupJobNeeded, Live, Wrote, OnlyBackup
  <1>16. CASE WFinishExit
    BY <1>0, <1>a, <1>16, WFinishExitDoes
  <1>17. CASE WFinishRequest
    BY <1>0, <1>a, <1>17, WFinishRequestDoes
  <1>18. CASE WFinishError
    BY <1>0, <1>a, <1>18, WFinishErrorDoes
  <1>19. CASE WUnlabel
    BY <1>0, <1>a, <1>19, WUnlabelDoes
  <1>20. CASE WClearStatus
    BY <1>0, <1>a, <1>20, WClearStatusDoes
  <1>21. CASE WDeleteProgress
    BY <1>0, <1>a, <1>21, WDeleteProgressDoes
  <1>22. CASE WDropFinalizer
    BY <1>b, <1>e, <1>22, WDropFinalizerDoes, <1>c DEF Awake, NeededMove, manualBackupJobNeeded,
       Live, Wrote, OnlyBackup
  <1>23. CASE WComplete
    BY <1>0, <1>d, <1>e, <1>23, WCompleteDoes DEF Awake
  <1>24. CASE PStart
    BY <1>0, <1>a, <1>24, PStartDoes
  <1>25. CASE PSync
    BY <1>0, <1>a, <1>25, PSyncDoes
  <1>26. CASE PDelete
    BY <1>0, <1>a, <1>26, PDeleteDoes
  <1>27. ASSUME NEW j \in Jobs, reconcileBackupJob(j)
        PROVE  NeededMove
    BY <1>0, <1>a, <1>27, reconcileBackupJobDoes
  <1>28. ASSUME NEW b \in Backups, cleanupOutdatedBackups(b)
        PROVE  NeededMove
    BY <1>0, <1>c, <1>28, cleanupOutdatedBackupsDoes
  <1>29. CASE CObserve
    BY <1>0, <1>a, <1>29, CObserveDoes
  <1>30. CASE CHandleDelete
    BY <1>0, <1>a, <1>30, CHandleDeleteDoes
  <1>31. CASE CDeleteObsolete
    BY <1>0, <1>a, <1>31, CDeleteObsoleteDoes
  <1>32. CASE CNothing
    BY <1>0, <1>a, <1>32, CNothingDoes
  <1>33. CASE CRequest
    BY <1>0, <1>a, <1>33, CRequestDoes
  <1>34. CASE CCreate
    BY <1>0, <1>a, <1>34, CCreateDoes
  <1>35. CASE CApply
    BY <1>0, <1>a, <1>35, CApplyDoes
  <1>36. CASE CPatchStatus
    BY <1>0, <1>a, <1>36, CPatchStatusDoes
  <1>37. ASSUME NEW j \in Jobs, JobFinish(j)
        PROVE  NeededMove
    BY <1>0, <1>a, <1>37, JobFinishDoes
  <1>38. ASSUME NEW j \in Jobs, JobCollect(j)
        PROVE  NeededMove
    BY <1>0, <1>a, <1>38, JobCollectDoes
  <1>39. ASSUME NEW j \in Jobs, JobLost(j)
        PROVE  NeededMove
    BY <1>0, <1>a, <1>39, JobLostDoes
  <1>40. CASE DeleteCluster
    BY <1>0, <1>a, <1>40, DeleteClusterDoes
  <1>41. CASE Crash \/ Restart
    BY <1>0, <1>a, <1>41, ResetDoes
  <1>42. CASE UNCHANGED vars
    BY <1>a, <1>42 DEF vars
  <1> QED
    BY <1>1, <1>2, <1>3, <1>4, <1>5, <1>6, <1>7, <1>8, <1>9, <1>10, <1>11, <1>12, <1>13, <1>14,
       <1>15, <1>16, <1>17, <1>18, <1>19, <1>20, <1>21, <1>22, <1>23, <1>24, <1>25, <1>26, <1>27,
       <1>28, <1>29, <1>30, <1>31, <1>32, <1>33, <1>34, <1>35, <1>36, <1>37, <1>38, <1>39, <1>40,
       <1>41, <1>42 DEF Next, WStep, PStep, CStep

LEMMA NoneNeeded ==
    ASSUME TypeInv, RecordInv, InHand, w.pc \in FinPCs
    PROVE  wb \in Backups /\ ~manualBackupJobNeeded(wb)
  BY DEF TypeInv, Shape, RecordInv, ReadTrue, InHand, manualBackupJobNeeded, Terminal, Awake,
     FinPCs

LEMMA JobInit == Init => JobInv
  BY DEF Init, JobInv, NamedJobs, OwnerNamed, Observed, InHand, OneJobPerBackup, NoJob, WIdle,
     CIdle, FinPCs

LEMMA JobNext == Prompt /\ TypeInv /\ RecordInv /\ JobInv /\ [Next]_vars => JobInv'
  <1> SUFFICES ASSUME Prompt, TypeInv, RecordInv, JobInv, [Next]_vars PROVE JobInv'
    OBVIOUS
  <1>0. Prompt /\ TypeInv /\ RecordInv /\ JobInv
    OBVIOUS
  <1>m. JobsMove
    BY JobsMoveNext DEF RecordInv
  <1>n. NeededMove
    BY NeededMoveNext
  <1>t. /\ jobs \in [Jobs -> Job] /\ c.job \in Jobs \cup {None} /\ c.ann \in Backups \cup {None}
        /\ \A j \in Jobs : jobs[j].name \in Backups \cup {None}
    BY Types DEF TypeInv, JobWorker, Job
  \* A step that creates no Job and hides none that is wanted.
  <1> DEFINE Harmless ==
        /\ \A j \in Jobs : jobs'[j].name = jobs[j].name
        /\ \A j \in Jobs : jobs[j].name # None /\ manualBackupJobNeeded(jobs[j].name) =>
               jobs'[j].phase = "live" /\ jobs'[j].labelled /\ ~Finished(jobs'[j])
  <1>h. ASSUME Harmless PROVE NamedJobs' /\ OneJobPerBackup'
    <2>1. NamedJobs'
      BY <1>0, <1>h, <1>n, <1>t DEF JobInv, NamedJobs, NeededMove, Exists
    <2>2. OneJobPerBackup'
      BY <1>0, <1>h DEF JobInv, OneJobPerBackup
    <2> QED BY <2>1, <2>2
  <1>u. ASSUME UNCHANGED jobs PROVE Harmless /\ OwnerNamed'
    BY <1>0, <1>u DEF JobInv, NamedJobs, OwnerNamed, Exists
  <1>s. ASSUME NEW j \in Jobs, Shrunk(j),
               jobs[j].name # None => ~manualBackupJobNeeded(jobs[j].name)
        PROVE  Harmless /\ OwnerNamed'
    BY <1>s DEF JobInv, NamedJobs, OwnerNamed, Exists, Shrunk, OnlyJob, SameJob
  <1>f. ASSUME NEW j \in Jobs, jobs[j].name # None, Finished(jobs[j])
        PROVE  ~manualBackupJobNeeded(jobs[j].name)
    BY <1>0, <1>f DEF JobInv, NamedJobs
  \* C keeps what it has observed.
  <1>c. ASSUME UNCHANGED c PROVE Observed'
    <2>1. c.pc = "manual" /\ c.job = None => \A j \in Jobs : ~(Exists(j) /\ jobs[j].labelled)'
      BY <1>0, <1>c, <1>m DEF JobInv, Observed, JobsMove, Exists
    <2>2. c.pc = "apply" /\ c.job = None => c.ann \in Backups /\ bk'[c.ann].phase # "absent"
      BY <1>0, <1>n DEF JobInv, Observed, NeededMove
    <2>3. c.pc = "apply" /\ c.job = None => \A j \in Jobs : jobs'[j].name # c.ann
      BY <1>0, <1>c, <1>m DEF JobInv, Observed, JobsMove
    <2>4. c.job # None => /\ jobs'[c.job].phase # "none"
                          /\ Finished(c.rec) => Finished(jobs'[c.job])
      BY <1>0, <1>m, <1>t DEF JobInv, Observed, JobsMove, Finished
    <2> QED BY <1>c, <2>1, <2>2, <2>3, <2>4 DEF Observed
  <1>d. ASSUME c'.pc \in {"idle", "down"}, c'.job = None PROVE Observed'
    BY <1>d DEF Observed
  <1>p. ASSUME Patching PROVE Observed'
    <2>4. c.job # None => /\ jobs'[c.job].phase # "none"
                          /\ Finished(c.rec) => Finished(jobs'[c.job])
      BY <1>0, <1>m, <1>t DEF JobInv, Observed, JobsMove, Finished
    <2> QED BY <1>p, <2>4 DEF Observed, Patching
  <1>i. ASSUME UNCHANGED w PROVE InHand'
    BY <1>0, <1>i DEF JobInv, InHand
  <1>j. ASSUME w'.pc \notin FinPCs PROVE InHand'
    BY <1>j DEF InHand, FinPCs
  <1>l. ASSUME NEW l \in FinPCs, WentTo(l), w.pc \in FinPCs, l # "unlabel" PROVE InHand'
    BY <1>0, <1>l DEF JobInv, InHand, WentTo
  <1>1. ASSUME NEW b \in Backups, WGet(b)
        PROVE  JobInv'
    <2>1. Harmless /\ OwnerNamed'
      BY <1>0, <1>1, WGetDoes, <1>u
    <2>2. Observed'
      BY <1>0, <1>1, WGetDoes, <1>c
    <2>3. InHand'
      BY <1>0, <1>1, WGetDoes, <1>j DEF Stopped, WentTo, FinPCs
    <2> QED BY <1>h, <2>1, <2>2, <2>3 DEF JobInv
  <1>2. ASSUME NEW b \in Backups, Create(b)
        PROVE  JobInv'
    <2>1. Harmless /\ OwnerNamed'
      BY <1>0, <1>2, CreateDoes, <1>u
    <2>2. Observed'
      BY <1>0, <1>2, CreateDoes, <1>c
    <2>3. InHand'
      BY <1>0, <1>2, CreateDoes, <1>i
    <2> QED BY <1>h, <2>1, <2>2, <2>3 DEF JobInv
  <1>3. ASSUME NEW b \in Backups, Delete(b)
        PROVE  JobInv'
    <2>1. Harmless /\ OwnerNamed'
      BY <1>0, <1>3, DeleteDoes, <1>u
    <2>2. Observed'
      BY <1>0, <1>3, DeleteDoes, <1>c
    <2>3. InHand'
      BY <1>0, <1>3, DeleteDoes, <1>i
    <2> QED BY <1>h, <2>1, <2>2, <2>3 DEF JobInv
  <1>4. CASE WRelease
    <2>1. Harmless /\ OwnerNamed'
      BY <1>0, <1>4, WReleaseDoes, <1>u
    <2>2. Observed'
      BY <1>0, <1>4, WReleaseDoes, <1>c
    <2>3. InHand'
      BY <1>0, <1>4, WReleaseDoes, <1>j DEF InHand, Stopped, WentTo, FinPCs
    <2> QED BY <1>h, <2>1, <2>2, <2>3 DEF JobInv
  <1>5. CASE WAcquire
    <2>1. Harmless /\ OwnerNamed'
      BY <1>0, <1>5, WAcquireDoes, <1>u
    <2>2. Observed'
      BY <1>0, <1>5, WAcquireDoes, <1>c
    <2>3. InHand'
      BY <1>0, <1>5, WAcquireDoes, <1>j DEF Stopped, WentTo, FinPCs
    <2> QED BY <1>h, <2>1, <2>2, <2>3 DEF JobInv
  <1>6. CASE WEnsureFinalizers
    <2>1. Harmless /\ OwnerNamed'
      BY <1>0, <1>6, WEnsureFinalizersDoes, <1>u
    <2>2. Observed'
      BY <1>0, <1>6, WEnsureFinalizersDoes, <1>c
    <2>3. InHand'
      BY <1>0, <1>6, WEnsureFinalizersDoes, <1>j DEF Stopped, WentTo, FinPCs
    <2> QED BY <1>h, <2>1, <2>2, <2>3 DEF JobInv
  <1>7. CASE WReject
    <2>1. Harmless /\ OwnerNamed'
      BY <1>0, <1>7, WRejectDoes, <1>u
    <2>2. Observed'
      BY <1>0, <1>7, WRejectDoes, <1>c
    <2>3. InHand'
      BY <1>0, <1>7, WRejectDoes, <1>j DEF Stopped, WentTo, FinPCs
    <2> QED BY <1>h, <2>1, <2>2, <2>3 DEF JobInv
  <1>8. CASE WNew
    <2>1. Harmless /\ OwnerNamed'
      BY <1>0, <1>8, WNewDoes, <1>u
    <2>2. Observed'
      BY <1>0, <1>8, WNewDoes, <1>c
    <2>3. InHand'
      BY <1>0, <1>8, WNewDoes, <1>j DEF Stopped, WentTo, FinPCs
    <2> QED BY <1>h, <2>1, <2>2, <2>3 DEF JobInv
  <1>9. CASE WStarted
    <2>1. Harmless /\ OwnerNamed'
      BY <1>0, <1>9, WStartedDoes, <1>u
    <2>2. Observed'
      BY <1>0, <1>9, WStartedDoes, <1>c
    <2>3. InHand'
      BY <1>0, <1>9, WStartedDoes, <1>j DEF Stopped, WentTo, FinPCs
    <2> QED BY <1>h, <2>1, <2>2, <2>3 DEF JobInv
  <1>10. CASE WStarting
    <2>1. Harmless /\ OwnerNamed'
      BY <1>0, <1>10, WStartingDoes, <1>u
    <2>2. Observed'
      BY <1>0, <1>10, WStartingDoes, <1>c
    <2>3. InHand'
      BY <1>0, <1>10, WStartingDoes, <1>j DEF Stopped, WentTo, FinPCs
    <2> QED BY <1>h, <2>1, <2>2, <2>3 DEF JobInv
  <1>11. CASE WRunning
    <2>1. Harmless /\ OwnerNamed'
      BY <1>0, <1>11, WRunningDoes, <1>u
    <2>2. Observed'
      BY <1>0, <1>11, WRunningDoes, <1>c
    <2>3. InHand'
      BY <1>11, WRunningDoes DEF InHand, Stopped, FinPCs, RecordInv, JobsRecorded, Awake
    <2> QED BY <1>h, <2>1, <2>2, <2>3 DEF JobInv
  <1>12. CASE WSucceeded
    <2>0. ~manualBackupJobNeeded(wb)
      BY <1>0, <1>12, WSucceededDoes DEF RecordInv, ReadTrue, Awake, manualBackupJobNeeded,
         Terminal
    <2>1. Harmless /\ OwnerNamed'
      BY <1>0, <1>12, WSucceededDoes, <1>u, <1>s, <2>0, FoundOwn DEF Awake
    <2>2. Observed'
      BY <1>0, <1>12, WSucceededDoes, <1>c
    <2>3. InHand'
      BY <1>0, <1>12, WSucceededDoes, <1>j DEF Stopped, WentTo, FinPCs
    <2> QED BY <1>h, <2>1, <2>2, <2>3 DEF JobInv
  <1>13. CASE WNoFinalizer
    <2>1. Harmless /\ OwnerNamed'
      BY <1>0, <1>13, WNoFinalizerDoes, <1>u
    <2>2. Observed'
      BY <1>0, <1>13, WNoFinalizerDoes, <1>c
    <2>3. InHand'
      BY <1>0, <1>13, WNoFinalizerDoes, <1>j, <1>l DEF Stopped, FinPCs
    <2> QED BY <1>h, <2>1, <2>2, <2>3 DEF JobInv
  <1>14. CASE WFinalizeNoCluster
    <2>1. Harmless /\ OwnerNamed'
      BY <1>14, WFinalizeNoClusterDoes, <1>u, <1>s, FoundOwn, NoneNeeded DEF JobInv, Awake,
         FinPCs
    <2>2. Observed'
      BY <1>0, <1>14, WFinalizeNoClusterDoes, <1>c
    <2>3. InHand'
      BY <1>0, <1>14, WFinalizeNoClusterDoes, <1>j, <1>l DEF Stopped, FinPCs
    <2> QED BY <1>h, <2>1, <2>2, <2>3 DEF JobInv
  <1>15. CASE WRecordJob
    <2>1. Harmless /\ OwnerNamed'
      BY <1>0, <1>15, WRecordJobDoes, <1>u
    <2>2. Observed'
      BY <1>0, <1>15, WRecordJobDoes, <1>c
    <2>3. InHand'
      BY <1>0, <1>15, WRecordJobDoes, <1>j DEF Stopped, WentTo, FinPCs
    <2> QED BY <1>h, <2>1, <2>2, <2>3 DEF JobInv
  <1>16. CASE WFinishExit
    <2>1. Harmless /\ OwnerNamed'
      BY <1>16, WFinishExitDoes, <1>u, <1>s, FoundOwn, NoneNeeded DEF JobInv, Awake, FinPCs
    <2>2. Observed'
      BY <1>0, <1>16, WFinishExitDoes, <1>c
    <2>3. InHand'
      BY <1>0, <1>16, WFinishExitDoes, <1>j, <1>l DEF Stopped, FinPCs
    <2> QED BY <1>h, <2>1, <2>2, <2>3 DEF JobInv
  <1>17. CASE WFinishRequest
    <2>1. Harmless /\ OwnerNamed'
      BY <1>0, <1>17, WFinishRequestDoes, <1>u
    <2>2. Observed'
      BY <1>0, <1>17, WFinishRequestDoes, <1>c
    <2>3. InHand'
      BY <1>17, WFinishRequestDoes, FoundJobs DEF JobInv, InHand, Stopped, FinPCs, Awake
    <2> QED BY <1>h, <2>1, <2>2, <2>3 DEF JobInv
  <1>18. CASE WFinishError
    <2>1. Harmless /\ OwnerNamed'
      BY <1>0, <1>18, WFinishErrorDoes, <1>u
    <2>2. Observed'
      BY <1>0, <1>18, WFinishErrorDoes, <1>c
    <2>3. InHand'
      BY <1>0, <1>18, WFinishErrorDoes, <1>j DEF Stopped, WentTo, FinPCs
    <2> QED BY <1>h, <2>1, <2>2, <2>3 DEF JobInv
  <1>19. CASE WUnlabel
    <2>0. w.job \in Jobs => jobs[w.job].name = wb
      BY <1>19, WUnlabelDoes, NoneAssumption DEF JobInv, InHand, RecordInv, JobsRecorded, JobOf,
         Awake
    <2>00. ASSUME Unlabelled(w.job) PROVE Shrunk(w.job)
      BY <2>00 DEF Unlabelled, Shrunk
    <2>1. Harmless /\ OwnerNamed'
      BY <1>19, WUnlabelDoes, <1>u, <1>s, <2>0, <2>00, NoneNeeded DEF JobInv, FinPCs
    <2>2. Observed'
      BY <1>0, <1>19, WUnlabelDoes, <1>c
    <2>3. InHand'
      BY <1>0, <1>19, WUnlabelDoes, <1>j, <1>l DEF Stopped, FinPCs
    <2> QED BY <1>h, <2>1, <2>2, <2>3 DEF JobInv
  <1>20. CASE WClearStatus
    <2>1. Harmless /\ OwnerNamed'
      BY <1>0, <1>20, WClearStatusDoes, <1>u
    <2>2. Observed'
      BY <1>0, <1>20, WClearStatusDoes, <1>c
    <2>3. InHand'
      BY <1>0, <1>20, WClearStatusDoes, <1>j, <1>l DEF Stopped, FinPCs
    <2> QED BY <1>h, <2>1, <2>2, <2>3 DEF JobInv
  <1>21. CASE WDeleteProgress
    <2>1. Harmless /\ OwnerNamed'
      BY <1>0, <1>21, WDeleteProgressDoes, <1>u
    <2>2. Observed'
      BY <1>0, <1>21, WDeleteProgressDoes, <1>c
    <2>3. InHand'
      BY <1>0, <1>21, WDeleteProgressDoes, <1>j DEF Stopped, WentTo, FinPCs
    <2> QED BY <1>h, <2>1, <2>2, <2>3 DEF JobInv
  <1>22. CASE WDropFinalizer
    <2>1. Harmless /\ OwnerNamed'
      BY <1>0, <1>22, WDropFinalizerDoes, <1>u
    <2>2. Observed'
      BY <1>0, <1>22, WDropFinalizerDoes, <1>c
    <2>3. InHand'
      BY <1>0, <1>22, WDropFinalizerDoes, <1>j, <1>l DEF Stopped, FinPCs
    <2> QED BY <1>h, <2>1, <2>2, <2>3 DEF JobInv
  <1>23. CASE WComplete
    <2>1. Harmless /\ OwnerNamed'
      BY <1>0, <1>23, WCompleteDoes, <1>u
    <2>2. Observed'
      BY <1>0, <1>23, WCompleteDoes, <1>c
    <2>3. InHand'
      BY <1>0, <1>23, WCompleteDoes, <1>j DEF Stopped, WentTo, FinPCs
    <2> QED BY <1>h, <2>1, <2>2, <2>3 DEF JobInv
  <1>24. CASE PStart
    <2>1. Harmless /\ OwnerNamed'
      BY <1>0, <1>24, PStartDoes, <1>u
    <2>2. Observed'
      BY <1>0, <1>24, PStartDoes, <1>c
    <2>3. InHand'
      BY <1>0, <1>24, PStartDoes, <1>i
    <2> QED BY <1>h, <2>1, <2>2, <2>3 DEF JobInv
  <1>25. CASE PSync
    <2>1. Harmless /\ OwnerNamed'
      BY <1>0, <1>25, PSyncDoes, <1>u
    <2>2. Observed'
      BY <1>0, <1>25, PSyncDoes, <1>c
    <2>3. InHand'
      BY <1>0, <1>25, PSyncDoes, <1>i
    <2> QED BY <1>h, <2>1, <2>2, <2>3 DEF JobInv
  <1>26. CASE PDelete
    <2>1. Harmless /\ OwnerNamed'
      BY <1>0, <1>26, PDeleteDoes, <1>u
    <2>2. Observed'
      BY <1>0, <1>26, PDeleteDoes, <1>c
    <2>3. InHand'
      BY <1>0, <1>26, PDeleteDoes, <1>i
    <2> QED BY <1>h, <2>1, <2>2, <2>3 DEF JobInv
  <1>27. ASSUME NEW j \in Jobs, reconcileBackupJob(j)
        PROVE  JobInv'
    <2>0. ASSUME NEW b \in Backups, Live(b), bk[b].job = j, OnlyJob(j), jobs'[j].owner = b,
                jobs'[j].name = jobs[j].name, jobs'[j].status = jobs[j].status,
                jobs'[j].phase = jobs[j].phase, jobs'[j].labelled = jobs[j].labelled
          PROVE  Harmless /\ OwnerNamed'
      BY <2>0, NoneAssumption DEF JobInv, NamedJobs, OwnerNamed, Exists, OnlyJob, Finished,
         RecordInv, JobsRecorded, JobOf
    <2>1. Harmless /\ OwnerNamed'
      BY <1>0, <1>27, reconcileBackupJobDoes, <1>u, <1>s, <1>f, <2>0
    <2>2. Observed'
      BY <1>0, <1>27, reconcileBackupJobDoes, <1>c
    <2>3. InHand'
      BY <1>0, <1>27, reconcileBackupJobDoes, <1>i
    <2> QED BY <1>h, <2>1, <2>2, <2>3 DEF JobInv
  <1>28. ASSUME NEW b \in Backups, cleanupOutdatedBackups(b)
        PROVE  JobInv'
    <2>0. jobs[bk[b].job].name = b /\ ~manualBackupJobNeeded(b)
      BY <1>0, <1>28, cleanupOutdatedBackupsDoes, NoneAssumption DEF RecordInv, JobsRecorded,
         JobOf, manualBackupJobNeeded
    <2>1. Harmless /\ OwnerNamed'
      BY <1>0, <1>28, cleanupOutdatedBackupsDoes, <1>u, <1>s, <2>0 DEF Doomed
    <2>2. Observed'
      BY <1>0, <1>28, cleanupOutdatedBackupsDoes, <1>c
    <2>3. InHand'
      BY <1>0, <1>28, cleanupOutdatedBackupsDoes, <1>i
    <2> QED BY <1>h, <2>1, <2>2, <2>3 DEF JobInv
  <1>29. CASE CObserve
    <2>1. Harmless /\ OwnerNamed'
      BY <1>0, <1>29, CObserveDoes, <1>u
    <2>2. Observed'
      BY <1>0, <1>29, CObserveDoes, NoneAssumption DEF Observed, Prompt, Exists
    <2>3. InHand'
      BY <1>0, <1>29, CObserveDoes, <1>i
    <2> QED BY <1>h, <2>1, <2>2, <2>3 DEF JobInv
  <1>30. CASE CHandleDelete
    <2>1. Harmless /\ OwnerNamed'
      BY <1>0, <1>30, CHandleDeleteDoes, <1>u
    <2>2. Observed'
      BY <1>0, <1>30, CHandleDeleteDoes, <1>c
    <2>3. InHand'
      BY <1>0, <1>30, CHandleDeleteDoes, <1>i
    <2> QED BY <1>h, <2>1, <2>2, <2>3 DEF JobInv
  <1>31. CASE CDeleteObsolete
    <2>0. Finished(jobs[c.job])
      BY <1>0, <1>31, CDeleteObsoleteDoes, NoneAssumption DEF JobInv, Observed
    <2>1. Harmless /\ OwnerNamed'
      BY <1>0, <1>31, CDeleteObsoleteDoes, <1>u, <1>s, <1>f, <2>0 DEF Doomed
    <2>2. Observed'
      BY <1>0, <1>31, CDeleteObsoleteDoes, <1>d DEF CStopped
    <2>3. InHand'
      BY <1>0, <1>31, CDeleteObsoleteDoes, <1>i
    <2> QED BY <1>h, <2>1, <2>2, <2>3 DEF JobInv
  <1>32. CASE CNothing
    <2>1. Harmless /\ OwnerNamed'
      BY <1>0, <1>32, CNothingDoes, <1>u
    <2>2. Observed'
      BY <1>0, <1>32, CNothingDoes, <1>d DEF CStopped
    <2>3. InHand'
      BY <1>0, <1>32, CNothingDoes, <1>i
    <2> QED BY <1>h, <2>1, <2>2, <2>3 DEF JobInv
  <1>33. CASE CRequest
    <2>1. Harmless /\ OwnerNamed'
      BY <1>0, <1>33, CRequestDoes, <1>u
    <2>2. Observed'
      BY <1>33, CRequestDoes, NoneAssumption DEF JobInv, Observed, NamedJobs,
         manualBackupJobNeeded, Live
    <2>3. InHand'
      BY <1>0, <1>33, CRequestDoes, <1>i
    <2> QED BY <1>h, <2>1, <2>2, <2>3 DEF JobInv
  <1>34. CASE CCreate
    <2>1. PICK j \in Jobs :
             /\ jobs[j].phase = "none" /\ OnlyJob(j)
             /\ jobs'[j].phase = "live" /\ jobs'[j].name = c.ann
             /\ jobs'[j].status = "running" /\ jobs'[j].owner = None /\ jobs'[j].labelled
      BY <1>0, <1>34, CCreateDoes
    <2>2. c.ann \in Backups /\ bk[c.ann].phase # "absent" /\ \A k \in Jobs : jobs[k].name # c.ann
      BY <1>0, <1>34, CCreateDoes DEF JobInv, Observed
    <2>3. NamedJobs'
      BY <1>n, <1>t, <2>1, <2>2 DEF JobInv, NamedJobs, NeededMove, OnlyJob, Exists, Finished
    <2>4. OwnerNamed'
      BY <1>0, <2>1 DEF JobInv, OwnerNamed, OnlyJob
    <2>5. OneJobPerBackup'
      BY <1>0, <2>1, <2>2 DEF JobInv, OneJobPerBackup, OnlyJob
    <2>6. Observed' /\ InHand'
      BY <1>0, <1>34, CCreateDoes, <1>p, <1>i
    <2> QED BY <2>3, <2>4, <2>5, <2>6 DEF JobInv
  <1>35. CASE CApply
    <2>1. Harmless /\ OwnerNamed'
      BY <1>35, CApplyDoes DEF JobInv, NamedJobs, OwnerNamed, Exists, OnlyJob, SameJob, Finished
    <2>2. Observed'
      BY <1>0, <1>35, CApplyDoes, <1>p
    <2>3. InHand'
      BY <1>0, <1>35, CApplyDoes, <1>i
    <2> QED BY <1>h, <2>1, <2>2, <2>3 DEF JobInv
  <1>36. CASE CPatchStatus
    <2>1. Harmless /\ OwnerNamed'
      BY <1>0, <1>36, CPatchStatusDoes, <1>u
    <2>2. Observed'
      BY <1>0, <1>36, CPatchStatusDoes, <1>d DEF CStopped
    <2>3. InHand'
      BY <1>0, <1>36, CPatchStatusDoes, <1>i
    <2> QED BY <1>h, <2>1, <2>2, <2>3 DEF JobInv
  <1>37. ASSUME NEW j \in Jobs, JobFinish(j)
        PROVE  JobInv'
    <2>0. jobs[j].name # None => ~manualBackupJobNeeded(jobs[j].name)
      BY <1>0, <1>37, JobFinishDoes DEF Prompt, manualBackupJobNeeded
    <2>1. Harmless /\ OwnerNamed'
      BY <1>37, JobFinishDoes, <2>0 DEF JobInv, NamedJobs, OwnerNamed, Exists, OnlyJob
    <2>2. Observed'
      BY <1>0, <1>37, JobFinishDoes, <1>c
    <2>3. InHand'
      BY <1>0, <1>37, JobFinishDoes, <1>i
    <2> QED BY <1>h, <2>1, <2>2, <2>3 DEF JobInv
  <1>38. ASSUME NEW j \in Jobs, JobCollect(j)
        PROVE  JobInv'
    <2>0. jobs[j].name # None => ~manualBackupJobNeeded(jobs[j].name)
      BY <1>0, <1>38, JobCollectDoes, <1>f DEF JobInv, OwnerNamed, manualBackupJobNeeded, Live
    <2>1. Harmless /\ OwnerNamed'
      BY <1>0, <1>38, JobCollectDoes, <1>s, <2>0 DEF Doomed
    <2>2. Observed'
      BY <1>0, <1>38, JobCollectDoes, <1>c
    <2>3. InHand'
      BY <1>0, <1>38, JobCollectDoes, <1>i
    <2> QED BY <1>h, <2>1, <2>2, <2>3 DEF JobInv
  <1>39. ASSUME NEW j \in Jobs, JobLost(j)
        PROVE  JobInv'
    BY <1>0, <1>39, JobLostDoes DEF Prompt
  <1>40. CASE DeleteCluster
    <2>1. Harmless /\ OwnerNamed'
      BY <1>0, <1>40, DeleteClusterDoes, <1>u
    <2>2. Observed'
      BY <1>0, <1>40, DeleteClusterDoes, <1>c
    <2>3. InHand'
      BY <1>0, <1>40, DeleteClusterDoes, <1>i
    <2> QED BY <1>h, <2>1, <2>2, <2>3 DEF JobInv
  <1>41. CASE Crash \/ Restart
    <2>1. Harmless /\ OwnerNamed'
      BY <1>0, <1>41, ResetDoes, <1>u
    <2>2. Observed'
      BY <1>0, <1>41, ResetDoes, <1>d DEF Reset
    <2>3. InHand'
      BY <1>0, <1>41, ResetDoes, <1>j DEF Reset, FinPCs
    <2> QED BY <1>h, <2>1, <2>2, <2>3 DEF JobInv
  <1>42. CASE UNCHANGED vars
    BY <1>c, <1>h, <1>i, <1>u, <1>42 DEF JobInv, vars
  <1> QED
    BY <1>1, <1>2, <1>3, <1>4, <1>5, <1>6, <1>7, <1>8, <1>9, <1>10, <1>11, <1>12, <1>13, <1>14,
       <1>15, <1>16, <1>17, <1>18, <1>19, <1>20, <1>21, <1>22, <1>23, <1>24, <1>25, <1>26, <1>27,
       <1>28, <1>29, <1>30, <1>31, <1>32, <1>33, <1>34, <1>35, <1>36, <1>37, <1>38, <1>39, <1>40,
       <1>41, <1>42 DEF Next, WStep, PStep, CStep



-----------------------------------------------------------------------------
(* The annotations, when backups follow each other in order.               *)

\* Nobody deletes a running backup or rejects one, the cluster stays ready, and
\* no Job is removed behind its finalizer: a backup ends as its Job ends.
Orderly == \A f \in {"delete", "reject", "notReady", "jobLost"} : f \notin Faults

\* The request of b has reached the PostgresCluster.
Began(b) == \/ crunchy.backup = b
            \/ c.pc = "apply" /\ c.ann = b
            \/ \E j \in Jobs : jobs[j].name = b

\* A request in a copy of the annotations is the one in progress.
Copies ==
    /\ crunchy.life = "live"
    /\ ann.backup \in {None, ann.inProgress}
    /\ crunchy.backup \in {None, ann.inProgress}
    /\ crunchy.backup # None => crunchy.inProgress = crunchy.backup
    /\ p.pc = "jobs" => /\ p.ann.backup \in {None, ann.inProgress}
                        /\ p.ann.backup # None => p.ann.inProgress = p.ann.backup

\* Once it has reached the PostgresCluster, the copies follow it: it goes from
\* the PerconaPGCluster first, then from what P has read, then from the copy.
Followed == \A b \in Backups : ann.inProgress = b /\ Began(b) =>
    /\ crunchy.inProgress = b
    /\ ann.backup = b => crunchy.backup = b
    /\ p.pc = "jobs" => /\ p.ann.inProgress = b
                        /\ ann.backup = b => p.ann.backup = b
                        /\ p.ann.backup = b => crunchy.backup = b

\* The backup in progress is there, has its finalizer and holds the lock.
Owned == \A b \in Backups : ann.inProgress = b =>
    /\ Live(b) /\ bk[b].fin /\ ~bk[b].deleting /\ lease = b
    /\ bk[b].state \in {"New", "Starting", "Running"}
    /\ bk[b].state # "Running" => ann.backup = b

\* Only a backup in progress has a Job while its state is New.
NewUnnamed == \A b \in Backups :
    bk[b].phase # "gone" /\ bk[b].state = "New" /\ Began(b) => ann.inProgress = b

\* C and P do not find the Job.
Unlisted(j) == ~(Exists(j) /\ jobs[j].labelled)

\* What the state of a backup says of its Job, the lock and the annotation.
StateTrue == \A b \in Backups : Live(b) =>
    /\ ~bk[b].deleting
    /\ bk[b].state \in {"New", "Starting"} => bk[b].job = None
    /\ bk[b].state = "Starting" => ann.inProgress = b
    /\ bk[b].state \in {"Starting", "Running"} => lease = b
    /\ bk[b].state = "Running" => Exists(bk[b].job) /\ jobs[bk[b].job].keep
    /\ bk[b].state = "Running" /\ ann.inProgress # b => Unlisted(bk[b].job)
    /\ bk[b].state \in Terminal => ~bk[b].fin
    /\ bk[b].state = "Succeeded" => Unlisted(bk[b].job)

Unmade == \A b \in Backups : bk[b].phase = "absent" =>
    bk[b].state = "New" /\ ~bk[b].deleting /\ ~bk[b].fin /\ bk[b].job = None

LabelledKept == \A j \in Jobs : Exists(j) /\ jobs[j].labelled => jobs[j].keep

\* What W has in hand.
Withdrawn == {"unlabel", "clear", "delProgress"}
PlaceTrue == Awake =>
    /\ ~w.pgNil /\ ~w.snap.deleting
    /\ w.snap.state # "Succeeded" => Live(wb)
    /\ w.snap.state = "Succeeded" => Unlisted(w.snap.job)
    /\ Live(wb) /\ w.pc # "complete" => bk[wb].fin = w.snap.fin
    /\ w.pc \in {"ensure", "started"} => w.snap.state \notin Terminal
    /\ w.pc \in {"ensure", "state", "started"} /\ w.snap.state \notin Terminal => lease = wb
    /\ w.pc \in {"state", "started"} /\ w.snap.state \notin Terminal => bk[wb].fin
    /\ w.pc = "started" => ann.inProgress = wb
    /\ w.pc \in FinPCs => w.then # "none" \/ (w.pc = "finalize" /\ ~w.snap.fin)
    /\ w.pc = "unlabel" => w.job = w.snap.job
    /\ w.pc \in Withdrawn => /\ ann.backup # wb /\ crunchy.backup # wb
                             /\ p.pc = "jobs" => p.ann.backup # wb
    /\ w.pc \in {"clear", "delProgress"} => Unlisted(w.snap.job)
    /\ w.pc \in {"dropFin", "complete"} => ann.inProgress # wb
    /\ w.pc = "complete" => ~bk[wb].fin

Ordered == Copies /\ Followed /\ Owned /\ NewUnnamed /\ StateTrue /\ Unmade

OrderInv == pg = "live" => Ordered /\ LabelledKept /\ PlaceTrue

LEMMA OrderInit == Init => OrderInv
  <1> SUFFICES ASSUME Init PROVE Ordered /\ LabelledKept /\ PlaceTrue
    BY DEF OrderInv
  <1>1. Copies /\ Followed /\ Owned
    BY NoneAssumption DEF Init, Copies, Followed, Owned, NoAnnotations, PIdle
  <1>2. NewUnnamed
    BY NoneAssumption DEF Init, NewUnnamed, Began, CIdle, NoJob
  <1>3. StateTrue /\ Unmade /\ LabelledKept /\ PlaceTrue
    BY DEF Init, StateTrue, Unmade, LabelledKept, PlaceTrue, Live, Exists, Unborn, NoJob, WIdle,
       Awake
  <1> QED BY <1>1, <1>2, <1>3 DEF Ordered

-----------------------------------------------------------------------------
(* What most steps leave alone.                                            *)

SameBackup(b) == /\ bk'[b].phase = bk[b].phase /\ bk'[b].state = bk[b].state
                 /\ bk'[b].deleting = bk[b].deleting /\ bk'[b].fin = bk[b].fin
                 /\ bk'[b].job = bk[b].job
SameCrunchy == /\ crunchy'.life = crunchy.life /\ crunchy'.backup = crunchy.backup
               /\ crunchy'.inProgress = crunchy.inProgress
SameSync == p'.pc = "jobs" => p.pc = "jobs" /\ p'.ann = p.ann

\* C has no request that was not there, and the Job of a running backup stays.
NoRequest == c'.pc = "apply" => (c.pc = "apply" /\ c'.ann = c.ann) \/ c'.ann = crunchy.backup
JobsHeld == \A b \in Backups : Live(b) /\ bk[b].state = "Running" =>
                jobs'[bk[b].job].phase = "live" /\ jobs'[bk[b].job].keep

LEMMA BeganStays ==
    ASSUME TypeInv, JobsMove, NoRequest, crunchy'.backup = crunchy.backup,
           NEW b \in Backups, Began(b)'
    PROVE  Began(b)
  BY DEF Began, JobsMove, NoRequest

LEMMA UnlistedStays ==
    ASSUME JobsMove, NEW j \in Jobs, jobs[j].phase # "none", Unlisted(j)
    PROVE  Unlisted(j)'
  BY DEF JobsMove, Unlisted, Exists

\* The annotations and their copies.
LEMMA ChainStays ==
    ASSUME TypeInv, JobsMove, NoRequest, SameCrunchy, SameSync, UNCHANGED ann,
           Copies, Followed
    PROVE  Copies' /\ Followed'
  <1>1. Copies'
    BY DEF Copies, SameCrunchy, SameSync
  <1>2. Followed'
    BY BeganStays DEF Followed, SameCrunchy, SameSync
  <1> QED BY <1>1, <1>2

LEMMA OrderedStays ==
    ASSUME TypeInv, RecordInv, JobsMove, NoRequest, SameCrunchy, SameSync, JobsHeld,
           UNCHANGED <<ann, lease>>, \A b \in Backups : SameBackup(b), Ordered
    PROVE  Ordered'
  <1>1. Copies' /\ Followed'
    BY ChainStays DEF Ordered
  <1>2. Owned'
    BY DEF Ordered, Owned, SameBackup, Live
  <1>3. NewUnnamed'
    BY BeganStays DEF Ordered, NewUnnamed, SameBackup, SameCrunchy
  <1>4. StateTrue'
    <2> SUFFICES ASSUME NEW b \in Backups, Live(b) PROVE
            /\ bk[b].state = "Running" => (Exists(bk[b].job) /\ jobs[bk[b].job].keep)'
            /\ (bk[b].state = "Running" /\ ann.inProgress # b => Unlisted(bk[b].job))'
            /\ (bk[b].state = "Succeeded" => Unlisted(bk[b].job))'
      BY DEF Ordered, StateTrue, SameBackup, Live
    <2>1. JobOf(b, bk[b]) /\ (bk[b].state \in {"Running", "Succeeded"} => bk[b].job # None)
      BY DEF RecordInv, JobsRecorded, SucceededByOwnJob
    <2>2. SameBackup(b)
      OBVIOUS
    <2>3. bk[b].state = "Running" => (Exists(bk[b].job) /\ jobs[bk[b].job].keep)'
      BY <2>2 DEF JobsHeld, Exists, SameBackup
    <2>4. ASSUME bk[b].state \in {"Running", "Succeeded"}, Unlisted(bk[b].job)
          PROVE  Unlisted(bk[b].job)'
      <3>1. PICK j \in Jobs : j = bk[b].job /\ jobs[j].phase # "none"
        BY <2>1, <2>4 DEF JobOf
      <3>2. Unlisted(j)'
        BY <2>4, <3>1, UnlistedStays
      <3>3. (bk[b].job = j)'
        BY <2>2, <3>1 DEF SameBackup
      <3> QED BY <3>2, <3>3 DEF Unlisted, Exists
    <2> QED BY <2>2, <2>3, <2>4 DEF Ordered, StateTrue, SameBackup
  <1>5. Unmade'
    BY DEF Ordered, Unmade, SameBackup
  <1> QED BY <1>1, <1>2, <1>3, <1>4, <1>5 DEF Ordered


\* What W has in hand stays true while others step.
LEMMA PlaceStays ==
    ASSUME TypeInv, RecordInv, JobsMove, UNCHANGED <<w, lease>>,
           ann'.inProgress = ann.inProgress, Awake => SameBackup(wb),
           Awake /\ w.pc \in Withdrawn =>
               ann'.backup # wb /\ crunchy'.backup # wb /\ (p'.pc = "jobs" => p'.ann.backup # wb),
           PlaceTrue
    PROVE  PlaceTrue'
  <1> SUFFICES ASSUME Awake PROVE PlaceTrue'
    BY DEF PlaceTrue, Awake
  <1>1. ASSUME w.snap.job # None, Unlisted(w.snap.job) PROVE Unlisted(w.snap.job)'
    <2>1. PICK j \in Jobs : j = w.snap.job /\ jobs[j].phase # "none"
      BY <1>1 DEF RecordInv, JobsRecorded, JobOf
    <2>2. Unlisted(j)'
      BY <1>1, <2>1, UnlistedStays
    <2> QED BY <2>1, <2>2 DEF Unlisted, Exists
  <1>2. w.snap.state = "Succeeded" \/ w.pc \in {"clear", "delProgress"} => w.snap.job # None
    BY DEF RecordInv, JobsRecorded, PlaceTrue, TypeInv, Shape, FinPCs
  <1>3. (w.snap.state = "Succeeded" => Unlisted(w.snap.job))'
    BY <1>1, <1>2 DEF PlaceTrue
  <1>4. (w.pc \in {"clear", "delProgress"} => Unlisted(w.snap.job))'
    BY <1>1, <1>2 DEF PlaceTrue
  <1> QED BY <1>3, <1>4 DEF PlaceTrue, SameBackup, wb, Live, Awake

\* The PerconaPGCluster never comes back.
LEMMA ClusterStays == TypeInv /\ [Next]_vars /\ pg' = "live" => pg = "live"
  <1> SUFFICES ASSUME TypeInv, [Next]_vars, pg' = "live" PROVE pg = "live"
    OBVIOUS
  <1>1. PDelete => pg' # "live"
    BY PDeleteDoes
  <1>2. DeleteCluster => pg' # "live"
    BY DEF DeleteCluster
  <1>3. ASSUME NEW b \in Backups, WGet(b) \/ Create(b) \/ Delete(b) \/ cleanupOutdatedBackups(b)
        PROVE  pg' = pg
    BY <1>3 DEF WGet, Create, Delete, cleanupOutdatedBackups
  <1>4. WStep => pg' = pg
    BY DEF WStep, WRelease, WAcquire, WEnsureFinalizers, WReject, WNew, WStarted, WStarting,
           WRunning, WSucceeded, WNoFinalizer, WFinalizeNoCluster, WRecordJob, WFinishExit,
           WFinishRequest, WFinishError, WUnlabel, WClearStatus, WDeleteProgress,
           WDropFinalizer, WComplete
  <1>5. ASSUME NEW j \in Jobs,
               reconcileBackupJob(j) \/ JobFinish(j) \/ JobCollect(j) \/ JobLost(j)
        PROVE  pg' = pg
    BY <1>5 DEF reconcileBackupJob, JobFinish, JobCollect, JobLost
  <1>6. PStart \/ PSync \/ CObserve \/ CStep \/ Crash \/ Restart => pg' = pg
    BY DEF PStart, PSync, CObserve, CStep, CHandleDelete, CDeleteObsolete, CNothing, CRequest,
           CCreate, CApply, CPatchStatus, Crash, Restart
  <1> QED BY <1>1, <1>2, <1>3, <1>4, <1>5, <1>6 DEF Next, PStep, vars

-----------------------------------------------------------------------------
(* The order is kept, action by action.                                    *)

InOrder == Ordered /\ LabelledKept /\ PlaceTrue
Before == Orderly /\ TypeInv /\ RecordInv /\ JobsMove /\ pg = "live" /\ InOrder

LEMMA HeldSame ==
    ASSUME Before, UNCHANGED jobs PROVE JobsHeld /\ LabelledKept'
  BY DEF Before, InOrder, Ordered, StateTrue, JobsHeld, LabelledKept, Exists

LEMMA HeldDoomed ==
    ASSUME Before, NEW j \in Jobs, Doomed(j) PROVE JobsHeld /\ LabelledKept'
  <1>1. \A k \in Jobs \ {j} : jobs'[k] = jobs[k]
    BY DEF Doomed, Shrunk, OnlyJob
  <1>2. \A b \in Backups : Live(b) /\ bk[b].state = "Running" =>
            bk[b].job \in Jobs /\ Exists(bk[b].job) /\ jobs[bk[b].job].keep
    BY DEF Before, RecordInv, JobsRecorded, JobOf, InOrder, Ordered, StateTrue
  <1>3. JobsHeld
    BY <1>1, <1>2 DEF JobsHeld, Doomed, Exists
  <1>4. LabelledKept'
    BY <1>1 DEF Before, InOrder, LabelledKept, Doomed, Shrunk, Exists
  <1> QED BY <1>3, <1>4

LEMMA KeptAll ==
    ASSUME NEW b \in Backups, Kept(b) PROVE \A x \in Backups : SameBackup(x)
  BY DEF Kept, Wrote, OnlyBackup, SameBackup

LEMMA Stops == ASSUME Stopped \/ w'.pc \in {"idle", "down"} PROVE PlaceTrue'
  BY DEF Stopped, PlaceTrue, Awake

\* A step of W that writes no annotation and nothing in a backup but its condition.
LEMMA WFrame ==
    ASSUME Before, \A b \in Backups : SameBackup(b), UNCHANGED <<jobs, ann, lease, p, c>>,
           SameCrunchy
    PROVE  Ordered' /\ LabelledKept'
  <1>1. JobsHeld /\ LabelledKept'
    BY HeldSame
  <1>2. NoRequest /\ SameSync
    BY DEF NoRequest, SameSync
  <1> QED BY <1>1, <1>2, OrderedStays DEF Before, InOrder

\* A step of the others that leaves the annotations and the backups.
LEMMA OtherFrame ==
    ASSUME Before, UNCHANGED <<bk, ann, lease, w>>, SameCrunchy, SameSync, NoRequest, JobsHeld
    PROVE  Ordered' /\ PlaceTrue'
  <1>1. \A b \in Backups : SameBackup(b)
    BY DEF SameBackup
  <1>2. Ordered'
    BY <1>1, OrderedStays DEF Before, InOrder
  <1>3. Awake => wb \in Backups
    BY DEF Before, TypeInv, Shape
  <1>4. Awake /\ w.pc \in Withdrawn =>
            ann'.backup # wb /\ crunchy'.backup # wb /\ (p'.pc = "jobs" => p'.ann.backup # wb)
    BY DEF Before, InOrder, PlaceTrue, SameCrunchy, SameSync
  <1>5. PlaceTrue'
    BY <1>1, <1>3, <1>4, PlaceStays DEF Before, InOrder
  <1> QED BY <1>2, <1>5

\* What the finalizer knows of its backup.
LEMMA Finishes ==
    ASSUME Before, w.pc \in FinPCs, w.pc = "finalize" => w.snap.fin
    PROVE  /\ wb \in Backups /\ Live(wb) /\ bk[wb].state = "Running" /\ ~bk[wb].deleting
           /\ w.snap.state = "Running" /\ w.snap.job \in Jobs /\ bk[wb].job = w.snap.job
           /\ Exists(w.snap.job) /\ jobs[w.snap.job].name = wb
           /\ lease = wb /\ Began(wb) /\ w.then # "none" /\ w.then \in Terminal
  <1>1. Awake /\ wb \in Backups /\ w.then # "none" /\ w.snap.state = "Running"
    BY DEF Before, TypeInv, Shape, InOrder, PlaceTrue, FinPCs, Awake
  <1>2. w.then \in Terminal
    BY <1>1, Types DEF Before, TypeInv, Worker
  <1>3. Live(wb) /\ ~w.snap.deleting
    BY <1>1 DEF Before, InOrder, PlaceTrue
  <1>4. bk[wb].state = "Running" /\ bk[wb].job = w.snap.job
    BY <1>1, <1>3 DEF Before, RecordInv, ReadTrue
  <1>5. ~bk[wb].deleting /\ lease = wb /\ Exists(w.snap.job)
    BY <1>1, <1>3, <1>4 DEF Before, InOrder, Ordered, StateTrue
  <1>6. w.snap.job \in Jobs /\ jobs[w.snap.job].name = wb
    BY <1>1 DEF Before, RecordInv, JobsRecorded, JobOf
  <1>7. Began(wb)
    BY <1>6 DEF Began
  <1> QED BY <1>1, <1>2, <1>3, <1>4, <1>5, <1>6, <1>7

-----------------------------------------------------------------------------
(* W.                                                                      *)

LEMMA WGetOrder == ASSUME Before, NEW b \in Backups, WGet(b) PROVE InOrder'
  <1>0. TypeInv /\ pg = "live"
    BY DEF Before
  <1>1. Kept(b) /\ Live(b)
    BY <1>0, WGetDoes DEF Kept, GotState
  <1>2. Ordered' /\ LabelledKept'
    BY <1>0, <1>1, KeptAll, WFrame, WGetDoes DEF SameCrunchy
  <1>3. /\ w'.pc = "lease" /\ w'.b = b /\ w'.snap.state = bk[b].state
        /\ w'.snap.fin = bk[b].fin /\ w'.snap.job = bk[b].job
        /\ w'.snap.deleting = bk[b].deleting /\ ~w'.pgNil /\ w'.then = "none"
        /\ UNCHANGED jobs
    BY <1>0, WGetDoes DEF GotState
  <1>4. /\ ~bk[b].deleting /\ (bk[b].state = "Succeeded" => Unlisted(bk[b].job))
    BY <1>1 DEF Before, InOrder, Ordered, StateTrue
  <1>5. Live(b)' /\ bk'[b].fin = bk[b].fin
    BY <1>1 DEF Kept, Wrote, Live
  <1>6. (w.snap.state = "Succeeded" => Unlisted(w.snap.job))'
    BY <1>3, <1>4 DEF Unlisted, Exists
  <1>7. PlaceTrue'
    BY <1>3, <1>4, <1>5, <1>6 DEF PlaceTrue, wb, FinPCs, Withdrawn
  <1> QED BY <1>2, <1>7 DEF InOrder

LEMMA WReleaseOrder == ASSUME Before, WRelease PROVE InOrder'
  <1>0. TypeInv /\ w.pc = "lease" /\ Awake /\ wb \in Backups
    BY WReleaseDoes DEF Before, TypeInv, Shape, Awake
  <1>1. \A b \in Backups : SameBackup(b)
    BY <1>0, KeptAll, WReleaseDoes
  <1>2. ~w.snap.deleting /\ w.snap.state \in Terminal
    BY <1>0, WReleaseDoes DEF Before, InOrder, PlaceTrue
  <1>3. /\ UNCHANGED <<jobs, ann, crunchy, p, c>>
        /\ lease' = lease \/ (lease' = None /\ lease \in {None, wb})
    BY <1>0, WReleaseDoes
  <1>4. JobsHeld /\ LabelledKept' /\ NoRequest /\ SameSync /\ SameCrunchy
    BY <1>3, HeldSame DEF NoRequest, SameSync, SameCrunchy
  <1>5. Live(wb) => bk[wb].state \in Terminal
    BY <1>0, <1>2 DEF Before, RecordInv, ReadTrue
  <1>6. Copies' /\ Followed'
    BY <1>3, <1>4, ChainStays DEF Before, InOrder, Ordered
  <1>7. Owned'
    BY <1>1, <1>3, <1>5, NoneAssumption DEF Before, InOrder, Ordered, Owned, SameBackup, Live,
       Terminal
  <1>8. NewUnnamed' /\ Unmade'
    BY <1>1, <1>3 DEF Before, InOrder, Ordered, NewUnnamed, Unmade, SameBackup, Began
  <1>9. StateTrue'
    BY <1>1, <1>3, <1>5, NoneAssumption DEF Before, InOrder, Ordered, StateTrue, SameBackup,
       Live,
       Terminal, Unlisted, Exists
  <1>10. PlaceTrue'
    <2>1. SameBackup(wb)
      BY <1>0, <1>1
    <2>2. w.then = "none"
      BY <1>0 DEF TypeInv, Shape, FinPCs
    <2>3. CASE Stopped
      BY <2>3, Stops
    <2>4. CASE WentTo("finalize") /\ w.snap.state = "Failed"
      BY <1>0, <1>2, <1>3, <1>5, <2>1, <2>2, <2>4
         DEF Before, InOrder, Ordered, StateTrue, PlaceTrue, WentTo, wb, SameBackup, Live, Awake,
             FinPCs, Withdrawn, Terminal
    <2>5. CASE WentTo("state") /\ w.snap.state = "Succeeded"
      BY <1>0, <1>2, <1>3, <2>1, <2>5
         DEF Before, InOrder, PlaceTrue, WentTo, wb, SameBackup, Live, Awake,
             FinPCs, Withdrawn, Terminal, Unlisted, Exists
    <2> QED BY <1>0, <1>2, <2>3, <2>4, <2>5, WReleaseDoes
  <1> QED BY <1>4, <1>6, <1>7, <1>8, <1>9, <1>10 DEF InOrder, Ordered

LEMMA WAcquireOrder == ASSUME Before, WAcquire PROVE InOrder'
  <1>0. TypeInv /\ w.pc = "lease" /\ Awake /\ wb \in Backups
    BY WAcquireDoes DEF Before, TypeInv, Shape, Awake
  <1>1. \A b \in Backups : SameBackup(b)
    BY <1>0, KeptAll, WAcquireDoes
  <1>2. ~w.snap.deleting /\ w.snap.state \notin Terminal
    BY <1>0, WAcquireDoes
  <1>3. /\ UNCHANGED <<jobs, ann, crunchy, p, c>>
        /\ lease' = lease \/ (lease' = wb /\ (lease \notin {None, wb} => Stale(lease)))
    BY <1>0, WAcquireDoes DEF Obtainable
  <1>4. JobsHeld /\ LabelledKept' /\ NoRequest /\ SameSync /\ SameCrunchy
    BY <1>3, HeldSame DEF NoRequest, SameSync, SameCrunchy
  <1>6. Copies' /\ Followed'
    BY <1>3, <1>4, ChainStays DEF Before, InOrder, Ordered
  <1>7. Owned'
    BY <1>1, <1>3, NoneAssumption DEF Before, InOrder, Ordered, Owned, SameBackup, Live,
       Terminal, Stale
  <1>8. NewUnnamed' /\ Unmade'
    BY <1>1, <1>3 DEF Before, InOrder, Ordered, NewUnnamed, Unmade, SameBackup, Began
  <1>9. StateTrue'
    BY <1>1, <1>3, NoneAssumption DEF Before, InOrder, Ordered, StateTrue, SameBackup, Live,
       Terminal, Stale, Unlisted, Exists
  <1>10. PlaceTrue'
    <2>1. SameBackup(wb)
      BY <1>0, <1>1
    <2>2. CASE Stopped
      BY <2>2, Stops
    <2>3. CASE WentTo("ensure") /\ lease' = wb
      BY <1>0, <1>2, <1>3, <2>1, <2>3
         DEF Before, InOrder, PlaceTrue, WentTo, wb, SameBackup, Live, Awake,
             FinPCs, Withdrawn, Terminal
    <2> QED BY <1>0, <2>2, <2>3, WAcquireDoes
  <1> QED BY <1>4, <1>6, <1>7, <1>8, <1>9, <1>10 DEF InOrder, Ordered

LEMMA WEnsureFinalizersOrder == ASSUME Before, WEnsureFinalizers PROVE InOrder'
  <1>0. TypeInv /\ w.pc = "ensure" /\ Awake /\ wb \in Backups
    BY WEnsureFinalizersDoes DEF Before, TypeInv, Shape, Awake
  <1>1. UNCHANGED <<jobs, ann, crunchy, lease, p, c>>
    BY <1>0, WEnsureFinalizersDoes
  <1>2. JobsHeld /\ LabelledKept' /\ NoRequest /\ SameSync /\ SameCrunchy
    BY <1>1, HeldSame DEF NoRequest, SameSync, SameCrunchy
  <1>3. CASE Kept(wb) /\ Stopped
    BY <1>0, <1>1, <1>2, <1>3, KeptAll, WFrame, Stops DEF InOrder
  <1>4. CASE /\ Live(wb) /\ Wrote(wb, bk[wb].state, TRUE, bk[wb].job)
             /\ w'.pc = "state" /\ w'.b = w.b /\ w'.snap.state = w.snap.state
             /\ w'.snap.job = w.snap.job /\ w'.snap.deleting = w.snap.deleting
             /\ w'.snap.fin /\ w'.pgNil = w.pgNil
    <2>1. \A b \in Backups :
             /\ bk'[b].phase = bk[b].phase /\ bk'[b].state = bk[b].state
             /\ bk'[b].deleting = bk[b].deleting /\ bk'[b].job = bk[b].job
             /\ b = wb => bk'[b].fin
             /\ b # wb => bk'[b].fin = bk[b].fin
      BY <1>4 DEF Wrote, OnlyBackup
    <2>2. bk[wb].state \notin Terminal
      BY <1>0, <1>4 DEF Before, InOrder, PlaceTrue, RecordInv, ReadTrue
    <2>3. Copies' /\ Followed'
      BY <1>1, <1>2, ChainStays DEF Before, InOrder, Ordered
    <2>4. Owned' /\ NewUnnamed' /\ Unmade'
      BY <1>1, <1>4, <2>1 DEF Before, InOrder, Ordered, Owned, NewUnnamed, Unmade, Live, Began
    <2>5. StateTrue'
      BY <1>1, <2>1, <2>2 DEF Before, InOrder, Ordered, StateTrue, Live, Unlisted, Exists
    <2>6. PlaceTrue'
      BY <1>0, <1>1, <1>4, <2>1 DEF Before, InOrder, PlaceTrue, wb, Live, Awake, FinPCs,
         Withdrawn,
         Terminal
    <2> QED BY <1>2, <2>3, <2>4, <2>5, <2>6 DEF InOrder, Ordered
  <1> QED BY <1>0, <1>3, <1>4, WEnsureFinalizersDoes

LEMMA WNewOrder == ASSUME Before, WNew PROVE InOrder'
  <1>0. TypeInv /\ w.pc = "state" /\ w.snap.state = "New" /\ Awake /\ wb \in Backups
    BY WNewDoes DEF Before, TypeInv, Shape, Awake
  <1>1. UNCHANGED <<bk, jobs, crunchy, lease, p, c>>
    BY <1>0, WNewDoes
  <1>2. JobsHeld /\ LabelledKept' /\ NoRequest /\ SameSync /\ SameCrunchy
        /\ \A b \in Backups : SameBackup(b)
    BY <1>1, HeldSame DEF NoRequest, SameSync, SameCrunchy, SameBackup
  <1>3. Live(wb) /\ bk[wb].fin /\ ~w.snap.deleting /\ lease = wb
    BY <1>0 DEF Before, InOrder, PlaceTrue, Terminal
  <1>4. bk[wb].state = "New"
    BY <1>0, <1>3 DEF Before, RecordInv, ReadTrue
  <1>5. Began(wb) => ann.inProgress = wb
    BY <1>0, <1>3, <1>4 DEF Before, InOrder, Ordered, NewUnnamed, Live
  <1>6. ~bk[wb].deleting
    BY <1>0, <1>3 DEF Before, InOrder, Ordered, StateTrue
  <1>7. ASSUME WentTo("started"), ann'.inProgress = wb PROVE PlaceTrue'
    BY <1>0, <1>1, <1>3, <1>7
       DEF Before, InOrder, PlaceTrue, WentTo, wb, Live, Awake, FinPCs, Withdrawn, Terminal
  <1>8. CASE Stopped /\ ann' = ann
    BY <1>1, <1>2, <1>8, WFrame, Stops DEF InOrder
  <1>9. CASE WentTo("started") /\ ann' = ann /\ findBackupJob # {}
    <2>1. ann.inProgress = wb
      BY <1>0, <1>5, <1>9, FoundOwn DEF Before, Began
    <2> QED BY <1>1, <1>2, <1>7, <1>9, <2>1, WFrame DEF InOrder
  <1>10. CASE /\ WentTo("started") /\ ann' \in Annotations /\ ann.inProgress \in {None, wb}
              /\ ann'.backup = wb /\ ann'.inProgress = wb
    <2>1. Began(wb) => ann.backup = wb
      BY <1>0, <1>4, <1>5 DEF Before, InOrder, Ordered, Owned
    <2>2. Copies'
      BY <1>1, <1>10, NoneAssumption DEF Before, InOrder, Ordered, Copies
    <2>3. Followed'
      BY <1>1, <1>5, <1>10, <2>1 DEF Before, InOrder, Ordered, Followed, Began
    <2>4. Owned'
      BY <1>0, <1>1, <1>3, <1>4, <1>6, <1>10 DEF Owned, Live
    <2>5. NewUnnamed' /\ Unmade'
      BY <1>1, <1>10, NoneAssumption DEF Before, InOrder, Ordered, NewUnnamed, Unmade, Began
    <2>6. StateTrue'
      BY <1>1, <1>4, <1>10, NoneAssumption
         DEF Before, InOrder, Ordered, StateTrue, Live, Unlisted, Exists
    <2> QED BY <1>2, <1>7, <1>10, <2>2, <2>3, <2>4, <2>5, <2>6 DEF InOrder, Ordered
  <1> QED BY <1>0, <1>8, <1>9, <1>10, WNewDoes

LEMMA WStartedOrder == ASSUME Before, WStarted PROVE InOrder'
  <1>0. TypeInv /\ w.pc = "started" /\ w.snap.state = "New" /\ Awake /\ wb \in Backups
    BY WStartedDoes DEF Before, TypeInv, Shape, Awake
  <1>1. UNCHANGED <<jobs, ann, crunchy, lease, p, c>> /\ Stopped
    BY <1>0, WStartedDoes
  <1>2. JobsHeld /\ LabelledKept' /\ NoRequest /\ SameSync /\ SameCrunchy
    BY <1>1, HeldSame DEF NoRequest, SameSync, SameCrunchy
  <1>3. Live(wb) /\ bk[wb].fin /\ lease = wb /\ ann.inProgress = wb
    BY <1>0 DEF Before, InOrder, PlaceTrue, Terminal
  <1>4. bk[wb].state = "New"
    BY <1>0, <1>3 DEF Before, RecordInv, ReadTrue
  <1>5. \A b \in Backups :
           /\ bk'[b].phase = bk[b].phase /\ bk'[b].fin = bk[b].fin
           /\ bk'[b].deleting = bk[b].deleting /\ bk'[b].job = bk[b].job
           /\ b = wb => bk'[b].state = "Starting"
           /\ b # wb => bk'[b].state = bk[b].state
    BY <1>0, <1>3, WStartedDoes DEF Before, Orderly, WroteState, Wrote, OnlyBackup
  <1>6. Copies' /\ Followed'
    BY <1>1, <1>2, ChainStays DEF Before, InOrder, Ordered
  <1>7. Owned' /\ NewUnnamed' /\ Unmade'
    BY <1>1, <1>3, <1>4, <1>5 DEF Before, InOrder, Ordered, Owned, NewUnnamed, Unmade, Live,
       Began
  <1>8. StateTrue'
    BY <1>1, <1>3, <1>4, <1>5 DEF Before, InOrder, Ordered, StateTrue, Live, Terminal, Unlisted,
       Exists
  <1> QED BY <1>1, <1>2, <1>6, <1>7, <1>8, Stops DEF InOrder, Ordered

LEMMA WStartingOrder == ASSUME Before, WStarting PROVE InOrder'
  <1>0. TypeInv /\ w.pc = "state" /\ w.snap.state = "Starting" /\ Awake /\ wb \in Backups
    BY WStartingDoes DEF Before, TypeInv, Shape, Awake
  <1>1. UNCHANGED <<jobs, ann, crunchy, lease, p, c>> /\ Stopped
    BY <1>0, WStartingDoes
  <1>2. JobsHeld /\ LabelledKept' /\ NoRequest /\ SameSync /\ SameCrunchy
    BY <1>1, HeldSame DEF NoRequest, SameSync, SameCrunchy
  <1>3. CASE Kept(wb)
    BY <1>0, <1>1, <1>2, <1>3, KeptAll, WFrame, Stops DEF InOrder
  <1>4. ASSUME NEW j \in findBackupJob, Live(wb), Wrote(wb, "Running", bk[wb].fin, j)
        PROVE  InOrder'
    <2>1. bk[wb].state = "Starting" /\ bk[wb].job = w.snap.job
      BY <1>0, <1>4 DEF Before, RecordInv, ReadTrue
    <2>2. w.snap.job = None /\ ann.inProgress = wb /\ lease = wb
      BY <1>0, <1>4, <2>1 DEF Before, InOrder, Ordered, StateTrue
    <2>3. j \in Jobs /\ Exists(j) /\ jobs[j].keep
      BY <1>0, <2>2, FoundJobs DEF Before, InOrder, LabelledKept
    <2>4. \A b \in Backups :
             /\ bk'[b].phase = bk[b].phase /\ bk'[b].fin = bk[b].fin
             /\ bk'[b].deleting = bk[b].deleting
             /\ b = wb => bk'[b].state = "Running" /\ bk'[b].job = j
             /\ b # wb => bk'[b].state = bk[b].state /\ bk'[b].job = bk[b].job
      BY <1>4 DEF Wrote, OnlyBackup
    <2>5. Copies' /\ Followed'
      BY <1>1, <1>2, ChainStays DEF Before, InOrder, Ordered
    <2>6. Owned' /\ NewUnnamed'
      BY <1>1, <2>4 DEF Before, InOrder, Ordered, Owned, NewUnnamed, Live, Began
    <2>7. Unmade'
      BY <1>4, <2>4 DEF Before, InOrder, Ordered, Unmade, Live
    <2>8. StateTrue'
      BY <1>1, <2>2, <2>3, <2>4 DEF Before, InOrder, Ordered, StateTrue, Live, Terminal,
         Unlisted, Exists
    <2> QED BY <1>1, <1>2, <2>5, <2>6, <2>7, <2>8, Stops DEF InOrder, Ordered
  <1> QED BY <1>0, <1>3, <1>4, WStartingDoes DEF Before, Orderly

LEMMA WRunningOrder == ASSUME Before, WRunning PROVE InOrder'
  <1>0. TypeInv /\ w.pc = "state" /\ w.snap.state = "Running" /\ Awake /\ wb \in Backups
    BY WRunningDoes DEF Before, TypeInv, Shape, Awake
  <1>1. UNCHANGED <<jobs, ann, crunchy, lease, p, c>>
    BY <1>0, WRunningDoes
  <1>2. Live(wb)
    BY <1>0 DEF Before, InOrder, PlaceTrue
  <1>3. Exists(w.snap.job)
    BY <1>0, <1>2 DEF Before, RecordInv, ReadTrue, InOrder, Ordered, StateTrue
  <1>4. Kept(wb)
    BY <1>0, <1>3, WRunningDoes
  <1>5. Ordered' /\ LabelledKept'
    BY <1>0, <1>1, <1>4, KeptAll, WFrame DEF SameCrunchy
  <1>6. CASE Stopped
    BY <1>5, <1>6, Stops DEF InOrder
  <1>7. CASE /\ w'.pc = "finalize" /\ w'.b = w.b /\ w'.snap = w.snap
             /\ w'.pgNil = w.pgNil /\ w'.then \in Terminal
    <2>1. PlaceTrue'
      BY <1>0, <1>1, <1>4, <1>7
         DEF Before, InOrder, PlaceTrue, wb, Kept, Wrote, Live, Awake, FinPCs, Withdrawn, Terminal
    <2> QED BY <1>5, <2>1 DEF InOrder
  <1> QED BY <1>0, <1>3, <1>6, <1>7, WRunningDoes

LEMMA WSucceededOrder == ASSUME Before, WSucceeded PROVE InOrder'
  <1>0. TypeInv /\ w.pc = "state" /\ w.snap.state = "Succeeded" /\ Awake /\ wb \in Backups
    BY WSucceededDoes DEF Before, TypeInv, Shape, Awake
  <1>1. UNCHANGED <<bk, ann, crunchy, lease, p, c>> /\ Stopped
    BY <1>0, WSucceededDoes
  <1>2. NoRequest /\ SameSync /\ SameCrunchy /\ \A b \in Backups : SameBackup(b)
    BY <1>1 DEF NoRequest, SameSync, SameCrunchy, SameBackup
  <1>3. JobsHeld /\ LabelledKept'
    <2>1. CASE UNCHANGED jobs
      BY <2>1, HeldSame
    <2>2. ASSUME NEW j \in findBackupJob, j \in Jobs, Shrunk(j)
          PROVE  JobsHeld /\ LabelledKept'
      <3>1. j = w.snap.job /\ jobs[j].name = wb /\ Unlisted(j)
        BY <1>0, FoundJobs, FoundOwn DEF Before, RecordInv, JobsRecorded, InOrder, PlaceTrue
      <3>2. \A b \in Backups : Live(b) /\ bk[b].state = "Running" =>
               /\ bk[b].job \in Jobs /\ bk[b].job # j
               /\ Exists(bk[b].job) /\ jobs[bk[b].job].keep
        BY <1>0, <3>1 DEF Before, RecordInv, ReadTrue, JobsRecorded, JobOf, InOrder, Ordered,
           StateTrue
      <3>3. JobsHeld
        BY <2>2, <3>2 DEF JobsHeld, Shrunk, OnlyJob, Exists
      <3>4. LabelledKept'
        BY <2>2, <3>1 DEF Before, InOrder, LabelledKept, Shrunk, OnlyJob, Unlisted, Exists
      <3> QED BY <3>3, <3>4
    <2> QED BY <1>0, <2>1, <2>2, WSucceededDoes
  <1>4. Ordered'
    BY <1>1, <1>2, <1>3, OrderedStays DEF Before, InOrder
  <1> QED BY <1>1, <1>3, <1>4, Stops DEF InOrder
-----------------------------------------------------------------------------
(* W, continued: the finalizer.                                            *)

LEMMA WNoFinalizerOrder == ASSUME Before, WNoFinalizer PROVE InOrder'
  <1>0. TypeInv /\ w.pc = "finalize" /\ ~w.snap.fin /\ Awake /\ wb \in Backups
    BY WNoFinalizerDoes DEF Before, TypeInv, Shape, Awake
  <1>1. UNCHANGED <<bk, jobs, ann, crunchy, lease, p, c>>
    BY <1>0, WNoFinalizerDoes
  <1>2. Ordered' /\ LabelledKept'
    BY <1>1, WFrame DEF SameCrunchy, SameBackup
  <1>3. CASE Stopped
    BY <1>2, <1>3, Stops DEF InOrder
  <1>4. CASE w.then # "none" /\ WentTo("complete")
    <2>1. w.snap.state = "Running" /\ Live(wb) /\ ~bk[wb].fin
      BY <1>0, <1>4 DEF TypeInv, Shape, Before, InOrder, PlaceTrue
    <2>2. ann.inProgress # wb
      BY <1>0, <2>1 DEF Before, InOrder, Ordered, Owned
    <2>3. PlaceTrue'
      BY <1>0, <1>1, <1>4, <2>1, <2>2
         DEF Before, InOrder, PlaceTrue, WentTo, wb, Live, Awake, FinPCs, Withdrawn, Terminal
    <2> QED BY <1>2, <2>3 DEF InOrder
  <1> QED BY <1>0, <1>3, <1>4, WNoFinalizerDoes

\* The two actions that find no cluster, or a Job that is not recorded, do not
\* occur while the cluster is there.
LEMMA WNoClusterOrder == ASSUME Before, WFinalizeNoCluster \/ WRecordJob PROVE FALSE
  <1>1. ~WFinalizeNoCluster
    BY WFinalizeNoClusterDoes, Finishes DEF Before, InOrder, PlaceTrue, FinalizerPgNil, FinPCs,
       Awake
  <1>2. ~WRecordJob
    BY WRecordJobDoes, Finishes, NoneAssumption DEF Before, FinPCs
  <1> QED BY <1>1, <1>2

LEMMA WFinishExitOrder == ASSUME Before, WFinishExit PROVE InOrder'
  <1>0. TypeInv /\ w.pc = "finalize" /\ w.snap.fin /\ Awake /\ ~w.snap.deleting
    BY WFinishExitDoes DEF Before, InOrder, PlaceTrue, Awake
  <1>1. UNCHANGED <<bk, jobs, ann, crunchy, lease, p, c>> /\ WentTo("dropFin")
    BY <1>0, WFinishExitDoes
  <1>2. Ordered' /\ LabelledKept'
    BY <1>1, WFrame DEF SameCrunchy, SameBackup
  <1>3. /\ wb \in Backups /\ Live(wb) /\ Began(wb) /\ w.then # "none"
        /\ w.snap.state = "Running"
    BY <1>0, Finishes DEF FinPCs
  <1>4. ann.inProgress # wb
    BY <1>0, <1>3, WFinishExitDoes, NoneAssumption
       DEF Before, InOrder, Ordered, Followed, getBackupInProgress
  <1>5. PlaceTrue'
    BY <1>0, <1>1, <1>3, <1>4
       DEF Before, InOrder, PlaceTrue, WentTo, wb, Live, Awake, FinPCs, Withdrawn, Terminal
  <1> QED BY <1>2, <1>5 DEF InOrder

LEMMA WFinishRequestOrder == ASSUME Before, WFinishRequest PROVE InOrder'
  <1>0. TypeInv /\ w.pc = "finalize" /\ w.snap.fin /\ Awake /\ getBackupInProgress = wb
    BY WFinishRequestDoes DEF Before, Awake
  <1>1. UNCHANGED <<bk, jobs, crunchy, lease, p, c>>
    BY <1>0, WFinishRequestDoes
  <1>2. /\ wb \in Backups /\ Live(wb) /\ Began(wb) /\ bk[wb].state = "Running"
        /\ w.then # "none" /\ w.snap.state = "Running"
        /\ w.snap.job \in Jobs /\ Exists(w.snap.job)
    BY <1>0, Finishes DEF FinPCs
  <1>3. JobsHeld /\ LabelledKept' /\ NoRequest /\ SameSync /\ SameCrunchy
    BY <1>1, HeldSame DEF NoRequest, SameSync, SameCrunchy
  <1>4. CASE /\ crunchy.backup # None /\ Stopped
             /\ ann'.backup = None /\ ann'.inProgress = ann.inProgress
    <2>1. ann.inProgress = wb
      BY <1>0, <1>4 DEF Before, InOrder, Ordered, Copies, getBackupInProgress
    <2>2. Copies'
      BY <1>1, <1>4 DEF Before, InOrder, Ordered, Copies
    <2>3. Followed'
      BY <1>1, <1>4, NoneAssumption DEF Before, InOrder, Ordered, Followed, Began
    <2>4. Owned'
      BY <1>1, <1>2, <1>4, <2>1 DEF Before, InOrder, Ordered, Owned, Live
    <2>5. NewUnnamed' /\ Unmade'
      BY <1>1, <1>4 DEF Before, InOrder, Ordered, NewUnnamed, Unmade, Began
    <2>6. StateTrue'
      BY <1>1, <1>4 DEF Before, InOrder, Ordered, StateTrue, Live, Unlisted, Exists
    <2> QED BY <1>3, <1>4, <2>2, <2>3, <2>4, <2>5, <2>6, Stops DEF InOrder, Ordered
  <1>5. CASE /\ crunchy.backup = None /\ ann' = ann
             /\ w'.pc = "unlabel" /\ w'.b = w.b /\ w'.snap = w.snap
             /\ w'.pgNil = w.pgNil /\ w'.then = w.then
             /\ \/ w'.job = None /\ findBackupJob = {}
                \/ w'.job \in findBackupJob /\ w'.job # None
    <2>1. Ordered'
      BY <1>1, <1>5, WFrame DEF SameCrunchy, SameBackup
    <2>2. w'.job = w.snap.job
      BY <1>2, <1>5, NoneAssumption DEF findBackupJob
    <2>3. ann.backup # wb /\ (p.pc = "jobs" => p.ann.backup # wb)
      BY <1>2, <1>5, NoneAssumption DEF Before, InOrder, Ordered, Copies, Followed
    <2>4. PlaceTrue'
      BY <1>0, <1>1, <1>2, <1>5, <2>2, <2>3, NoneAssumption
         DEF Before, InOrder, PlaceTrue, wb, Live, Awake, FinPCs, Withdrawn, Terminal
    <2> QED BY <1>3, <2>1, <2>4 DEF InOrder
  <1> QED BY <1>0, <1>4, <1>5, WFinishRequestDoes

LEMMA WFinishErrorOrder == ASSUME Before, WFinishError PROVE InOrder'
  <1>1. UNCHANGED <<bk, jobs, ann, crunchy, lease, p, c>> /\ Stopped
    BY WFinishErrorDoes DEF Before
  <1> QED BY <1>1, WFrame, Stops DEF SameCrunchy, SameBackup, InOrder

LEMMA WUnlabelOrder == ASSUME Before, WUnlabel PROVE InOrder'
  <1>0. TypeInv /\ w.pc = "unlabel" /\ Awake
    BY WUnlabelDoes DEF Before, Awake
  <1>1. UNCHANGED <<bk, ann, crunchy, lease, p, c>>
    BY <1>0, WUnlabelDoes
  <1>2. /\ wb \in Backups /\ Live(wb) /\ w.then # "none" /\ w.snap.state = "Running"
        /\ w.snap.job \in Jobs /\ w.job = w.snap.job
    BY <1>0, Finishes DEF FinPCs, Before, InOrder, PlaceTrue
  <1>3. CASE Stopped /\ UNCHANGED jobs
    BY <1>1, <1>3, WFrame, Stops DEF SameCrunchy, SameBackup, InOrder
  <1>4. CASE Exists(w.job) /\ Unlabelled(w.job) /\ WentTo("clear")
    <2>0. \A k \in Jobs : k # w.job => jobs'[k] = jobs[k]
      BY <1>4 DEF Unlabelled, OnlyJob
    <2>1. JobsHeld
      <3>1. \A b \in Backups : Live(b) /\ bk[b].state = "Running" =>
                bk[b].job \in Jobs /\ Exists(bk[b].job) /\ jobs[bk[b].job].keep
        BY DEF Before, RecordInv, JobsRecorded, JobOf, InOrder, Ordered, StateTrue
      <3> QED BY <1>4, <2>0, <3>1 DEF JobsHeld, Unlabelled, Exists
    <2>2. LabelledKept'
      BY <1>4, <2>0 DEF Before, InOrder, LabelledKept, Unlabelled, Exists
    <2>3. Ordered'
      BY <1>1, <2>1, OrderedStays DEF Before, InOrder, NoRequest, SameSync, SameCrunchy,
         SameBackup
    <2>4. Unlisted(w.job)'
      <3>1. PICK j \in Jobs : j = w.job
        BY <1>2
      <3>2. ~jobs'[j].labelled
        BY <1>4, <3>1 DEF Unlabelled
      <3>3. w'.job = j
        BY <1>4, <3>1 DEF WentTo
      <3> QED BY <3>2, <3>3 DEF Unlisted
    <2>5. PlaceTrue'
      BY <1>0, <1>1, <1>2, <1>4, <2>4
         DEF Before, InOrder, PlaceTrue, WentTo, wb, Live, Awake, FinPCs, Withdrawn, Terminal
    <2> QED BY <2>2, <2>3, <2>5 DEF InOrder
  <1> QED BY <1>0, <1>2, <1>3, <1>4, WUnlabelDoes, NoneAssumption

LEMMA WClearStatusOrder == ASSUME Before, WClearStatus PROVE InOrder'
  <1>0. TypeInv /\ w.pc = "clear" /\ Awake
    BY WClearStatusDoes DEF Before, Awake
  <1>1. UNCHANGED <<bk, jobs, ann, lease, p, c>> /\ SameCrunchy
    BY <1>0, WClearStatusDoes DEF SameCrunchy
  <1>2. /\ wb \in Backups /\ Live(wb) /\ w.then # "none" /\ w.snap.state = "Running"
    BY <1>0, Finishes DEF FinPCs
  <1>3. Ordered' /\ LabelledKept'
    BY <1>1, WFrame DEF SameBackup
  <1>4. CASE Stopped
    BY <1>3, <1>4, Stops DEF InOrder
  <1>5. CASE WentTo("delProgress")
    <2>1. PlaceTrue'
      BY <1>0, <1>1, <1>2, <1>5
         DEF Before, InOrder, PlaceTrue, WentTo, wb, Live, Awake, FinPCs, Withdrawn, Terminal,
             SameCrunchy, Unlisted, Exists
    <2> QED BY <1>3, <2>1 DEF InOrder
  <1> QED BY <1>0, <1>4, <1>5, WClearStatusDoes

LEMMA WDeleteProgressOrder == ASSUME Before, WDeleteProgress PROVE InOrder'
  <1>0. TypeInv /\ w.pc = "delProgress" /\ Awake
    BY WDeleteProgressDoes DEF Before, Awake
  <1>1. UNCHANGED <<bk, jobs, crunchy, lease, p, c>> /\ Stopped
    BY <1>0, WDeleteProgressDoes
  <1>2. /\ wb \in Backups /\ Live(wb) /\ bk[wb].state = "Running" /\ lease = wb
        /\ bk[wb].job = w.snap.job
    BY <1>0, Finishes DEF FinPCs
  <1>3. JobsHeld /\ LabelledKept'
    BY <1>1, HeldSame
  <1>4. CASE ann' = ann
    BY <1>1, <1>4, WFrame, Stops DEF SameCrunchy, SameBackup, InOrder
  <1>5. CASE ann'.inProgress = None /\ ann'.backup = ann.backup
    <2>1. ann.inProgress \in {None, wb}
      <3>1. ann.inProgress \in Backups \cup {None}
        BY Types DEF Before, TypeInv, Annotations
      <3> QED BY <1>2, <3>1 DEF Before, InOrder, Ordered, Owned
    <2>2. /\ ann.backup # wb /\ crunchy.backup # wb /\ (p.pc = "jobs" => p.ann.backup # wb)
          /\ Unlisted(w.snap.job)
      BY <1>0 DEF Before, InOrder, PlaceTrue, Withdrawn
    <2>3. Copies'
      BY <1>1, <1>5, <2>1, <2>2 DEF Before, InOrder, Ordered, Copies
    <2>4. Followed' /\ Owned'
      BY <1>5, NoneAssumption DEF Followed, Owned
    <2>5. NewUnnamed' /\ Unmade'
      BY <1>1, <1>2, <2>1, NoneAssumption
         DEF Before, InOrder, Ordered, NewUnnamed, Unmade, Began
    <2>6. StateTrue'
      BY <1>1, <1>2, <2>1, <2>2, NoneAssumption
         DEF Before, InOrder, Ordered, StateTrue, Live, Unlisted, Exists
    <2> QED BY <1>1, <1>3, <2>3, <2>4, <2>5, <2>6, Stops DEF InOrder, Ordered
  <1> QED BY <1>0, <1>4, <1>5, WDeleteProgressDoes

LEMMA WDropFinalizerOrder == ASSUME Before, WDropFinalizer PROVE InOrder'
  <1>0. TypeInv /\ w.pc = "dropFin" /\ Awake
    BY WDropFinalizerDoes DEF Before, Awake
  <1>1. /\ wb \in Backups /\ Live(wb) /\ ~bk[wb].deleting /\ bk[wb].state = "Running"
        /\ w.snap.state = "Running" /\ w.then # "none"
    BY <1>0, Finishes DEF FinPCs
  <1>2. UNCHANGED <<jobs, ann, crunchy, lease, p, c>> /\ WentTo("complete")
    BY <1>0, <1>1, WDropFinalizerDoes
  <1>3. \A b \in Backups :
           /\ bk'[b].phase = bk[b].phase /\ bk'[b].state = bk[b].state
           /\ bk'[b].deleting = bk[b].deleting /\ bk'[b].job = bk[b].job
           /\ b = wb => ~bk'[b].fin
           /\ b # wb => bk'[b].fin = bk[b].fin
    BY <1>0, <1>1, WDropFinalizerDoes DEF Wrote, OnlyBackup
  <1>4. ann.inProgress # wb
    BY <1>0 DEF Before, InOrder, PlaceTrue
  <1>5. JobsHeld /\ LabelledKept' /\ NoRequest /\ SameSync /\ SameCrunchy
    BY <1>2, HeldSame DEF NoRequest, SameSync, SameCrunchy
  <1>6. Copies' /\ Followed'
    BY <1>2, <1>5, ChainStays DEF Before, InOrder, Ordered
  <1>7. Owned' /\ NewUnnamed' /\ Unmade'
    BY <1>1, <1>2, <1>3, <1>4 DEF Before, InOrder, Ordered, Owned, NewUnnamed, Unmade, Live,
       Began
  <1>8. StateTrue'
    BY <1>2, <1>3 DEF Before, InOrder, Ordered, StateTrue, Live, Unlisted, Exists
  <1>9. PlaceTrue'
    BY <1>0, <1>1, <1>2, <1>3, <1>4
       DEF Before, InOrder, PlaceTrue, WentTo, wb, Live, Awake, FinPCs, Withdrawn, Terminal
  <1> QED BY <1>5, <1>6, <1>7, <1>8, <1>9 DEF InOrder, Ordered

LEMMA WCompleteOrder == ASSUME Before, WComplete PROVE InOrder'
  <1>0. TypeInv /\ w.pc = "complete" /\ Awake
    BY WCompleteDoes DEF Before, Awake
  <1>1. /\ wb \in Backups /\ Live(wb) /\ bk[wb].state = "Running" /\ ~bk[wb].deleting
        /\ w.then \in Terminal
    BY <1>0, Finishes DEF FinPCs
  <1>2. UNCHANGED <<jobs, ann, crunchy, lease, p, c>> /\ Stopped
    BY <1>0, WCompleteDoes
  <1>3. \A b \in Backups :
           /\ bk'[b].phase = bk[b].phase /\ bk'[b].fin = bk[b].fin
           /\ bk'[b].deleting = bk[b].deleting /\ bk'[b].job = bk[b].job
           /\ b = wb => bk'[b].state = w.then
           /\ b # wb => bk'[b].state = bk[b].state
    BY <1>0, <1>1, WCompleteDoes DEF WroteState, Wrote, OnlyBackup
  <1>4. ann.inProgress # wb /\ ~bk[wb].fin
    BY <1>0 DEF Before, InOrder, PlaceTrue
  <1>5. JobsHeld /\ LabelledKept' /\ NoRequest /\ SameSync /\ SameCrunchy
    BY <1>2, HeldSame DEF NoRequest, SameSync, SameCrunchy
  <1>6. Copies' /\ Followed'
    BY <1>2, <1>5, ChainStays DEF Before, InOrder, Ordered
  <1>7. Owned' /\ NewUnnamed' /\ Unmade'
    BY <1>1, <1>2, <1>3, <1>4
       DEF Before, InOrder, Ordered, Owned, NewUnnamed, Unmade, Live, Began, Terminal
  <1>8. StateTrue'
    BY <1>1, <1>2, <1>3, <1>4 DEF Before, InOrder, Ordered, StateTrue, Live, Unlisted, Exists,
       Terminal
  <1> QED BY <1>2, <1>5, <1>6, <1>7, <1>8, Stops DEF InOrder, Ordered

-----------------------------------------------------------------------------
(* P, C and the environment.                                               *)

LEMMA CreateOrder == ASSUME Before, NEW b \in Backups, Create(b) PROVE InOrder'
  <1>0. TypeInv
    BY DEF Before
  <1>1. /\ bk[b].phase = "absent" /\ OnlyBackup(b)
        /\ bk'[b].phase = "live" /\ bk'[b].state = bk[b].state
        /\ bk'[b].deleting = bk[b].deleting /\ bk'[b].fin = bk[b].fin /\ bk'[b].job = bk[b].job
        /\ UNCHANGED <<jobs, ann, crunchy, lease, w, p, c>>
    BY <1>0, CreateDoes
  <1>2. JobsHeld /\ LabelledKept' /\ NoRequest /\ SameSync /\ SameCrunchy
    BY <1>1, HeldSame DEF NoRequest, SameSync, SameCrunchy
  <1>3. Copies' /\ Followed'
    BY <1>1, <1>2, ChainStays DEF Before, InOrder, Ordered
  <1>4. Owned' /\ NewUnnamed' /\ Unmade'
    BY <1>1 DEF Before, InOrder, Ordered, Owned, NewUnnamed, Unmade, Live, Began, OnlyBackup
  <1>5. StateTrue'
    BY <1>1 DEF Before, InOrder, Ordered, StateTrue, Unmade, Live, Unlisted, Exists, OnlyBackup,
       Terminal
  <1>6. Awake => SameBackup(wb)
    BY <1>1 DEF Before, RecordInv, ReadTrue, TypeInv, Shape, SameBackup, OnlyBackup
  <1>7. Awake /\ w.pc \in Withdrawn =>
            ann'.backup # wb /\ crunchy'.backup # wb /\ (p'.pc = "jobs" => p'.ann.backup # wb)
    BY <1>1 DEF Before, InOrder, PlaceTrue
  <1>8. PlaceTrue'
    BY <1>1, <1>6, <1>7, PlaceStays DEF Before, InOrder
  <1> QED BY <1>2, <1>3, <1>4, <1>5, <1>8 DEF InOrder, Ordered

LEMMA cleanupOutdatedBackupsOrder ==
    ASSUME Before, NEW b \in Backups, cleanupOutdatedBackups(b) PROVE InOrder'
  <1>0. TypeInv
    BY DEF Before
  <1>1. /\ Live(b) /\ bk[b].state = "Succeeded" /\ bk[b].job \in Jobs
        /\ UNCHANGED <<ann, crunchy, lease, w, p, c>>
    BY <1>0, cleanupOutdatedBackupsDoes
  <1>2. ~bk[b].fin
    BY <1>1 DEF Before, InOrder, Ordered, StateTrue, Terminal
  <1>3. Gone(b)
    BY <1>0, <1>2, cleanupOutdatedBackupsDoes DEF Marked
  <1>4. JobsHeld /\ LabelledKept'
    BY <1>0, <1>1, HeldSame, HeldDoomed, cleanupOutdatedBackupsDoes
  <1>5. NoRequest /\ SameSync /\ SameCrunchy
    BY <1>1 DEF NoRequest, SameSync, SameCrunchy
  <1>6. Copies' /\ Followed'
    BY <1>1, <1>5, ChainStays DEF Before, InOrder, Ordered
  <1>7. \A x \in Backups : Began(x)' => Began(x)
    BY <1>1, <1>5, BeganStays DEF Before
  <1>8. Owned' /\ Unmade'
    BY <1>1, <1>3 DEF Before, InOrder, Ordered, Owned, Unmade, Live, Gone, OnlyBackup
  <1>9. NewUnnamed'
    BY <1>1, <1>3, <1>7 DEF Before, InOrder, Ordered, NewUnnamed, Gone, OnlyBackup
  <1>10. StateTrue'
    <2> SUFFICES ASSUME NEW x \in Backups, Live(x)' PROVE
             /\ ~bk[x].deleting'
             /\ (bk[x].state \in {"New", "Starting"} => bk[x].job = None)'
             /\ (bk[x].state = "Starting" => ann.inProgress = x)'
             /\ (bk[x].state \in {"Starting", "Running"} => lease = x)'
             /\ (bk[x].state = "Running" => Exists(bk[x].job) /\ jobs[bk[x].job].keep)'
             /\ (bk[x].state = "Running" /\ ann.inProgress # x => Unlisted(bk[x].job))'
             /\ (bk[x].state \in Terminal => ~bk[x].fin)'
             /\ (bk[x].state = "Succeeded" => Unlisted(bk[x].job))'
      BY DEF StateTrue
    <2>1. x # b /\ bk'[x] = bk[x] /\ Live(x)
      BY <1>3 DEF Live, Gone, OnlyBackup
    <2>2. /\ ~bk[x].deleting
          /\ bk[x].state \in {"New", "Starting"} => bk[x].job = None
          /\ bk[x].state = "Starting" => ann.inProgress = x
          /\ bk[x].state \in {"Starting", "Running"} => lease = x
          /\ bk[x].state = "Running" /\ ann.inProgress # x => Unlisted(bk[x].job)
          /\ bk[x].state \in Terminal => ~bk[x].fin
          /\ bk[x].state = "Succeeded" => Unlisted(bk[x].job)
      BY <2>1 DEF Before, InOrder, Ordered, StateTrue
    <2>3. bk[x].state = "Running" => (Exists(bk[x].job) /\ jobs[bk[x].job].keep)'
      BY <1>4, <2>1 DEF JobsHeld, Exists
    <2>4. ASSUME bk[x].state \in {"Running", "Succeeded"}, Unlisted(bk[x].job)
          PROVE  Unlisted(bk[x].job)'
      <3>1. PICK j \in Jobs : j = bk[x].job /\ jobs[j].phase # "none"
        BY <2>4 DEF Before, RecordInv, JobsRecorded, SucceededByOwnJob, JobOf
      <3>2. Unlisted(j)'
        BY <2>4, <3>1, UnlistedStays DEF Before
      <3> QED BY <2>1, <3>1, <3>2 DEF Unlisted, Exists
    <2> QED BY <1>1, <2>1, <2>2, <2>3, <2>4
  <1>11. PlaceTrue'
    <2> SUFFICES ASSUME Awake PROVE PlaceTrue'
      BY <1>1 DEF PlaceTrue, Awake
    <2>1. wb \in Backups
      BY <1>0 DEF TypeInv, Shape
    <2>2. Awake /\ w.pc \in Withdrawn =>
              ann'.backup # wb /\ crunchy'.backup # wb /\ (p'.pc = "jobs" => p'.ann.backup # wb)
      BY <1>1 DEF Before, InOrder, PlaceTrue
    <2>3. CASE wb # b
      <3>1. SameBackup(wb)
        BY <1>3, <2>1, <2>3 DEF SameBackup, Gone, OnlyBackup
      <3> QED BY <1>1, <2>2, <3>1, PlaceStays DEF Before, InOrder
    <2>4. CASE wb = b
      <3>1. w.snap.state = "Succeeded" /\ Live(wb) /\ w.snap.job \in Jobs
        BY <1>1, <2>4 DEF Before, RecordInv, ReadTrue
      <3>2. w.then = "none"
        BY <1>0, <3>1 DEF TypeInv, Shape
      <3>3. PICK j \in Jobs : j = w.snap.job /\ jobs[j].phase # "none" /\ Unlisted(j)
        BY <3>1, NoneAssumption DEF Before, RecordInv, JobsRecorded, JobOf, InOrder, PlaceTrue
      <3>4. Unlisted(j)'
        BY <3>3, UnlistedStays DEF Before
      <3>5. Unlisted(w.snap.job)'
        BY <1>1, <3>3, <3>4 DEF Unlisted, Exists
      <3>6. ~Live(wb)'
        BY <1>1, <1>3, <2>4 DEF Gone, Live, wb
      <3> QED BY <1>1, <1>2, <2>4, <3>1, <3>2, <3>5, <3>6
              DEF Before, InOrder, PlaceTrue, wb, Awake, FinPCs, Withdrawn, Terminal
    <2> QED BY <2>3, <2>4
  <1> QED BY <1>4, <1>6, <1>8, <1>9, <1>10, <1>11 DEF InOrder, Ordered

LEMMA PStartOrder == ASSUME Before, PStart PROVE InOrder'
  <1>1. /\ p'.pc = "jobs" /\ p'.ann = ann
        /\ UNCHANGED <<bk, jobs, ann, crunchy, lease, w, c>>
    BY PStartDoes DEF Before
  <1>2. JobsHeld /\ LabelledKept'
    BY <1>1, HeldSame
  <1>3. Copies' /\ Followed'
    BY <1>1 DEF Before, InOrder, Ordered, Copies, Followed, Began
  <1>4. Owned' /\ NewUnnamed' /\ StateTrue' /\ Unmade'
    BY <1>1 DEF Before, InOrder, Ordered, Owned, NewUnnamed, StateTrue, Unmade, Began, Live,
       Unlisted, Exists
  <1>5. Awake => SameBackup(wb)
    BY <1>1 DEF SameBackup
  <1>6. Awake /\ w.pc \in Withdrawn =>
            ann'.backup # wb /\ crunchy'.backup # wb /\ (p'.pc = "jobs" => p'.ann.backup # wb)
    BY <1>1 DEF Before, InOrder, PlaceTrue
  <1>7. PlaceTrue'
    BY <1>1, <1>5, <1>6, PlaceStays DEF Before, InOrder
  <1> QED BY <1>2, <1>3, <1>4, <1>7 DEF InOrder, Ordered

LEMMA PSyncOrder == ASSUME Before, PSync PROVE InOrder'
  <1>1. /\ p.pc = "jobs" /\ p'.pc = "idle" /\ crunchy'.life = crunchy.life
        /\ crunchy'.inProgress = p.ann.inProgress
        /\ \/ crunchy'.backup = p.ann.backup
           \/ p.ann.backup # None /\ ~Live(p.ann.backup) /\ crunchy'.backup = None
        /\ UNCHANGED <<bk, jobs, ann, lease, w, c>>
    BY PSyncDoes DEF Before, PStopped
  <1>2. JobsHeld /\ LabelledKept'
    BY <1>1, HeldSame
  <1>3. Copies'
    BY <1>1 DEF Before, InOrder, Ordered, Copies
  <1>4. \A b \in Backups : Began(b)' => Began(b) \/ (crunchy'.backup = b /\ p.ann.backup = b)
    BY <1>1, NoneAssumption DEF Began
  <1>5. Followed'
    <2> SUFFICES ASSUME NEW b \in Backups, ann.inProgress = b, Began(b)'
                 PROVE  crunchy'.inProgress = b /\ (ann.backup = b => crunchy'.backup = b)
      BY <1>1 DEF Followed
    <2>1. CASE crunchy'.backup = b /\ p.ann.backup = b
      BY <1>1, <2>1, NoneAssumption DEF Before, InOrder, Ordered, Copies
    <2>2. CASE Began(b)
      <3>1. p.ann.inProgress = b /\ (ann.backup = b => p.ann.backup = b)
        BY <1>1, <2>2 DEF Before, InOrder, Ordered, Followed
      <3>2. Live(b)
        BY DEF Before, InOrder, Ordered, Owned
      <3> QED BY <1>1, <3>1, <3>2
    <2> QED BY <1>4, <2>1, <2>2
  <1>6. Owned' /\ StateTrue' /\ Unmade'
    BY <1>1 DEF Before, InOrder, Ordered, Owned, StateTrue, Unmade, Live, Unlisted, Exists
  <1>7. NewUnnamed'
    BY <1>1, <1>4, NoneAssumption DEF Before, InOrder, Ordered, NewUnnamed, Copies
  <1>8. Awake => SameBackup(wb)
    BY <1>1 DEF SameBackup
  <1>9. Awake /\ w.pc \in Withdrawn =>
            ann'.backup # wb /\ crunchy'.backup # wb /\ (p'.pc = "jobs" => p'.ann.backup # wb)
    BY <1>1, NoneAssumption DEF Before, InOrder, PlaceTrue, TypeInv, Shape
  <1>10. PlaceTrue'
    BY <1>1, <1>8, <1>9, PlaceStays DEF Before, InOrder
  <1> QED BY <1>2, <1>3, <1>5, <1>6, <1>7, <1>10 DEF InOrder, Ordered

LEMMA reconcileBackupJobOrder ==
    ASSUME Before, NEW j \in Jobs, reconcileBackupJob(j) PROVE InOrder'
  <1>0. TypeInv
    BY DEF Before
  <1>1. UNCHANGED <<bk, ann, crunchy, lease, w, c>> /\ SameCrunchy /\ SameSync /\ NoRequest
    BY <1>0, reconcileBackupJobDoes DEF SameCrunchy, SameSync, NoRequest
  <1>2. \A b \in Backups : Live(b) /\ bk[b].state = "Running" =>
            bk[b].job \in Jobs /\ Exists(bk[b].job) /\ jobs[bk[b].job].keep
    BY DEF Before, RecordInv, JobsRecorded, JobOf, InOrder, Ordered, StateTrue
  <1>3. JobsHeld
    BY <1>0, <1>2, reconcileBackupJobDoes DEF JobsHeld, OnlyJob, Shrunk, Exists
  <1>4. LabelledKept'
    BY <1>0, reconcileBackupJobDoes DEF Before, InOrder, LabelledKept, OnlyJob, Shrunk, Exists
  <1> QED BY <1>1, <1>3, <1>4, OtherFrame DEF InOrder

LEMMA CObserveOrder ==
    ASSUME Before, CObserve \/ CNothing \/ CRequest \/ CPatchStatus PROVE InOrder'
  <1>0. TypeInv
    BY DEF Before
  <1>1. UNCHANGED <<bk, jobs, ann, lease, w, p>> /\ SameCrunchy
    BY <1>0, CObserveDoes, CNothingDoes, CRequestDoes, CPatchStatusDoes DEF SameCrunchy
  <1>2. NoRequest /\ SameSync
    BY <1>0, <1>1, CObserveDoes, CNothingDoes, CRequestDoes, CPatchStatusDoes
       DEF NoRequest, SameSync, CStopped
  <1> QED BY <1>1, <1>2, HeldSame, OtherFrame DEF InOrder

LEMMA CWriteOrder ==
    ASSUME Before, CDeleteObsolete \/ CCreate \/ CApply PROVE InOrder'
  <1>0. TypeInv
    BY DEF Before
  <1>1. UNCHANGED <<bk, ann, crunchy, lease, w, p>> /\ SameCrunchy /\ SameSync
    BY <1>0, CDeleteObsoleteDoes, CCreateDoes, CApplyDoes DEF SameCrunchy, SameSync
  <1>2. NoRequest
    BY <1>0, CDeleteObsoleteDoes, CCreateDoes, CApplyDoes DEF NoRequest, CStopped, Patching
  <1>3. \A b \in Backups : Live(b) /\ bk[b].state = "Running" =>
            bk[b].job \in Jobs /\ Exists(bk[b].job) /\ jobs[bk[b].job].keep
    BY DEF Before, RecordInv, JobsRecorded, JobOf, InOrder, Ordered, StateTrue
  <1>4. JobsHeld /\ LabelledKept'
    <2>1. CASE CDeleteObsolete
      BY <1>0, <2>1, CDeleteObsoleteDoes, HeldSame, HeldDoomed
    <2>2. CASE CCreate
      BY <1>0, <1>3, <2>2, CCreateDoes DEF JobsHeld, OnlyJob, Exists, Before, InOrder,
         LabelledKept
    <2>3. CASE CApply
      <3>1. CASE UNCHANGED jobs
        BY <3>1, HeldSame
      <3>2. CASE /\ OnlyJob(c.job) /\ jobs'[c.job].phase = jobs[c.job].phase
                 /\ jobs'[c.job].keep
        BY <1>3, <3>2 DEF JobsHeld, OnlyJob, Exists, Before, InOrder, LabelledKept
      <3> QED BY <1>0, <2>3, <3>1, <3>2, CApplyDoes
    <2> QED BY <2>1, <2>2, <2>3
  <1> QED BY <1>1, <1>2, <1>4, OtherFrame DEF InOrder

LEMMA JobStepOrder ==
    ASSUME Before, NEW j \in Jobs, JobFinish(j) \/ JobCollect(j) PROVE InOrder'
  <1>0. TypeInv
    BY DEF Before
  <1>1. UNCHANGED <<bk, ann, crunchy, lease, w, p, c>> /\ SameCrunchy /\ SameSync /\ NoRequest
    BY <1>0, JobFinishDoes, JobCollectDoes DEF SameCrunchy, SameSync, NoRequest
  <1>2. JobsHeld /\ LabelledKept'
    <2>1. CASE JobCollect(j)
      BY <1>0, <2>1, JobCollectDoes, HeldDoomed
    <2>2. CASE JobFinish(j)
      <3>1. \A b \in Backups : Live(b) /\ bk[b].state = "Running" =>
                bk[b].job \in Jobs /\ Exists(bk[b].job) /\ jobs[bk[b].job].keep
        BY DEF Before, RecordInv, JobsRecorded, JobOf, InOrder, Ordered, StateTrue
      <3> QED BY <1>0, <2>2, <3>1, JobFinishDoes
              DEF JobsHeld, OnlyJob, Exists, Before, InOrder, LabelledKept
    <2> QED BY <2>1, <2>2
  <1> QED BY <1>1, <1>2, OtherFrame DEF InOrder

LEMMA ResetOrder == ASSUME Before, Crash \/ Restart PROVE InOrder'
  <1>1. UNCHANGED <<bk, jobs, ann, crunchy, lease>> /\ Reset
    BY ResetDoes DEF Before
  <1>2. NoRequest /\ SameSync /\ SameCrunchy /\ \A b \in Backups : SameBackup(b)
    BY <1>1 DEF NoRequest, SameSync, SameCrunchy, SameBackup, Reset
  <1>3. JobsHeld /\ LabelledKept'
    BY <1>1, HeldSame
  <1>4. Ordered'
    BY <1>1, <1>2, <1>3, OrderedStays DEF Before, InOrder
  <1> QED BY <1>1, <1>3, <1>4, Stops DEF InOrder, Reset

LEMMA OrderNext ==
    ASSUME Orderly, TypeInv, RecordInv, OrderInv, [Next]_vars PROVE OrderInv'
  <1> SUFFICES ASSUME pg' = "live" PROVE InOrder'
    BY DEF OrderInv, InOrder
  <1>1. pg = "live"
    BY ClusterStays
  <1>2. Before
    BY <1>1, JobsMoveNext DEF Before, RecordInv, OrderInv, InOrder
  <1>3. CASE UNCHANGED vars
    BY <1>2, <1>3, WFrame, HeldSame, OtherFrame
       DEF vars, SameCrunchy, SameSync, NoRequest, SameBackup, InOrder
  <1>4. ~DeleteCluster /\ ~PDelete
    BY <1>1, DeleteClusterDoes, PDeleteDoes
  <1>5. ~CHandleDelete
    BY <1>2, CHandleDeleteDoes DEF Before, InOrder, Ordered, Copies
  <1>6. ~WReject /\ \A b \in Backups : ~Delete(b)
    BY WRejectDoes, DeleteDoes DEF Orderly
  <1>7. \A j \in Jobs : ~JobLost(j)
    BY JobLostDoes DEF Orderly
  <1>8. WStep => InOrder'
    BY <1>2, <1>6, WReleaseOrder, WAcquireOrder, WEnsureFinalizersOrder, WNewOrder,
       WStartedOrder,
       WStartingOrder, WRunningOrder, WSucceededOrder, WNoFinalizerOrder, WNoClusterOrder,
       WFinishExitOrder, WFinishRequestOrder, WFinishErrorOrder, WUnlabelOrder,
       WClearStatusOrder, WDeleteProgressOrder, WDropFinalizerOrder, WCompleteOrder
       DEF WStep
  <1>9. PStart \/ PStep => InOrder'
    BY <1>2, <1>4, PStartOrder, PSyncOrder, reconcileBackupJobOrder, cleanupOutdatedBackupsOrder
       DEF PStep
  <1>10. CObserve \/ CStep => InOrder'
    BY <1>2, <1>5, CObserveOrder, CWriteOrder DEF CStep
  <1> QED
    BY <1>2, <1>3, <1>4, <1>6, <1>7, <1>8, <1>9, <1>10, WGetOrder, CreateOrder, JobStepOrder,
       ResetOrder DEF Next
-----------------------------------------------------------------------------
(* The owner of the annotation, for a single backup and under every fault. *)

Alone == \A x, y \in Backups : x = y

\* A backup that W starts has its finalizer, which goes when the annotation has.
Guarded(b) == Live(b) /\ bk[b].fin
Guards ==
    /\ \A b \in Backups : ann.inProgress = b => Guarded(b)
    /\ Awake => ~w.pgNil
    /\ w.pc \in {"state", "started"} /\ w.snap.state \notin Terminal => Guarded(wb)
    /\ w.pc = "dropFin" => ann.inProgress # wb

AloneInv == pg = "live" => Guards

\* Only the finalizer of W takes a finalizer away.
StayGuarded == \A b \in Backups : Guarded(b) => Guarded(b)'

LEMMA GuardsStay ==
    ASSUME TypeInv, Guards, StayGuarded, UNCHANGED w, ann'.inProgress = ann.inProgress
    PROVE  Guards'
  BY DEF Guards, StayGuarded, TypeInv, Shape, Awake, wb

LEMMA WGuardsStay ==
    ASSUME TypeInv, Guards, StayGuarded, ann'.inProgress = ann.inProgress,
           \/ w'.pc \in {"idle", "down"}
           \/ /\ Awake /\ w'.b = w.b /\ w'.pgNil = w.pgNil
              /\ w'.pc \notin {"state", "started", "dropFin"}
    PROVE  Guards'
  BY DEF Guards, StayGuarded, TypeInv, Shape, Awake, wb

LEMMA BackupStaysGuarded ==
    ASSUME NEW b \in Backups,
           \/ \E st, jb : Wrote(b, st, bk[b].fin, jb)
           \/ \E st, jb : Wrote(b, st, TRUE, jb)
           \/ Marked(b) \/ (Gone(b) /\ ~bk[b].fin)
           \/ UNCHANGED bk
    PROVE  StayGuarded
  BY DEF StayGuarded, Guarded, Live, Wrote, Marked, Gone, OnlyBackup

LEMMA KeptStaysGuarded ==
    ASSUME NEW b \in Backups, Kept(b) \/ \E st \in States : WroteState(b, st) PROVE StayGuarded
  BY BackupStaysGuarded DEF Kept, WroteState

LEMMA AloneInit == Init => AloneInv
  BY NoneAssumption DEF Init, AloneInv, Guards, NoAnnotations, WIdle, Awake

LEMMA AloneNext ==
    ASSUME Alone, TypeInv, AloneInv, [Next]_vars PROVE AloneInv'
  <1> SUFFICES ASSUME pg' = "live" PROVE Guards'
    BY DEF AloneInv
  <1>1. pg = "live"
    BY ClusterStays
  <1>2. Guards
    BY <1>1 DEF AloneInv
  <1>3. Awake => wb \in Backups
    BY DEF TypeInv, Shape
  <1>4. ASSUME UNCHANGED <<bk, ann, w>> PROVE Guards'
    BY <1>2, <1>4, GuardsStay DEF StayGuarded, Guarded, Live
  <1>5. ASSUME NEW b \in Backups, WGet(b) PROVE Guards'
    <2>1. StayGuarded
      BY <1>5, BackupStaysGuarded, WGetDoes
    <2>2. w'.pc = "lease" /\ ~w'.pgNil /\ UNCHANGED ann
      BY <1>1, <1>5, WGetDoes
    <2> QED BY <1>2, <2>1, <2>2 DEF Guards, StayGuarded, Awake
  <1>6. ASSUME NEW b \in Backups, Create(b) \/ Delete(b) \/ cleanupOutdatedBackups(b)
        PROVE  Guards'
    <2>1. StayGuarded
      BY <1>6, BackupStaysGuarded, CreateDoes, DeleteDoes, cleanupOutdatedBackupsDoes
         DEF StayGuarded, Guarded, Live, OnlyBackup
    <2> QED BY <1>2, <1>6, <2>1, GuardsStay, CreateDoes, DeleteDoes, cleanupOutdatedBackupsDoes
  <1>7. CASE WRelease
    <2>1. StayGuarded /\ Awake /\ UNCHANGED ann
      BY <1>3, <1>7, KeptStaysGuarded, WReleaseDoes DEF Awake
    <2>2. CASE Stopped \/ WentTo("finalize")
      BY <1>2, <2>1, <2>2, WGuardsStay DEF Stopped, WentTo
    <2>3. CASE WentTo("state") /\ w.snap.state = "Succeeded"
      BY <1>2, <2>1, <2>3 DEF WentTo, Guards, StayGuarded, Awake, Terminal
    <2> QED BY <1>7, <2>2, <2>3, WReleaseDoes
  <1>8. CASE WAcquire
    <2>1. StayGuarded /\ Awake /\ UNCHANGED ann
      BY <1>3, <1>8, KeptStaysGuarded, WAcquireDoes DEF Awake
    <2> QED BY <1>2, <1>8, <2>1, WGuardsStay, WAcquireDoes DEF Stopped, WentTo
  <1>9. CASE WEnsureFinalizers
    <2>1. StayGuarded /\ Awake /\ UNCHANGED ann
      BY <1>3, <1>9, KeptStaysGuarded, BackupStaysGuarded, WEnsureFinalizersDoes DEF Awake
    <2>2. CASE Stopped
      BY <1>2, <2>1, <2>2, WGuardsStay DEF Stopped
    <2>3. CASE /\ Live(wb) /\ Wrote(wb, bk[wb].state, TRUE, bk[wb].job)
               /\ w'.pc = "state" /\ w'.b = w.b /\ w'.pgNil = w.pgNil
      <3>1. Guarded(wb)'
        BY <2>3 DEF Guarded, Live, Wrote, wb
      <3> QED BY <1>2, <2>1, <2>3, <3>1 DEF Guards, StayGuarded, Awake
    <2> QED BY <1>9, <2>2, <2>3, WEnsureFinalizersDoes
  <1>10. CASE WNew
    <2>1. w.pc = "state" /\ Awake /\ Guarded(wb) /\ UNCHANGED bk
      BY <1>2, <1>10, WNewDoes DEF Guards, Terminal, Awake
    <2>2. StayGuarded
      BY <2>1 DEF StayGuarded, Guarded, Live
    <2>3. CASE Stopped /\ ann' = ann
      BY <1>2, <2>2, <2>3, WGuardsStay DEF Stopped
    <2>4. CASE WentTo("started") /\ (ann' = ann \/ ann'.inProgress = wb)
      <3>1. Guarded(wb)'
        BY <2>1, <2>4 DEF WentTo, Guarded, Live, wb
      <3> QED BY <1>2, <2>1, <2>2, <2>4, <3>1 DEF WentTo, Guards, StayGuarded, Awake, wb
    <2> QED BY <1>10, <2>3, <2>4, WNewDoes
  <1>11. CASE WReject \/ WStarted \/ WStarting \/ WRunning
    <2>1. StayGuarded /\ Awake /\ UNCHANGED ann
      BY <1>3, <1>11, KeptStaysGuarded, BackupStaysGuarded, WRejectDoes, WStartedDoes,
         WStartingDoes, WRunningDoes DEF Awake, States, Terminal
    <2> QED BY <1>2, <1>11, <2>1, WGuardsStay, WRejectDoes, WStartedDoes, WStartingDoes,
               WRunningDoes
            DEF Stopped
  <1>12. CASE WSucceeded \/ WNoFinalizer \/ WFinishError \/ WUnlabel \/ WClearStatus
    <2>1. UNCHANGED <<bk, ann>> /\ Awake
      BY <1>12, WSucceededDoes, WNoFinalizerDoes, WFinishErrorDoes, WUnlabelDoes,
         WClearStatusDoes
         DEF Awake
    <2>2. StayGuarded
      BY <2>1 DEF StayGuarded, Guarded, Live
    <2> QED BY <1>2, <1>12, <2>1, <2>2, WGuardsStay, WSucceededDoes, WNoFinalizerDoes,
               WFinishErrorDoes, WUnlabelDoes, WClearStatusDoes DEF Stopped, WentTo
  <1>13. CASE WFinalizeNoCluster
    BY <1>1, <1>2, <1>13, WFinalizeNoClusterDoes DEF Guards, FinalizerPgNil, Awake
  <1>14. CASE WRecordJob
    <2>1. StayGuarded /\ Awake /\ UNCHANGED ann
      BY <1>3, <1>14, KeptStaysGuarded, BackupStaysGuarded, WRecordJobDoes DEF Awake
    <2> QED BY <1>2, <1>14, <2>1, WGuardsStay, WRecordJobDoes DEF Stopped
  <1>15. CASE WFinishExit
    <2>1. UNCHANGED <<bk, ann>> /\ Awake /\ WentTo("dropFin") /\ getBackupInProgress # wb
      BY <1>15, WFinishExitDoes DEF Awake
    <2>2. crunchy.inProgress \in Backups \cup {None}
      BY Types DEF TypeInv, Crunchy
    <2>3. ann.inProgress # wb
      BY <1>3, <2>1, <2>2 DEF Alone, getBackupInProgress
    <2> QED BY <1>2, <2>1, <2>3 DEF Guards, WentTo, Guarded, Live, Awake, wb
  <1>16. CASE WFinishRequest
    <2>1. UNCHANGED bk /\ Awake /\ ann'.inProgress = ann.inProgress
      BY <1>16, WFinishRequestDoes DEF Awake
    <2>2. StayGuarded
      BY <2>1 DEF StayGuarded, Guarded, Live
    <2> QED BY <1>2, <1>16, <2>1, <2>2, WGuardsStay, WFinishRequestDoes DEF Stopped
  <1>17. CASE WDeleteProgress
    <2>1. UNCHANGED bk /\ Stopped /\ ann'.inProgress \in {None, ann.inProgress}
      BY <1>17, WDeleteProgressDoes
    <2> QED BY <1>2, <2>1, NoneAssumption DEF Guards, Stopped, Guarded, Live, Awake
  <1>18. CASE WDropFinalizer
    <2>1. /\ w.pc = "dropFin" /\ Awake /\ wb \in Backups /\ UNCHANGED ann
          /\ Stopped \/ WentTo("complete")
          /\ OnlyBackup(wb)
      BY <1>3, <1>18, WDropFinalizerDoes DEF Awake, Kept, Wrote, Gone
    <2>2. ann.inProgress # wb
      BY <1>2, <2>1 DEF Guards
    <2>3. \A b \in Backups : ann'.inProgress = b => Guarded(b)'
      BY <1>2, <2>1, <2>2 DEF Guards, Guarded, Live, OnlyBackup
    <2> QED BY <1>2, <2>1, <2>3 DEF Guards, Stopped, WentTo, Awake
  <1>19. CASE WComplete
    <2>1. StayGuarded /\ UNCHANGED ann /\ Stopped
      BY <1>3, <1>19, KeptStaysGuarded, WCompleteDoes DEF Awake, States
    <2> QED BY <1>2, <2>1, WGuardsStay DEF Stopped
  <1>20. CASE PStart \/ PSync \/ CObserve \/ CStep \/ DeleteCluster
    BY <1>4, <1>20, PStartDoes, PSyncDoes, CObserveDoes, CHandleDeleteDoes, CDeleteObsoleteDoes,
       CNothingDoes, CRequestDoes, CCreateDoes, CApplyDoes, CPatchStatusDoes, DeleteClusterDoes
       DEF CStep
  <1>21. ~PDelete
    BY <1>1, PDeleteDoes
  <1>22. ASSUME NEW j \in Jobs,
               reconcileBackupJob(j) \/ JobFinish(j) \/ JobCollect(j) \/ JobLost(j)
         PROVE Guards'
    BY <1>4, <1>22, reconcileBackupJobDoes, JobFinishDoes, JobCollectDoes, JobLostDoes
  <1>23. CASE Crash \/ Restart
    BY <1>2, <1>23, ResetDoes DEF Reset, Guards, Guarded, Live, Awake
  <1>24. CASE UNCHANGED vars
    BY <1>4, <1>24 DEF vars
  <1> QED
    BY <1>5, <1>6, <1>7, <1>8, <1>9, <1>10, <1>11, <1>12, <1>13, <1>14, <1>15, <1>16, <1>17,
       <1>18, <1>19, <1>20, <1>21, <1>22, <1>23, <1>24 DEF Next, WStep, PStep
-----------------------------------------------------------------------------
(* The theorems.                                                           *)

\* The objects, the annotations and what the three workers have in hand have the
\* types that TypeOK gives them, and a worker has a backup, a Job or a result in
\* hand exactly where the steps of Reconcile say so.
THEOREM ManualTypeOK == Spec => []TypeOK
  <1>1. Init => TypeInv
    BY TypeInit
  <1>2. TypeInv /\ [Next]_vars => TypeInv'
    BY TypeNext
  <1>3. TypeInv => TypeOK
    BY DEF TypeInv
  <1> QED BY <1>1, <1>2, <1>3, PTL DEF Spec

\* What is recorded stays true in every behaviour.
LEMMA Records == Spec => [](TypeInv /\ RecordInv)
  <1>1. Init => TypeInv /\ RecordInv
    BY TypeInit, RecordInit
  <1>2. TypeInv /\ RecordInv /\ [Next]_vars => (TypeInv /\ RecordInv)'
    BY TypeNext, RecordNext
  <1> QED BY <1>1, <1>2, PTL DEF Spec

\* A backup that is Succeeded was made by a Job of its own name that completed,
\* whatever faults occur, for any number of backups and Jobs: findBackupJob and the
\* recorded status.jobName never lead W to the Job of another backup.
THEOREM ManualSucceededByOwnJob == Spec => []SucceededByOwnJob
  <1>1. RecordInv => SucceededByOwnJob
    BY DEF RecordInv
  <1> QED BY <1>1, Records, PTL

\* Labels that W or P removed from a Job are never put back by C, whatever faults
\* occur (K8SPG-1125): the apply is bound to the copy that had the labels.
THEOREM ManualLabelsStayOff == Spec => LabelsStayOff
  <1>1. TypeInv /\ RecordInv /\ [Next]_vars =>
            [\A j \in Jobs : jobs[j].phase = "live" /\ ~jobs[j].labelled
                                 => ~jobs'[j].labelled]_vars
    BY JobsMoveNext DEF RecordInv, JobsMove
  <1> QED BY <1>1, Records, PTL DEF Spec, LabelsStayOff

\* No backup gets two Jobs, for any number of backups and Jobs, when W polls before
\* a Job ends, the cache of Jobs is current and no Job is removed behind its
\* finalizer; users may delete backups and the cluster, the cluster may become not
\* ready, Jobs may fail and expire and the operator may restart.
THEOREM ManualOneJobPerBackup == ASSUME Prompt PROVE Spec => []OneJobPerBackup
  <1>1. Init => JobInv
    BY JobInit
  <1>2. TypeInv /\ RecordInv /\ JobInv /\ [Next]_vars => JobInv'
    BY JobNext
  <1>3. JobInv => OneJobPerBackup
    BY DEF JobInv
  <1> QED BY <1>1, <1>2, <1>3, Records, PTL DEF Spec

\* backup-in-progress names a backup that is there and has its finalizer: for any
\* number of backups that end as their Jobs end, and for a single backup whatever
\* happens to it.
THEOREM ManualInProgressOwned ==
    ASSUME Orderly \/ Alone PROVE Spec => []InProgressOwned
  <1>1. CASE Orderly
    <2>1. Init => OrderInv
      BY OrderInit
    <2>2. TypeInv /\ RecordInv /\ OrderInv /\ [Next]_vars => OrderInv'
      BY <1>1, OrderNext
    <2>3. TypeInv /\ OrderInv => InProgressOwned
      BY Types DEF TypeInv, Annotations, OrderInv, Ordered, Owned, InProgressOwned
    <2> QED BY <2>1, <2>2, <2>3, Records, PTL DEF Spec
  <1>2. CASE Alone
    <2>1. Init => AloneInv
      BY AloneInit
    <2>2. TypeInv /\ AloneInv /\ [Next]_vars => AloneInv'
      BY <1>2, AloneNext
    <2>3. TypeInv /\ AloneInv => InProgressOwned
      BY Types DEF TypeInv, Annotations, AloneInv, Guards, Guarded, InProgressOwned
    <2> QED BY <2>1, <2>2, <2>3, Records, PTL DEF Spec
  <1> QED BY <1>1, <1>2

\* finishBackup leaves through its exit only when the request is out of the
\* PerconaPGCluster and the Job has lost its labels, for any number of backups that
\* end as their Jobs end; the operator may restart and the cluster may be deleted.
THEOREM ManualExitIsClean == ASSUME Orderly PROVE Spec => []ExitIsClean
  <1>1. Init => OrderInv
    BY OrderInit
  <1>2. TypeInv /\ RecordInv /\ OrderInv /\ [Next]_vars => OrderInv'
    BY OrderNext
  <1>3. TypeInv /\ RecordInv /\ OrderInv => ExitIsClean
    <2> SUFFICES ASSUME TypeInv, RecordInv, OrderInv, w.pc \in {"dropFin", "complete"},
                        w.then # "none", pg = "live"
                 PROVE  ann.backup # wb /\ (Exists(w.snap.job) => ~jobs[w.snap.job].labelled)
      BY DEF ExitIsClean
    <2>1. Awake /\ wb \in Backups /\ w.snap.state = "Running"
      BY DEF TypeInv, Shape, Awake
    <2>2. Copies /\ StateTrue /\ PlaceTrue
      BY DEF OrderInv, Ordered
    <2>3. Live(wb) /\ ann.inProgress # wb
      BY <2>1, <2>2 DEF PlaceTrue
    <2>4. bk[wb].state = "Running" /\ bk[wb].job = w.snap.job
      BY <2>1, <2>3 DEF RecordInv, ReadTrue
    <2>5. Unlisted(w.snap.job)
      BY <2>1, <2>2, <2>3, <2>4 DEF StateTrue
    <2> QED BY <2>1, <2>2, <2>3, <2>5, NoneAssumption DEF Copies, Unlisted
  <1> QED BY <1>1, <1>2, <1>3, Records, PTL DEF Spec
=============================================================================
