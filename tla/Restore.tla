------------------------------ MODULE Restore ------------------------------
(***************************************************************************)
(* An in-place restore from a pgBackRest repository.  Three controllers    *)
(* take part and talk only through the objects they write:                 *)
(*                                                                         *)
(*   R  reconciles PerconaPGRestore objects: it writes the request on the  *)
(*      PerconaPGCluster, waits for the Job and reports the verdict;       *)
(*   P  copies the request from the PerconaPGCluster to the                *)
(*      PostgresCluster, and the status back;                              *)
(*   C  reconciles the PostgresCluster: it stops the instances, removes    *)
(*      what Patroni left, runs the restore Job and starts an instance.    *)
(*                                                                         *)
(* An operator restart loses what a controller was in the middle of.       *)
(* A cluster created with a data source is bootstrapped by the same Job.   *)
(***************************************************************************)
EXTENDS Naturals, FiniteSets

CONSTANTS
    Restores,       \* the PerconaPGRestore objects users create
    Boot,           \* the one P creates for spec.dataSource
    None,
    Scenarios       \* sets of faults: what may go wrong in a behaviour

VARIABLES
    restore,        \* PerconaPGRestore: state, finalizer, being deleted
    cr,             \* PerconaPGCluster: annotation, enabled, status copy
    pg,             \* PostgresCluster: the synced request, and its status
    job,            \* the Job <cluster>-pgbackrest-restore
    pod,            \* the instance on the volume being restored
    dcs,            \* the Endpoints Patroni keeps its state in exist
    restored,       \* the restores whose own Job has succeeded
    r, p, c,        \* where each controller is in its reconcile
    crashed,        \* the operator has restarted once
    faults          \* the scenario of this behaviour

cluster == <<cr, pg, job, pod, dcs>>
workers == <<r, p, c>>
vars == <<restore, cr, pg, job, pod, dcs, restored, r, p, c, crashed, faults>>

Objects == Restores \union {Boot}
Ids == Objects \union {None}
DataSource == "dataSource" \in faults
States == {"New", "Starting", "Running", "Succeeded", "Failed"}
Ended == {"Succeeded", "Failed"}

\* status.pgbackrest.restore: an ID and the result copied from the Job; None
\* when the field is not set.
JobStatus == [id : Ids, out : {"none", "ok", "bad"}] \union {None}
Blank(id) == [id |-> id, out |-> "none"]

\* Users do not choose the name of P's object; None is neither an object nor
\* the contents of one.
ASSUME BootAssumption == Boot \notin Restores
ASSUME NoneAssumption ==
    /\ None \notin Objects
    /\ None \notin [id : Ids, out : {"none", "ok", "bad"}]
    /\ None \notin [id : Objects, phase : {"active", "ok", "bad"}]

Idle == [pc |-> "idle"]

Live(x) == restore[x].state \notin {"absent", "gone"}

TypeOK ==
    /\ restore \in [Objects -> [state : States \union {"absent", "gone"},
                                 fin : BOOLEAN, del : BOOLEAN]]
    /\ cr \in [ann : Ids, on : BOOLEAN, res : JobStatus]
    /\ pg \in [ann : Ids, on : BOOLEAN, res : JobStatus,
               init : {"unset", "true", "false"},
               prog : {"no", "preparing", "ready"},
               startup : BOOLEAN, boot : BOOLEAN]
    /\ job = None \/ job \in [id : Objects, phase : {"active", "ok", "bad"}]
    /\ pod \in {"none", "starting", "up", "stopping"}
    /\ dcs \in BOOLEAN /\ crashed \in BOOLEAN
    /\ restored \subseteq Objects
    /\ r.pc \in {"idle", "reset", "request", "finalizer", "disable", "status",
                 "release", "unfinalize"}
    /\ p.pc \in {"idle", "status"}
    /\ c.pc \in {"idle", "patch"}

Init ==
    /\ faults \in Scenarios
    /\ restore = [x \in Objects |->
                    [state |-> "absent", fin |-> FALSE, del |-> FALSE]]
    /\ cr = [ann |-> None, on |-> FALSE, res |-> None]
    /\ pg = [ann |-> None, on |-> FALSE, res |-> None, init |-> "unset",
             prog |-> "no", startup |-> FALSE, boot |-> ~DataSource]
    /\ job = None
    /\ pod = IF DataSource THEN "none" ELSE "up"
    /\ dcs = ~DataSource
    /\ restored = {}
    /\ r = Idle /\ p = Idle /\ c = Idle
    /\ crashed = FALSE

-----------------------------------------------------------------------------
(***************************************************************************)
(* Users.  Without the fault "queued" a restore is requested only once the *)
(* cluster is back from the one before, and without "reuse" never of a     *)
(* cluster that has a data source.  "deleteEarly" lets a restore go before *)
(* it has its finalizer.                                                   *)
(***************************************************************************)
Settled ==
    /\ \A x \in Objects : Live(x) => restore[x].state \in Ended
    /\ job = None /\ pod = "up" /\ pg.boot /\ ~pg.startup /\ ~cr.on /\ ~pg.on
    /\ p.pc = "idle" /\ c.pc = "idle"

Create(x) ==
    /\ restore[x].state = "absent"
    /\ DataSource => "reuse" \in faults
    /\ "queued" \in faults \/ Settled
    /\ restore' = [restore EXCEPT ![x].state = "New"]
    /\ UNCHANGED <<workers, restored, cluster, crashed, faults>>

Delete(x) ==
    /\ "delete" \in faults
    /\ Live(x) /\ ~restore[x].del
    /\ restore[x].fin \/ "deleteEarly" \in faults
    /\ restore' = [restore EXCEPT ![x] =
                     IF @.fin THEN [@ EXCEPT !.del = TRUE]
                              ELSE [@ EXCEPT !.state = "gone"]]
    /\ UNCHANGED <<workers, restored, cluster, crashed, faults>>

-----------------------------------------------------------------------------
(***************************************************************************)
(* R: PGRestoreReconciler.  One worker; every write is a step.             *)
(***************************************************************************)

\* Mutant: whatever is not a failure is taken for a success.
ObserveStatusEarly ==
    IF cr.res = None THEN "Starting"
    ELSE IF cr.res.out = "bad" THEN "Failed" ELSE "Succeeded"

\* PGBackRestRestore.ObserveStatus, from the status P has copied.
ObserveStatus ==
    IF cr.res = None THEN "Starting"
    ELSE CASE cr.res.out = "ok"   -> "Succeeded"
           [] cr.res.out = "bad"  -> "Failed"
           [] cr.res.out = "none" -> "Running"

\* A restore that is New while another is enabled on the cluster waits, and
\* so does one that is Starting without a Job or Running without a result.
Reconcile(x) ==
    LET at(pc, next) == [pc |-> pc, x |-> x, next |-> next,
                         del |-> restore[x].del]
    IN
    /\ r.pc = "idle"
    /\ Live(x)
    /\ \/ /\ restore[x].del
          /\ r' = at("release", "gone")
       \/ /\ ~restore[x].del /\ restore[x].state = "New"
          /\ ~cr.on
          /\ r' = IF x = Boot THEN at("status", "Starting")
                  ELSE IF cr.ann = x THEN at("finalizer", "Starting")
                  ELSE at("reset", "Starting")
       \/ /\ ~restore[x].del /\ restore[x].state = "Starting"
          /\ job # None
          /\ r' = at("status", "Running")
       \/ /\ ~restore[x].del /\ restore[x].state = "Running"
          /\ ObserveStatus \in Ended
          /\ r' = at(IF x = Boot THEN "status" ELSE "disable", ObserveStatus)
    /\ UNCHANGED <<restored, cluster, restore, p, c, crashed, faults>>

\* Start, first half: the restore status of the PostgresCluster is emptied.
StartReset ==
    /\ r.pc = "reset"
    /\ pg' = [pg EXCEPT !.res = Blank(None)]
    /\ r' = [r EXCEPT !.pc = "request"]
    /\ UNCHANGED <<restored, restore, cr, job, pod, dcs, p, c, crashed, faults>>

\* Start, second half: one patch with the annotation and the spec.
StartRequest ==
    /\ r.pc = "request"
    /\ cr' = [cr EXCEPT !.ann = r.x, !.on = TRUE]
    /\ r' = [r EXCEPT !.pc = "finalizer"]
    /\ UNCHANGED <<restored, restore, pg, job, pod, dcs, p, c, crashed, faults>>

\* The API server takes no new finalizer for an object that is being deleted.
EnsureFinalizers ==
    /\ r.pc = "finalizer"
    /\ IF Live(r.x) /\ ~restore[r.x].del
       THEN /\ restore' = [restore EXCEPT ![r.x].fin = TRUE]
            /\ r' = [r EXCEPT !.pc = "status"]
       ELSE /\ r' = Idle
            /\ UNCHANGED restore
    /\ UNCHANGED <<restored, cluster, p, c, crashed, faults>>

\* Mutant: the annotation stays.
WithdrawnSpec(x) ==
    IF restore[x].state \in Ended THEN cr ELSE [cr EXCEPT !.on = FALSE]

\* DisableRestore: the request is withdrawn, whoever made it.
Withdrawn(x) ==
    IF restore[x].state \in Ended THEN cr ELSE [cr EXCEPT !.ann = None, !.on = FALSE]

DisableRestore ==
    /\ r.pc \in {"disable", "release"}
    /\ cr' = Withdrawn(r.x)
    /\ r' = [r EXCEPT !.pc = IF @ = "disable" THEN "status" ELSE "unfinalize"]
    /\ UNCHANGED <<restored, restore, pg, job, pod, dcs, p, c, crashed, faults>>

\* The last write of a reconcile.  It fails on an object deleted meanwhile.
UpdateStatus ==
    /\ r.pc = "status"
    /\ restore' = IF Live(r.x) /\ restore[r.x].del = r.del
                  THEN [restore EXCEPT ![r.x].state = r.next]
                  ELSE restore
    /\ r' = Idle
    /\ UNCHANGED <<restored, cluster, p, c, crashed, faults>>

RunFinalizer ==
    /\ r.pc = "unfinalize"
    /\ restore' = [restore EXCEPT ![r.x] =
                     [state |-> "gone", fin |-> FALSE, del |-> TRUE]]
    /\ r' = Idle
    /\ UNCHANGED <<restored, cluster, p, c, crashed, faults>>

RStep == StartReset \/ StartRequest \/ EnsureFinalizers \/ DisableRestore
            \/ UpdateStatus \/ RunFinalizer

-----------------------------------------------------------------------------
(***************************************************************************)
(* P: the part of PGClusterReconciler that restores depend on.             *)
(***************************************************************************)

\* The request goes to the PostgresCluster, whose status is read on the way.
\* A data source gets its PerconaPGRestore object before.
PSync ==
    /\ p.pc = "idle"
    /\ restore' = IF DataSource /\ restore[Boot].state = "absent"
                  THEN [restore EXCEPT ![Boot].state = "New"] ELSE restore
    /\ pg' = [pg EXCEPT !.ann = cr.ann, !.on = cr.on]
    /\ p' = [pc |-> "status", res |-> pg.res]
    /\ <<restore', pg', pg.res>> # <<restore, pg, cr.res>>
    /\ UNCHANGED <<restored, cr, job, pod, dcs, r, c, crashed, faults>>

PStatus ==
    /\ p.pc = "status"
    /\ cr' = [cr EXCEPT !.res = p.res]
    /\ p' = Idle
    /\ UNCHANGED <<restored, restore, pg, job, pod, dcs, r, c, crashed, faults>>

-----------------------------------------------------------------------------
(***************************************************************************)
(* C: reconcileDataSource and what follows it.  A reconcile writes to the  *)
(* cluster first and patches the status last, by fields.                   *)
(***************************************************************************)
\* P creates the PostgresCluster after the PerconaPGRestore of a data source.
CIdle == c.pc = "idle" /\ (DataSource => restore[Boot].state # "absent")

\* Mutant: an instance that is stopping does not count.
RunningUp == pod = "up"

Running == pod \in {"up", "stopping"}
InPlace == pg.ann # None /\ pg.on
RestoreID == IF InPlace THEN pg.ann ELSE IF DataSource THEN Boot ELSE None

\* reconcilePatroniStatus and observeRestoreEnv: the status as a reconcile
\* finds it.
Observed ==
    [res |-> IF job = None \/ pg.res = None THEN pg.res
             ELSE IF job.phase = "active" THEN pg.res
             ELSE [pg.res EXCEPT !.out = job.phase],
     init |-> IF job = None THEN pg.init
              ELSE CASE job.phase = "ok" -> "true"
                     [] job.phase = "bad" -> "false"
                     [] OTHER -> pg.init,
     prog |-> IF job # None /\ job.phase = "ok" THEN "no" ELSE pg.prog,
     startup |-> pg.startup,
     boot |-> pg.boot \/ dcs]

StatusID(s) == IF s.res = None THEN None ELSE s.res.id


\* Whether the cluster has to be taken down before the data is restored.
MustPrepare(s) ==
    /\ RestoreID # None
    /\ \/ StatusID(s) # RestoreID
       \/ s.prog = "preparing"
       \/ s.prog = "ready" /\ job # None /\ job.id # RestoreID

Patch(s) == c' = [pc |-> "patch", base |-> pg.res, new |-> s]

\* prepareForRestore takes one thing down at a time: the old Job, the
\* instances, the Endpoints.  Only then the cluster counts as empty.
PrepareForRestore ==
    /\ CIdle
    /\ MustPrepare(Observed)
    /\ LET s == [Observed EXCEPT !.res = Blank(RestoreID), !.startup = TRUE]
       IN \/ /\ job # None
             /\ job' = None
             /\ UNCHANGED <<pod, dcs>>
             /\ Patch([s EXCEPT !.prog = "preparing"])
          \/ /\ job = None /\ Running
             /\ pod' = "stopping"
             /\ UNCHANGED <<job, dcs>>
             /\ Patch([s EXCEPT !.prog = "preparing"])
          \/ /\ job = None /\ ~Running /\ dcs
             /\ dcs' = FALSE
             /\ UNCHANGED <<job, pod>>
             /\ Patch([s EXCEPT !.prog = "preparing"])
          \/ /\ job = None /\ ~Running /\ ~dcs
             /\ UNCHANGED <<job, pod, dcs>>
             /\ Patch([s EXCEPT !.init = "unset", !.prog = "ready", !.boot = FALSE])
    /\ UNCHANGED <<restored, restore, cr, pg, r, p, crashed, faults>>

\* Each status C patches wakes P, whose reconcile takes two writes, while
\* stopping the instances takes their grace period: without the fault "slow"
\* the status copy is up to date by the time the Job is created.
CaughtUp == p.pc = "idle" /\ cr.res = pg.res

\* Mutant: a failed Job is replaced.
JobNeededAgain ==
    (job = None \/ job.phase = "bad") /\ "invalid" \notin faults

JobNeeded == job = None /\ "invalid" \notin faults

\* reconcilePostgresClusterDataSource and reconcileRestoreJob.  A repository
\* or an option that is refused leaves an event and no Job.
ReconcileRestoreJob ==
    /\ CIdle
    /\ RestoreID # None /\ ~MustPrepare(Observed) /\ Observed.init # "true"
    /\ Observed.startup
    /\ job = None => "slow" \in faults \/ CaughtUp
    /\ IF Observed.boot
       THEN Patch([Observed EXCEPT !.init = "true"]) /\ UNCHANGED job
       ELSE /\ Patch(Observed)
            /\ job' = IF JobNeeded
                      THEN [id |-> RestoreID, phase |-> "active"] ELSE job
    /\ <<job', c'.new.res, c'.new.init>> # <<job, pg.res, pg.init>>
    /\ UNCHANGED <<restored, restore, cr, pg, pod, dcs, r, p, crashed, faults>>

\* Mutant: only a cluster that is bootstrapped gets its instance.
StartsInstanceBooted == pod = "none" /\ Observed.boot

StartsInstance == pod = "none"

\* No restore is asked for, or its data is in place: the rest of a reconcile.
\* reconcileInstanceSets runs the startup instance until there is a primary;
\* cleanupRepoResources removes the Job of a bootstrapped cluster.
ReconcileInstances ==
    /\ CIdle
    /\ RestoreID = None \/ (~MustPrepare(Observed) /\ Observed.init = "true")
    /\ pod' = IF StartsInstance THEN "starting" ELSE pod
    /\ job' = IF Observed.boot THEN None ELSE job
    /\ Patch([Observed EXCEPT !.startup = @ /\ ~(pod = "up" /\ dcs)])
    /\ \/ <<pod', job'>> # <<pod, job>>
       \/ \E f \in DOMAIN Observed : c'.new[f] # pg[f]
    /\ UNCHANGED <<restored, restore, cr, pg, dcs, r, p, crashed, faults>>

\* patchClusterStatus: a merge patch of what the reconcile has changed.
Merged(base, new, now) ==
    IF new = base THEN now
    ELSE IF base = None \/ now = None \/ new = None THEN new
    ELSE [f \in {"id", "out"} |-> IF new[f] # base[f] THEN new[f] ELSE now[f]]

PatchClusterStatus ==
    /\ c.pc = "patch"
    /\ pg' = [pg EXCEPT !.res = Merged(c.base, c.new.res, @),
                        !.init = c.new.init, !.prog = c.new.prog,
                        !.startup = c.new.startup, !.boot = c.new.boot]
    /\ c' = Idle
    /\ UNCHANGED <<restored, restore, cr, job, pod, dcs, r, p, crashed, faults>>

CStep == PrepareForRestore \/ ReconcileRestoreJob \/ ReconcileInstances
            \/ PatchClusterStatus

-----------------------------------------------------------------------------
(***************************************************************************)
(* Kubernetes, pgBackRest and Patroni.                                     *)
(***************************************************************************)
\* R polls for the Job every five seconds; without the fault "slow" a Job
\* runs longer than that, and longer than the reconcile that asked for it.
Observing(x) ==
    \/ restore[x].state = "Starting"
    \/ restore[x].state = "New" /\ ~cr.on
    \/ r.pc # "idle" /\ r.x = x /\ r.next = "Starting"

JobEnds ==
    /\ job # None /\ job.phase = "active"
    /\ "slow" \in faults \/ ~Observing(job.id)
    /\ \/ /\ job' = [job EXCEPT !.phase = "ok"]
          /\ restored' = restored \union {job.id}
       \/ /\ "jobFails" \in faults
          /\ job' = [job EXCEPT !.phase = "bad"]
          /\ UNCHANGED restored
    /\ UNCHANGED <<workers, restore, cr, pg, pod, dcs, crashed, faults>>

Kubelet ==
    /\ \/ pod = "starting" /\ pod' = "up"
       \/ pod = "stopping" /\ pod' = "none"
       \/ "flap" \in faults /\ pod = "up" /\ pod' = "starting"
    /\ UNCHANGED <<workers, restored, restore, cr, pg, job, dcs, crashed, faults>>

Patroni ==
    /\ pod = "up" /\ ~dcs
    /\ dcs' = TRUE
    /\ UNCHANGED <<workers, restored, restore, cr, pg, job, pod, crashed, faults>>

Crash ==
    /\ "crash" \in faults /\ ~crashed
    /\ crashed' = TRUE
    /\ r' = Idle /\ p' = Idle /\ c' = Idle
    /\ UNCHANGED <<cluster, restored, restore, faults>>

Next ==
    \/ \E x \in Restores : Create(x) \/ Delete(x)
    \/ \E x \in Objects : Reconcile(x)
    \/ RStep \/ PSync \/ PStatus \/ CStep
    \/ JobEnds \/ Kubelet \/ Patroni \/ Crash

Spec == Init /\ [][Next]_vars

\* The controllers are driven by watches and work queues, the Job, the
\* kubelet and Patroni by Kubernetes: none of them stops for good.  A queue
\* hands out every restore in turn.
Fairness ==
    /\ \A x \in Objects : SF_vars(Reconcile(x))
    /\ WF_vars(RStep) /\ WF_vars(PSync \/ PStatus) /\ WF_vars(CStep)
    /\ WF_vars(JobEnds) /\ WF_vars(Kubelet) /\ WF_vars(Patroni)

FairSpec == Spec /\ Fairness

-----------------------------------------------------------------------------
(***************************************************************************)
(* Properties.                                                             *)
(***************************************************************************)

\* A restore reported as Succeeded was carried out: its own Job has run to
\* completion.  The verdict passes through two status copies on its way.
SucceededRestored ==
    \A x \in Objects : restore[x].state = "Succeeded" => x \in restored

\* A restore with a verdict no longer asks for anything: DisableRestore comes
\* before the status update, so that the cluster is free for the next one.
RequestWithdrawn ==
    \A x \in Restores : restore[x].state \in Ended => cr.ann # x

\* While a requested restore rewrites the data directory, the instance on it
\* is neither running nor about to: prepareForRestore has removed it.
JobAlone ==
    job # None =>
        (job.phase = "active" /\ RestoreID = job.id => pod = "none")

\* A Job is rewriting the data directory only for a restore that has no verdict
\* and whose data has not been put in place before: neither a second Job for a
\* request already carried out, nor one that outlives its verdict.
RestoresOnce ==
    job # None =>
        (job.phase = "active" =>
            restore[job.id].state \notin Ended /\ job.id \notin restored)

\* Every restore gets a verdict, unless it is deleted: the request reaches C,
\* C takes the cluster down and runs the Job, and the result comes back.
RestoreEnds ==
    \A x \in Objects :
        restore[x].state = "New" ~> restore[x].state \in Ended \union {"gone"}

\* The same, if the operator does not restart in the middle.
RestoreEndsUndisturbed == "crash" \in faults \/ RestoreEnds

\* After a restore has succeeded the cluster comes up and the Job goes, unless
\* another restore takes the cluster down again or fails.
ClusterReturns ==
    \A x \in Objects :
        restore[x].state = "Succeeded" ~>
            \/ pod = "up" /\ pg.boot /\ job = None
            \/ \E y \in Restores \ {x} :
                   restore[y].state \notin {"absent", "Succeeded"}
=============================================================================
