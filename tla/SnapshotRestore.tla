-------------------------- MODULE SnapshotRestore --------------------------
(***************************************************************************)
(* An in-place restore from volume snapshots, optionally followed by a     *)
(* point-in-time recovery from a repository.  One worker reconciles the    *)
(* PerconaPGRestore objects: it suspends the instances, replaces their     *)
(* volumes, prepares them with a Job, recovers, and resumes.  The recovery *)
(* itself is the one of module Restore, here a single step.                *)
(***************************************************************************)
EXTENDS Naturals, FiniteSets

CONSTANTS
    Restores,       \* PerconaPGRestore objects with a volumeSnapshotBackupName
    Instances,
    None,
    Scenarios       \* sets of faults: what may happen in a behaviour

VARIABLES
    sr,             \* the PerconaPGRestore objects
    request,        \* the PerconaPGCluster: restore annotation and enabled
    status,         \* its copy of status.pgbackrest.restore
    inst,           \* the StatefulSets: suspended by annotation, ready
    pvc,            \* the volume of each instance and its annotation
    prep,           \* the Job <restore>-prepare
    skip,           \* the volumes with a file skip-wal-recovery
    leader,         \* the leader Endpoints of the old cluster exist
    backup,         \* the PerconaPGBackup exists
    recovered,      \* the restores whose recovery has succeeded
    w,              \* the worker: where it is in its reconcile
    mishaps,        \* the faults of this behaviour
    once            \* the fault that happens at most once has happened

world == <<request, status, inst, pvc, prep, skip, leader, backup, recovered>>
vars == <<sr, world, w, mishaps, once>>

PITR == "pitr" \in mishaps      \* the restores name a repository
Ended == {"Succeeded", "Failed"}
Live(x) == sr[x].state \notin {"absent", "gone"}
WIdle == [pc |-> "idle"]

\* The Job has a failed Pod, and another one runs or has succeeded.
PodFailed == {"retry", "late"}

TypeOK ==
    /\ sr \in [Restores -> [state : {"absent", "gone", "New", "Starting", "Running"} \union Ended,
                            fin : BOOLEAN, del : BOOLEAN, prepared : BOOLEAN]]
    /\ request \in [ann : Restores \union {None}, on : BOOLEAN]
    /\ status \in {"nil", "blank", "ok", "bad"}
    /\ inst \in [Instances -> [susp : BOOLEAN, up : BOOLEAN]]
    /\ pvc \in [Instances -> [of : Restores \union {None},
                              st : {"bound", "terminating", "absent"}]]
    /\ prep \in [Restores -> {"none", "active", "ok"} \union PodFailed]
    /\ skip \subseteq Instances /\ recovered \subseteq Restores
    /\ leader \in BOOLEAN /\ backup \in BOOLEAN /\ once \in BOOLEAN
    /\ w.pc \in {"idle", "starting", "suspend", "finalizer", "running", "volumes",
                 "prepare", "annotate", "pitr", "reset", "request", "endpoints",
                 "resume", "succeed", "finalize", "cleanup", "release"}

Init ==
    /\ mishaps \in Scenarios
    /\ sr = [x \in Restores |-> [state |-> "absent", fin |-> FALSE,
                                 del |-> FALSE, prepared |-> FALSE]]
    /\ request = [ann |-> None, on |-> FALSE] /\ status = "nil"
    /\ inst = [i \in Instances |-> [susp |-> FALSE, up |-> TRUE]]
    /\ pvc = [i \in Instances |-> [of |-> None, st |-> "bound"]]
    /\ prep = [x \in Restores |-> "none"]
    /\ skip = {} /\ leader = TRUE /\ backup = TRUE /\ recovered = {}
    /\ w = WIdle /\ once = FALSE

-----------------------------------------------------------------------------
(***************************************************************************)
(* Users.  Without the fault "queued" a restore is created once the one    *)
(* before is over, and without "earlier" only the first restore of a       *)
(* cluster recovers from a repository.                                     *)
(***************************************************************************)
CreateRestore(x) ==
    /\ sr[x].state = "absent"
    /\ \/ "queued" \in mishaps
       \/ \A y \in Restores : Live(y) => sr[y].state \in Ended /\ ~sr[y].fin
    /\ PITR => status = "nil" \/ "earlier" \in mishaps
    /\ sr' = [sr EXCEPT ![x].state = "New"]
    /\ UNCHANGED <<world, w, mishaps, once>>

DeleteRestore(x) ==
    /\ "delete" \in mishaps
    /\ Live(x) /\ ~sr[x].del
    /\ sr[x].fin \/ "deleteEarly" \in mishaps
    /\ sr' = [sr EXCEPT ![x] = IF @.fin THEN [@ EXCEPT !.del = TRUE]
                                        ELSE [@ EXCEPT !.state = "gone"]]
    /\ UNCHANGED <<world, w, mishaps, once>>

DeleteBackup ==
    /\ "noBackup" \in mishaps /\ backup
    /\ backup' = FALSE
    /\ UNCHANGED <<sr, request, status, inst, pvc, prep, skip, leader, recovered,
                   w, mishaps, once>>

-----------------------------------------------------------------------------
(***************************************************************************)
(* The worker.  A reconcile reads the restore first, then goes through its *)
(* stages; one that has to wait ends and is repeated five seconds later.   *)
(***************************************************************************)
Goto(pc) == w' = [w EXCEPT !.pc = pc]
Done == w' = WIdle

AnotherUnfinished(x) ==
    \E y \in Restores \ {x} : Live(y) /\ sr[y].state \notin Ended

\* Mutant: the finalizer of a failed restore is not run.
FinalizesSucceeded(x) == sr[x].del \/ (sr[x].state = "Succeeded" /\ sr[x].fin)

Finalizes(x) == sr[x].del \/ (sr[x].state \in Ended /\ sr[x].fin)

\* A missing backup is an error, for a deleted restore too.
SReconcile(x) ==
    LET at(pc) == w' = [pc |-> pc, x |-> x, prepared |-> sr[x].prepared, wait |-> FALSE]
    IN
    /\ w.pc = "idle" /\ Live(x) /\ backup
    /\ \/ Finalizes(x) /\ at("finalize")
       \/ /\ ~sr[x].del /\ sr[x].state = "New"
          /\ ~request.on /\ ~AnotherUnfinished(x)
          /\ at("starting")
       \/ ~sr[x].del /\ sr[x].state = "Starting" /\ at("suspend")
       \/ ~sr[x].del /\ sr[x].state = "Running" /\ at("volumes")
    /\ UNCHANGED <<sr, world, mishaps, once>>

\* UpdateStatus reads the object again: it fails only if the object is gone.
SetState(s) ==
    sr' = IF Live(w.x) THEN [sr EXCEPT ![w.x].state = s] ELSE sr

reconcileNew ==
    /\ w.pc = "starting"
    /\ SetState("Starting") /\ Done
    /\ UNCHANGED <<world, mishaps, once>>

\* SuspendInstance: an instance annotated in this reconcile is looked at in the
\* next one.
AllSuspended == ~w.wait /\ \A i \in Instances : ~inst[i].up

suspendAllInstances ==
    /\ w.pc = "suspend"
    /\ \/ \E i \in Instances :
            /\ ~inst[i].susp
            /\ inst' = [inst EXCEPT ![i].susp = TRUE]
            /\ w' = [w EXCEPT !.wait = TRUE]
       \/ /\ \A i \in Instances : inst[i].susp
          /\ IF AllSuspended THEN Goto("finalizer") ELSE Done
          /\ UNCHANGED inst
    /\ UNCHANGED <<sr, request, status, pvc, prep, skip, leader, backup, recovered,
                   mishaps, once>>

\* Only now the restore gets its finalizer.
SEnsureFinalizers ==
    /\ w.pc = "finalizer"
    /\ IF Live(w.x) /\ ~sr[w.x].del
       THEN sr' = [sr EXCEPT ![w.x].fin = TRUE] /\ Goto("running")
       ELSE UNCHANGED sr /\ Done
    /\ UNCHANGED <<world, mishaps, once>>

reconcileStarting ==
    /\ w.pc = "running"
    /\ SetState("Running") /\ Done
    /\ UNCHANGED <<world, mishaps, once>>

\* Mutant: the volumes of another restore count as restored.
ForeignUnmarked(i) == pvc[i].of = None

Foreign(i) == pvc[i].of # w.x

\* reconcileInstancePVC for the volumes: a volume that is not this restore's is
\* deleted, and created from the snapshot once it is gone.
reconcileInstances ==
    /\ w.pc = "volumes"
    /\ LET write == {i \in Instances : Foreign(i) /\ pvc[i].st # "terminating"}
       IN \/ \E i \in write :
                /\ pvc' = [pvc EXCEPT ![i] = IF @.st = "absent"
                             THEN [of |-> w.x, st |-> "bound"]
                             ELSE [@ EXCEPT !.st = "terminating"]]
                /\ skip' = skip \ {i}
                /\ w' = [w EXCEPT !.wait = @ \/ pvc[i].st = "bound"]
          \/ /\ write = {}
             /\ IF w.wait \/ \E i \in Instances : Foreign(i)
                THEN Done ELSE Goto("prepare")
             /\ UNCHANGED <<pvc, skip>>
    /\ UNCHANGED <<sr, request, status, inst, prep, leader, backup, recovered,
                   mishaps, once>>

\* The first failed Pod of the Job fails the restore, whatever the Job does next,
\* unless a later one has succeeded by then.  The reconcile goes on.
runPrepareJob ==
    /\ w.pc = "prepare"
    /\ \/ /\ w.prepared
          /\ prep' = [prep EXCEPT ![w.x] = "none"] /\ Goto("pitr") /\ UNCHANGED sr
       \/ /\ ~w.prepared /\ prep[w.x] = "none"
          /\ prep' = [prep EXCEPT ![w.x] = "active"] /\ Done /\ UNCHANGED sr
       \/ /\ ~w.prepared /\ prep[w.x] = "active"
          /\ Done /\ UNCHANGED <<sr, prep>>
       \/ /\ ~w.prepared /\ prep[w.x] \in {"ok", "late"}
          /\ Goto("annotate") /\ UNCHANGED <<sr, prep>>
       \/ /\ ~w.prepared /\ prep[w.x] = "retry"
          /\ SetState("Failed") /\ Goto("annotate") /\ UNCHANGED prep
    /\ UNCHANGED <<request, status, inst, pvc, skip, leader, backup, recovered,
                   mishaps, once>>

\* Mutant: the Job goes before the annotation is written.
reconcilePrepareJobAnnotationLate ==
    /\ w.pc = "annotate"
    /\ prep' = [prep EXCEPT ![w.x] = "none"]
    /\ Goto("pitr")
    /\ UNCHANGED <<sr, request, status, inst, pvc, skip, leader, backup, recovered,
                   mishaps, once>>

reconcilePrepareJobAnnotation ==
    /\ w.pc = "annotate"
    /\ sr' = IF Live(w.x) THEN [sr EXCEPT ![w.x].prepared = TRUE] ELSE sr
    /\ IF Live(w.x) THEN Goto("pitr") ELSE Done
    /\ UNCHANGED <<world, mishaps, once>>

\* Mutant: the annotation stays.
NoRequestAnnotated == [request EXCEPT !.on = FALSE]

\* DisableRestore.
NoRequest == [ann |-> None, on |-> FALSE]

\* The verdict is the status of the cluster, whosever it is.  A failed recovery
\* fails the restore, and the reconcile goes on.
restorePITR ==
    /\ w.pc = "pitr"
    /\ \/ ~PITR /\ Goto("endpoints") /\ UNCHANGED <<sr, request>>
       \/ /\ PITR /\ status = "nil"
          /\ IF request.ann = w.x THEN Done ELSE Goto("reset")
          /\ UNCHANGED <<sr, request>>
       \/ PITR /\ status = "blank" /\ Done /\ UNCHANGED <<sr, request>>
       \/ /\ PITR /\ status = "ok"
          /\ request' = NoRequest
          /\ Goto("endpoints") /\ UNCHANGED sr
       \/ /\ PITR /\ status = "bad"
          /\ SetState("Failed") /\ Goto("endpoints") /\ UNCHANGED request
    /\ UNCHANGED <<status, inst, pvc, prep, skip, leader, backup, recovered,
                   mishaps, once>>

\* PGBackRestRestore.Start: the status of the PostgresCluster, then the request.
PITRStart ==
    /\ w.pc \in {"reset", "request"}
    /\ IF w.pc = "reset"
       THEN status' = "blank" /\ Goto("request") /\ UNCHANGED request
       ELSE request' = [ann |-> w.x, on |-> TRUE] /\ Done /\ UNCHANGED status
    /\ UNCHANGED <<sr, inst, pvc, prep, skip, leader, backup, recovered,
                   mishaps, once>>

\* Endpoints with an address are left alone.
reconcileLeaderEndpoints ==
    /\ w.pc = "endpoints"
    /\ leader' = (leader /\ \E i \in Instances : inst[i].up)
    /\ Goto("resume")
    /\ UNCHANGED <<sr, request, status, inst, pvc, prep, skip, backup, recovered,
                   mishaps, once>>

\* Mutant: an instance counts as resumed in the reconcile that resumes it.
AllResumedAtOnce == \A i \in Instances : inst[i].up

\* UnsuspendInstance.
AllResumed == ~w.wait /\ \A i \in Instances : inst[i].up

\* In the last stage of a restore and in its finalizer.  An instance resumed in
\* this reconcile is checked in the next one.
unsuspendAllInstances ==
    /\ w.pc \in {"resume", "finalize"}
    /\ \/ \E i \in Instances :
            /\ inst[i].susp
            /\ inst' = [inst EXCEPT ![i].susp = FALSE]
            /\ w' = [w EXCEPT !.wait = TRUE]
       \/ /\ \A i \in Instances : ~inst[i].susp
          /\ IF ~AllResumed THEN Done
             ELSE Goto(IF w.pc = "resume" THEN "succeed" ELSE "cleanup")
          /\ UNCHANGED inst
    /\ UNCHANGED <<sr, request, status, pvc, prep, skip, leader, backup, recovered,
                   mishaps, once>>

reconcileRunning ==
    /\ w.pc = "succeed"
    /\ SetState("Succeeded") /\ Done
    /\ UNCHANGED <<world, mishaps, once>>

\* Mutant: only in the Pod of one instance.
SweptOne == {CHOOSE i \in Instances : inst[i].up}

\* The Pods that exist now.
Swept == {i \in Instances : inst[i].up}

cleanupSkipRecoveryFile ==
    /\ w.pc = "cleanup"
    /\ skip' = IF PITR THEN skip ELSE skip \ Swept
    /\ Goto("release")
    /\ UNCHANGED <<sr, request, status, inst, pvc, prep, leader, backup, recovered,
                   mishaps, once>>

\* The Job belongs to the restore and goes with it.
SRunFinalizer ==
    /\ w.pc = "release"
    /\ sr' = [sr EXCEPT ![w.x].fin = FALSE,
                        ![w.x].state = IF sr[w.x].del THEN "gone" ELSE @]
    /\ prep' = IF sr[w.x].del THEN [prep EXCEPT ![w.x] = "none"] ELSE prep
    /\ Done
    /\ UNCHANGED <<request, status, inst, pvc, skip, leader, backup, recovered,
                   mishaps, once>>

Worker ==
    \/ reconcileNew \/ suspendAllInstances \/ SEnsureFinalizers \/ reconcileStarting
    \/ reconcileInstances \/ runPrepareJob \/ reconcilePrepareJobAnnotation
    \/ restorePITR \/ PITRStart \/ reconcileLeaderEndpoints \/ unsuspendAllInstances
    \/ reconcileRunning \/ cleanupSkipRecoveryFile \/ SRunFinalizer

-----------------------------------------------------------------------------
(***************************************************************************)
(* Kubernetes, the other controllers, and pgBackRest.                      *)
(***************************************************************************)

\* The instance follows its annotation; a deleted volume stays while it is used.
Volume(i) ==
    /\ \/ inst[i].susp /\ inst[i].up
          /\ inst' = [inst EXCEPT ![i].up = FALSE] /\ UNCHANGED pvc
       \/ ~inst[i].susp /\ ~inst[i].up /\ pvc[i].st = "bound"
          /\ inst' = [inst EXCEPT ![i].up = TRUE] /\ UNCHANGED pvc
       \/ pvc[i].st = "terminating" /\ ~inst[i].up
          /\ pvc' = [pvc EXCEPT ![i] = [of |-> None, st |-> "absent"]] /\ UNCHANGED inst
    /\ UNCHANGED <<sr, request, status, prep, skip, leader, backup, recovered,
                   w, mishaps, once>>

\* reconcilePostgresDataVolume applies an empty volume where it finds none.  For
\* a suspended instance that takes a reconcile in the gap the restore leaves.
RecreateVolume(i) ==
    /\ pvc[i].st = "absent"
    /\ ~inst[i].susp \/ ("recreate" \in mishaps /\ ~once)
    /\ pvc' = [pvc EXCEPT ![i].st = "bound"]
    /\ once' = (once \/ inst[i].susp)
    /\ UNCHANGED <<sr, request, status, inst, prep, skip, leader, backup, recovered,
                   w, mishaps>>

\* A Pod of the Job ends.  Without recovery it leaves a file in every volume, or in
\* some if it fails.  The Job, which has the default limit, starts another one
\* after a failure, whether or not the restore is over and the instances run; it
\* may go on until it has succeeded or given up.
PrepareJobEnds(x) ==
    /\ prep[x] \in {"active", "retry"}
    /\ \/ prep' = [prep EXCEPT ![x] = IF @ = "active" THEN "ok" ELSE "late"]
          /\ skip' = IF PITR THEN skip ELSE Instances
       \/ /\ "prepareFails" \in mishaps
          /\ prep' = [prep EXCEPT ![x] = "retry"]
          /\ \E s \in SUBSET Instances : skip' = IF PITR THEN skip ELSE skip \union s
    /\ UNCHANGED <<sr, request, status, inst, pvc, leader, backup, recovered,
                   w, mishaps, once>>

Recover ==
    /\ request.on /\ status = "blank"
    /\ \/ status' = "ok" /\ recovered' = recovered \union {request.ann}
       \/ "pitrFails" \in mishaps /\ status' = "bad" /\ UNCHANGED recovered
    /\ UNCHANGED <<sr, request, inst, pvc, prep, skip, leader, backup,
                   w, mishaps, once>>

Restart ==
    /\ "crash" \in mishaps /\ ~once /\ w.pc # "idle"
    /\ once' = TRUE /\ w' = WIdle
    /\ UNCHANGED <<sr, world, mishaps>>

Environment ==
    \/ \E i \in Instances : Volume(i) \/ RecreateVolume(i)
    \/ \E x \in Restores : PrepareJobEnds(x)
    \/ Recover

Next ==
    \/ \E x \in Restores : CreateRestore(x) \/ DeleteRestore(x) \/ SReconcile(x)
    \/ DeleteBackup \/ Worker \/ Environment \/ Restart

Spec == Init /\ [][Next]_vars

\* A restore that waits is reconciled every five seconds; StatefulSets, volumes
\* and Jobs make progress.
Fairness ==
    /\ \A x \in Restores : SF_vars(SReconcile(x)) /\ WF_vars(PrepareJobEnds(x))
    /\ WF_vars(Worker) /\ WF_vars(Recover)
    /\ \A i \in Instances : WF_vars(Volume(i)) /\ SF_vars(RecreateVolume(i))

FairSpec == Spec /\ Fairness

-----------------------------------------------------------------------------
(***************************************************************************)
(* Properties.                                                             *)
(***************************************************************************)

\* A restore succeeds only with every volume made from its own snapshot, its
\* preparation done, and its own recovery done if it asks for one, although C
\* recreates volumes and each reconcile starts over.
SucceedsRestored ==
    [][\A x \in Restores :
         sr'[x].state = "Succeeded" /\ sr[x].state # "Succeeded" =>
            /\ \A i \in Instances : pvc[i].of = x
            /\ sr[x].prepared /\ (PITR => x \in recovered)]_vars

\* A verdict stands: a restore whose Job or recovery failed is not reported as
\* Succeeded by the stages that follow in the same reconcile.
RestoreVerdictKept ==
    [][\A x \in Restores : sr[x].state \in Ended =>
         sr'[x].state \in {sr[x].state, "gone"}]_vars

\* While a restore that is not deleted replaces and prepares the volumes, no
\* instance runs on them, until a Pod of the preparation fails.
VolumesOffline ==
    \A x \in Restores : prep[x] = "active" /\ ~sr[x].del =>
        \A i \in Instances : ~inst[i].up /\ inst[i].susp

\* Recovery is skipped only once: no file skip-wal-recovery is left in a volume
\* when the restores are over, unless a Job with a failed Pod went on writing.
SkipFileRemoved ==
    (\A x \in Restores : /\ sr[x].state \in Ended \union {"absent"} /\ ~sr[x].fin
                         /\ prep[x] \notin PodFailed)
        => skip = {}

\* A restore that is over has withdrawn its request for a recovery, which would keep
\* others waiting and rewrite the data later, unless that recovery failed or was
\* requested in the reconcile that found the preparation failed.
RecoveryWithdrawn ==
    \A x \in Restores : sr[x].state \in Ended /\ ~sr[x].fin =>
        request.ann # x \/ status = "bad" \/ prep[x] \in PodFailed

\* As long as its backup is there every restore ends, and whether it succeeds, fails
\* or is deleted, its finalizer resumes the instances, unless another restore follows
\* or it was deleted before it had that finalizer.
SnapshotRestoreEnds ==
    \A x \in Restores :
        sr[x].state = "New" ~>
            \/ /\ sr[x].state \in Ended \union {"gone"} /\ ~sr[x].fin
               /\ (sr[x].state = "gone" /\ ~sr[x].del) \/ \A i \in Instances : inst[i].up
            \/ AnotherUnfinished(x) \/ ~backup
=============================================================================
