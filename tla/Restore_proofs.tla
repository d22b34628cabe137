--------------------------- MODULE Restore_proofs ---------------------------
(***************************************************************************)
(* An in-place restore, for any set of PerconaPGRestore objects.  Under    *)
(* every fault a restore with a verdict has its request withdrawn.  For    *)
(* restores requested one after the other the result that is reported is   *)
(* that of the restore's own Job, no Job runs for a restore that is over,  *)
(* and no instance runs beside the Job.                                    *)
(*                                                                         *)
(* The invariant comes in layers, each proved from the ones before:        *)
(*   RequestInv  what R has in hand, finalizers, the request as written;   *)
(*   TurnInv     the request, its copy, the Job and the restore at work    *)
(*               name one object, and nothing is left of the one before;   *)
(*   PlaceInv    the status of the PostgresCluster is the one of that      *)
(*               object, as it is stored and as C is about to patch it;    *)
(*   ResultInv   every copy of a result on its way from the Job to R;      *)
(*   OnceInv     what is left of a request that has been carried out;      *)
(*   DownInv     the Pods from the preparation to the end of the Job.      *)
(* The first two name all steps of the three controllers; what each step   *)
(* does to the fields is stated once, in the lemmas called ...Does.        *)
(***************************************************************************)
EXTENDS Restore, TLAPS

-----------------------------------------------------------------------------
(* Types.                                                                  *)

RestoreObject == [state : States \union {"absent", "gone"}, fin : BOOLEAN, del : BOOLEAN]
PerconaCluster == [ann : Ids, on : BOOLEAN, res : JobStatus]
RestoreJob == [id : Objects, phase : {"active", "ok", "bad"}]
Inits == {"unset", "true", "false"}
Progress == {"no", "preparing", "ready"}
Status == [res : JobStatus, init : Inits, prog : Progress, startup : BOOLEAN, boot : BOOLEAN]
RBusy == {"reset", "request", "finalizer", "disable", "status", "release", "unfinalize"}

\* What a controller has in hand in the middle of a reconcile.
Workers ==
    /\ r.pc # "idle" => r \in [pc : RBusy, x : Objects, next : States \union {"gone"},
                               del : BOOLEAN]
    /\ p.pc = "status" => p \in [pc : {"status"}, res : JobStatus]
    /\ c.pc = "patch" => c \in [pc : {"patch"}, base : JobStatus, new : Status]

TypeInv == TypeOK /\ Workers /\ faults \in Scenarios

LEMMA TypeInit == Init => TypeInv
  <1> SUFFICES ASSUME Init PROVE TypeInv
    OBVIOUS
  <1> USE DEF Init, Ids, JobStatus
  <1>1. restore \in [Objects -> RestoreObject]
    BY DEF RestoreObject
  <1>2. cr \in PerconaCluster
    BY DEF PerconaCluster
  <1>3. pg \in [ann : Ids, on : BOOLEAN, res : JobStatus, init : Inits, prog : Progress,
                startup : BOOLEAN, boot : BOOLEAN]
    BY DEF Inits, Progress
  <1>4. Workers
    BY DEF Workers, Idle
  <1> QED BY <1>1, <1>2, <1>3, <1>4 DEF TypeInv, TypeOK, Idle, RestoreObject, PerconaCluster,
                                         Inits, Progress

LEMMA Types ==
    ASSUME TypeInv
    PROVE  /\ restore \in [Objects -> RestoreObject]
           /\ cr \in PerconaCluster
           /\ pg \in [ann : Ids, on : BOOLEAN, res : JobStatus, init : Inits,
                      prog : Progress, startup : BOOLEAN, boot : BOOLEAN]
           /\ job = None \/ job \in RestoreJob
           /\ pod \in {"none", "starting", "up", "stopping"}
           /\ dcs \in BOOLEAN /\ restored \subseteq Objects
           /\ r.pc \in RBusy \union {"idle"}
           /\ p.pc \in {"idle", "status"} /\ c.pc \in {"idle", "patch"}
  BY DEF TypeInv, TypeOK, RestoreObject, PerconaCluster, RestoreJob, Inits, Progress, RBusy

-----------------------------------------------------------------------------
(* What a step does, field by field.                                       *)

\* The object x is written; the others stay.
Wrote(x, state, fin, del) ==
    /\ restore' \in [Objects -> RestoreObject]
    /\ restore'[x].state = state /\ restore'[x].fin = fin /\ restore'[x].del = del
    /\ \A y \in Objects : y # x => restore'[y] = restore[y]

\* R goes on with the same restore.
RGoes(pc) ==
    /\ r'.pc = pc /\ r'.x = r.x /\ r'.next = r.next /\ r'.del = r.del
    /\ r' \in [pc : RBusy, x : Objects, next : States \union {"gone"}, del : BOOLEAN]

\* The request in the PerconaPGCluster.
Asked(ann, on) ==
    /\ cr' \in PerconaCluster
    /\ cr'.ann = ann /\ cr'.on = on /\ cr'.res = cr.res

\* The result of a restore that a status tells.
ResultOf(res) == IF res = None THEN "none" ELSE res.out

\* The status of the PostgresCluster as it is stored, and as it will be when the
\* patch that C has in hand is made.
Stored == [res |-> pg.res, init |-> pg.init, prog |-> pg.prog, boot |-> pg.boot]
Soon == IF c.pc = "patch"
        THEN [res |-> Merged(c.base, c.new.res, pg.res), init |-> c.new.init,
              prog |-> c.new.prog, boot |-> c.new.boot]
        ELSE Stored
\* The copies on their way to R.
Copies == {cr.res} \union IF p.pc = "status" THEN {p.res} ELSE {}

LEMMA NewObject ==
    ASSUME TypeInv, NEW x \in Objects, NEW state \in States \union {"absent", "gone"},
           NEW fin \in BOOLEAN, NEW del \in BOOLEAN,
           restore' = [restore EXCEPT ![x] = [state |-> state, fin |-> fin, del |-> del]]
    PROVE  Wrote(x, state, fin, del)
  BY Types DEF Wrote, RestoreObject

LEMMA CreateDoes ==
    ASSUME TypeInv, NEW x \in Restores, Create(x)
    PROVE  /\ restore[x].state = "absent" /\ (DataSource => "reuse" \in faults)
           /\ "queued" \in faults \/ Settled
           /\ Wrote(x, "New", restore[x].fin, restore[x].del)
           /\ UNCHANGED <<cr, pg, job, pod, dcs, restored, r, p, c, faults>>
  <1>1. x \in Objects /\ restore[x] \in RestoreObject
    BY Types DEF Objects
  <1>2. restore' = [restore EXCEPT ![x].state = "New"]
    BY DEF Create
  <1>3. Wrote(x, "New", restore[x].fin, restore[x].del)
    BY <1>1, <1>2, Types DEF Wrote, RestoreObject, States
  <1> QED BY <1>3 DEF Create, workers, cluster

LEMMA DeleteDoes ==
    ASSUME TypeInv, NEW x \in Restores, Delete(x)
    PROVE  /\ Live(x) /\ ~restore[x].del
           /\ \/ restore[x].fin /\ Wrote(x, restore[x].state, TRUE, TRUE)
              \/ ~restore[x].fin /\ Wrote(x, "gone", FALSE, FALSE)
           /\ UNCHANGED <<cr, pg, job, pod, dcs, restored, r, p, c, faults>>
  <1>1. x \in Objects /\ restore[x] \in RestoreObject
    BY Types DEF Objects
  <1>2. restore[x].fin \in BOOLEAN /\ restore[x].del \in BOOLEAN
    BY <1>1 DEF RestoreObject
  <1>3. restore' = [restore EXCEPT ![x] = IF restore[x].fin THEN [restore[x] EXCEPT !.del = TRUE]
                                          ELSE [restore[x] EXCEPT !.state = "gone"]]
    BY DEF Delete
  <1>4. CASE restore[x].fin
    <2>1. restore' = [restore EXCEPT ![x] = [restore[x] EXCEPT !.del = TRUE]]
      BY <1>3, <1>4
    <2>2. Wrote(x, restore[x].state, TRUE, TRUE)
      BY <1>1, <1>2, <1>4, <2>1, Types DEF Wrote, RestoreObject
    <2> QED BY <1>4, <2>2 DEF Delete, workers, cluster
  <1>5. CASE ~restore[x].fin
    <2>1. restore' = [restore EXCEPT ![x] = [restore[x] EXCEPT !.state = "gone"]]
      BY <1>3, <1>5
    <2>2. ~restore[x].del
      BY DEF Delete
    <2>3. Wrote(x, "gone", FALSE, FALSE)
      BY <1>1, <1>2, <1>5, <2>1, <2>2, Types DEF Wrote, RestoreObject
    <2> QED BY <1>5, <2>3 DEF Delete, workers, cluster
  <1> QED BY <1>2, <1>4, <1>5

LEMMA ReconcileDoes ==
    ASSUME TypeInv, NEW x \in Objects, Reconcile(x)
    PROVE  /\ r.pc = "idle" /\ Live(x)
           /\ r' \in [pc : RBusy, x : Objects, next : States \union {"gone"}, del : BOOLEAN]
           /\ r'.x = x /\ r'.del = restore[x].del
           /\ \/ restore[x].del /\ r'.pc = "release" /\ r'.next = "gone"
              \/ /\ ~restore[x].del /\ restore[x].state = "New" /\ ~cr.on /\ r'.next = "Starting"
                 /\ \/ x = Boot /\ r'.pc = "status"
                    \/ x # Boot /\ cr.ann = x /\ r'.pc = "finalizer"
                    \/ x # Boot /\ cr.ann # x /\ r'.pc = "reset"
              \/ /\ ~restore[x].del /\ restore[x].state = "Starting" /\ job # None
                 /\ r'.pc = "status" /\ r'.next = "Running"
              \/ /\ ~restore[x].del /\ restore[x].state = "Running"
                 /\ r'.pc = IF x = Boot THEN "status" ELSE "disable"
                 /\ r'.next \in Ended
                 /\ r'.next = "Succeeded" => ResultOf(cr.res) = "ok"
                 /\ ResultOf(cr.res) # "none"
           /\ UNCHANGED <<restore, cr, pg, job, pod, dcs, restored, p, c, faults>>
  <1>1. restore[x].del \in BOOLEAN
    BY Types DEF RestoreObject
  <1> DEFINE at(pc, next) == [pc |-> pc, x |-> x, next |-> next, del |-> restore[x].del]
             Hand == [pc : RBusy, x : Objects, next : States \union {"gone"}, del : BOOLEAN]
  <1>2. \A pc \in RBusy, next \in States \union {"gone"} :
            /\ at(pc, next) \in Hand
            /\ at(pc, next).pc = pc /\ at(pc, next).x = x /\ at(pc, next).next = next
            /\ at(pc, next).del = restore[x].del
    BY <1>1
  <1>3. /\ r.pc = "idle" /\ Live(x)
        /\ \/ restore[x].del /\ r' = at("release", "gone")
           \/ /\ ~restore[x].del /\ restore[x].state = "New" /\ ~cr.on
              /\ r' = IF x = Boot THEN at("status", "Starting")
                      ELSE IF cr.ann = x THEN at("finalizer", "Starting")
                      ELSE at("reset", "Starting")
           \/ /\ ~restore[x].del /\ restore[x].state = "Starting" /\ job # None
              /\ r' = at("status", "Running")
           \/ /\ ~restore[x].del /\ restore[x].state = "Running" /\ ObserveStatus \in Ended
              /\ r' = at(IF x = Boot THEN "status" ELSE "disable", ObserveStatus)
        /\ UNCHANGED <<restore, cr, pg, job, pod, dcs, restored, p, c, faults>>
    BY DEF Reconcile, cluster
  <1>4. ObserveStatus \in Ended =>
            /\ ResultOf(cr.res) # "none"
            /\ ObserveStatus = "Succeeded" => ResultOf(cr.res) = "ok"
    <2>1. cr.res = None \/ cr.res.out \in {"none", "ok", "bad"}
      BY Types DEF PerconaCluster, JobStatus
    <2> QED BY <2>1 DEF ObserveStatus, Ended, ResultOf
  <1>5. {"New", "Starting", "Running", "Succeeded", "Failed"} = States /\ Ended \subseteq States
    BY DEF States, Ended
  <1>6. \A pc \in {"reset", "request", "finalizer", "disable", "status", "release"} : pc \in RBusy
    BY DEF RBusy
  <1> HIDE DEF at, Hand
  <1>7. CASE restore[x].del /\ r' = at("release", "gone")
    <2>1. /\ at("release", "gone") \in Hand /\ at("release", "gone").pc = "release"
          /\ at("release", "gone").x = x /\ at("release", "gone").next = "gone"
          /\ at("release", "gone").del = restore[x].del
      BY <1>2, <1>6
    <2> QED BY <1>3, <1>7, <2>1 DEF Hand
  <1>8. ASSUME ~restore[x].del, restore[x].state = "New", ~cr.on,
               NEW pc \in {"status", "finalizer", "reset"}, r' = at(pc, "Starting"),
               \/ x = Boot /\ pc = "status"
               \/ x # Boot /\ cr.ann = x /\ pc = "finalizer"
               \/ x # Boot /\ cr.ann # x /\ pc = "reset"
        PROVE  /\ r' \in Hand /\ r'.x = x /\ r'.del = restore[x].del /\ r'.next = "Starting"
               /\ r'.pc = pc
    BY <1>2, <1>5, <1>6, <1>8
  <1>9. CASE /\ ~restore[x].del /\ restore[x].state = "New" /\ ~cr.on
             /\ r' = IF x = Boot THEN at("status", "Starting")
                     ELSE IF cr.ann = x THEN at("finalizer", "Starting")
                     ELSE at("reset", "Starting")
    <2>1. CASE x = Boot
      BY <1>3, <1>8, <1>9, <2>1 DEF Hand
    <2>2. CASE x # Boot /\ cr.ann = x
      BY <1>3, <1>8, <1>9, <2>2 DEF Hand
    <2>3. CASE x # Boot /\ cr.ann # x
      BY <1>3, <1>8, <1>9, <2>3 DEF Hand
    <2> QED BY <2>1, <2>2, <2>3
  <1>10. CASE /\ ~restore[x].del /\ restore[x].state = "Starting" /\ job # None
              /\ r' = at("status", "Running")
    <2>1. /\ at("status", "Running") \in Hand /\ at("status", "Running").pc = "status"
          /\ at("status", "Running").x = x /\ at("status", "Running").next = "Running"
          /\ at("status", "Running").del = restore[x].del
      BY <1>2, <1>5, <1>6
    <2> QED BY <1>3, <1>10, <2>1 DEF Hand
  <1>11. CASE /\ ~restore[x].del /\ restore[x].state = "Running" /\ ObserveStatus \in Ended
              /\ r' = at(IF x = Boot THEN "status" ELSE "disable", ObserveStatus)
    <2> DEFINE pc == IF x = Boot THEN "status" ELSE "disable"
    <2>1. pc \in RBusy /\ ObserveStatus \in States
      BY <1>5, <1>6, <1>11
    <2>2. r' = at(pc, ObserveStatus)
      BY <1>11
    <2>3. /\ at(pc, ObserveStatus) \in Hand /\ at(pc, ObserveStatus).pc = pc
          /\ at(pc, ObserveStatus).x = x /\ at(pc, ObserveStatus).next = ObserveStatus
          /\ at(pc, ObserveStatus).del = restore[x].del
      BY <1>2, <2>1
    <2> QED BY <1>3, <1>4, <1>11, <2>2, <2>3 DEF Hand
  <1> QED BY <1>3, <1>7, <1>9, <1>10, <1>11

LEMMA RHas ==
    ASSUME TypeInv, r.pc # "idle"
    PROVE  /\ r \in [pc : RBusy, x : Objects, next : States \union {"gone"}, del : BOOLEAN]
           /\ r.x \in Objects /\ r.next \in States \union {"gone"} /\ r.del \in BOOLEAN
           /\ restore[r.x] \in RestoreObject
           /\ restore[r.x].state \in States \union {"absent", "gone"}
           /\ restore[r.x].fin \in BOOLEAN /\ restore[r.x].del \in BOOLEAN
  <1>1. r \in [pc : RBusy, x : Objects, next : States \union {"gone"}, del : BOOLEAN]
    BY DEF TypeInv, Workers
  <1>2. r.x \in Objects /\ r.next \in States \union {"gone"} /\ r.del \in BOOLEAN
    BY <1>1
  <1>3. restore[r.x] \in RestoreObject
    BY <1>2, Types
  <1> QED BY <1>1, <1>2, <1>3 DEF RestoreObject

LEMMA RWalks ==
    ASSUME TypeInv, r.pc # "idle", NEW pc \in RBusy, r' = [r EXCEPT !.pc = pc]
    PROVE  RGoes(pc)
  BY RHas DEF RGoes

\* The restore status that is stored; the annotation and enabled of the request.
PutStatus(res) ==
    /\ pg' \in [ann : Ids, on : BOOLEAN, res : JobStatus, init : Inits,
                prog : Progress, startup : BOOLEAN, boot : BOOLEAN]
    /\ pg'.res = res
    /\ pg'.ann = pg.ann /\ pg'.on = pg.on /\ pg'.init = pg.init /\ pg'.prog = pg.prog
    /\ pg'.startup = pg.startup /\ pg'.boot = pg.boot
PutRequest ==
    /\ pg' \in [ann : Ids, on : BOOLEAN, res : JobStatus, init : Inits,
                prog : Progress, startup : BOOLEAN, boot : BOOLEAN]
    /\ pg'.ann = cr.ann /\ pg'.on = cr.on
    /\ pg'.res = pg.res /\ pg'.init = pg.init /\ pg'.prog = pg.prog
    /\ pg'.startup = pg.startup /\ pg'.boot = pg.boot

LEMMA StartResetDoes ==
    ASSUME TypeInv, StartReset
    PROVE  /\ r.pc = "reset" /\ RGoes("request") /\ PutStatus(Blank(None))
           /\ UNCHANGED <<restore, cr, job, pod, dcs, restored, p, c, faults>>
  <1>1. RGoes("request")
    BY RWalks DEF StartReset, RBusy
  <1>2. Blank(None) \in JobStatus
    BY DEF Blank, JobStatus, Ids
  <1>3. PutStatus(Blank(None))
    BY <1>2, Types DEF StartReset, PutStatus
  <1> QED BY <1>1, <1>3 DEF StartReset

LEMMA StartRequestDoes ==
    ASSUME TypeInv, StartRequest
    PROVE  /\ r.pc = "request" /\ RGoes("finalizer") /\ Asked(r.x, TRUE)
           /\ UNCHANGED <<restore, pg, job, pod, dcs, restored, p, c, faults>>
  <1>1. RGoes("finalizer")
    BY RWalks DEF StartRequest, RBusy
  <1>2. r.x \in Ids
    BY RHas DEF StartRequest, Ids
  <1>3. Asked(r.x, TRUE)
    BY <1>2, Types DEF StartRequest, Asked, PerconaCluster
  <1> QED BY <1>1, <1>3 DEF StartRequest

LEMMA EnsureFinalizersDoes ==
    ASSUME TypeInv, EnsureFinalizers
    PROVE  /\ r.pc = "finalizer"
           /\ \/ /\ Live(r.x) /\ ~restore[r.x].del /\ RGoes("status")
                 /\ Wrote(r.x, restore[r.x].state, TRUE, restore[r.x].del)
              \/ /\ ~(Live(r.x) /\ ~restore[r.x].del)
                 /\ r' = Idle /\ UNCHANGED restore
           /\ UNCHANGED <<cr, pg, job, pod, dcs, restored, p, c, faults>>
  <1>1. r.pc = "finalizer" /\ UNCHANGED <<cr, pg, job, pod, dcs, restored, p, c, faults>>
    BY DEF EnsureFinalizers, cluster
  <1>2. CASE Live(r.x) /\ ~restore[r.x].del
    <2>1. RGoes("status")
      BY <1>1, <1>2, RWalks DEF EnsureFinalizers, RBusy
    <2>2. restore' = [restore EXCEPT ![r.x].fin = TRUE]
      BY <1>2 DEF EnsureFinalizers
    <2>3. Wrote(r.x, restore[r.x].state, TRUE, restore[r.x].del)
      BY <1>1, <2>2, RHas, Types DEF Wrote, RestoreObject
    <2> QED BY <1>1, <1>2, <2>1, <2>3
  <1>3. CASE ~(Live(r.x) /\ ~restore[r.x].del)
    BY <1>1, <1>3 DEF EnsureFinalizers
  <1> QED BY <1>2, <1>3

LEMMA DisableRestoreDoes ==
    ASSUME TypeInv, DisableRestore
    PROVE  /\ \/ r.pc = "disable" /\ RGoes("status")
              \/ r.pc = "release" /\ RGoes("unfinalize")
           /\ \/ restore[r.x].state \in Ended /\ UNCHANGED cr
              \/ restore[r.x].state \notin Ended /\ Asked(None, FALSE)
           /\ UNCHANGED <<restore, pg, job, pod, dcs, restored, p, c, faults>>
  <1>1. r.pc \in {"disable", "release"}
    BY DEF DisableRestore
  <1>2. \/ r.pc = "disable" /\ RGoes("status")
        \/ r.pc = "release" /\ RGoes("unfinalize")
    <2>1. CASE r.pc = "disable"
      BY <2>1, RWalks DEF DisableRestore, RBusy
    <2>2. CASE r.pc = "release"
      <3>1. r' = [r EXCEPT !.pc = "unfinalize"]
        BY <2>2 DEF DisableRestore
      <3> QED BY <2>2, <3>1, RWalks DEF RBusy
    <2> QED BY <1>1, <2>1, <2>2
  <1>3. restore[r.x].state \notin Ended => Asked(None, FALSE)
    BY Types DEF DisableRestore, Withdrawn, Asked, PerconaCluster, Ids
  <1>4. restore[r.x].state \in Ended => UNCHANGED cr
    BY DEF DisableRestore, Withdrawn
  <1> QED BY <1>2, <1>3, <1>4 DEF DisableRestore

LEMMA UpdateStatusDoes ==
    ASSUME TypeInv, UpdateStatus
    PROVE  /\ r.pc = "status" /\ r' = Idle
           /\ \/ UNCHANGED restore
              \/ /\ Live(r.x) /\ restore[r.x].del = r.del
                 /\ Wrote(r.x, r.next, restore[r.x].fin, restore[r.x].del)
           /\ UNCHANGED <<cr, pg, job, pod, dcs, restored, p, c, faults>>
  <1>1. /\ r.pc = "status" /\ r' = Idle
        /\ UNCHANGED <<cr, pg, job, pod, dcs, restored, p, c, faults>>
    BY DEF UpdateStatus, cluster
  <1>2. CASE Live(r.x) /\ restore[r.x].del = r.del
    <2>1. restore' = [restore EXCEPT ![r.x].state = r.next]
      BY <1>2 DEF UpdateStatus
    <2>2. Wrote(r.x, r.next, restore[r.x].fin, restore[r.x].del)
      BY <1>1, <2>1, RHas, Types DEF Wrote, RestoreObject
    <2> QED BY <1>1, <1>2, <2>2
  <1>3. CASE ~(Live(r.x) /\ restore[r.x].del = r.del)
    BY <1>1, <1>3 DEF UpdateStatus
  <1> QED BY <1>2, <1>3

LEMMA RunFinalizerDoes ==
    ASSUME TypeInv, RunFinalizer
    PROVE  /\ r.pc = "unfinalize" /\ r' = Idle /\ Wrote(r.x, "gone", FALSE, TRUE)
           /\ UNCHANGED <<cr, pg, job, pod, dcs, restored, p, c, faults>>
  <1>1. r.pc = "unfinalize"
    BY DEF RunFinalizer
  <1>2. Wrote(r.x, "gone", FALSE, TRUE)
    BY <1>1, RHas, NewObject DEF RunFinalizer
  <1> QED BY <1>1, <1>2 DEF RunFinalizer, cluster

LEMMA PSyncDoes ==
    ASSUME TypeInv, PSync
    PROVE  /\ p.pc = "idle"
           /\ p'.pc = "status" /\ p'.res = pg.res /\ p' \in [pc : {"status"}, res : JobStatus]
           /\ PutRequest
           /\ \/ UNCHANGED restore
              \/ /\ DataSource /\ restore[Boot].state = "absent"
                 /\ Wrote(Boot, "New", restore[Boot].fin, restore[Boot].del)
           /\ UNCHANGED <<cr, job, pod, dcs, restored, r, c, faults>>
  <1>1. p.pc = "idle" /\ UNCHANGED <<cr, job, pod, dcs, restored, r, c, faults>>
    BY DEF PSync
  <1>2. p'.pc = "status" /\ p'.res = pg.res /\ p' \in [pc : {"status"}, res : JobStatus]
    BY Types DEF PSync
  <1>3. PutRequest
    BY Types DEF PSync, PutRequest, PerconaCluster
  <1>4. CASE DataSource /\ restore[Boot].state = "absent"
    <2>1. restore' = [restore EXCEPT ![Boot].state = "New"]
      BY <1>4 DEF PSync
    <2>2. Boot \in Objects
      BY DEF Objects
    <2>3. Wrote(Boot, "New", restore[Boot].fin, restore[Boot].del)
      BY <2>1, <2>2, Types DEF Wrote, RestoreObject, States
    <2> QED BY <1>1, <1>2, <1>3, <1>4, <2>3
  <1>5. CASE ~(DataSource /\ restore[Boot].state = "absent")
    BY <1>1, <1>2, <1>3, <1>5 DEF PSync
  <1> QED BY <1>4, <1>5

LEMMA PStatusDoes ==
    ASSUME TypeInv, PStatus
    PROVE  /\ p.pc = "status" /\ p' = Idle
           /\ cr' \in PerconaCluster /\ cr'.res = p.res /\ cr'.ann = cr.ann /\ cr'.on = cr.on
           /\ UNCHANGED <<restore, pg, job, pod, dcs, restored, r, c, faults>>
  <1>1. p.pc = "status"
    BY DEF PStatus
  <1>2. p.res \in JobStatus
    BY <1>1 DEF TypeInv, Workers
  <1>3. cr' \in PerconaCluster /\ cr'.res = p.res /\ cr'.ann = cr.ann /\ cr'.on = cr.on
    BY <1>2, Types DEF PStatus, PerconaCluster
  <1> QED BY <1>1, <1>3 DEF PStatus

-----------------------------------------------------------------------------
(* The status that a reconcile of C finds, and the one that it patches.    *)

LEMMA MergedType ==
    ASSUME NEW base \in JobStatus, NEW new \in JobStatus, NEW now \in JobStatus
    PROVE  Merged(base, new, now) \in JobStatus
  <1> DEFINE both == [f \in {"id", "out"} |-> IF new[f] # base[f] THEN new[f] ELSE now[f]]
  <1>1. CASE new = base \/ base = None \/ now = None \/ new = None
    BY <1>1 DEF Merged
  <1>2. CASE ~(new = base \/ base = None \/ now = None \/ new = None)
    <2>1. \A s \in {new, now} : s["id"] \in Ids /\ s["out"] \in {"none", "ok", "bad"}
      BY <1>2 DEF JobStatus
    <2>2. both["id"] \in Ids /\ both["out"] \in {"none", "ok", "bad"}
      BY <2>1
    <2>3. both = [id |-> both["id"], out |-> both["out"]]
      OBVIOUS
    <2>4. both \in JobStatus
      BY <2>2, <2>3 DEF JobStatus
    <2>5. Merged(base, new, now) = both
      BY <1>2 DEF Merged
    <2> QED BY <2>4, <2>5
  <1> QED BY <1>1, <1>2

\* A patch of what has not been changed meanwhile stores what it says; a patch of
\* other fields leaves the restore status alone.
LEMMA MergedOwn ==
    ASSUME NEW base \in JobStatus, NEW new \in JobStatus
    PROVE  Merged(base, new, base) = new
  <1> DEFINE both == [f \in {"id", "out"} |-> IF new[f] # base[f] THEN new[f] ELSE base[f]]
  <1>1. CASE new = base \/ base = None \/ new = None
    BY <1>1 DEF Merged
  <1>2. CASE ~(new = base \/ base = None \/ new = None)
    <2>1. both = [id |-> new["id"], out |-> new["out"]]
      OBVIOUS
    <2>2. new = [id |-> new["id"], out |-> new["out"]]
      BY <1>2 DEF JobStatus
    <2>3. Merged(base, new, base) = both
      BY <1>2 DEF Merged
    <2> QED BY <2>1, <2>2, <2>3
  <1> QED BY <1>1, <1>2

LEMMA MergedStill ==
    ASSUME NEW base, NEW now PROVE Merged(base, base, now) = now
  BY DEF Merged

\* The patch that C has in hand leaves the restore status alone.
Still == c.pc = "patch" => c.new.res = c.base

LEMMA PatchDoes ==
    ASSUME TypeInv, NEW s \in Status, c.pc = "idle", Patch(s), UNCHANGED pg
    PROVE  /\ c'.pc = "patch"
           /\ c' \in [pc : {"patch"}, base : JobStatus, new : Status]
           /\ Soon = Stored /\ UNCHANGED Stored
           /\ Soon' = [res |-> s.res, init |-> s.init, prog |-> s.prog, boot |-> s.boot]
           /\ s.res = pg.res => Still'
  <1>1. pg.res \in JobStatus /\ s.res \in JobStatus
    BY Types DEF Status
  <1>2. c' = [pc |-> "patch", base |-> pg.res, new |-> s]
    BY DEF Patch
  <1>3. c'.pc = "patch" /\ c'.base = pg.res /\ c'.new = s
    BY <1>2
  <1>4. Merged(pg.res, s.res, pg.res) = s.res
    BY <1>1, MergedOwn
  <1>5. Soon' = [res |-> s.res, init |-> s.init, prog |-> s.prog, boot |-> s.boot]
    BY <1>3, <1>4 DEF Soon
  <1> QED BY <1>1, <1>2, <1>3, <1>5 DEF Soon, Stored, Still

\* The Job has ended with the result that it shows.
LEMMA ObservedIs ==
    ASSUME TypeInv
    PROVE  /\ Observed \in Status
           /\ StatusID(Observed) = StatusID(Stored)
           /\ job = None => Observed.res = pg.res
           /\ \/ ResultOf(Observed.res) = ResultOf(pg.res)
              \/ job # None /\ job.phase \in {"ok", "bad"} /\ ResultOf(Observed.res) = job.phase
           /\ Observed.init = IF job = None THEN pg.init
                              ELSE IF job.phase = "ok" THEN "true"
                              ELSE IF job.phase = "bad" THEN "false" ELSE pg.init
           /\ Observed.prog = IF job # None /\ job.phase = "ok" THEN "no" ELSE pg.prog
           /\ Observed.startup = pg.startup
           /\ Observed.boot = (pg.boot \/ dcs)
  <1>1. /\ pg.res \in JobStatus /\ pg.init \in Inits /\ pg.prog \in Progress
        /\ pg.startup \in BOOLEAN /\ pg.boot \in BOOLEAN
    BY Types
  <1>2. job # None => job.phase \in {"active", "ok", "bad"}
    BY Types DEF RestoreJob
  <1> DEFINE res == IF job = None \/ pg.res = None THEN pg.res
                    ELSE IF job.phase = "active" THEN pg.res
                    ELSE [pg.res EXCEPT !.out = job.phase]
             init == IF job = None THEN pg.init
                     ELSE CASE job.phase = "ok" -> "true"
                            [] job.phase = "bad" -> "false"
                            [] OTHER -> pg.init
             prog == IF job # None /\ job.phase = "ok" THEN "no" ELSE pg.prog
  <1>3. Observed = [res |-> res, init |-> init, prog |-> prog, startup |-> pg.startup,
                    boot |-> pg.boot \/ dcs]
    BY DEF Observed
  <1>4. init = IF job = None THEN pg.init
               ELSE IF job.phase = "ok" THEN "true"
               ELSE IF job.phase = "bad" THEN "false" ELSE pg.init
    BY <1>2
  <1>5. init \in Inits
    BY <1>1, <1>4 DEF Inits
  <1>6. prog \in Progress
    BY <1>1 DEF Progress
  <1>7. CASE res = pg.res
    BY <1>1, <1>3, <1>4, <1>5, <1>6, <1>7 DEF Status, StatusID, Stored
  <1>8. CASE /\ job # None /\ pg.res # None /\ job.phase \in {"ok", "bad"}
             /\ res = [pg.res EXCEPT !.out = job.phase]
    <2>1. pg.res \in [id : Ids, out : {"none", "ok", "bad"}]
      BY <1>1, <1>8 DEF JobStatus
    <2>2. /\ res \in [id : Ids, out : {"none", "ok", "bad"}]
          /\ res.id = pg.res.id /\ res.out = job.phase
      BY <1>8, <2>1
    <2>3. res # None /\ res \in JobStatus
      BY <2>2, NoneAssumption DEF JobStatus
    <2> HIDE DEF res, init, prog
    <2> QED BY <1>1, <1>3, <1>4, <1>5, <1>6, <1>8, <2>2, <2>3
            DEF Status, StatusID, Stored, ResultOf, prog
  <1> QED BY <1>2, <1>7, <1>8

\* The parts of a status that the views show.
View(s) == [res |-> s.res, init |-> s.init, prog |-> s.prog, boot |-> s.boot]

LEMMA RestoreIDType == ASSUME TypeInv PROVE RestoreID \in Ids
  BY Types DEF RestoreID, InPlace, Ids, Objects

LEMMA PrepareForRestoreDoes ==
    ASSUME TypeInv, PrepareForRestore
    PROVE  /\ c.pc = "idle" /\ MustPrepare(Observed)
           /\ c'.pc = "patch" /\ c' \in [pc : {"patch"}, base : JobStatus, new : Status]
           /\ Soon = Stored /\ UNCHANGED Stored
           /\ Soon'.res = Blank(RestoreID)
           /\ \/ job # None /\ job' = None /\ UNCHANGED <<pod, dcs>> /\ Soon'.prog = "preparing"
              \/ /\ job = None /\ Running /\ pod' = "stopping" /\ UNCHANGED <<job, dcs>>
                 /\ Soon'.prog = "preparing"
              \/ /\ job = None /\ ~Running /\ dcs' = FALSE /\ UNCHANGED <<job, pod>>
                 /\ Soon'.prog = "preparing"
              \/ /\ job = None /\ ~Running /\ ~dcs /\ UNCHANGED <<job, pod, dcs>>
                 /\ Soon'.prog = "ready" /\ Soon'.init = "unset" /\ ~Soon'.boot
           /\ UNCHANGED <<restore, cr, pg, restored, r, p, faults>>
  <1> DEFINE s == [Observed EXCEPT !.res = Blank(RestoreID), !.startup = TRUE]
             down == [s EXCEPT !.prog = "preparing"]
             done == [s EXCEPT !.init = "unset", !.prog = "ready", !.boot = FALSE]
  <1>1. /\ c.pc = "idle" /\ MustPrepare(Observed)
        /\ UNCHANGED <<restore, cr, pg, restored, r, p, faults>>
    BY DEF PrepareForRestore, CIdle
  <1>2. \/ job # None /\ job' = None /\ UNCHANGED <<pod, dcs>> /\ Patch(down)
        \/ /\ job = None /\ Running /\ pod' = "stopping" /\ UNCHANGED <<job, dcs>>
           /\ Patch(down)
        \/ /\ job = None /\ ~Running /\ dcs' = FALSE /\ UNCHANGED <<job, pod>>
           /\ Patch(down)
        \/ /\ job = None /\ ~Running /\ ~dcs /\ UNCHANGED <<job, pod, dcs>>
           /\ Patch(done)
    BY DEF PrepareForRestore
  <1>3. Blank(RestoreID) \in JobStatus
    BY RestoreIDType DEF Blank, JobStatus
  <1>4. s \in Status /\ s.res = Blank(RestoreID)
    BY <1>3, ObservedIs DEF Status
  <1> HIDE DEF s
  <1>5. down \in Status /\ down.res = Blank(RestoreID) /\ down.prog = "preparing"
    BY <1>4 DEF Status, Progress
  <1>6. /\ done \in Status /\ done.res = Blank(RestoreID) /\ done.prog = "ready"
        /\ done.init = "unset" /\ ~done.boot
    BY <1>4 DEF Status, Progress, Inits
  <1> HIDE DEF down, done
  <1>7. CASE Patch(down)
    <2>1. /\ c'.pc = "patch" /\ c' \in [pc : {"patch"}, base : JobStatus, new : Status]
          /\ Soon = Stored /\ UNCHANGED Stored
          /\ Soon' = View(down)
      BY <1>1, <1>5, <1>7, PatchDoes DEF View
    <2>2. Soon'.res = Blank(RestoreID) /\ Soon'.prog = "preparing"
      BY <1>5, <2>1 DEF View
    <2> QED BY <1>1, <1>2, <2>1, <2>2, <1>6, <1>5, <1>7 DEF Patch
  <1>8. CASE Patch(done)
    <2>1. /\ c'.pc = "patch" /\ c' \in [pc : {"patch"}, base : JobStatus, new : Status]
          /\ Soon = Stored /\ UNCHANGED Stored
          /\ Soon' = View(done)
      BY <1>1, <1>6, <1>8, PatchDoes DEF View
    <2>2. /\ Soon'.res = Blank(RestoreID) /\ Soon'.prog = "ready" /\ Soon'.init = "unset"
          /\ ~Soon'.boot
      BY <1>6, <2>1 DEF View
    <2>3. ~Patch(down)
      BY <1>5, <1>6, <1>8 DEF Patch
    <2> QED BY <1>1, <1>2, <2>1, <2>2, <2>3
  <1> QED BY <1>2, <1>7, <1>8

LEMMA ReconcileRestoreJobDoes ==
    ASSUME TypeInv, ReconcileRestoreJob
    PROVE  /\ c.pc = "idle" /\ RestoreID # None /\ ~MustPrepare(Observed)
           /\ Observed.init # "true"
           /\ job = None => "slow" \in faults \/ CaughtUp
           /\ c'.pc = "patch" /\ c' \in [pc : {"patch"}, base : JobStatus, new : Status]
           /\ Soon = Stored /\ UNCHANGED Stored
           /\ Soon'.res = Observed.res /\ Soon'.prog = Observed.prog /\ Soon'.boot = Observed.boot
           /\ \/ Observed.boot /\ UNCHANGED job
              \/ /\ ~Observed.boot /\ Soon'.init = Observed.init
                 /\ \/ UNCHANGED job
                    \/ job = None /\ job' = [id |-> RestoreID, phase |-> "active"]
           /\ Observed.res = pg.res => Still'
           /\ UNCHANGED <<restore, cr, pg, pod, dcs, restored, r, p, faults>>
  <1>1. /\ c.pc = "idle" /\ RestoreID # None /\ ~MustPrepare(Observed) /\ Observed.init # "true"
        /\ job = None => "slow" \in faults \/ CaughtUp
        /\ UNCHANGED <<restore, cr, pg, pod, dcs, restored, r, p, faults>>
    BY DEF ReconcileRestoreJob, CIdle
  <1> DEFINE s == [Observed EXCEPT !.init = "true"]
  <1>2. /\ s \in Status /\ s.res = Observed.res /\ s.prog = Observed.prog
        /\ s.boot = Observed.boot
    BY ObservedIs DEF Status, Inits
  <1>3. CASE Observed.boot
    <2>1. Patch(s) /\ UNCHANGED job
      BY <1>3 DEF ReconcileRestoreJob
    <2> HIDE DEF s
    <2>2. /\ c'.pc = "patch" /\ c' \in [pc : {"patch"}, base : JobStatus, new : Status]
          /\ Soon = Stored /\ UNCHANGED Stored /\ (s.res = pg.res => Still')
          /\ Soon' = [res |-> s.res, init |-> s.init, prog |-> s.prog, boot |-> s.boot]
      BY <1>1, <1>2, <2>1, PatchDoes
    <2> QED BY <1>1, <1>2, <1>3, <2>1, <2>2
  <1>4. CASE ~Observed.boot
    <2>1. /\ Patch(Observed)
          /\ job' = IF JobNeeded THEN [id |-> RestoreID, phase |-> "active"] ELSE job
      BY <1>4 DEF ReconcileRestoreJob
    <2>2. /\ c'.pc = "patch" /\ c' \in [pc : {"patch"}, base : JobStatus, new : Status]
          /\ Soon = Stored /\ UNCHANGED Stored /\ (Observed.res = pg.res => Still')
          /\ Soon' = [res |-> Observed.res, init |-> Observed.init, prog |-> Observed.prog,
                      boot |-> Observed.boot]
      BY <1>1, <2>1, ObservedIs, PatchDoes
    <2>3. UNCHANGED job \/ (job = None /\ job' = [id |-> RestoreID, phase |-> "active"])
      BY <2>1 DEF JobNeeded
    <2> QED BY <1>1, <1>4, <2>2, <2>3
  <1> QED BY <1>3, <1>4

LEMMA ReconcileInstancesDoes ==
    ASSUME TypeInv, ReconcileInstances
    PROVE  /\ c.pc = "idle"
           /\ RestoreID = None \/ (~MustPrepare(Observed) /\ Observed.init = "true")
           /\ pod' = IF pod = "none" THEN "starting" ELSE pod
           /\ job' = IF Observed.boot THEN None ELSE job
           /\ c'.pc = "patch" /\ c' \in [pc : {"patch"}, base : JobStatus, new : Status]
           /\ Soon = Stored /\ UNCHANGED Stored
           /\ Soon' = View(Observed)
           /\ Observed.res = pg.res => Still'
           /\ UNCHANGED <<restore, cr, pg, dcs, restored, r, p, faults>>
  <1> DEFINE s == [Observed EXCEPT !.startup = @ /\ ~(pod = "up" /\ dcs)]
  <1>1. /\ c.pc = "idle" /\ Patch(s)
        /\ RestoreID = None \/ (~MustPrepare(Observed) /\ Observed.init = "true")
        /\ pod' = IF pod = "none" THEN "starting" ELSE pod
        /\ job' = IF Observed.boot THEN None ELSE job
        /\ UNCHANGED <<restore, cr, pg, dcs, restored, r, p, faults>>
    BY DEF ReconcileInstances, CIdle, StartsInstance
  <1>2. /\ s \in Status /\ s.res = Observed.res /\ s.init = Observed.init
        /\ s.prog = Observed.prog /\ s.boot = Observed.boot
    BY ObservedIs DEF Status
  <1> HIDE DEF s
  <1>3. /\ c'.pc = "patch" /\ c' \in [pc : {"patch"}, base : JobStatus, new : Status]
        /\ Soon = Stored /\ UNCHANGED Stored /\ (s.res = pg.res => Still')
        /\ Soon' = [res |-> s.res, init |-> s.init, prog |-> s.prog, boot |-> s.boot]
    BY <1>1, <1>2, PatchDoes
  <1> QED BY <1>1, <1>2, <1>3 DEF View

LEMMA PatchClusterStatusDoes ==
    ASSUME TypeInv, PatchClusterStatus
    PROVE  /\ c' = Idle
           /\ pg' \in [ann : Ids, on : BOOLEAN, res : JobStatus, init : Inits,
                       prog : Progress, startup : BOOLEAN, boot : BOOLEAN]
           /\ pg'.ann = pg.ann /\ pg'.on = pg.on
           /\ Stored' = Soon /\ Soon' = Soon
           /\ UNCHANGED <<restore, cr, job, pod, dcs, restored, r, p, faults>>
  <1>1. c.pc = "patch" /\ c' = Idle
        /\ UNCHANGED <<restore, cr, job, pod, dcs, restored, r, p, faults>>
    BY DEF PatchClusterStatus
  <1>2. c.base \in JobStatus /\ c.new \in Status
    BY <1>1 DEF TypeInv, Workers
  <1> DEFINE m == Merged(c.base, c.new.res, pg.res)
  <1>3. m \in JobStatus
    BY <1>2, MergedType, Types DEF Status
  <1>4. pg' = [pg EXCEPT !.res = m, !.init = c.new.init, !.prog = c.new.prog,
                         !.startup = c.new.startup, !.boot = c.new.boot]
    BY DEF PatchClusterStatus
  <1>5. Soon = [res |-> m, init |-> c.new.init, prog |-> c.new.prog, boot |-> c.new.boot]
    BY <1>1 DEF Soon
  <1> HIDE DEF m
  <1>6. /\ pg' \in [ann : Ids, on : BOOLEAN, res : JobStatus, init : Inits,
                    prog : Progress, startup : BOOLEAN, boot : BOOLEAN]
        /\ pg'.ann = pg.ann /\ pg'.on = pg.on /\ pg'.res = m /\ pg'.init = c.new.init
        /\ pg'.prog = c.new.prog /\ pg'.boot = c.new.boot
    BY <1>2, <1>3, <1>4, Types DEF Status
  <1>7. Stored' = Soon
    BY <1>5, <1>6 DEF Stored
  <1>8. Soon' = Stored'
    BY <1>1 DEF Soon, Idle
  <1> QED BY <1>1, <1>6, <1>7, <1>8

LEMMA JobEndsDoes ==
    ASSUME TypeInv, JobEnds
    PROVE  /\ job # None /\ job.phase = "active" /\ job' \in RestoreJob /\ job'.id = job.id
           /\ "slow" \in faults \/ ~Observing(job.id)
           /\ \/ job'.phase = "ok" /\ restored' = restored \union {job.id}
              \/ job'.phase = "bad" /\ UNCHANGED restored
           /\ UNCHANGED <<restore, cr, pg, pod, dcs, r, p, c, faults>>
  <1>1. job # None /\ job \in RestoreJob
    BY Types DEF JobEnds
  <1> QED BY <1>1 DEF JobEnds, workers, RestoreJob

LEMMA KubeletDoes ==
    ASSUME TypeInv, Kubelet
    PROVE  /\ \/ pod = "starting" /\ pod' = "up"
              \/ pod = "stopping" /\ pod' = "none"
              \/ "flap" \in faults /\ pod = "up" /\ pod' = "starting"
           /\ UNCHANGED <<restore, cr, pg, job, dcs, restored, r, p, c, faults>>
  BY DEF Kubelet, workers

LEMMA PatroniDoes ==
    ASSUME TypeInv, Patroni
    PROVE  /\ pod = "up" /\ dcs' = TRUE
           /\ UNCHANGED <<restore, cr, pg, job, pod, restored, r, p, c, faults>>
  BY DEF Patroni, workers

LEMMA CrashDoes ==
    ASSUME TypeInv, Crash
    PROVE  /\ r' = Idle /\ p' = Idle /\ c' = Idle
           /\ Stored' = Stored /\ Soon' = Stored
           /\ UNCHANGED <<restore, cr, pg, job, pod, dcs, restored, faults>>
  <1>1. /\ r' = Idle /\ p' = Idle /\ c' = Idle
        /\ UNCHANGED <<restore, cr, pg, job, pod, dcs, restored, faults>>
    BY DEF Crash, cluster
  <1> QED BY <1>1 DEF Stored, Soon, Idle

\* pg and c stay, and so do the views.
LEMMA ViewsStay == ASSUME UNCHANGED <<pg, c>> PROVE UNCHANGED <<Stored, Soon>>
  BY DEF Stored, Soon

-----------------------------------------------------------------------------
(* Type correctness.                                                       *)

RHands == r.pc = "idle" \/ r \in [pc : RBusy, x : Objects, next : States \union {"gone"},
                                  del : BOOLEAN]
PHands == p.pc = "idle" \/ p \in [pc : {"status"}, res : JobStatus]
CHands == c.pc = "idle" \/ c \in [pc : {"patch"}, base : JobStatus, new : Status]
PgType == pg \in [ann : Ids, on : BOOLEAN, res : JobStatus, init : Inits, prog : Progress,
                  startup : BOOLEAN, boot : BOOLEAN]
JobType == job = None \/ job \in RestoreJob
PodType == pod \in {"none", "starting", "up", "stopping"} /\ dcs \in BOOLEAN
GhostType == restored \subseteq Objects

Typed == /\ restore \in [Objects -> RestoreObject] /\ cr \in PerconaCluster
         /\ PgType /\ JobType /\ PodType /\ GhostType /\ RHands /\ PHands /\ CHands
         /\ crashed \in BOOLEAN /\ faults \in Scenarios

LEMMA TypeParts == TypeInv <=> Typed
  <1>1. RHands <=> /\ r.pc \in RBusy \union {"idle"}
                   /\ r.pc # "idle" => r \in [pc : RBusy, x : Objects,
                                              next : States \union {"gone"}, del : BOOLEAN]
    BY DEF RHands, RBusy
  <1>2. PHands <=> /\ p.pc \in {"idle", "status"}
                   /\ p.pc = "status" => p \in [pc : {"status"}, res : JobStatus]
    BY DEF PHands
  <1>3. CHands <=> /\ c.pc \in {"idle", "patch"}
                   /\ c.pc = "patch" => c \in [pc : {"patch"}, base : JobStatus, new : Status]
    BY DEF CHands
  <1>4. {"idle", "reset", "request", "finalizer", "disable", "status", "release", "unfinalize"}
            = RBusy \union {"idle"}
    BY DEF RBusy
  <1> QED BY <1>1, <1>2, <1>3, <1>4 DEF Typed, TypeInv, TypeOK, Workers, RestoreObject,
                                        PerconaCluster,
             PgType, JobType, RestoreJob, PodType, GhostType, Inits, Progress

LEMMA TypePartsNext == TypeInv' <=> Typed'
  BY TypeParts, PTL

LEMMA CrashedType == ASSUME TypeInv, [Next]_vars PROVE crashed' \in BOOLEAN
  <1>1. crashed \in BOOLEAN
    BY TypeParts DEF Typed
  <1>2. CASE UNCHANGED vars
    BY <1>1, <1>2 DEF vars
  <1>3. CASE \E x \in Restores : Create(x) \/ Delete(x)
    BY <1>1, <1>3 DEF Create, Delete
  <1>4. CASE \E x \in Objects : Reconcile(x)
    BY <1>1, <1>4 DEF Reconcile
  <1>5. CASE RStep
    BY <1>1, <1>5 DEF RStep, StartReset, StartRequest, EnsureFinalizers, DisableRestore,
       UpdateStatus, RunFinalizer
  <1>6. CASE PSync \/ PStatus
    BY <1>1, <1>6 DEF PSync, PStatus
  <1>7. CASE CStep
    BY <1>1, <1>7 DEF CStep, PrepareForRestore, ReconcileRestoreJob, ReconcileInstances,
       PatchClusterStatus
  <1>8. CASE JobEnds \/ Kubelet \/ Patroni \/ Crash
    BY <1>1, <1>8 DEF JobEnds, Kubelet, Patroni, Crash
  <1> QED BY <1>2, <1>3, <1>4, <1>5, <1>6, <1>7, <1>8 DEF Next

LEMMA TypeNext == ASSUME TypeInv, [Next]_vars PROVE TypeInv'
  <1> USE TypeParts, TypePartsNext
  <1> USE DEF Typed, PgType, JobType, PodType, GhostType, RHands, PHands, CHands
  <1>0. crashed' \in BOOLEAN
    BY CrashedType
  <1>1. CASE UNCHANGED vars
    BY <1>0, <1>1 DEF vars
  <1>2. ASSUME NEW x \in Restores, Create(x) \/ Delete(x) PROVE TypeInv'
    BY <1>0, <1>2, CreateDoes, DeleteDoes DEF Wrote
  <1>3. ASSUME NEW x \in Objects, Reconcile(x) PROVE TypeInv'
    BY <1>0, <1>3, ReconcileDoes
  <1>4. CASE StartReset
    BY <1>0, <1>4, StartResetDoes DEF RGoes, PutStatus
  <1>5. CASE StartRequest
    BY <1>0, <1>5, StartRequestDoes DEF RGoes, Asked
  <1>6. CASE EnsureFinalizers
    <2>1. CASE RGoes("status") /\ Wrote(r.x, restore[r.x].state, TRUE, restore[r.x].del)
      BY <1>0, <1>6, <2>1, EnsureFinalizersDoes DEF RGoes, Wrote
    <2>2. CASE r' = Idle /\ UNCHANGED restore
      BY <1>0, <1>6, <2>2, EnsureFinalizersDoes DEF Idle
    <2> QED BY <1>6, <2>1, <2>2, EnsureFinalizersDoes
  <1>7. CASE DisableRestore
    BY <1>0, <1>7, DisableRestoreDoes DEF RGoes, Asked
  <1>8. CASE UpdateStatus
    BY <1>0, <1>8, UpdateStatusDoes DEF Wrote, Idle
  <1>9. CASE RunFinalizer
    BY <1>0, <1>9, RunFinalizerDoes DEF Wrote, Idle
  <1>10. CASE PSync
    BY <1>0, <1>10, PSyncDoes DEF PutRequest, Wrote
  <1>11. CASE PStatus
    BY <1>0, <1>11, PStatusDoes DEF Idle
  <1>12. CASE PrepareForRestore
    BY <1>0, <1>12, PrepareForRestoreDoes
  <1>13. CASE ReconcileRestoreJob
    <2>1. job' = None \/ job' \in RestoreJob
      <3>1. CASE UNCHANGED job
        BY <3>1
      <3>2. CASE job' = [id |-> RestoreID, phase |-> "active"]
        <4>1. RestoreID \in Objects
          BY <1>13, ReconcileRestoreJobDoes, RestoreIDType DEF Ids
        <4> QED BY <3>2, <4>1 DEF RestoreJob
      <3> QED BY <1>13, <3>1, <3>2, ReconcileRestoreJobDoes
    <2> QED BY <1>0, <1>13, <2>1, ReconcileRestoreJobDoes
  <1>14. CASE ReconcileInstances
    BY <1>0, <1>14, ReconcileInstancesDoes
  <1>15. CASE PatchClusterStatus
    BY <1>0, <1>15, PatchClusterStatusDoes DEF Idle
  <1>16. CASE JobEnds
    <2>1. job.id \in Objects
      BY <1>16, JobEndsDoes DEF RestoreJob
    <2>2. restored' \subseteq Objects
      BY <1>16, <2>1, JobEndsDoes DEF Ids
    <2> QED BY <1>0, <1>16, <2>2, JobEndsDoes
  <1>17. CASE Kubelet
    BY <1>0, <1>17, KubeletDoes
  <1>18. CASE Patroni
    BY <1>0, <1>18, PatroniDoes
  <1>19. CASE Crash
    BY <1>0, <1>19, CrashDoes DEF Idle
  <1> QED BY <1>1, <1>2, <1>3, <1>4, <1>5, <1>6, <1>7, <1>8, <1>9, <1>10, <1>11, <1>12, <1>13,
             <1>14, <1>15, <1>16, <1>17, <1>18, <1>19 DEF Next, RStep, CStep

-----------------------------------------------------------------------------
(* The request, under every fault.                                         *)

\* Where R is says in which state the restore in its hands is.
Hand ==
    /\ r.pc \in {"reset", "request", "finalizer"} => r.x \in Restores /\ r.next = "Starting"
    /\ r.pc \in {"reset", "request", "finalizer", "status"} /\ r.next = "Starting"
           => restore[r.x].state \in {"New", "gone"}
    /\ r.pc = "disable" => r.x \in Restores /\ r.next \in Ended
    /\ r.pc = "status" => r.next \in {"Starting", "Running"} \union Ended
    /\ r.pc = "status" /\ r.next = "Running" => restore[r.x].state = "Starting"
    /\ r.pc \in {"disable", "status"} /\ r.next \in Ended => restore[r.x].state = "Running"
    /\ r.pc \in {"release", "unfinalize"} => restore[r.x].del /\ Live(r.x)
    /\ r.pc = "status" /\ r.next \in Ended /\ r.x \in Restores => cr.ann # r.x

\* A restore has its finalizer from its request on, and while it is deleted.
Finalizers ==
    /\ \A x \in Objects : restore[x].state = "absent" => ~restore[x].del
    /\ \A x \in Objects : Live(x) /\ restore[x].del => restore[x].fin
    /\ \A x \in Restores : restore[x].state \in {"Starting", "Running"} \union Ended
                               => restore[x].fin
    /\ r.pc = "status" /\ r.x \in Restores /\ Live(r.x) => restore[r.x].fin

\* The annotation and enabled are set and removed together.
Annotated == (cr.on => cr.ann # None) /\ (~cr.on => cr.ann = None)

RequestInv == Hand /\ Finalizers /\ Annotated /\ RequestWithdrawn

LEMMA RequestInit == Init => RequestInv
  BY DEF Init, RequestInv, Hand, Finalizers, Annotated, RequestWithdrawn, Idle, Live, Ended, Objects

LEMMA RequestNext == ASSUME TypeInv, RequestInv, [Next]_vars PROVE RequestInv'
  <1> USE DEF RequestInv
  <1>0. Restores \subseteq Objects /\ restore \in [Objects -> RestoreObject]
    BY Types DEF Objects
  <1>1. CASE UNCHANGED <<restore, r, cr>>
    BY <1>1 DEF Hand, Finalizers, Annotated, RequestWithdrawn, Live
  <1>2. ASSUME NEW x \in Restores, Create(x) PROVE RequestInv'
    <2>1. /\ restore[x].state = "absent" /\ Wrote(x, "New", restore[x].fin, restore[x].del)
          /\ UNCHANGED <<r, cr>>
      BY <1>2, CreateDoes
    <2>2. Hand'
      BY <1>0, <2>1, RHas DEF Hand, Wrote, Live, RBusy, Ended
    <2>3. r.pc = "status" => r.x # x
      BY <2>1 DEF Hand, Ended
    <2>4. Finalizers'
      BY <1>0, <2>1, <2>3 DEF Finalizers, Wrote, Live, Ended
    <2> QED BY <1>0, <2>1, <2>2, <2>4 DEF Annotated, RequestWithdrawn, Wrote, Ended
  <1>3. ASSUME NEW x \in Restores, Delete(x) PROVE RequestInv'
    <2>1. /\ Live(x) /\ ~restore[x].del
          /\ \/ restore[x].fin /\ Wrote(x, restore[x].state, TRUE, TRUE)
             \/ ~restore[x].fin /\ Wrote(x, "gone", FALSE, FALSE)
          /\ UNCHANGED <<r, cr>>
      BY <1>3, DeleteDoes
    <2>2. Hand'
      BY <1>0, <2>1, RHas DEF Hand, Finalizers, Wrote, Live, RBusy, Ended
    <2>3. Finalizers'
      BY <1>0, <2>1 DEF Finalizers, Wrote, Live, Ended
    <2> QED BY <1>0, <2>1, <2>2, <2>3 DEF Annotated, RequestWithdrawn, Wrote, Ended
  <1>4. ASSUME NEW x \in Objects, Reconcile(x) PROVE RequestInv'
    <2>1. UNCHANGED <<restore, cr>> /\ Live(x) /\ r'.x = x /\ r'.pc # "idle"
      BY <1>4, ReconcileDoes DEF RBusy
    <2>2. x # Boot => x \in Restores
      BY DEF Objects
    <2>3. Hand'
      <3>1. CASE restore[x].del /\ r'.pc = "release"
        BY <2>1, <3>1 DEF Hand, Live
      <3>2. CASE restore[x].state = "New" /\ r'.next = "Starting"
        <4>1. r'.pc = "status" \/ (x # Boot /\ r'.pc \in {"finalizer", "reset"})
          BY <1>4, <3>2, ReconcileDoes, RHas, BootAssumption DEF Ended
        <4> QED BY <2>1, <2>2, <3>2, <4>1 DEF Hand, Ended
      <3>3. CASE restore[x].state = "Starting" /\ r'.pc = "status" /\ r'.next = "Running"
        BY <2>1, <3>3 DEF Hand, Ended
      <3>4. CASE restore[x].state = "Running" /\ r'.next \in Ended
        <4>1. IF x = Boot THEN r'.pc = "status" ELSE r'.pc = "disable"
          BY <1>4, <3>4, ReconcileDoes DEF Ended
        <4> QED BY <2>1, <2>2, <3>4, <4>1, BootAssumption DEF Hand, Ended
      <3> QED BY <1>4, <3>1, <3>2, <3>3, <3>4, ReconcileDoes
    <2>4. r'.pc = "status" /\ x \in Restores => restore[x].state \in {"Starting", "Running"}
      BY <1>4, ReconcileDoes, BootAssumption
    <2>5. Finalizers'
      BY <2>1, <2>4 DEF Finalizers, Live
    <2> QED BY <2>1, <2>3, <2>5 DEF Annotated, RequestWithdrawn
  <1>5. CASE StartReset
    BY <1>5, StartResetDoes DEF RGoes, Hand, Finalizers, Annotated, RequestWithdrawn, Live
  <1>6. CASE StartRequest
    <2>1. /\ r.pc = "request" /\ RGoes("finalizer") /\ Asked(r.x, TRUE) /\ UNCHANGED restore
          /\ r.x \in Restores /\ r.next = "Starting" /\ restore[r.x].state \in {"New", "gone"}
      BY <1>6, StartRequestDoes DEF Hand
    <2>2. Hand' /\ Finalizers'
      BY <2>1 DEF Hand, Finalizers, RGoes, Live
    <2>3. r.x # None
      BY <1>0, <2>1, NoneAssumption
    <2> QED BY <2>1, <2>2, <2>3 DEF Asked, Annotated, RequestWithdrawn, Ended
  <1>7. CASE EnsureFinalizers
    <2>1. /\ r.pc = "finalizer" /\ UNCHANGED cr /\ r.x \in Restores /\ r.next = "Starting"
          /\ restore[r.x].state \in {"New", "gone"} /\ r.x \in Objects
      BY <1>0, <1>7, EnsureFinalizersDoes DEF Hand
    <2>2. CASE r' = Idle /\ UNCHANGED restore
      BY <2>1, <2>2 DEF Idle, Hand, Finalizers, Annotated, RequestWithdrawn, Live
    <2>3. CASE /\ RGoes("status") /\ Wrote(r.x, restore[r.x].state, TRUE, restore[r.x].del)
               /\ Live(r.x)
      <3>1. Hand'
        BY <1>0, <2>1, <2>3 DEF Hand, RGoes, Wrote, Live, Ended
      <3>2. Finalizers'
        BY <1>0, <2>1, <2>3 DEF Finalizers, RGoes, Wrote, Live, Ended
      <3> QED BY <1>0, <2>1, <2>3, <3>1, <3>2 DEF Annotated, RequestWithdrawn, Wrote, Ended
    <2> QED BY <1>7, <2>2, <2>3, EnsureFinalizersDoes
  <1>8. CASE DisableRestore
    <2>1. /\ UNCHANGED restore /\ RGoes(r'.pc) /\ r.x \in Objects
          /\ (r.pc = "disable" /\ r'.pc = "status") \/ (r.pc = "release" /\ r'.pc = "unfinalize")
      BY <1>8, DisableRestoreDoes, RHas DEF RGoes
    <2>2. cr' = cr \/ (cr'.ann = None /\ cr'.on = FALSE)
      BY <1>8, DisableRestoreDoes DEF Asked
    <2>3. \A x \in Restores : x # None
      BY <1>0, NoneAssumption
    <2>4. r.pc = "disable" => cr'.ann # r.x
      BY <1>0, <1>8, <2>1, <2>3, DisableRestoreDoes DEF Hand, Asked, Ended
    <2>5. Hand'
      BY <2>1, <2>4 DEF RGoes, Hand, Live, Ended
    <2>6. Finalizers'
      BY <2>1 DEF RGoes, Finalizers, Live, Hand
    <2>7. Annotated' /\ RequestWithdrawn'
      BY <2>1, <2>2, <2>3 DEF Annotated, RequestWithdrawn
    <2> QED BY <2>5, <2>6, <2>7
  <1>9. CASE UpdateStatus
    <2>1. r.pc = "status" /\ r' = Idle /\ UNCHANGED cr
      BY <1>9, UpdateStatusDoes
    <2>2. CASE UNCHANGED restore
      BY <2>1, <2>2 DEF Idle, Hand, Finalizers, Annotated, RequestWithdrawn, Live
    <2>3. CASE Live(r.x) /\ Wrote(r.x, r.next, restore[r.x].fin, restore[r.x].del)
      <3>1. r.x \in Objects /\ r.next \in {"Starting", "Running"} \union Ended
        BY <2>1, RHas DEF Hand
      <3>2. Hand'
        BY <2>1 DEF Hand, Idle
      <3>3. Finalizers'
        BY <1>0, <2>1, <2>3, <3>1 DEF Finalizers, Wrote, Live, Idle, Ended
      <3>4. RequestWithdrawn'
        BY <1>0, <2>1, <2>3, <3>1 DEF RequestWithdrawn, Wrote, Hand, Ended
      <3> QED BY <2>1, <3>2, <3>3, <3>4 DEF Annotated
    <2> QED BY <1>9, <2>2, <2>3, UpdateStatusDoes
  <1>10. CASE RunFinalizer
    <2>1. /\ r' = Idle /\ UNCHANGED cr /\ Wrote(r.x, "gone", FALSE, TRUE) /\ r.x \in Objects
      BY <1>10, RunFinalizerDoes, RHas
    <2>2. Hand'
      BY <2>1 DEF Hand, Idle
    <2>3. Finalizers'
      BY <1>0, <2>1 DEF Finalizers, Wrote, Live, Idle, Ended
    <2> QED BY <1>0, <2>1, <2>2, <2>3 DEF Annotated, RequestWithdrawn, Wrote, Ended
  <1>11. CASE PSync
    <2>1. UNCHANGED <<cr, r>>
      BY <1>11, PSyncDoes
    <2>2. CASE /\ restore[Boot].state = "absent"
               /\ Wrote(Boot, "New", restore[Boot].fin, restore[Boot].del)
      <3>1. Boot \in Objects
        BY DEF Objects
      <3>2. Hand'
        BY <1>0, <2>1, <2>2, <3>1, RHas DEF Hand, Wrote, Live, RBusy, Ended
      <3>3. Finalizers'
        BY <1>0, <2>1, <2>2, <3>1, RHas, BootAssumption DEF Finalizers, Wrote, Live, Ended
      <3> QED BY <1>0, <2>1, <2>2, <3>1, <3>2, <3>3 DEF Annotated, RequestWithdrawn, Wrote, Ended
    <2> QED BY <1>1, <1>11, <2>1, <2>2, PSyncDoes
  <1>12. CASE PStatus
    BY <1>12, PStatusDoes DEF Hand, Finalizers, Annotated, RequestWithdrawn, Live
  <1>13. CASE CStep
    BY <1>1, <1>13, PrepareForRestoreDoes, ReconcileRestoreJobDoes, ReconcileInstancesDoes,
       PatchClusterStatusDoes DEF CStep
  <1>14. CASE JobEnds \/ Kubelet \/ Patroni
    BY <1>1, <1>14, JobEndsDoes, KubeletDoes, PatroniDoes
  <1>15. CASE Crash
    BY <1>15, CrashDoes DEF Idle, Hand, Finalizers, Annotated, RequestWithdrawn, Live
  <1>16. CASE UNCHANGED vars
    BY <1>1, <1>16 DEF vars
  <1> QED BY <1>2, <1>3, <1>4, <1>5, <1>6, <1>7, <1>8, <1>9, <1>10, <1>11, <1>12, <1>13,
             <1>14, <1>15, <1>16 DEF Next, RStep


-----------------------------------------------------------------------------
(* One restore at a time.                                                  *)

\* A restore is requested only once the cluster is back from the one before, and not
\* of a cluster that is bootstrapped from a data source.
Orderly == \A f \in Scenarios : "queued" \notin f /\ "reuse" \notin f

Unfinished(x) == restore[x].state \in {"New", "Starting", "Running"}

\* A bootstrapped cluster serves users, the other its data source.
Split ==
    /\ DataSource => (\A x \in Restores : restore[x].state = "absent") /\ ~cr.on /\ ~pg.on
    /\ ~DataSource => restore[Boot].state = "absent"

OneAtATime == \A x, y \in Objects : Unfinished(x) /\ Unfinished(y) => x = y

\* The request, its copy, the Job and the restore at work name the same object.
Named ==
    /\ cr.on => cr.ann \in Restores
    /\ pg.on => pg.ann \in Restores
    /\ pg.on /\ cr.on => cr.ann = pg.ann
    /\ job # None => /\ DataSource => job.id = Boot
                     /\ ~DataSource => job.id \in Restores
                     /\ cr.on => cr.ann = job.id
                     /\ pg.on => pg.ann = job.id
    /\ \A x \in Objects : restore[x].state \in {"Starting", "Running"} =>
           /\ cr.on => cr.ann = x
           /\ pg.on => pg.ann = x
           /\ job # None => job.id = x
    /\ r.pc \in {"finalizer", "status"} /\ r.next = "Starting" /\ r.x \in Restores
           => cr.on /\ cr.ann = r.x

\* Before a request nothing of an earlier one is left.
Free == ~cr.on /\ ~pg.on /\ job = None /\ Still
Quiet ==
    /\ \A x \in Restores : restore[x].state = "New" /\ ~restore[x].del /\ ~cr.on => Free
    /\ r.pc \in {"reset", "request"} =>
           Free /\ \A x \in Objects : restore[x].state \notin {"Starting", "Running"}

\* The Job of x is there or was there.
Current(x) ==
    \/ restore[x].state = "Running"
    \/ r.pc = "status" /\ r.next = "Running" /\ r.x = x
    \/ job # None /\ job.id = x

NotBefore == cr.on /\ ~pg.on => \A x \in Objects : ~Current(x)

TurnInv == Split /\ OneAtATime /\ Named /\ Quiet /\ NotBefore

LEMMA TurnInit == Init => TurnInv
  BY BootAssumption DEF Init, TurnInv, Split, OneAtATime, Named, Quiet, NotBefore,
                        Unfinished, Objects, Idle

LEMMA InPlaceIs ==
    ASSUME TypeInv, TurnInv
    PROVE  RestoreID = IF pg.on THEN pg.ann ELSE IF DataSource THEN Boot ELSE None
  <1>1. pg.on => pg.ann # None
    BY NoneAssumption DEF TurnInv, Named, Objects
  <1> QED BY <1>1 DEF RestoreID, InPlace

\* The Job is the one of the restore that is asked for.
LEMMA JobOfRequest ==
    ASSUME TypeInv, TurnInv, job # None, RestoreID # None PROVE job.id = RestoreID
  BY InPlaceIs DEF TurnInv, Named, Split

\* A step that neither starts a Job nor changes a request.
LEMMA TurnStays ==
    ASSUME TypeInv, RequestInv, TurnInv, UNCHANGED <<restore, faults>>,
           r' = r \/ r'.pc = "idle",
           cr'.on = cr.on, cr'.ann = cr.ann, pg'.on = pg.on, pg'.ann = pg.ann,
           job' = None \/ (job # None /\ job' # None /\ job'.id = job.id),
           ~DataSource /\ Free => Still'
    PROVE  TurnInv'
  <1>1. Split' /\ OneAtATime'
    BY DEF TurnInv, Split, OneAtATime, Unfinished, DataSource
  <1>2. Named'
    BY DEF TurnInv, Named, DataSource
  <1>3. Quiet'
    <2>1. \A x \in Restores : restore[x].state = "New" => ~DataSource
      BY DEF TurnInv, Split
    <2>2. r.pc \in {"reset", "request"} => ~DataSource
      BY DEF TurnInv, Split, RequestInv, Hand
    <2>3. ~DataSource /\ Free => Free'
      BY DEF Free
    <2> QED BY <2>1, <2>2, <2>3 DEF TurnInv, Quiet
  <1>4. NotBefore'
    BY DEF TurnInv, NotBefore, Current
  <1> QED BY <1>1, <1>2, <1>3, <1>4 DEF TurnInv

LEMMA FreeIdle ==
    ASSUME TypeInv, TurnInv, ~DataSource, Free
    PROVE  RestoreID = None /\ Observed.res = pg.res
  BY InPlaceIs, ObservedIs DEF Free

LEMMA TurnNextC == ASSUME Orderly, TypeInv, RequestInv, TurnInv, CStep PROVE TurnInv'
  <1>1. CASE PrepareForRestore
    <2>1. ~(~DataSource /\ Free)
      BY <1>1, FreeIdle, PrepareForRestoreDoes DEF MustPrepare
    <2> QED BY <1>1, <2>1, TurnStays, PrepareForRestoreDoes
  <1>2. CASE ReconcileRestoreJob
    <2>1. ~(~DataSource /\ Free)
      BY <1>2, FreeIdle, ReconcileRestoreJobDoes
    <2>2. CASE UNCHANGED job
      BY <1>2, <2>1, <2>2, TurnStays, ReconcileRestoreJobDoes
    <2>3. CASE job = None /\ job' = [id |-> RestoreID, phase |-> "active"]
      <3>1. /\ UNCHANGED <<restore, cr, pg, r, faults>> /\ RestoreID # None
            /\ job'.id = RestoreID
        BY <1>2, <2>3, ReconcileRestoreJobDoes
      <3>2. RestoreID = IF pg.on THEN pg.ann ELSE Boot
        BY <3>1, InPlaceIs
      <3>3. pg.on \/ DataSource
        BY <3>1, InPlaceIs
      <3>4. Split' /\ OneAtATime'
        BY <3>1 DEF TurnInv, Split, OneAtATime, Unfinished, DataSource
      <3>5. Named'
        <4>1. /\ DataSource => job'.id = Boot
              /\ ~DataSource => job'.id \in Restores
              /\ cr.on => cr.ann = job'.id
              /\ pg.on => pg.ann = job'.id
          BY <3>1, <3>2, <3>3 DEF TurnInv, Named, Split
        <4>2. \A x \in Objects : restore[x].state \in {"Starting", "Running"} => job'.id = x
          BY <3>1, <3>2, <3>3 DEF TurnInv, Named, Split, Objects
        <4> QED BY <3>1, <4>1, <4>2 DEF TurnInv, Named, DataSource
      <3>6. Quiet'
        <4>1. \A x \in Restores : ~(restore[x].state = "New" /\ ~restore[x].del /\ ~cr.on)
          BY <3>3 DEF TurnInv, Quiet, Split, Free
        <4>2. r.pc \notin {"reset", "request"}
          BY <3>3 DEF TurnInv, Quiet, Split, Free, RequestInv, Hand
        <4> QED BY <3>1, <4>1, <4>2 DEF Quiet
      <3>7. NotBefore'
        BY <3>1, <3>3 DEF TurnInv, NotBefore, Split
      <3> QED BY <3>4, <3>5, <3>6, <3>7 DEF TurnInv
    <2> QED BY <1>2, <2>2, <2>3, ReconcileRestoreJobDoes
  <1>3. CASE ReconcileInstances
    <2>1. ~DataSource /\ Free => Still'
      BY <1>3, FreeIdle, ReconcileInstancesDoes
    <2> QED BY <1>3, <2>1, TurnStays, ReconcileInstancesDoes
  <1>4. CASE PatchClusterStatus
    <2>1. Still'
      BY <1>4, PatchClusterStatusDoes DEF Still, Idle
    <2> QED BY <1>4, <2>1, TurnStays, PatchClusterStatusDoes
  <1> QED BY <1>1, <1>2, <1>3, <1>4 DEF CStep

LEMMA TurnNextUser ==
    ASSUME Orderly, TypeInv, RequestInv, TurnInv, NEW x \in Restores, Create(x) \/ Delete(x)
    PROVE  TurnInv'
  <1>0. Restores \subseteq Objects /\ restore \in [Objects -> RestoreObject] /\ faults \in Scenarios
    BY Types DEF Objects, TypeInv
  <1>1. CASE Create(x)
    <2>1. /\ restore[x].state = "absent" /\ Wrote(x, "New", restore[x].fin, restore[x].del)
          /\ UNCHANGED <<cr, pg, job, r, c, faults>>
      BY <1>1, CreateDoes
    <2>2. Settled /\ ~DataSource
      BY <1>0, <1>1, CreateDoes DEF Orderly
    <2>3. /\ ~cr.on /\ ~pg.on /\ job = None /\ c.pc = "idle"
          /\ \A y \in Objects : ~Unfinished(y)
      BY <2>2 DEF Settled, Unfinished, Live, Ended
    <2>4. Split'
      BY <1>0, <2>1, <2>2, BootAssumption DEF TurnInv, Split, DataSource, Wrote, Objects
    <2>5. OneAtATime'
      BY <1>0, <2>1, <2>3 DEF OneAtATime, Unfinished, Wrote
    <2>6. Named'
      BY <1>0, <2>1, <2>3 DEF TurnInv, Named, DataSource, Wrote, Unfinished
    <2>7. Quiet'
      BY <1>0, <2>1, <2>3 DEF TurnInv, Quiet, Free, Still, Wrote, Unfinished
    <2>8. NotBefore'
      BY <2>1, <2>3 DEF NotBefore
    <2> QED BY <2>4, <2>5, <2>6, <2>7, <2>8 DEF TurnInv
  <1>2. CASE Delete(x)
    <2>1. /\ UNCHANGED <<cr, pg, job, r, c, faults>>
          /\ restore' \in [Objects -> RestoreObject]
          /\ \A y \in Objects : \/ restore'[y].state = restore[y].state
                                \/ restore'[y].state = "gone" /\ Live(y)
          /\ \A y \in Objects : ~restore'[y].del => ~restore[y].del
      BY <1>0, <1>2, DeleteDoes DEF Wrote
    <2>2. Split' /\ OneAtATime'
      BY <1>0, <2>1 DEF TurnInv, Split, OneAtATime, Unfinished, DataSource, Objects, Live
    <2>3. Named'
      BY <1>0, <2>1 DEF TurnInv, Named, DataSource
    <2>4. Quiet'
      BY <1>0, <2>1 DEF TurnInv, Quiet, Free, Still
    <2>5. NotBefore'
      BY <1>0, <2>1 DEF TurnInv, NotBefore, Current
    <2> QED BY <2>2, <2>3, <2>4, <2>5 DEF TurnInv
  <1> QED BY <1>1, <1>2

LEMMA TurnNextReconcile ==
    ASSUME TypeInv, RequestInv, TurnInv, NEW x \in Objects, Reconcile(x)
    PROVE  TurnInv'
  <1>1. UNCHANGED <<restore, cr, pg, job, c, faults>> /\ r.pc = "idle" /\ r'.x = x
    BY ReconcileDoes
  <1>2. \/ r'.next # "Starting" /\ r'.pc \notin {"reset", "request"}
        \/ /\ restore[x].state = "New" /\ ~restore[x].del /\ ~cr.on
           /\ \/ x = Boot /\ r'.pc = "status"
              \/ x # Boot /\ cr.ann # x /\ r'.pc = "reset"
    <2>1. cr.ann = x => cr.on
      BY NoneAssumption DEF RequestInv, Annotated
    <2> QED BY <2>1, ReconcileDoes DEF Ended
  <1>3. r'.pc = "status" /\ r'.next = "Running" => job # None /\ restore[x].state = "Starting"
    BY ReconcileDoes DEF Ended
  <1>4. Split' /\ OneAtATime'
    BY <1>1 DEF TurnInv, Split, OneAtATime, Unfinished, DataSource
  <1>5. Named'
    BY <1>1, <1>2, BootAssumption DEF TurnInv, Named, DataSource
  <1>6. Quiet'
    <2>1. CASE r'.pc \in {"reset", "request"}
      <3>1. x \in Restores /\ restore[x].state = "New" /\ ~restore[x].del /\ ~cr.on
        BY <1>2, <2>1 DEF Objects
      <3>2. Free /\ \A y \in Objects : restore[y].state \notin {"Starting", "Running"}
        BY <3>1 DEF TurnInv, Quiet, OneAtATime, Unfinished
      <3> QED BY <1>1, <3>2 DEF TurnInv, Quiet, Free, Still
    <2>2. CASE r'.pc \notin {"reset", "request"}
      BY <1>1, <2>2 DEF TurnInv, Quiet, Free, Still
    <2> QED BY <2>1, <2>2
  <1>7. NotBefore'
    BY <1>1, <1>3 DEF TurnInv, NotBefore, Current, Named
  <1> QED BY <1>4, <1>5, <1>6, <1>7 DEF TurnInv

LEMMA TurnNextR == ASSUME TypeInv, RequestInv, TurnInv, RStep PROVE TurnInv'
  <1>0. Restores \subseteq Objects /\ restore \in [Objects -> RestoreObject]
    BY Types DEF Objects
  <1>1. CASE StartReset
    <2>1. /\ UNCHANGED <<restore, cr, job, c, faults>> /\ r.pc = "reset" /\ r'.pc = "request"
          /\ pg'.on = pg.on /\ pg'.ann = pg.ann
      BY <1>1, StartResetDoes DEF RGoes, PutStatus
    <2>2. Split' /\ OneAtATime'
      BY <2>1 DEF TurnInv, Split, OneAtATime, Unfinished, DataSource
    <2>3. Named' /\ Quiet' /\ NotBefore'
      BY <2>1 DEF TurnInv, Named, Quiet, NotBefore, Current, Free, Still, DataSource
    <2> QED BY <2>2, <2>3 DEF TurnInv
  <1>2. CASE StartRequest
    <2>1. /\ UNCHANGED <<restore, pg, job, c, faults>> /\ r.pc = "request"
          /\ r'.pc = "finalizer" /\ r'.x = r.x /\ cr'.ann = r.x /\ cr'.on
          /\ r.x \in Restores /\ restore[r.x].state \in {"New", "gone"}
      BY <1>2, StartRequestDoes DEF RGoes, Asked, RequestInv, Hand
    <2>2. Free /\ \A y \in Objects : restore[y].state \notin {"Starting", "Running"}
      BY <2>1 DEF TurnInv, Quiet
    <2>3. Split' /\ OneAtATime'
      BY <2>1 DEF TurnInv, Split, OneAtATime, Unfinished, DataSource
    <2>4. Named'
      BY <2>1, <2>2 DEF TurnInv, Named, Free
    <2>5. Quiet'
      BY <2>1 DEF Quiet
    <2>6. NotBefore'
      BY <2>1, <2>2 DEF NotBefore, Current, Free
    <2> QED BY <2>3, <2>4, <2>5, <2>6 DEF TurnInv
  <1>3. CASE EnsureFinalizers
    <2>1. /\ UNCHANGED <<cr, pg, job, c, faults>> /\ r.pc = "finalizer" /\ r.next = "Starting"
          /\ restore' \in [Objects -> RestoreObject]
          /\ \A y \in Objects : restore'[y].state = restore[y].state
          /\ \A y \in Objects : restore'[y].del = restore[y].del
          /\ \/ r'.pc = "idle"
             \/ r'.pc = "status" /\ r'.x = r.x /\ r'.next = r.next
      <3>1. r.pc = "finalizer" /\ r.next = "Starting" /\ r.x \in Objects
        BY <1>3, EnsureFinalizersDoes, RHas DEF RequestInv, Hand
      <3>2. CASE RGoes("status") /\ Wrote(r.x, restore[r.x].state, TRUE, restore[r.x].del)
        BY <1>0, <1>3, <3>1, <3>2, EnsureFinalizersDoes DEF RGoes, Wrote
      <3>3. CASE r' = Idle /\ UNCHANGED restore
        BY <1>0, <1>3, <3>1, <3>3, EnsureFinalizersDoes DEF Idle
      <3> QED BY <1>3, <3>2, <3>3, EnsureFinalizersDoes
    <2>2. Split' /\ OneAtATime'
      BY <1>0, <2>1 DEF TurnInv, Split, OneAtATime, Unfinished, DataSource, Objects
    <2>3. Named'
      BY <1>0, <2>1 DEF TurnInv, Named, DataSource
    <2>4. Quiet'
      BY <1>0, <2>1 DEF TurnInv, Quiet, Free, Still
    <2>5. NotBefore'
      BY <1>0, <2>1 DEF TurnInv, NotBefore, Current
    <2> QED BY <2>2, <2>3, <2>4, <2>5 DEF TurnInv
  <1>4. CASE DisableRestore
    <2>1. /\ UNCHANGED <<restore, pg, job, c, faults>> /\ r.pc \in {"disable", "release"}
          /\ r'.pc \in {"status", "unfinalize"} /\ r'.x = r.x /\ r'.next = r.next
          /\ r'.pc = "status" => r.pc = "disable"
          /\ r.x \in Objects
      BY <1>4, DisableRestoreDoes, RHas DEF RGoes
    <2>2. r.pc = "disable" => r.next \in Ended /\ restore[r.x].state = "Running"
      BY <2>1 DEF RequestInv, Hand
    <2>3. r.pc = "release" => restore[r.x].del /\ Live(r.x)
      BY <2>1 DEF RequestInv, Hand
    <2>4. CASE cr'.on = cr.on /\ cr'.ann = cr.ann
      <3>1. Split' /\ OneAtATime'
        BY <2>1, <2>4 DEF TurnInv, Split, OneAtATime, Unfinished, DataSource
      <3>2. Named' /\ Quiet' /\ NotBefore'
        BY <2>1, <2>2, <2>4 DEF TurnInv, Named, Quiet, NotBefore, Current, Free, Still,
                                DataSource, Ended
      <3> QED BY <3>1, <3>2 DEF TurnInv
    <2>5. CASE restore[r.x].state \notin Ended /\ ~cr'.on
      <3>1. Unfinished(r.x)
        BY <2>1, <2>5, RHas DEF Unfinished, Ended, States, RequestInv, Hand, Live
      <3>2. Split' /\ OneAtATime'
        BY <2>1, <2>5 DEF TurnInv, Split, OneAtATime, Unfinished, DataSource
      <3>3. Named'
        BY <2>1, <2>2, <2>5 DEF TurnInv, Named, DataSource, Ended
      <3>4. Quiet'
        <4>1. \A y \in Restores : restore[y].state = "New" => y = r.x
          BY <1>0, <2>1, <3>1 DEF TurnInv, OneAtATime, Unfinished
        <4> QED BY <2>1, <2>2, <2>3, <4>1 DEF Quiet
      <3>5. NotBefore'
        BY <2>5 DEF NotBefore
      <3> QED BY <3>2, <3>3, <3>4, <3>5 DEF TurnInv
    <2> QED BY <1>4, <2>4, <2>5, DisableRestoreDoes DEF Asked
  <1>5. CASE UpdateStatus
    <2>1. /\ UNCHANGED <<cr, pg, job, c, faults>>
          /\ r.pc = "status" /\ r'.pc = "idle" /\ r.x \in Objects
      BY <1>5, UpdateStatusDoes, RHas DEF Idle
    <2>2. CASE UNCHANGED restore
      BY <1>5, <2>1, <2>2, TurnStays DEF Free, Still
    <2>3. CASE Live(r.x) /\ Wrote(r.x, r.next, restore[r.x].fin, restore[r.x].del)
      <3>1. \/ r.next = "Starting" /\ restore[r.x].state = "New"
            \/ r.next = "Running" /\ restore[r.x].state = "Starting"
            \/ r.next \in Ended /\ restore[r.x].state = "Running"
        BY <2>1, <2>3 DEF RequestInv, Hand, Live
      <3>2. Unfinished(r.x)
        BY <3>1 DEF Unfinished
      <3>3. Split' /\ OneAtATime'
        BY <1>0, <2>1, <2>3, <3>1, <3>2 DEF TurnInv, Split, OneAtATime, Unfinished,
                                            DataSource, Wrote, Objects, Live
      <3>4. Named'
        <4>1. r.next \in {"Starting", "Running"} =>
                 /\ cr.on => cr.ann = r.x
                 /\ pg.on => pg.ann = r.x
                 /\ job # None => job.id = r.x
          <5>1. CASE restore[r.x].state = "Starting"
            BY <2>1, <5>1 DEF TurnInv, Named
          <5>2. CASE r.next = "Starting" /\ r.x \in Restores
            BY <2>1, <5>2 DEF TurnInv, Named
          <5>3. CASE r.x = Boot
            BY <2>3, <5>3 DEF TurnInv, Named, Split, Live
          <5> QED BY <2>1, <3>1, <5>1, <5>2, <5>3 DEF Ended, Objects
        <4> QED BY <1>0, <2>1, <2>3, <4>1, <3>1 DEF TurnInv, Named, DataSource, Wrote, Ended
      <3>5. Quiet'
        BY <1>0, <2>1, <2>3, <3>1 DEF TurnInv, Quiet, Free, Still, Wrote, Ended
      <3>6. NotBefore'
        BY <1>0, <2>1, <2>3, <3>1 DEF TurnInv, NotBefore, Current, Wrote, Ended
      <3> QED BY <3>3, <3>4, <3>5, <3>6 DEF TurnInv
    <2> QED BY <1>5, <2>2, <2>3, UpdateStatusDoes
  <1>6. CASE RunFinalizer
    <2>1. /\ UNCHANGED <<cr, pg, job, c, faults>> /\ r.pc = "unfinalize" /\ r'.pc = "idle"
          /\ r.x \in Objects /\ Live(r.x) /\ Wrote(r.x, "gone", FALSE, TRUE)
      <3>1. r.pc = "unfinalize" /\ r.x \in Objects /\ r' = Idle
        BY <1>6, RunFinalizerDoes, RHas
      <3>2. Live(r.x)
        BY <3>1 DEF RequestInv, Hand
      <3> QED BY <1>6, <3>1, <3>2, RunFinalizerDoes DEF Idle
    <2>2. Split' /\ OneAtATime'
      BY <1>0, <2>1 DEF TurnInv, Split, OneAtATime, Unfinished, DataSource, Objects, Live, Wrote
    <2>3. Named'
      BY <1>0, <2>1 DEF TurnInv, Named, DataSource, Wrote
    <2>4. Quiet'
      BY <1>0, <2>1 DEF TurnInv, Quiet, Free, Still, Wrote
    <2>5. NotBefore'
      BY <1>0, <2>1 DEF TurnInv, NotBefore, Current, Wrote
    <2> QED BY <2>2, <2>3, <2>4, <2>5 DEF TurnInv
  <1> QED BY <1>1, <1>2, <1>3, <1>4, <1>5, <1>6 DEF RStep

LEMMA TurnNextP == ASSUME TypeInv, RequestInv, TurnInv, PSync PROVE TurnInv'
  <1>0. Restores \subseteq Objects /\ Boot \in Objects /\ restore \in [Objects -> RestoreObject]
    BY Types DEF Objects
  <1>1. UNCHANGED <<cr, job, r, c, faults>> /\ pg'.ann = cr.ann /\ pg'.on = cr.on
    BY PSyncDoes DEF PutRequest
  <1>2. \/ UNCHANGED restore
        \/ /\ DataSource /\ restore[Boot].state = "absent"
           /\ Wrote(Boot, "New", restore[Boot].fin, restore[Boot].del)
    BY PSyncDoes
  <1>3. Split'
    BY <1>0, <1>1, <1>2, BootAssumption DEF TurnInv, Split, DataSource, Wrote
  <1>4. OneAtATime'
    <2>1. CASE UNCHANGED restore
      BY <2>1 DEF TurnInv, OneAtATime, Unfinished
    <2>2. CASE DataSource /\ Wrote(Boot, "New", restore[Boot].fin, restore[Boot].del)
      BY <1>0, <2>2 DEF TurnInv, Split, OneAtATime, Unfinished, Wrote, Objects
    <2> QED BY <1>2, <2>1, <2>2
  <1>5. Named'
    <2>1. \A x \in Objects : restore'[x].state \in {"Starting", "Running"} =>
                               restore'[x] = restore[x]
      BY <1>0, <1>2 DEF Wrote
    <2> QED BY <1>0, <1>1, <2>1 DEF TurnInv, Named, DataSource
  <1>6. Quiet'
    <2>1. \A x \in Restores : restore'[x] = restore[x]
      BY <1>0, <1>2, BootAssumption DEF Wrote
    <2>2. \A x \in Objects : restore'[x].state \in {"Starting", "Running"} =>
                               restore'[x] = restore[x]
      BY <1>0, <1>2 DEF Wrote
    <2> QED BY <1>0, <1>1, <2>1, <2>2 DEF TurnInv, Quiet, Free, Still
  <1>7. NotBefore'
    BY <1>1 DEF NotBefore
  <1> QED BY <1>3, <1>4, <1>5, <1>6, <1>7 DEF TurnInv

LEMMA TurnNext == ASSUME Orderly, TypeInv, RequestInv, TurnInv, [Next]_vars PROVE TurnInv'
  <1>1. CASE PStatus
    BY <1>1, TurnStays, PStatusDoes DEF Free, Still
  <1>2. CASE JobEnds
    <2>1. job' # None
      BY <1>2, JobEndsDoes, NoneAssumption DEF RestoreJob
    <2> QED BY <1>2, <2>1, TurnStays, JobEndsDoes DEF Free, Still
  <1>3. CASE Kubelet \/ Patroni
    BY <1>3, TurnStays, KubeletDoes, PatroniDoes DEF Free, Still
  <1>4. CASE Crash
    BY <1>4, TurnStays, CrashDoes DEF Still, Idle
  <1>5. CASE UNCHANGED vars
    BY <1>5, TurnStays DEF vars, Free, Still
  <1> QED BY <1>1, <1>2, <1>3, <1>4, <1>5, TurnNextC, TurnNextUser, TurnNextReconcile, TurnNextR,
             TurnNextP DEF Next

-----------------------------------------------------------------------------
(* The result of a restore and its copies.                                 *)

\* Moreover P has copied the status by the time a Job is created, and R, which polls
\* every five seconds, sees the Job before it ends.
Calm == Orderly /\ \A f \in Scenarios : "slow" \notin f

\* R has the verdict for x, or has reported it.
Verdict == r.pc \in {"disable", "status"} /\ r.next \in Ended
Over(x) == restore[x].state \in Ended \/ (Verdict /\ r.x = x)

\* Before C knows of a request, the status tells nothing of an earlier one.
Fresh == r.pc = "request" \/ (cr.on /\ ~pg.on) =>
             Stored.res = Blank(None) /\ Soon.res = Blank(None)

JobTrue == job # None => (job.phase = "ok" => job.id \in restored)

\* A result that any copy tells while x is at work is that of x's own Job.
OwnResult(x, res) ==
    ResultOf(res) # "none" => /\ ResultOf(res) = "ok" => x \in restored
                              /\ job # None => job.phase # "active"
Told == \A x \in Objects : Current(x) =>
            /\ \A res \in Copies : OwnResult(x, res)
            /\ OwnResult(x, Stored.res) /\ OwnResult(x, Soon.res)

\* The status is that of x once x has a Job, and the preparation is over.
PlacedIn(v, x) == StatusID(v) = x /\ v.prog # "preparing"
Placed == \A x \in Objects : Current(x) /\ RestoreID = x =>
              PlacedIn(Stored, x) /\ PlacedIn(Soon, x)

\* A status that tells a result asks neither for a preparation nor for a Job.
SpentIn(v) ==
    RestoreID # None /\ StatusID(v) = RestoreID /\ ResultOf(v.res) # "none" =>
        v.prog # "preparing" /\ (job = None => dcs \/ v.boot)
Spent == SpentIn(Stored) /\ SpentIn(Soon)

\* A result that has been told stays in the status while its request stands.
Kept ==
    /\ \A x \in Objects :
           Current(x) /\ RestoreID = x /\ (\E res \in Copies : ResultOf(res) # "none") =>
               ResultOf(Stored.res) # "none" /\ ResultOf(Soon.res) # "none"
    /\ RestoreID # None /\ StatusID(Stored) = RestoreID /\ ResultOf(Stored.res) # "none" =>
           ResultOf(Soon.res) # "none"
    /\ \A x \in Objects : Over(x) /\ RestoreID = x =>
           /\ StatusID(Stored) = x /\ ResultOf(Stored.res) # "none"
           /\ StatusID(Soon) = x /\ ResultOf(Soon.res) # "none"

\* No Job works for a restore that has its verdict.
Verdicts ==
    /\ Verdict /\ r.next = "Succeeded" => r.x \in restored
    /\ \A x \in Objects : Over(x) /\ job # None => (job.id = x => job.phase # "active")

PlaceInv == Fresh /\ Placed /\ Spent
ResultInv == JobTrue /\ Told /\ Kept /\ Verdicts /\ SucceededRestored

LEMMA ResultInit == Init => PlaceInv /\ ResultInv
  <1> SUFFICES ASSUME Init PROVE PlaceInv /\ ResultInv
    OBVIOUS
  <1>1. /\ r.pc = "idle" /\ p.pc = "idle" /\ c.pc = "idle" /\ job = None /\ pg.res = None
        /\ cr.res = None /\ ~cr.on /\ ~pg.on
        /\ \A x \in Objects : restore[x].state = "absent"
    BY DEF Init, Idle
  <1>2. Soon = Stored /\ Stored.res = None /\ Copies = {None} /\ ResultOf(None) = "none"
    BY <1>1 DEF Soon, Stored, Copies, ResultOf
  <1>3. \A x \in Objects : ~Current(x) /\ ~Over(x)
    BY <1>1 DEF Current, Over, Verdict, Ended
  <1> QED BY <1>1, <1>2, <1>3 DEF PlaceInv, Fresh, Placed, Spent, SpentIn, ResultInv, JobTrue,
             Told, Kept, Verdicts, SucceededRestored, Verdict, Ended

LEMMA ResultStays ==
    ASSUME TypeInv, PlaceInv,
           UNCHANGED <<Stored, Soon>> \/ (Soon' = Stored' /\ (Stored' = Stored \/ Stored' = Soon)),
           Copies' \subseteq Copies, UNCHANGED <<RestoreID, job, restored>>, dcs => dcs',
           \A x \in Objects : (Current(x)' => Current(x)) /\ (Over(x)' => Over(x)),
           \A x \in Objects : restore'[x].state = "Succeeded" =>
               restore[x].state = "Succeeded" \/ (Verdict /\ r.next = "Succeeded" /\ r.x = x),
           Verdict' => Verdict /\ r'.next = r.next /\ r'.x = r.x,
           (r.pc = "request" \/ (cr.on /\ ~pg.on))' => r.pc = "request" \/ (cr.on /\ ~pg.on)
    PROVE  PlaceInv' /\ (ResultInv => ResultInv')
  <1>1. Fresh'
    BY DEF PlaceInv, Fresh
  <1>2. Placed'
    BY DEF PlaceInv, Placed, PlacedIn
  <1>3. Spent'
    BY DEF PlaceInv, Spent, SpentIn
  <1>4. ASSUME ResultInv PROVE ResultInv'
    <2>1. JobTrue' /\ Told'
      BY <1>4 DEF ResultInv, JobTrue, Told, OwnResult
    <2>2. Kept'
      BY <1>4 DEF ResultInv, Kept
    <2>3. Verdicts'
      BY <1>4 DEF ResultInv, Verdicts
    <2>4. SucceededRestored'
      BY <1>4 DEF ResultInv, SucceededRestored, Verdicts
    <2> QED BY <2>1, <2>2, <2>3, <2>4 DEF ResultInv
  <1> QED BY <1>1, <1>2, <1>3, <1>4 DEF PlaceInv

LEMMA ResultNextUser ==
    ASSUME TypeInv, RequestInv, PlaceInv, NEW x \in Restores, Create(x) \/ Delete(x)
    PROVE  PlaceInv' /\ (ResultInv => ResultInv')
  <1>0. Restores \subseteq Objects
    BY DEF Objects
  <1>1. /\ UNCHANGED <<cr, pg, job, dcs, restored, r, p, c, faults>>
        /\ \A y \in Objects : \/ restore'[y].state = restore[y].state
                              \/ restore'[y].state \in {"New", "gone"}
    BY <1>0, CreateDoes, DeleteDoes DEF Wrote
  <1>2. UNCHANGED <<Stored, Soon, Copies, RestoreID, Verdict>>
    BY <1>1 DEF Stored, Soon, Copies, RestoreID, InPlace, DataSource, Verdict
  <1>3. \A y \in Objects : (Current(y)' => Current(y)) /\ (Over(y)' => Over(y))
    BY <1>1, <1>2 DEF Current, Over, Ended
  <1> QED BY <1>1, <1>2, <1>3, ResultStays

LEMMA ResultNextReconcile ==
    ASSUME TypeInv, RequestInv, TurnInv, PlaceInv, NEW x \in Objects, Reconcile(x)
    PROVE  PlaceInv' /\ (ResultInv => ResultInv')
  <1>1. /\ UNCHANGED <<restore, cr, pg, job, dcs, restored, p, c, faults>>
        /\ r.pc = "idle" /\ r'.x = x /\ r'.pc # "request"
    BY ReconcileDoes
  <1>2. UNCHANGED <<Stored, Soon, Copies, RestoreID>>
    BY <1>1 DEF Stored, Soon, Copies, RestoreID, InPlace, DataSource
  <1>3. \A y \in Objects : Current(y)' => Current(y)
    <2>1. r'.pc = "status" /\ r'.next = "Running" => job # None /\ restore[x].state = "Starting"
      BY ReconcileDoes DEF Ended
    <2>2. r'.pc = "status" /\ r'.next = "Running" => Current(x)
      BY <2>1 DEF Current, TurnInv, Named
    <2> QED BY <1>1, <2>2 DEF Current
  <1>4. CASE ~Verdict'
    <2>1. \A y \in Objects : Over(y)' => Over(y)
      BY <1>1, <1>4 DEF Over
    <2> QED BY <1>1, <1>2, <1>3, <1>4, <2>1, ResultStays
  <1>5. PlaceInv'
    BY <1>1, <1>2, <1>3 DEF PlaceInv, Fresh, Placed, PlacedIn, Spent, SpentIn
  <1>6. ASSUME Verdict', ResultInv PROVE ResultInv'
    <2>1. /\ restore[x].state = "Running" /\ ResultOf(cr.res) # "none"
          /\ r'.next = "Succeeded" => ResultOf(cr.res) = "ok"
      BY <1>6, ReconcileDoes DEF Verdict, Ended
    <2>2. Current(x) /\ cr.res \in Copies
      BY <2>1 DEF Current, Copies
    <2>3. OwnResult(x, cr.res)
      BY <1>6, <2>2 DEF ResultInv, Told
    <2>4. /\ r'.next = "Succeeded" => x \in restored
          /\ job # None => job.phase # "active"
      BY <2>1, <2>3 DEF OwnResult
    <2>5. \A y \in Objects : Over(y)' => Over(y) \/ y = x
      BY <1>1 DEF Over
    <2>6. JobTrue' /\ Told' /\ SucceededRestored'
      BY <1>1, <1>2, <1>3, <1>6 DEF ResultInv, JobTrue, Told, OwnResult, SucceededRestored
    <2>7. Kept'
      <3>1. RestoreID = x =>
                /\ StatusID(Stored) = x /\ ResultOf(Stored.res) # "none"
                /\ StatusID(Soon) = x /\ ResultOf(Soon.res) # "none"
        BY <1>6, <2>1, <2>2 DEF PlaceInv, Placed, PlacedIn, ResultInv, Kept
      <3> QED BY <1>2, <1>3, <1>6, <2>5, <3>1 DEF ResultInv, Kept
    <2>8. Verdicts'
      BY <1>1, <1>6, <2>4, <2>5 DEF ResultInv, Verdicts
    <2> QED BY <2>6, <2>7, <2>8 DEF ResultInv
  <1> QED BY <1>4, <1>5, <1>6

LEMMA ResultNextR ==
    ASSUME TypeInv, RequestInv, TurnInv, PlaceInv, RStep
    PROVE  PlaceInv' /\ (ResultInv => ResultInv')
  <1>0. restore \in [Objects -> RestoreObject]
    BY Types
  <1>1. CASE StartReset
    <2>1. /\ UNCHANGED <<restore, cr, job, dcs, restored, p, c, faults>>
          /\ r.pc = "reset" /\ r'.pc = "request" /\ r'.x = r.x /\ r'.next = r.next
          /\ pg'.ann = pg.ann /\ pg'.on = pg.on /\ pg'.res = Blank(None)
      BY <1>1, StartResetDoes DEF RGoes, PutStatus
    <2>2. Free /\ ~DataSource
      BY <2>1 DEF TurnInv, Quiet, RequestInv, Hand, Split
    <2>3. RestoreID = None
      BY <2>2, FreeIdle
    <2>4. UNCHANGED <<Copies, RestoreID>>
      BY <2>1 DEF Copies, RestoreID, InPlace, DataSource
    <2>5. Stored'.res = Blank(None) /\ Soon'.res = Blank(None)
      <3>1. Stored'.res = Blank(None)
        BY <2>1 DEF Stored
      <3>2. Still'
        BY <2>1, <2>2 DEF Free, Still
      <3>3. Soon'.res = pg'.res
        BY <3>2, MergedStill DEF Still, Soon, Stored
      <3> QED BY <2>1, <3>1, <3>3
    <2>6. ResultOf(Blank(None)) = "none"
      BY DEF ResultOf, Blank
    <2>7. \A x \in Objects : Current(x)' => Current(x)
      BY <2>1 DEF Current
    <2>8. ~Verdict' /\ \A x \in Objects : Over(x)' => Over(x)
      BY <2>1 DEF Verdict, Over
    <2>9. \A x \in Objects : x # RestoreID
      BY <2>3, NoneAssumption
    <2>10. PlaceInv'
      BY <2>3, <2>4, <2>5, <2>9 DEF PlaceInv, Fresh, Placed, Spent, SpentIn
    <2>11. ASSUME ResultInv PROVE ResultInv'
      <3>1. JobTrue' /\ Told'
        BY <2>1, <2>4, <2>5, <2>6, <2>7, <2>11 DEF ResultInv, JobTrue, Told, OwnResult
      <3>2. Kept'
        BY <2>3, <2>4, <2>9 DEF Kept
      <3>3. Verdicts' /\ SucceededRestored'
        BY <2>1, <2>8, <2>11 DEF ResultInv, Verdicts, SucceededRestored
      <3> QED BY <3>1, <3>2, <3>3 DEF ResultInv
    <2> QED BY <2>10, <2>11
  <1>2. CASE RStep /\ ~StartReset
    <2>1. UNCHANGED <<pg, job, dcs, restored, p, c, faults>> /\ cr'.res = cr.res
      BY <1>2, StartRequestDoes, EnsureFinalizersDoes, DisableRestoreDoes, UpdateStatusDoes,
         RunFinalizerDoes DEF RStep, Asked
    <2>2. UNCHANGED <<Stored, Soon, Copies, RestoreID>>
      BY <2>1 DEF Stored, Soon, Copies, RestoreID, InPlace, DataSource
    <2>3. CASE StartRequest
      <3>1. UNCHANGED restore /\ r.pc = "request" /\ r'.pc = "finalizer"
        BY <2>3, StartRequestDoes DEF RGoes
      <3>2. \A x \in Objects : (Current(x)' => Current(x)) /\ (Over(x)' => Over(x))
        BY <2>1, <3>1 DEF Current, Over, Verdict
      <3> QED BY <2>1, <2>2, <3>1, <3>2, ResultStays DEF Verdict
    <2>4. CASE EnsureFinalizers
      <3>1. /\ \A x \in Objects : restore'[x].state = restore[x].state
            /\ r'.pc = "idle" \/ (r'.pc = "status" /\ r'.next = "Starting")
            /\ UNCHANGED cr
        <4>1. r.pc = "finalizer" /\ r.next = "Starting" /\ r.x \in Objects
          BY <2>4, EnsureFinalizersDoes, RHas DEF RequestInv, Hand
        <4>2. CASE RGoes("status") /\ Wrote(r.x, restore[r.x].state, TRUE, restore[r.x].del)
          BY <1>0, <2>4, <4>1, <4>2, EnsureFinalizersDoes DEF RGoes, Wrote
        <4>3. CASE r' = Idle /\ UNCHANGED restore
          BY <2>4, <4>3, EnsureFinalizersDoes DEF Idle
        <4> QED BY <2>4, <4>2, <4>3, EnsureFinalizersDoes
      <3>2. ~Verdict'
        BY <3>1 DEF Verdict, Ended
      <3>3. \A x \in Objects : (Current(x)' => Current(x)) /\ (Over(x)' => Over(x))
        BY <2>1, <3>1, <3>2 DEF Current, Over
      <3> QED BY <2>1, <2>2, <3>1, <3>2, <3>3, ResultStays
    <2>5. CASE DisableRestore
      <3>1. /\ UNCHANGED restore /\ r'.x = r.x /\ r'.next = r.next
            /\ \/ r.pc = "disable" /\ r'.pc = "status"
               \/ r.pc = "release" /\ r'.pc = "unfinalize"
            /\ cr'.on => cr.on
        BY <2>5, DisableRestoreDoes DEF RGoes, Asked
      <3>2. Verdict' => Verdict
        BY <3>1 DEF Verdict
      <3>3. r.pc = "disable" => r.next \in Ended
        BY DEF RequestInv, Hand
      <3>4. \A x \in Objects : (Current(x)' => Current(x)) /\ (Over(x)' => Over(x))
        BY <2>1, <3>1, <3>2, <3>3 DEF Current, Over, Ended
      <3> QED BY <2>1, <2>2, <3>1, <3>2, <3>4, ResultStays
    <2>6. CASE UpdateStatus
      <3>1. UNCHANGED cr /\ r.pc = "status" /\ r'.pc = "idle" /\ r.x \in Objects
        BY <2>6, UpdateStatusDoes, RHas DEF Idle
      <3>2. ~Verdict' /\ (r.next \in Ended => Verdict)
        BY <3>1 DEF Verdict
      <3>3. \A x \in Objects : restore'[x].state = restore[x].state
                                  \/ (x = r.x /\ restore'[x].state = r.next)
        BY <1>0, <2>6, <3>1, UpdateStatusDoes DEF Wrote
      <3>4. \A x \in Objects : (Current(x)' => Current(x)) /\ (Over(x)' => Over(x))
        BY <2>1, <3>1, <3>2, <3>3 DEF Current, Over
      <3>5. \A x \in Objects : restore'[x].state = "Succeeded" =>
                restore[x].state = "Succeeded" \/ (Verdict /\ r.next = "Succeeded" /\ r.x = x)
        BY <3>2, <3>3 DEF Ended
      <3> QED BY <2>1, <2>2, <3>1, <3>2, <3>4, <3>5, ResultStays
    <2>7. CASE RunFinalizer
      <3>1. UNCHANGED cr /\ r'.pc = "idle" /\ r.x \in Objects
        BY <2>7, RunFinalizerDoes, RHas DEF Idle
      <3>2. \A x \in Objects : restore'[x].state = restore[x].state \/ restore'[x].state = "gone"
        BY <1>0, <2>7, <3>1, RunFinalizerDoes DEF Wrote
      <3>3. ~Verdict' /\ \A x \in Objects : (Current(x)' => Current(x)) /\ (Over(x)' => Over(x))
        BY <2>1, <3>1, <3>2 DEF Current, Over, Verdict, Ended
      <3> QED BY <2>1, <2>2, <3>1, <3>2, <3>3, ResultStays
    <2> QED BY <1>2, <2>3, <2>4, <2>5, <2>6, <2>7 DEF RStep
  <1> QED BY <1>1, <1>2

LEMMA ResultNextP ==
    ASSUME TypeInv, RequestInv, TurnInv, PlaceInv, PSync \/ PStatus
    PROVE  PlaceInv' /\ (ResultInv => ResultInv')
  <1>1. CASE PStatus
    <2>1. /\ UNCHANGED <<restore, pg, job, dcs, restored, r, c, faults>>
          /\ p.pc = "status" /\ p'.pc = "idle" /\ cr'.res = p.res /\ cr'.on = cr.on
      BY <1>1, PStatusDoes DEF Idle
    <2>2. UNCHANGED <<Stored, Soon, RestoreID, Verdict>> /\ Copies' \subseteq Copies
      BY <2>1 DEF Stored, Soon, Copies, RestoreID, InPlace, DataSource, Verdict
    <2>3. \A x \in Objects : (Current(x)' => Current(x)) /\ (Over(x)' => Over(x))
      BY <2>1, <2>2 DEF Current, Over
    <2> QED BY <2>1, <2>2, <2>3, ResultStays
  <1>2. CASE PSync
    <2>1. /\ UNCHANGED <<cr, job, dcs, restored, r, c, faults>>
          /\ p.pc = "idle" /\ p'.pc = "status" /\ p'.res = pg.res
          /\ pg'.ann = cr.ann /\ pg'.on = cr.on /\ pg'.res = pg.res /\ pg'.init = pg.init
          /\ pg'.prog = pg.prog /\ pg'.boot = pg.boot
      BY <1>2, PSyncDoes DEF PutRequest
    <2>2. \A x \in Objects : restore'[x].state = restore[x].state \/ restore'[x].state = "New"
      BY <1>2, PSyncDoes DEF Wrote, Objects
    <2>3. UNCHANGED <<Stored, Soon, Verdict>>
      BY <2>1 DEF Stored, Soon, Verdict
    <2>4. Copies' = {cr.res, Stored.res} /\ Copies = {cr.res}
      BY <2>1 DEF Copies, Stored
    <2>5. \A x \in Objects : (Current(x)' => Current(x)) /\ (Over(x)' => Over(x))
      BY <2>1, <2>2, <2>3 DEF Current, Over, Ended
    <2>7. RestoreID' = IF cr.on THEN cr.ann ELSE IF DataSource THEN Boot ELSE None
      <3>1. cr.on => cr.ann # None
        BY DEF RequestInv, Annotated
      <3> QED BY <2>1, <3>1 DEF RestoreID, InPlace, DataSource
    <2>8. RestoreID = IF pg.on THEN pg.ann ELSE IF DataSource THEN Boot ELSE None
      BY InPlaceIs
    <2>9. \/ RestoreID' = RestoreID
          \/ RestoreID' = None
          \/ cr.on /\ ~pg.on /\ RestoreID' = cr.ann /\ cr.ann \in Restores
      BY <2>7, <2>8 DEF TurnInv, Named, Split
    <2>10. Fresh'
      BY <2>1, <2>3 DEF PlaceInv, Fresh
    <2>11. ASSUME ResultInv PROVE JobTrue' /\ Told' /\ Verdicts' /\ SucceededRestored'
      <3>1. SucceededRestored'
        BY <2>1, <2>2, <2>11 DEF ResultInv, SucceededRestored
      <3>2. Told'
        BY <2>1, <2>3, <2>4, <2>5, <2>11 DEF ResultInv, Told, OwnResult
      <3> QED BY <2>1, <2>3, <2>5, <2>11, <3>1, <3>2 DEF ResultInv, JobTrue, Verdicts
    <2>12. CASE RestoreID' = RestoreID
      <3>1. Placed' /\ Spent'
        BY <2>1, <2>3, <2>5, <2>12 DEF PlaceInv, Placed, PlacedIn, Spent, SpentIn
      <3>2. ASSUME ResultInv PROVE Kept'
        <4>1. \A x \in Objects : Current(x) /\ RestoreID = x /\ ResultOf(Stored.res) # "none" =>
                  ResultOf(Soon.res) # "none"
          BY <3>2, NoneAssumption DEF PlaceInv, Placed, PlacedIn, ResultInv, Kept
        <4> QED BY <2>3, <2>4, <2>5, <2>12, <3>2, <4>1 DEF ResultInv, Kept
      <3> QED BY <2>10, <2>11, <3>1, <3>2 DEF PlaceInv, ResultInv
    <2>13. CASE RestoreID' = None
      <3>1. \A x \in Objects : x # RestoreID'
        BY <2>13, NoneAssumption
      <3>2. Placed' /\ Spent' /\ Kept'
        BY <2>13, <3>1 DEF Placed, Spent, SpentIn, Kept
      <3> QED BY <2>10, <2>11, <3>2 DEF PlaceInv, ResultInv
    <2>14. CASE cr.on /\ ~pg.on /\ RestoreID' = cr.ann /\ cr.ann \in Restores
      <3>1. \A x \in Objects : ~Current(x)'
        BY <2>5, <2>14 DEF TurnInv, NotBefore
      <3>2. Stored.res = Blank(None) /\ Soon.res = Blank(None)
        BY <2>14 DEF PlaceInv, Fresh
      <3>3. ResultOf(Stored.res) = "none" /\ ResultOf(Soon.res) = "none"
        BY <3>2 DEF ResultOf, Blank
      <3>4. ~Over(cr.ann)
        <4>1. restore[cr.ann].state \notin Ended
          BY <2>14 DEF RequestInv, RequestWithdrawn
        <4>2. ~(Verdict /\ r.x = cr.ann)
          <5>1. r.pc = "status" /\ r.next \in Ended => r.x # cr.ann
            BY <2>14 DEF RequestInv, Hand
          <5>2. r.pc = "disable" => restore[r.x].state = "Running"
            BY DEF RequestInv, Hand
          <5>3. r.pc = "disable" => r.x # cr.ann
            BY <2>14, <5>2 DEF TurnInv, NotBefore, Current, Objects
          <5> QED BY <5>1, <5>3 DEF Verdict
        <4> QED BY <4>1, <4>2 DEF Over
      <3>6. Placed' /\ Spent'
        BY <2>3, <3>1, <3>3 DEF Placed, Spent, SpentIn
      <3>7. Kept'
        BY <2>3, <2>5, <2>14, <3>1, <3>3, <3>4 DEF Kept
      <3> QED BY <2>10, <2>11, <3>6, <3>7 DEF PlaceInv, ResultInv
    <2> QED BY <2>9, <2>12, <2>13, <2>14
  <1> QED BY <1>1, <1>2

LEMMA CurrentJob ==
    ASSUME TypeInv, RequestInv, TurnInv, NEW x \in Objects, Current(x), job # None
    PROVE  job.id = x
  BY DEF Current, TurnInv, Named, RequestInv, Hand

\* C prepares only what has not been prepared, and goes on only with what has.
LEMMA Prepares ==
    ASSUME TypeInv, TurnInv, MustPrepare(Observed)
    PROVE  RestoreID # None /\ (StatusID(Stored) # RestoreID \/ Stored.prog = "preparing")
  BY ObservedIs, JobOfRequest DEF MustPrepare, Stored

LEMMA GoesOn ==
    ASSUME TypeInv, ~MustPrepare(Observed), RestoreID # None
    PROVE  StatusID(Stored) = RestoreID /\ Observed.prog # "preparing"
  BY ObservedIs DEF MustPrepare

\* While C does not know of a request, no restore is asked for.
LEMMA NotYet ==
    ASSUME TypeInv, RequestInv, TurnInv, r.pc = "request" \/ (cr.on /\ ~pg.on)
    PROVE  RestoreID = None /\ job = None
  <1>1. ~DataSource /\ ~pg.on
    BY DEF TurnInv, Quiet, Free, Split, RequestInv, Hand
  <1>2. job = None
    <2>1. CASE r.pc = "request"
      BY <2>1 DEF TurnInv, Quiet, Free
    <2>2. CASE cr.on /\ ~pg.on
      BY <2>2, Types DEF TurnInv, NotBefore, Current, RestoreJob
    <2> QED BY <2>1, <2>2
  <1> QED BY <1>1, <1>2, InPlaceIs

LEMMA ResultNextPrepare ==
    ASSUME TypeInv, RequestInv, TurnInv, PlaceInv, PrepareForRestore
    PROVE  PlaceInv' /\ (ResultInv => ResultInv')
  <1>1. /\ UNCHANGED <<restore, cr, pg, restored, r, p, faults, Stored>>
        /\ Soon = Stored /\ Soon'.res = Blank(RestoreID)
        /\ job' = job \/ job' = None
    BY PrepareForRestoreDoes
  <1>2. RestoreID # None /\ (StatusID(Stored) # RestoreID \/ Stored.prog = "preparing")
    BY PrepareForRestoreDoes, Prepares
  <1>3. ResultOf(Soon'.res) = "none"
    BY <1>1 DEF Blank, ResultOf
  <1>4. UNCHANGED <<Copies, RestoreID, Verdict>>
    BY <1>1 DEF Copies, RestoreID, InPlace, DataSource, Verdict
  <1>5. \A x \in Objects : (Current(x)' => Current(x)) /\ (Over(x)' => Over(x))
    BY <1>1, <1>4 DEF Current, Over
  <1>6. ~(StatusID(Stored) = RestoreID /\ ResultOf(Stored.res) # "none")
    BY <1>2 DEF PlaceInv, Spent, SpentIn
  <1>7. \A x \in Objects : RestoreID = x => ~Current(x)
    BY <1>2 DEF PlaceInv, Placed, PlacedIn
  <1>8. Fresh'
    BY <1>1, <1>2, NotYet DEF Fresh
  <1>9. Placed'
    BY <1>4, <1>5, <1>7 DEF Placed
  <1>10. Spent'
    BY <1>1, <1>3, <1>4, <1>6 DEF Spent, SpentIn
  <1>11. ASSUME ResultInv PROVE ResultInv'
    <2>1. JobTrue' /\ Told'
      BY <1>1, <1>3, <1>4, <1>5, <1>11 DEF ResultInv, JobTrue, Told, OwnResult
    <2>2. \A x \in Objects : RestoreID = x => ~Over(x)
      BY <1>6, <1>11 DEF ResultInv, Kept
    <2>3. Kept'
      BY <1>1, <1>4, <1>5, <1>6, <1>7, <2>2 DEF Kept
    <2>4. Verdicts' /\ SucceededRestored'
      BY <1>1, <1>4, <1>5, <1>11 DEF ResultInv, Verdicts, SucceededRestored
    <2> QED BY <2>1, <2>3, <2>4 DEF ResultInv
  <1> QED BY <1>8, <1>9, <1>10, <1>11 DEF PlaceInv

\* C copies what the Job shows and starts none.
LEMMA ResultObserved ==
    ASSUME TypeInv, RequestInv, TurnInv, PlaceInv,
           UNCHANGED <<restore, cr, pg, dcs, restored, r, p, faults, Stored>>, Soon = Stored,
           Soon'.res = Observed.res, Soon'.prog = Observed.prog, Soon'.boot = Observed.boot,
           job' = job \/ (job' = None /\ Observed.boot),
           RestoreID = None \/ ~MustPrepare(Observed)
    PROVE  PlaceInv' /\ (ResultInv => ResultInv')
  <1>1. UNCHANGED <<Copies, RestoreID, Verdict>>
    BY DEF Copies, RestoreID, InPlace, DataSource, Verdict
  <1>2. \A x \in Objects : (Current(x)' => Current(x)) /\ (Over(x)' => Over(x))
    BY <1>1 DEF Current, Over
  <1>3. StatusID(Soon)' = StatusID(Stored)
    BY ObservedIs DEF StatusID
  <1>4. Stored.res = pg.res /\ Stored.prog = pg.prog /\ Stored.boot = pg.boot
    BY DEF Stored
  <1>5. \/ ResultOf(Soon'.res) = ResultOf(Stored.res)
        \/ job # None /\ job.phase \in {"ok", "bad"} /\ ResultOf(Soon'.res) = job.phase
    BY <1>4, ObservedIs
  <1>6. ResultOf(Stored.res) # "none" => ResultOf(Soon'.res) # "none"
    BY <1>5
  <1>7. Fresh'
    <2>1. job = None => Soon'.res = Stored.res
      BY <1>4, ObservedIs
    <2> QED BY <2>1, NotYet DEF PlaceInv, Fresh
  <1>8. ASSUME ResultInv PROVE JobTrue'
    BY <1>8 DEF ResultInv, JobTrue
  <1>9. ASSUME ResultInv PROVE Told'
    <2> SUFFICES ASSUME NEW x \in Objects, Current(x)
                 PROVE  /\ \A res \in Copies : OwnResult(x, res)'
                        /\ OwnResult(x, Stored.res)' /\ OwnResult(x, Soon.res)'
      BY <1>1, <1>2 DEF Told
    <2>1. /\ \A res \in Copies : OwnResult(x, res)
          /\ OwnResult(x, Stored.res)
      BY <1>9 DEF ResultInv, Told
    <2>2. \A res \in Copies : OwnResult(x, res)'
      BY <2>1 DEF OwnResult
    <2>3. OwnResult(x, Stored.res)'
      BY <2>1 DEF OwnResult
    <2>4. OwnResult(x, Soon.res)'
      <3>1. CASE ResultOf(Soon'.res) = ResultOf(Stored.res)
        BY <2>1, <3>1 DEF OwnResult
      <3>2. CASE job # None /\ job.phase \in {"ok", "bad"} /\ ResultOf(Soon'.res) = job.phase
        <4>1. job.id = x
          BY <3>2, CurrentJob
        <4> QED BY <1>9, <3>2, <4>1 DEF OwnResult, ResultInv, JobTrue
      <3> QED BY <1>5, <3>1, <3>2
    <2> QED BY <2>2, <2>3, <2>4
  <1>10. Observed.prog = pg.prog \/ Observed.prog = "no"
    BY ObservedIs
  <1>11. Placed'
    BY <1>1, <1>2, <1>3, <1>4, <1>10 DEF PlaceInv, Placed, PlacedIn
  <1>12. Spent'
    <2>1. Observed.boot = (pg.boot \/ dcs)
      BY ObservedIs
    <2>2. SpentIn(Stored)'
      BY <1>1, <1>4, <2>1 DEF PlaceInv, Spent, SpentIn
    <2>3. SpentIn(Soon)'
      <3> SUFFICES ASSUME RestoreID # None, StatusID(Stored) = RestoreID,
                          ResultOf(Soon'.res) # "none"
                   PROVE  Soon'.prog # "preparing" /\ (job' = None => dcs' \/ Soon'.boot)
        BY <1>1, <1>3 DEF SpentIn
      <3>1. Soon'.prog # "preparing"
        BY GoesOn
      <3>2. CASE job = None /\ ~Observed.boot
        <4>1. ResultOf(Stored.res) # "none"
          BY <1>5, <3>2
        <4> QED BY <1>4, <2>1, <3>1, <3>2, <4>1 DEF PlaceInv, Spent, SpentIn
      <3>3. CASE ~(job = None /\ ~Observed.boot)
        BY <3>1, <3>3
      <3> QED BY <3>2, <3>3
    <2> QED BY <2>2, <2>3 DEF Spent
  <1>13. ASSUME ResultInv PROVE Kept'
    BY <1>1, <1>2, <1>3, <1>6, <1>13 DEF ResultInv, Kept
  <1>14. ASSUME ResultInv PROVE Verdicts' /\ SucceededRestored'
    BY <1>1, <1>2, <1>14 DEF ResultInv, Verdicts, SucceededRestored
  <1> QED BY <1>7, <1>8, <1>9, <1>11, <1>12, <1>13, <1>14 DEF PlaceInv, ResultInv

LEMMA ResultNextJob ==
    ASSUME Orderly, TypeInv, RequestInv, TurnInv, PlaceInv, ReconcileRestoreJob
    PROVE  PlaceInv' /\ (Calm /\ ResultInv => ResultInv')
  <1>1. CASE UNCHANGED job
    BY <1>1, ResultObserved, ReconcileRestoreJobDoes
  <1>2. CASE job = None /\ job' # None
    <2>1. /\ UNCHANGED <<restore, cr, pg, dcs, restored, r, p, faults, Stored>>
          /\ Soon = Stored /\ Soon'.res = Observed.res /\ Soon'.prog = Observed.prog
          /\ ~Observed.boot /\ RestoreID # None /\ ~MustPrepare(Observed)
          /\ job' = [id |-> RestoreID, phase |-> "active"]
      BY <1>2, ReconcileRestoreJobDoes
    <2>2. job'.id = RestoreID /\ job'.phase = "active"
      BY <2>1
    <2>3. StatusID(Stored) = RestoreID /\ Stored.prog # "preparing"
      BY <1>2, <2>1, GoesOn, ObservedIs DEF Stored
    <2>4. ResultOf(Stored.res) = "none"
      BY <1>2, <2>1, <2>3, ObservedIs DEF PlaceInv, Spent, SpentIn, Stored
    <2>5. Soon'.res = Stored.res /\ Soon'.prog = Stored.prog /\ StatusID(Soon)' = RestoreID
      BY <1>2, <2>1, <2>3, ObservedIs DEF Stored, StatusID
    <2>6. UNCHANGED <<Copies, RestoreID, Verdict>>
      BY <2>1 DEF Copies, RestoreID, InPlace, DataSource, Verdict
    <2>7. Fresh'
      BY <2>1, NotYet DEF Fresh
    <2>8. Placed'
      BY <2>1, <2>3, <2>5, <2>6 DEF Placed, PlacedIn
    <2>9. Spent'
      BY <2>1, <2>4, <2>5, <2>6 DEF Spent, SpentIn
    <2>10. ASSUME Calm, ResultInv PROVE ResultInv'
      <3>1. CaughtUp
        BY <1>2, <2>10, ReconcileRestoreJobDoes DEF Calm, TypeInv
      <3>2. Copies = {Stored.res}
        BY <3>1 DEF Copies, CaughtUp, Stored
      <3>3. \A x \in Objects : Over(x)' => Over(x)
        BY <2>1, <2>6 DEF Over
      <3>4. \A x \in Objects : RestoreID = x => ~Over(x)
        BY <2>4, <2>10 DEF ResultInv, Kept
      <3>5. JobTrue' /\ Told'
        BY <2>1, <2>2, <2>4, <2>5, <2>6, <3>2 DEF JobTrue, Told, OwnResult
      <3>6. Kept'
        BY <2>1, <2>4, <2>6, <3>2, <3>3, <3>4 DEF Kept
      <3>7. Verdicts' /\ SucceededRestored'
        BY <2>1, <2>2, <2>6, <2>10, <3>3, <3>4 DEF ResultInv, Verdicts, SucceededRestored
      <3> QED BY <3>5, <3>6, <3>7 DEF ResultInv
    <2> QED BY <2>7, <2>8, <2>9, <2>10 DEF PlaceInv
  <1>3. CASE job # None /\ job' # job
    BY <1>3, ReconcileRestoreJobDoes
  <1>4. CASE job = None /\ job' = None
    BY <1>1, <1>4
  <1> QED BY <1>1, <1>2, <1>3, <1>4

LEMMA ResultNextEnds ==
    ASSUME TypeInv, RequestInv, TurnInv, PlaceInv, JobEnds
    PROVE  PlaceInv' /\ (ResultInv => ResultInv')
  <1>1. /\ UNCHANGED <<restore, cr, pg, pod, dcs, r, p, c, faults>>
        /\ job # None /\ job.phase = "active" /\ job'.id = job.id /\ job'.phase # "active"
        /\ restored \subseteq restored' /\ (job'.phase = "ok" => job.id \in restored')
        /\ job \in RestoreJob /\ job' # None
    BY JobEndsDoes, Types, NoneAssumption DEF RestoreJob
  <1>2. UNCHANGED <<Stored, Soon, Copies, RestoreID, Verdict>>
    BY <1>1 DEF Stored, Soon, Copies, RestoreID, InPlace, DataSource, Verdict
  <1>3. job.id \in Objects /\ Current(job.id)
    BY <1>1 DEF RestoreJob, Current
  <1>4. \A x \in Objects : (Current(x)' => Current(x)) /\ (Over(x)' => Over(x))
    BY <1>1, <1>2 DEF Current, Over
  <1>5. PlaceInv'
    BY <1>1, <1>2, <1>4 DEF PlaceInv, Fresh, Placed, PlacedIn, Spent, SpentIn
  <1>6. ASSUME ResultInv PROVE ResultInv'
    <2>1. /\ \A res \in Copies : ResultOf(res) = "none"
          /\ ResultOf(Stored.res) = "none" /\ ResultOf(Soon.res) = "none"
      BY <1>1, <1>3, <1>6 DEF ResultInv, Told, OwnResult
    <2>2. JobTrue' /\ Told'
      BY <1>1, <1>2, <2>1 DEF JobTrue, Told, OwnResult
    <2>3. Kept'
      BY <1>2, <1>4, <1>6 DEF ResultInv, Kept
    <2>4. Verdicts' /\ SucceededRestored'
      BY <1>1, <1>2, <1>4, <1>6 DEF ResultInv, Verdicts, SucceededRestored
    <2> QED BY <2>2, <2>3, <2>4 DEF ResultInv
  <1> QED BY <1>5, <1>6

LEMMA ResultNext ==
    ASSUME Orderly, TypeInv, RequestInv, TurnInv, PlaceInv, [Next]_vars
    PROVE  PlaceInv' /\ (Calm /\ ResultInv => ResultInv')
  <1>1. CASE ReconcileInstances
    <2>1. Soon'.res = Observed.res /\ Soon'.prog = Observed.prog /\ Soon'.boot = Observed.boot
      BY <1>1, ReconcileInstancesDoes DEF View
    <2> QED BY <1>1, <2>1, ResultObserved, ReconcileInstancesDoes
  <1>2. ASSUME UNCHANGED <<restore, cr, job, restored, faults>>, dcs => dcs',
               pg'.ann = pg.ann, pg'.on = pg.on,
               \/ UNCHANGED <<Stored, Soon>>
               \/ Soon' = Stored' /\ (Stored' = Stored \/ Stored' = Soon),
               \/ UNCHANGED <<r, p>>
               \/ r'.pc = "idle" /\ p'.pc = "idle"
        PROVE  PlaceInv' /\ (ResultInv => ResultInv')
    <2>1. Copies' \subseteq Copies /\ UNCHANGED RestoreID
      BY <1>2 DEF Copies, RestoreID, InPlace, DataSource
    <2>2. \A x \in Objects : (Current(x)' => Current(x)) /\ (Over(x)' => Over(x))
      BY <1>2 DEF Current, Over, Verdict
    <2> QED BY <1>2, <2>1, <2>2, ResultStays DEF Verdict
  <1>3. CASE PatchClusterStatus
    BY <1>2, <1>3, PatchClusterStatusDoes
  <1>4. CASE Kubelet
    BY <1>2, <1>4, KubeletDoes, ViewsStay
  <1>5. CASE Patroni
    BY <1>2, <1>5, PatroniDoes, ViewsStay
  <1>6. CASE Crash
    BY <1>2, <1>6, CrashDoes DEF Idle
  <1>7. CASE UNCHANGED vars
    BY <1>2, <1>7, ViewsStay DEF vars
  <1> QED BY <1>1, <1>3, <1>4, <1>5, <1>6, <1>7, ResultNextUser, ResultNextReconcile,
             ResultNextR, ResultNextP,
             ResultNextPrepare, ResultNextJob, ResultNextEnds DEF Next, CStep

-----------------------------------------------------------------------------
(* The instance on the volume.                                             *)

\* Restores come one after the other, and the instance does not restart of its own
\* accord while C stops it.  Jobs may be as fast and controllers as slow as they like.
Steady == Orderly /\ \A f \in Scenarios : "flap" \notin f

\* A restore is about to be requested, or C has not seen its request.
Called ==
    \/ \E x \in Restores : restore[x].state = "New" /\ ~restore[x].del /\ ~cr.on
    \/ r.pc \in {"reset", "request"}
    \/ cr.on /\ ~pg.on

PodUp == Called => pod = "up"

\* Once the preparation is over and until the data is restored, there is no Pod.
DownIn(v) ==
    RestoreID # None /\ PlacedIn(v, RestoreID) /\ ~dcs /\ ~v.boot =>
        /\ v.init # "true" /\ (job # None => job.phase # "ok") => pod = "none"
        /\ v.init = "true" /\ job # None => job.phase = "ok"

\* While the Job of the request works, the cluster does not count as bootstrapped.
NotBooted ==
    job # None /\ RestoreID = job.id =>
        (job.phase = "active" => ~dcs /\ ~Stored.boot /\ ~Soon.boot)

\* A Pod is started only after the preparation.
Starts == RestoreID # None /\ pod = "starting" =>
              PlacedIn(Stored, RestoreID) /\ PlacedIn(Soon, RestoreID)

DownInv == PodUp /\ DownIn(Stored) /\ DownIn(Soon) /\ NotBooted /\ Starts

LEMMA DownInit == Init => DownInv
  <1> SUFFICES ASSUME Init PROVE DownInv
    OBVIOUS
  <1>1. /\ r.pc = "idle" /\ c.pc = "idle" /\ job = None /\ pg.res = None /\ ~cr.on
        /\ \A x \in Objects : restore[x].state = "absent"
        /\ pod # "starting"
    BY DEF Init, Idle
  <1>2. Soon = Stored /\ StatusID(Stored) = None
    BY <1>1 DEF Soon, Stored, StatusID
  <1>3. ~Called
    BY <1>1 DEF Called, Objects
  <1> QED BY <1>1, <1>2, <1>3 DEF DownInv, PodUp, DownIn, PlacedIn, NotBooted, Starts

LEMMA DownStays ==
    ASSUME TypeInv, DownInv, UNCHANGED <<RestoreID, job, pod, dcs>>,
           UNCHANGED <<Stored, Soon>> \/ (Soon' = Stored' /\ (Stored' = Stored \/ Stored' = Soon)),
           Called' => Called \/ pod = "up"
    PROVE  DownInv'
  <1>1. PodUp'
    BY DEF DownInv, PodUp
  <1>2. (DownIn(Stored) /\ DownIn(Soon))'
    BY DEF DownInv, DownIn, PlacedIn
  <1>3. NotBooted' /\ Starts'
    BY DEF DownInv, NotBooted, Starts, PlacedIn
  <1> QED BY <1>1, <1>2, <1>3 DEF DownInv

LEMMA CalledIdle ==
    ASSUME TypeInv, RequestInv, TurnInv, Called PROVE RestoreID = None /\ job = None
  <1>1. CASE r.pc = "request" \/ (cr.on /\ ~pg.on)
    BY <1>1, NotYet
  <1>2. CASE \/ \E x \in Restores : restore[x].state = "New" /\ ~restore[x].del /\ ~cr.on
             \/ r.pc = "reset"
    <2>1. Free /\ ~DataSource
      BY <1>2 DEF TurnInv, Quiet, Split, RequestInv, Hand
    <2> QED BY <2>1, FreeIdle DEF Free
  <1> QED BY <1>1, <1>2 DEF Called

LEMMA DownNextUser ==
    ASSUME Orderly, TypeInv, RequestInv, TurnInv, DownInv,
           NEW x \in Restores, Create(x) \/ Delete(x)
    PROVE  DownInv'
  <1>0. Restores \subseteq Objects
    BY DEF Objects
  <1>1. UNCHANGED <<cr, pg, job, pod, dcs, r, p, c, faults>>
    BY CreateDoes, DeleteDoes
  <1>2. UNCHANGED <<Stored, Soon, RestoreID>>
    BY <1>1 DEF Stored, Soon, RestoreID, InPlace, DataSource
  <1>3. Called' => Called \/ pod = "up"
    <2>1. CASE Create(x)
      <3>1. Settled
        BY <2>1, CreateDoes DEF Orderly, TypeInv
      <3> QED BY <3>1 DEF Settled
    <2>2. CASE Delete(x)
      <3>1. \A y \in Restores : restore'[y].state = "New" /\ ~restore'[y].del =>
                                    restore[y].state = "New" /\ ~restore[y].del
        BY <1>0, <2>2, DeleteDoes DEF Wrote
      <3> QED BY <1>1, <3>1 DEF Called
    <2> QED BY <2>1, <2>2
  <1> QED BY <1>1, <1>2, <1>3, DownStays

LEMMA DownNextReconcile ==
    ASSUME TypeInv, RequestInv, TurnInv, DownInv, NEW x \in Objects, Reconcile(x) PROVE DownInv'
  <1>1. UNCHANGED <<restore, cr, pg, job, pod, dcs, p, c, faults>>
    BY ReconcileDoes
  <1>2. UNCHANGED <<Stored, Soon, RestoreID>>
    BY <1>1 DEF Stored, Soon, RestoreID, InPlace, DataSource
  <1>3. r'.pc \in {"reset", "request"} =>
            x \in Restores /\ restore[x].state = "New" /\ ~restore[x].del /\ ~cr.on
    BY ReconcileDoes DEF Objects
  <1>4. Called' => Called
    BY <1>1, <1>3 DEF Called
  <1> QED BY <1>1, <1>2, <1>4, DownStays

LEMMA DownNextR == ASSUME TypeInv, RequestInv, TurnInv, DownInv, RStep PROVE DownInv'
  <1>0. restore \in [Objects -> RestoreObject] /\ Restores \subseteq Objects
    BY Types DEF Objects
  <1>1. CASE StartReset
    <2>1. /\ UNCHANGED <<restore, cr, job, pod, dcs, c, faults>>
          /\ r.pc = "reset" /\ r'.pc = "request" /\ pg'.ann = pg.ann /\ pg'.on = pg.on
      BY <1>1, StartResetDoes DEF RGoes, PutStatus
    <2>2. RestoreID = None /\ job = None
      BY <2>1, CalledIdle DEF Called
    <2>3. UNCHANGED RestoreID
      BY <2>1 DEF RestoreID, InPlace, DataSource
    <2> QED BY <2>1, <2>2, <2>3 DEF DownInv, PodUp, Called, DownIn, NotBooted, Starts
  <1>2. CASE RStep /\ ~StartReset
    <2>1. UNCHANGED <<pg, job, pod, dcs, p, c, faults>>
      BY <1>2, StartRequestDoes, EnsureFinalizersDoes, DisableRestoreDoes, UpdateStatusDoes,
         RunFinalizerDoes DEF RStep
    <2>2. UNCHANGED <<Stored, Soon, RestoreID>>
      BY <2>1 DEF Stored, Soon, RestoreID, InPlace, DataSource
    <2>3. Called' => Called
      <3>1. CASE StartRequest
        BY <3>1, StartRequestDoes DEF Called
      <3>2. CASE EnsureFinalizers
        <4>1. UNCHANGED cr /\ r.pc = "finalizer" /\ r.x \in Objects
          BY <3>2, EnsureFinalizersDoes, RHas
        <4>2. r'.pc \notin {"reset", "request"}
          <5>1. CASE RGoes("status")
            BY <5>1 DEF RGoes
          <5>2. CASE r' = Idle
            BY <5>2 DEF Idle
          <5> QED BY <3>2, <5>1, <5>2, EnsureFinalizersDoes
        <4>3. \A y \in Objects : /\ restore'[y].state = restore[y].state
                                  /\ restore'[y].del = restore[y].del
          BY <1>0, <3>2, <4>1, EnsureFinalizersDoes DEF Wrote
        <4> QED BY <1>0, <2>1, <4>1, <4>2, <4>3 DEF Called
      <3>3. CASE DisableRestore
        <4>1. /\ UNCHANGED restore /\ r.pc \in {"disable", "release"} /\ r.x \in Objects
              /\ r'.pc \notin {"reset", "request"}
          BY <3>3, DisableRestoreDoes, RHas DEF RGoes
        <4>2. CASE UNCHANGED cr
          BY <2>1, <4>1, <4>2 DEF Called
        <4>3. CASE restore[r.x].state \notin Ended /\ ~cr'.on
          <5>1. Unfinished(r.x) /\ (restore[r.x].state = "New" => restore[r.x].del)
            BY <4>1, <4>3, RHas DEF Unfinished, Ended, States, RequestInv, Hand, Live
          <5>2. \A y \in Restores : restore[y].state = "New" => y = r.x
            BY <1>0, <4>1, <5>1 DEF TurnInv, OneAtATime, Unfinished
          <5> QED BY <4>1, <4>3, <5>1, <5>2 DEF Called
        <4> QED BY <3>3, <4>2, <4>3, DisableRestoreDoes DEF Asked
      <3>4. CASE UpdateStatus
        <4>1. UNCHANGED cr /\ r.pc = "status" /\ r'.pc = "idle" /\ r.x \in Objects
          BY <3>4, UpdateStatusDoes, RHas DEF Idle
        <4>2. r.next # "New"
          BY <4>1 DEF RequestInv, Hand, Ended
        <4>3. \A y \in Objects : restore'[y].state = "New" => restore'[y] = restore[y]
          BY <1>0, <3>4, <4>1, <4>2, UpdateStatusDoes DEF Wrote
        <4> QED BY <1>0, <2>1, <4>1, <4>3 DEF Called
      <3>5. CASE RunFinalizer
        <4>1. UNCHANGED cr /\ r'.pc = "idle" /\ r.x \in Objects
          BY <3>5, RunFinalizerDoes, RHas DEF Idle
        <4>2. \A y \in Objects : restore'[y].state = "New" => restore'[y] = restore[y]
          BY <1>0, <3>5, <4>1, RunFinalizerDoes DEF Wrote
        <4> QED BY <1>0, <2>1, <4>1, <4>2 DEF Called
      <3> QED BY <1>2, <3>1, <3>2, <3>3, <3>4, <3>5 DEF RStep
    <2> QED BY <2>1, <2>2, <2>3, DownStays
  <1> QED BY <1>1, <1>2

LEMMA DownNextP ==
    ASSUME TypeInv, RequestInv, TurnInv, PlaceInv, DownInv, PSync PROVE DownInv'
  <1>1. /\ UNCHANGED <<cr, job, pod, dcs, r, c, faults>>
        /\ pg'.ann = cr.ann /\ pg'.on = cr.on /\ pg'.res = pg.res /\ pg'.init = pg.init
        /\ pg'.prog = pg.prog /\ pg'.boot = pg.boot
    BY PSyncDoes DEF PutRequest
  <1>2. UNCHANGED <<Stored, Soon>>
    BY <1>1 DEF Stored, Soon
  <1>3. Called' => Called
    <2>1. \A x \in Restores : restore'[x] = restore[x]
      BY PSyncDoes, BootAssumption DEF Wrote, Objects
    <2> QED BY <1>1, <2>1 DEF Called
  <1>4. RestoreID' = IF cr.on THEN cr.ann ELSE IF DataSource THEN Boot ELSE None
    <2>1. cr.on => cr.ann # None
      BY DEF RequestInv, Annotated
    <2> QED BY <1>1, <2>1 DEF RestoreID, InPlace, DataSource
  <1>5. RestoreID = IF pg.on THEN pg.ann ELSE IF DataSource THEN Boot ELSE None
    BY InPlaceIs
  <1>6. CASE RestoreID' = RestoreID
    BY <1>1, <1>2, <1>3, <1>6, DownStays
  <1>7. CASE RestoreID' = None
    <2>1. job # None => job.id # None
      BY Types, NoneAssumption DEF RestoreJob
    <2> QED BY <1>1, <1>3, <1>7, <2>1 DEF DownInv, PodUp, DownIn, NotBooted, Starts
  <1>8. CASE cr.on /\ ~pg.on /\ RestoreID' = cr.ann /\ cr.ann \in Restores
    <2>1. job = None /\ pod = "up"
      BY <1>8, NotYet DEF DownInv, PodUp, Called
    <2>2. Stored.res = Blank(None) /\ Soon.res = Blank(None)
      BY <1>8 DEF PlaceInv, Fresh
    <2>3. cr.ann # None
      BY <1>8, NoneAssumption DEF Objects
    <2>4. StatusID(Stored) # cr.ann /\ StatusID(Soon) # cr.ann
      BY <2>2, <2>3 DEF StatusID, Blank
    <2> QED BY <1>1, <1>2, <1>8, <2>1, <2>4 DEF DownInv, PodUp, DownIn, PlacedIn, NotBooted, Starts
  <1> QED BY <1>4, <1>5, <1>6, <1>7, <1>8 DEF TurnInv, Named, Split

LEMMA DownNextPrepare ==
    ASSUME TypeInv, RequestInv, TurnInv, PlaceInv, DownInv, PrepareForRestore PROVE DownInv'
  <1>1. /\ UNCHANGED <<restore, cr, pg, restored, r, p, faults, Stored>>
        /\ Soon = Stored /\ Soon'.res = Blank(RestoreID)
        /\ job' = job \/ job' = None
    BY PrepareForRestoreDoes
  <1>2. RestoreID # None /\ ~PlacedIn(Stored, RestoreID)
    BY PrepareForRestoreDoes, Prepares DEF PlacedIn
  <1>3. UNCHANGED <<RestoreID, Called>> /\ ~Called
    BY <1>1, <1>2, CalledIdle DEF RestoreID, InPlace, DataSource, Called
  <1>4. UNCHANGED PlacedIn(Stored, RestoreID)
    BY <1>1, <1>3 DEF PlacedIn
  <1>5. pod # "starting"
    BY <1>2 DEF DownInv, Starts
  <1>6. job # None => ~Current(job.id) \/ RestoreID # job.id
    BY <1>2, Types DEF PlaceInv, Placed, RestoreJob
  <1>7. job # None => RestoreID # job.id
    BY <1>6 DEF Current
  <1>8. job = None
    BY <1>2, <1>7, JobOfRequest
  <1>9. job' = None
    BY <1>1, <1>8
  <1>10. pod' # "starting"
    BY <1>5, PrepareForRestoreDoes
  <1>11. DownIn(Stored)'
    BY <1>2, <1>4 DEF DownIn
  <1>12. DownIn(Soon)'
    <2>1. CASE Soon'.prog = "preparing"
      BY <2>1 DEF DownIn, PlacedIn
    <2>2. CASE ~Running /\ UNCHANGED pod /\ Soon'.init = "unset"
      <3>1. pod' = "none"
        BY <1>5, <2>2, Types DEF Running
      <3> QED BY <1>9, <2>2, <3>1 DEF DownIn
    <2> QED BY <2>1, <2>2, PrepareForRestoreDoes
  <1> QED BY <1>3, <1>9, <1>10, <1>11, <1>12 DEF DownInv, PodUp, NotBooted, Starts

LEMMA DownNextJob ==
    ASSUME TypeInv, RequestInv, TurnInv, PlaceInv, DownInv, ReconcileRestoreJob PROVE DownInv'
  <1>1. /\ UNCHANGED <<restore, cr, pg, pod, dcs, restored, r, p, faults, Stored>>
        /\ Soon = Stored /\ Soon'.res = Observed.res /\ Soon'.prog = Observed.prog
        /\ Soon'.boot = Observed.boot
        /\ RestoreID # None /\ ~MustPrepare(Observed) /\ Observed.init # "true"
    BY ReconcileRestoreJobDoes
  <1>2. UNCHANGED <<RestoreID, Called>> /\ ~Called
    BY <1>1, CalledIdle DEF RestoreID, InPlace, DataSource, Called
  <1>3. StatusID(Stored) = RestoreID /\ StatusID(Soon)' = RestoreID /\ Soon'.prog # "preparing"
    BY <1>1, GoesOn, ObservedIs DEF StatusID
  <1>4. /\ Stored.init = pg.init /\ Stored.prog = pg.prog /\ Stored.boot = pg.boot
        /\ Observed.boot = (pg.boot \/ dcs)
        /\ Observed.prog = pg.prog \/ Observed.prog = "no"
    BY ObservedIs DEF Stored
  <1>5. job # None => job.phase # "ok"
    BY <1>1, ObservedIs
  <1>6. Stored.prog = Observed.prog
    BY <1>4, <1>5, ObservedIs
  <1>7. PlacedIn(Stored, RestoreID) /\ PlacedIn(Soon, RestoreID)'
    BY <1>1, <1>2, <1>3, <1>6 DEF PlacedIn
  <1>8. Starts'
    BY <1>1, <1>2, <1>7 DEF Starts, PlacedIn
  <1>9. CASE Observed.boot /\ UNCHANGED job
    <2>1. DownIn(Stored)'
      BY <1>1, <1>2, <1>9 DEF DownInv, DownIn, PlacedIn
    <2>2. DownIn(Soon)'
      BY <1>1, <1>9 DEF DownIn
    <2>3. NotBooted'
      BY <1>1, <1>2, <1>4, <1>9 DEF DownInv, NotBooted
    <2> QED BY <1>1, <1>2, <1>8, <2>1, <2>2, <2>3 DEF DownInv, PodUp
  <1>10. CASE ~Observed.boot
    <2>1. ~dcs /\ ~Stored.boot
      BY <1>4, <1>10
    <2>2. Stored.init # "true"
      <3>1. Stored.init = "true" => job = None
        BY <1>1, <1>5, <1>7, <2>1, Types DEF DownInv, DownIn, RestoreJob
      <3> QED BY <1>1, <1>4, <3>1, ObservedIs
    <2>3. pod = "none"
      BY <1>1, <1>5, <1>7, <2>1, <2>2 DEF DownInv, DownIn
    <2>4. Soon'.init # "true"
      BY <1>1, <1>10, ReconcileRestoreJobDoes
    <2>5. (DownIn(Stored) /\ DownIn(Soon))'
      BY <1>1, <2>2, <2>3, <2>4 DEF DownIn
    <2>6. NotBooted'
      BY <1>1, <1>10, <2>1 DEF NotBooted
    <2> QED BY <1>1, <1>2, <1>8, <2>5, <2>6 DEF DownInv, PodUp
  <1> QED BY <1>9, <1>10, ReconcileRestoreJobDoes

LEMMA DownNextInstances ==
    ASSUME TypeInv, RequestInv, TurnInv, PlaceInv, DownInv, ReconcileInstances PROVE DownInv'
  <1>1. /\ UNCHANGED <<restore, cr, pg, dcs, restored, r, p, faults, Stored>>
        /\ Soon = Stored /\ Soon'.res = Observed.res /\ Soon'.prog = Observed.prog
        /\ Soon'.boot = Observed.boot /\ Soon'.init = Observed.init
        /\ pod' = IF pod = "none" THEN "starting" ELSE pod
        /\ job' = IF Observed.boot THEN None ELSE job
        /\ RestoreID = None \/ (~MustPrepare(Observed) /\ Observed.init = "true")
    BY ReconcileInstancesDoes DEF View
  <1>2. UNCHANGED <<RestoreID, Called>>
    BY <1>1 DEF RestoreID, InPlace, DataSource, Called
  <1>3. PodUp'
    BY <1>1, <1>2 DEF DownInv, PodUp
  <1>4. CASE RestoreID = None
    <2>1. job # None => job.id # None
      BY Types, NoneAssumption DEF RestoreJob
    <2> QED BY <1>1, <1>2, <1>3, <1>4, <2>1 DEF DownInv, DownIn, NotBooted, Starts
  <1>5. CASE RestoreID # None
    <2>1. /\ StatusID(Stored) = RestoreID /\ StatusID(Soon)' = RestoreID
          /\ Soon'.prog # "preparing" /\ Observed.init = "true"
      BY <1>1, <1>5, GoesOn, ObservedIs DEF StatusID
    <2>2. /\ Stored.init = pg.init /\ Stored.prog = pg.prog /\ Stored.boot = pg.boot
          /\ Observed.boot = (pg.boot \/ dcs)
      BY ObservedIs DEF Stored
    <2>3. Stored.prog # "preparing"
      <3>1. CASE job = None
        BY <1>1, <2>1, <2>2, <3>1, ObservedIs
      <3>2. CASE job # None
        <4>1. job.id \in Objects /\ Current(job.id) /\ RestoreID = job.id
          BY <1>5, <3>2, JobOfRequest, Types DEF Current, RestoreJob
        <4> QED BY <4>1 DEF PlaceInv, Placed, PlacedIn
      <3> QED BY <3>1, <3>2
    <2>4. PlacedIn(Stored, RestoreID) /\ PlacedIn(Soon, RestoreID)'
      BY <1>2, <2>1, <2>3 DEF PlacedIn
    <2>5. Starts'
      BY <1>1, <1>2, <2>4 DEF Starts, PlacedIn
    <2>6. ~Observed.boot /\ job # None => job.phase = "ok"
      <3> SUFFICES ASSUME ~dcs, ~Stored.boot, job # None PROVE job.phase = "ok"
        BY <2>2
      <3>1. job.phase \in {"active", "ok", "bad"}
        BY Types DEF RestoreJob
      <3>2. job.phase # "bad"
        BY <2>1, ObservedIs
      <3>3. job.phase = "active" => Stored.init = "true"
        BY <2>1, <2>2, ObservedIs
      <3> QED BY <1>5, <2>4, <3>1, <3>2, <3>3 DEF DownInv, DownIn
    <2>7. ~Observed.boot /\ job = None => Stored.init = "true"
      BY <2>1, <2>2, ObservedIs
    <2>8. DownIn(Stored)'
      BY <1>1, <1>2, <2>2, <2>6, <2>7 DEF DownIn
    <2>9. DownIn(Soon)'
      BY <1>1, <2>1, <2>6 DEF DownIn
    <2>10. NotBooted'
      BY <1>1, <2>6 DEF NotBooted
    <2> QED BY <1>3, <2>5, <2>8, <2>9, <2>10 DEF DownInv
  <1> QED BY <1>4, <1>5

\* No Pod runs on the volume while the Job of the request works on it.
LEMMA JobIsAlone ==
    ASSUME TypeInv, PlaceInv, DownInv PROVE JobAlone
  <1> SUFFICES ASSUME job # None, job.phase = "active", RestoreID = job.id PROVE pod = "none"
    BY DEF JobAlone
  <1>1. job.id \in Objects /\ RestoreID # None /\ Current(job.id)
    BY Types, NoneAssumption DEF RestoreJob, Current
  <1>2. PlacedIn(Stored, RestoreID)
    BY <1>1 DEF PlaceInv, Placed
  <1>3. ~dcs /\ ~Stored.boot
    BY DEF DownInv, NotBooted
  <1> QED BY <1>1, <1>2, <1>3 DEF DownInv, DownIn

LEMMA DownNextEnds ==
    ASSUME TypeInv, DownInv, JobEnds PROVE DownInv'
  <1>1. /\ UNCHANGED <<restore, cr, pg, pod, dcs, r, p, c, faults>>
        /\ job # None /\ job.phase = "active" /\ job'.phase # "active"
    BY JobEndsDoes
  <1>2. UNCHANGED <<Stored, Soon, RestoreID, Called>>
    BY <1>1 DEF Stored, Soon, RestoreID, InPlace, DataSource, Called
  <1>3. (DownIn(Stored) /\ DownIn(Soon))'
    BY <1>1, <1>2 DEF DownInv, DownIn, PlacedIn
  <1> QED BY <1>1, <1>2, <1>3 DEF DownInv, PodUp, NotBooted, Starts, PlacedIn

LEMMA DownNextPod ==
    ASSUME Steady, TypeInv, TurnInv, PlaceInv, DownInv, Kubelet \/ Patroni PROVE DownInv'
  <1>1. UNCHANGED <<restore, cr, pg, job, r, p, c, faults>>
    BY KubeletDoes, PatroniDoes
  <1>2. UNCHANGED <<Stored, Soon, RestoreID, Called>>
    BY <1>1 DEF Stored, Soon, RestoreID, InPlace, DataSource, Called
  <1>3. CASE Kubelet
    <2>1. /\ UNCHANGED dcs
          /\ (pod = "starting" /\ pod' = "up") \/ (pod = "stopping" /\ pod' = "none")
      BY <1>3, KubeletDoes DEF Steady, TypeInv
    <2>2. (DownIn(Stored) /\ DownIn(Soon))'
      BY <1>1, <1>2, <2>1 DEF DownInv, DownIn, PlacedIn
    <2> QED BY <1>1, <1>2, <2>1, <2>2 DEF DownInv, PodUp, NotBooted, Starts
  <1>4. CASE Patroni
    <2>1. pod = "up" /\ dcs' /\ UNCHANGED pod
      BY <1>4, PatroniDoes
    <2>2. job # None => ~(job.phase = "active" /\ RestoreID = job.id)
      BY <2>1, JobIsAlone DEF JobAlone
    <2> QED BY <1>1, <1>2, <2>1, <2>2 DEF DownInv, PodUp, DownIn, NotBooted, Starts
  <1> QED BY <1>3, <1>4

LEMMA DownNext ==
    ASSUME Steady, TypeInv, RequestInv, TurnInv, PlaceInv, DownInv, [Next]_vars PROVE DownInv'
  <1>1. CASE PStatus
    <2>1. UNCHANGED <<restore, pg, job, pod, dcs, r, c, faults>> /\ cr'.on = cr.on
      BY <1>1, PStatusDoes
    <2>2. UNCHANGED <<Stored, Soon, RestoreID, Called>>
      BY <2>1 DEF Stored, Soon, RestoreID, InPlace, DataSource, Called
    <2> QED BY <2>1, <2>2, DownStays
  <1>2. CASE PatchClusterStatus
    <2>1. UNCHANGED <<RestoreID, Called>>
      BY <1>2, PatchClusterStatusDoes DEF RestoreID, InPlace, DataSource, Called
    <2> QED BY <1>2, <2>1, DownStays, PatchClusterStatusDoes
  <1>3. CASE Crash
    <2>1. UNCHANGED RestoreID /\ (Called' => Called)
      BY <1>3, CrashDoes DEF RestoreID, InPlace, DataSource, Called, Idle
    <2> QED BY <1>3, <2>1, DownStays, CrashDoes
  <1>4. CASE UNCHANGED vars
    <2>1. UNCHANGED <<Stored, Soon, RestoreID, Called>>
      BY <1>4 DEF vars, Stored, Soon, RestoreID, InPlace, DataSource, Called
    <2> QED BY <1>4, <2>1, DownStays DEF vars
  <1> QED BY <1>1, <1>2, <1>3, <1>4, DownNextUser, DownNextReconcile, DownNextR, DownNextP,
             DownNextPrepare, DownNextJob, DownNextInstances, DownNextEnds, DownNextPod
          DEF Steady, Next, CStep

-----------------------------------------------------------------------------
(* No restore is carried out twice.                                        *)

\* What names a restore names one that has been created.
Known ==
    /\ \A x \in restored : restore[x].state # "absent"
    /\ job # None => restore[job.id].state # "absent"
    /\ cr.on => restore[cr.ann].state # "absent"
    /\ pg.on => restore[pg.ann].state # "absent"

\* A status that asks neither for a preparation nor for a Job.
Done(v, x) == PlacedIn(v, x) /\ (job = None => dcs \/ v.boot)

\* Once x has been carried out no Job works for it, its status needs no other one, and
\* R does not request it again.
Once(x) ==
    /\ job # None => (job.id = x => job.phase # "active")
    /\ RestoreID = x => Done(Stored, x) /\ Done(Soon, x)
    /\ cr.on /\ cr.ann = x => pg.on
    /\ x \in Restores /\ restore[x].state = "New" /\ ~restore[x].del => cr.on
    /\ r.pc \in {"reset", "request"} => r.x # x

OnceInv == Known /\ \A x \in restored : Once(x)

LEMMA OnceInit == Init => OnceInv
  BY DEF Init, OnceInv, Known

LEMMA StaysCreated ==
    ASSUME TypeInv, RequestInv, [Next]_vars, NEW x \in Objects, restore[x].state # "absent"
    PROVE  restore'[x].state # "absent"
  <1>0. Restores \subseteq Objects
    BY DEF Objects
  <1>1. ASSUME NEW y \in Restores, Create(y) \/ Delete(y) PROVE restore'[x].state # "absent"
    BY <1>0, <1>1, CreateDoes, DeleteDoes DEF Wrote
  <1>2. CASE PSync
    BY <1>2, PSyncDoes DEF Wrote
  <1>3. CASE EnsureFinalizers
    BY <1>3, EnsureFinalizersDoes, RHas DEF Wrote
  <1>4. CASE UpdateStatus
    <2>1. r.x \in Objects /\ r.next # "absent"
      BY <1>4, UpdateStatusDoes, RHas DEF RequestInv, Hand, Ended
    <2> QED BY <1>4, <2>1, UpdateStatusDoes DEF Wrote
  <1>5. CASE RunFinalizer
    BY <1>5, RunFinalizerDoes, RHas DEF Wrote
  <1>6. CASE UNCHANGED restore
    BY <1>6
  <1>7. CASE StartReset \/ StartRequest \/ DisableRestore \/ CStep
    BY <1>6, <1>7, StartResetDoes, StartRequestDoes, DisableRestoreDoes, PrepareForRestoreDoes,
       ReconcileRestoreJobDoes, ReconcileInstancesDoes, PatchClusterStatusDoes DEF CStep
  <1>8. CASE PStatus \/ JobEnds \/ Kubelet \/ Patroni \/ Crash \/ UNCHANGED vars
    BY <1>6, <1>8, PStatusDoes, JobEndsDoes, KubeletDoes, PatroniDoes, CrashDoes DEF vars
  <1>9. CASE \E y \in Objects : Reconcile(y)
    BY <1>6, <1>9, ReconcileDoes
  <1> QED BY <1>1, <1>2, <1>3, <1>4, <1>5, <1>7, <1>8, <1>9 DEF Next, RStep

LEMMA KnownNext ==
    ASSUME TypeInv, RequestInv, TurnInv, Known, [Next]_vars PROVE Known'
  <1>0. /\ Restores \subseteq Objects /\ restored \subseteq Objects
        /\ job # None => job.id \in Objects
        /\ cr.on => cr.ann \in Objects
        /\ pg.on => pg.ann \in Objects
    BY Types DEF Objects, RestoreJob, TurnInv, Named
  <1>1. \A x \in Objects : restore[x].state # "absent" => restore'[x].state # "absent"
    BY StaysCreated
  <1>2. CASE /\ UNCHANGED restored
             /\ job' = None \/ job' = job
             /\ cr'.on => cr.on /\ cr'.ann = cr.ann
             /\ pg'.on => pg.on /\ pg'.ann = pg.ann
    BY <1>0, <1>1, <1>2 DEF Known
  <1>3. ASSUME NEW y \in Restores, Create(y) \/ Delete(y) PROVE Known'
    BY <1>2, <1>3, CreateDoes, DeleteDoes
  <1>4. CASE \E y \in Objects : Reconcile(y)
    BY <1>2, <1>4, ReconcileDoes
  <1>5. CASE StartRequest
    <2>1. /\ UNCHANGED <<restore, restored, job, pg>> /\ cr'.ann = r.x
          /\ r.x \in Restores /\ restore[r.x].state # "absent"
      BY <1>5, StartRequestDoes DEF RequestInv, Hand, Asked
    <2> QED BY <2>1 DEF Known
  <1>6. CASE RStep /\ ~StartRequest
    <2>1. CASE StartReset
      BY <1>2, <2>1, StartResetDoes DEF PutStatus
    <2>2. CASE DisableRestore
      BY <1>2, <2>2, DisableRestoreDoes DEF Asked
    <2>3. CASE EnsureFinalizers \/ UpdateStatus \/ RunFinalizer
      BY <1>2, <2>3, EnsureFinalizersDoes, UpdateStatusDoes, RunFinalizerDoes
    <2> QED BY <1>6, <2>1, <2>2, <2>3 DEF RStep
  <1>7. CASE PSync
    <2>1. UNCHANGED <<restored, job, cr>> /\ pg'.on = cr.on /\ pg'.ann = cr.ann
      BY <1>7, PSyncDoes DEF PutRequest
    <2> QED BY <1>0, <1>1, <2>1 DEF Known
  <1>8. CASE ReconcileRestoreJob
    <2>1. UNCHANGED <<restore, restored, cr, pg>> /\ RestoreID # None
      BY <1>8, ReconcileRestoreJobDoes
    <2>2. CASE UNCHANGED job
      BY <1>2, <2>1, <2>2
    <2>3. CASE job' = [id |-> RestoreID, phase |-> "active"]
      <3>1. DataSource => restore[Boot].state # "absent"
        BY <1>8 DEF ReconcileRestoreJob, CIdle
      <3>2. restore[RestoreID].state # "absent"
        BY <2>1, <3>1, InPlaceIs DEF Known
      <3> QED BY <2>1, <2>3, <3>2 DEF Known
    <2> QED BY <1>8, <2>2, <2>3, ReconcileRestoreJobDoes
  <1>9. CASE PrepareForRestore \/ ReconcileInstances \/ PatchClusterStatus
    BY <1>2, <1>9, PrepareForRestoreDoes, ReconcileInstancesDoes, PatchClusterStatusDoes
  <1>10. CASE JobEnds
    <2>1. /\ UNCHANGED <<restore, cr, pg>> /\ job # None /\ job'.id = job.id
          /\ restored' \subseteq restored \union {job.id}
      BY <1>10, JobEndsDoes
    <2> QED BY <2>1 DEF Known
  <1>11. CASE PStatus \/ Kubelet \/ Patroni \/ Crash \/ UNCHANGED vars
    BY <1>2, <1>11, PStatusDoes, KubeletDoes, PatroniDoes, CrashDoes DEF vars
  <1> QED BY <1>3, <1>4, <1>5, <1>6, <1>7, <1>8, <1>9, <1>10, <1>11 DEF Next, CStep

\* A step that leaves the request, the Job and what C will patch.
LEMMA OnceStays ==
    ASSUME NEW x \in restored, Once(x),
           UNCHANGED <<Stored, Soon>> \/ (Soon' = Stored' /\ (Stored' = Stored \/ Stored' = Soon)),
           UNCHANGED <<RestoreID, job>>, dcs => dcs', cr'.on = cr.on, cr'.ann = cr.ann,
           pg'.on = pg.on,
           restore'[x].state = "New" => restore'[x].del \/ UNCHANGED restore[x],
           r'.pc \in {"reset", "request"} => r.pc \in {"reset", "request"} /\ r'.x = r.x
    PROVE  Once(x)'
  BY DEF Once, Done, PlacedIn

LEMMA OnceNextR ==
    ASSUME TypeInv, RequestInv, TurnInv, Known, RStep, NEW x \in restored, Once(x)
    PROVE  Once(x)'
  <1>0. x \in Objects /\ restore \in [Objects -> RestoreObject] /\ Restores \subseteq Objects
    BY Types DEF Objects
  <1>1. CASE StartReset
    <2>1. /\ UNCHANGED <<restore, cr, job, faults>> /\ pg'.ann = pg.ann /\ pg'.on = pg.on
          /\ r.pc = "reset" /\ r'.x = r.x
      BY <1>1, StartResetDoes DEF RGoes, PutStatus
    <2>2. RestoreID = None
      BY <2>1, FreeIdle DEF TurnInv, Quiet, RequestInv, Hand, Split
    <2>3. RestoreID' # x
      BY <1>0, <2>1, <2>2, NoneAssumption DEF RestoreID, InPlace, DataSource
    <2> QED BY <2>1, <2>3 DEF Once
  <1>2. CASE RStep /\ ~StartReset
    <2>1. UNCHANGED <<pg, job, dcs, c, faults>> /\ cr'.res = cr.res
      BY <1>2, StartRequestDoes, EnsureFinalizersDoes, DisableRestoreDoes, UpdateStatusDoes,
         RunFinalizerDoes DEF RStep, Asked
    <2>2. UNCHANGED <<Stored, Soon, RestoreID>>
      BY <2>1 DEF Stored, Soon, RestoreID, InPlace, DataSource
    <2>3. CASE StartRequest
      <3>1. /\ UNCHANGED restore /\ r.pc = "request" /\ r'.pc = "finalizer" /\ cr'.on
            /\ cr'.ann = r.x /\ r.x # x
        BY <2>3, StartRequestDoes DEF RGoes, Asked, Once
      <3> QED BY <2>1, <2>2, <3>1 DEF Once, Done, PlacedIn
    <2>4. CASE EnsureFinalizers
      <3>1. UNCHANGED cr /\ r.x \in Objects
        BY <2>4, EnsureFinalizersDoes, RHas
      <3>2. restore'[x].state = restore[x].state /\ restore'[x].del = restore[x].del
        BY <1>0, <2>4, <3>1, EnsureFinalizersDoes DEF Wrote
      <3>3. r'.pc \notin {"reset", "request"}
        <4>1. CASE RGoes("status")
          BY <4>1 DEF RGoes
        <4>2. CASE r' = Idle
          BY <4>2 DEF Idle
        <4> QED BY <2>4, <4>1, <4>2, EnsureFinalizersDoes
      <3> QED BY <2>1, <2>2, <3>1, <3>2, <3>3 DEF Once, Done, PlacedIn
    <2>5. CASE DisableRestore
      <3>1. /\ UNCHANGED restore /\ r.pc \in {"disable", "release"} /\ r.x \in Objects
            /\ r'.pc \notin {"reset", "request"}
        BY <2>5, DisableRestoreDoes, RHas DEF RGoes
      <3>2. CASE UNCHANGED cr
        BY <2>1, <2>2, <3>1, <3>2, OnceStays
      <3>3. CASE restore[r.x].state \notin Ended /\ ~cr'.on
        <4>1. Unfinished(r.x) /\ (restore[r.x].state = "New" => restore[r.x].del)
          BY <3>1, <3>3, RHas DEF Unfinished, Ended, States, RequestInv, Hand, Live
        <4>2. restore[x].state = "New" => restore[x].del
          BY <1>0, <3>1, <4>1 DEF TurnInv, OneAtATime, Unfinished
        <4> QED BY <2>1, <2>2, <3>1, <3>3, <4>2 DEF Once, Done, PlacedIn
      <3> QED BY <2>5, <3>2, <3>3, DisableRestoreDoes DEF Asked
    <2>6. CASE UpdateStatus
      <3>1. UNCHANGED cr /\ r.pc = "status" /\ r'.pc = "idle" /\ r.x \in Objects
        BY <2>6, UpdateStatusDoes, RHas DEF Idle
      <3>2. r.next # "New"
        BY <3>1 DEF RequestInv, Hand, Ended
      <3>3. restore'[x].state = "New" => restore'[x] = restore[x]
        BY <1>0, <2>6, <3>1, <3>2, UpdateStatusDoes DEF Wrote
      <3> QED BY <2>1, <2>2, <3>1, <3>3, OnceStays
    <2>7. CASE RunFinalizer
      <3>1. UNCHANGED cr /\ r'.pc = "idle" /\ r.x \in Objects
        BY <2>7, RunFinalizerDoes, RHas DEF Idle
      <3>2. restore'[x].state = "New" => restore'[x] = restore[x]
        BY <1>0, <2>7, <3>1, RunFinalizerDoes DEF Wrote
      <3> QED BY <2>1, <2>2, <3>1, <3>2, OnceStays
    <2> QED BY <1>2, <2>3, <2>4, <2>5, <2>6, <2>7 DEF RStep
  <1> QED BY <1>1, <1>2

LEMMA OnceNextP ==
    ASSUME TypeInv, RequestInv, TurnInv, Known, PSync, NEW x \in restored, Once(x)
    PROVE  Once(x)'
  <1>1. /\ UNCHANGED <<cr, job, dcs, r, c, faults>>
        /\ pg'.ann = cr.ann /\ pg'.on = cr.on /\ pg'.res = pg.res /\ pg'.init = pg.init
        /\ pg'.prog = pg.prog /\ pg'.boot = pg.boot
    BY PSyncDoes DEF PutRequest
  <1>2. UNCHANGED <<Stored, Soon>>
    BY <1>1 DEF Stored, Soon
  <1>3. RestoreID' = IF cr.on THEN cr.ann ELSE IF DataSource THEN Boot ELSE None
    <2>1. cr.on => cr.ann # None
      BY DEF RequestInv, Annotated
    <2> QED BY <1>1, <2>1 DEF RestoreID, InPlace, DataSource
  <1>4. RestoreID = IF pg.on THEN pg.ann ELSE IF DataSource THEN Boot ELSE None
    BY InPlaceIs
  <1>5. RestoreID' = x => RestoreID = x
    BY <1>3, <1>4, Types, NoneAssumption DEF TurnInv, Named, Split, Once
  <1>6. restore'[x] = restore[x]
    BY PSyncDoes, Types DEF Wrote, Known
  <1> QED BY <1>1, <1>2, <1>5, <1>6 DEF Once, Done, PlacedIn

LEMMA OnceNextC ==
    ASSUME TypeInv, RequestInv, TurnInv, CStep, NEW x \in restored, Once(x)
    PROVE  Once(x)'
  <1>1. UNCHANGED <<restore, cr, r, faults>> /\ pg'.on = pg.on /\ pg'.ann = pg.ann
    BY PrepareForRestoreDoes, ReconcileRestoreJobDoes, ReconcileInstancesDoes,
       PatchClusterStatusDoes DEF CStep
  <1>2. UNCHANGED RestoreID
    BY <1>1 DEF RestoreID, InPlace, DataSource
  <1>3. CASE PatchClusterStatus
    BY <1>1, <1>2, <1>3, OnceStays, PatchClusterStatusDoes
  <1>4. CASE PrepareForRestore
    <2>1. RestoreID # x
      BY <1>4, PrepareForRestoreDoes, Prepares DEF Once, Done, PlacedIn
    <2> QED BY <1>1, <1>2, <1>4, <2>1, PrepareForRestoreDoes DEF Once
  <1>5. /\ Stored.prog = pg.prog /\ Stored.boot = pg.boot
        /\ Observed.boot = (pg.boot \/ dcs)
        /\ Observed.prog = pg.prog \/ Observed.prog = "no"
    BY ObservedIs DEF Stored
  <1>6. CASE ReconcileRestoreJob \/ ReconcileInstances
    <2>1. /\ UNCHANGED <<dcs, Stored>> /\ Soon = Stored /\ Soon'.res = Observed.res
          /\ Soon'.prog = Observed.prog /\ Soon'.boot = Observed.boot
      BY <1>6, ReconcileRestoreJobDoes, ReconcileInstancesDoes DEF View
    <2>2. StatusID(Soon)' = StatusID(Stored)
      BY <2>1, ObservedIs DEF StatusID
    <2>3. CASE job' = job \/ (job' = None /\ Observed.boot)
      <3>1. RestoreID = x => (Done(Stored, x) /\ Done(Soon, x))'
        BY <1>5, <2>1, <2>2, <2>3 DEF Once, Done, PlacedIn
      <3> QED BY <1>1, <1>2, <2>3, <3>1 DEF Once
    <2>4. CASE job = None /\ job' = [id |-> RestoreID, phase |-> "active"] /\ ~Observed.boot
      <3>1. RestoreID # x
        BY <1>5, <2>4 DEF Once, Done
      <3> QED BY <1>1, <1>2, <2>4, <3>1 DEF Once
    <2> QED BY <1>6, <2>3, <2>4, ReconcileRestoreJobDoes, ReconcileInstancesDoes
  <1> QED BY <1>3, <1>4, <1>6 DEF CStep

LEMMA OnceNextEnds ==
    ASSUME TypeInv, RequestInv, TurnInv, PlaceInv, JobEnds, NEW x \in restored',
           x \in restored => Once(x)
    PROVE  Once(x)'
  <1>1. /\ UNCHANGED <<restore, cr, pg, dcs, r, c, faults>>
        /\ job # None /\ job' # None /\ job'.id = job.id /\ job'.phase # "active"
        /\ x \in restored \/ x = job.id
    BY JobEndsDoes, NoneAssumption DEF RestoreJob
  <1>2. UNCHANGED <<Stored, Soon, RestoreID>>
    BY <1>1 DEF Stored, Soon, RestoreID, InPlace, DataSource
  <1>3. CASE x \in restored
    BY <1>1, <1>2, <1>3 DEF Once, Done, PlacedIn
  <1>4. CASE x = job.id
    <2>1. x \in Objects /\ Current(x)
      BY <1>1, <1>4, Types DEF RestoreJob, Current
    <2>2. RestoreID = x => PlacedIn(Stored, x) /\ PlacedIn(Soon, x)
      BY <2>1 DEF PlaceInv, Placed
    <2>3. cr.on => pg.on
      BY <2>1, Types DEF TurnInv, NotBefore, PerconaCluster
    <2>4. x \in Restores /\ restore[x].state = "New" /\ ~restore[x].del => cr.on
      BY <1>1 DEF TurnInv, Quiet, Free
    <2>5. r.pc \notin {"reset", "request"}
      BY <1>1 DEF TurnInv, Quiet, Free
    <2> QED BY <1>1, <1>2, <2>2, <2>3, <2>4, <2>5 DEF Once, Done, PlacedIn
  <1> QED BY <1>1, <1>3, <1>4

LEMMA OnceNext ==
    ASSUME TypeInv, RequestInv, TurnInv, PlaceInv, OnceInv, [Next]_vars PROVE OnceInv'
  <1>1. Known /\ Known'
    BY KnownNext DEF OnceInv
  <1>2. CASE JobEnds
    BY <1>1, <1>2, OnceNextEnds DEF OnceInv
  <1>3. ASSUME UNCHANGED restored, \A x \in restored : Once(x) => Once(x)' PROVE OnceInv'
    BY <1>1, <1>3 DEF OnceInv
  <1>4. restored \subseteq Objects /\ Restores \subseteq Objects
    BY Types DEF Objects
  <1>5. ASSUME NEW y \in Restores, Create(y) \/ Delete(y) PROVE OnceInv'
    <2>1. UNCHANGED <<cr, pg, job, dcs, restored, r, c, faults>>
      BY <1>5, CreateDoes, DeleteDoes
    <2>2. UNCHANGED <<Stored, Soon, RestoreID>>
      BY <2>1 DEF Stored, Soon, RestoreID, InPlace, DataSource
    <2>3. \A x \in restored :
              restore'[x].state = "New" => restore'[x].del \/ restore'[x] = restore[x]
      BY <1>1, <1>4, <1>5, CreateDoes, DeleteDoes DEF Known, Wrote
    <2> QED BY <1>3, <2>1, <2>2, <2>3, OnceStays
  <1>6. ASSUME NEW y \in Objects, Reconcile(y) PROVE OnceInv'
    <2>1. UNCHANGED <<restore, cr, pg, job, dcs, restored, c, faults>>
      BY <1>6, ReconcileDoes
    <2>2. UNCHANGED <<Stored, Soon, RestoreID>>
      BY <2>1 DEF Stored, Soon, RestoreID, InPlace, DataSource
    <2>3. \A x \in restored : Once(x) => (r'.pc \in {"reset", "request"} => r'.x # x)
      BY <1>6, ReconcileDoes DEF Once, Objects, Ended
    <2> QED BY <1>3, <2>1, <2>2, <2>3 DEF Once, Done, PlacedIn
  <1>7. CASE RStep
    <2>1. UNCHANGED restored
      BY <1>7, StartResetDoes, StartRequestDoes, EnsureFinalizersDoes, DisableRestoreDoes,
         UpdateStatusDoes, RunFinalizerDoes DEF RStep
    <2> QED BY <1>1, <1>3, <1>7, <2>1, OnceNextR
  <1>8. CASE CStep
    <2>1. UNCHANGED restored
      BY <1>8, PrepareForRestoreDoes, ReconcileRestoreJobDoes, ReconcileInstancesDoes,
         PatchClusterStatusDoes DEF CStep
    <2> QED BY <1>3, <1>8, <2>1, OnceNextC
  <1>9. CASE PSync
    BY <1>1, <1>3, <1>9, OnceNextP, PSyncDoes
  <1>10. CASE PStatus \/ Kubelet \/ Patroni \/ Crash \/ UNCHANGED vars
    <2>1. /\ UNCHANGED <<restore, pg, job, restored, faults>> /\ (dcs => dcs')
          /\ cr'.on = cr.on /\ cr'.ann = cr.ann
          /\ r' = r \/ r'.pc = "idle"
          /\ c' = c \/ c' = Idle
      <3>1. CASE PStatus
        BY <3>1, PStatusDoes
      <3>2. CASE Kubelet
        BY <3>2, KubeletDoes
      <3>3. CASE Patroni
        <4>1. dcs' /\ UNCHANGED <<restore, cr, pg, job, restored, r, c, faults>>
          BY <3>3, PatroniDoes
        <4> QED BY <4>1
      <3>4. CASE Crash
        BY <3>4, CrashDoes DEF Idle
      <3>5. CASE UNCHANGED vars
        BY <3>5 DEF vars
      <3> QED BY <1>10, <3>1, <3>2, <3>3, <3>4, <3>5
    <2>2. UNCHANGED RestoreID /\ (UNCHANGED <<Stored, Soon>> \/ (Soon' = Stored' /\ UNCHANGED Stored))
      BY <2>1 DEF Stored, Soon, RestoreID, InPlace, DataSource, Idle
    <2> QED BY <1>3, <2>1, <2>2, OnceStays
  <1> QED BY <1>2, <1>5, <1>6, <1>7, <1>8, <1>9, <1>10 DEF Next

-----------------------------------------------------------------------------
(* The theorems.                                                           *)

\* The objects have the types that TypeOK gives them, for any set of restores and
\* under every fault.
THEOREM RestoreTypeOK == Spec => []TypeOK
  <1>1. Init => TypeInv
    BY TypeInit
  <1>2. TypeInv /\ [Next]_vars => TypeInv'
    BY TypeNext
  <1>3. TypeInv => TypeOK
    BY DEF TypeInv
  <1> QED BY <1>1, <1>2, <1>3, PTL DEF Spec

LEMMA Requests == Spec => [](TypeInv /\ RequestInv)
  <1>1. Init => TypeInv /\ RequestInv
    BY TypeInit, RequestInit
  <1>2. TypeInv /\ RequestInv /\ [Next]_vars => (TypeInv /\ RequestInv)'
    BY TypeNext, RequestNext
  <1> QED BY <1>1, <1>2, PTL DEF Spec

\* A restore that has its verdict has its request withdrawn, under every fault:
\* DisableRestore comes before the status update, and no other reconcile can put the
\* annotation of that restore back.
THEOREM RestoreRequestWithdrawn == Spec => []RequestWithdrawn
  <1>1. RequestInv => RequestWithdrawn
    BY DEF RequestInv
  <1> QED BY <1>1, Requests, PTL

LEMMA Places == ASSUME Orderly PROVE Spec => [](TurnInv /\ PlaceInv)
  <1>1. Init => TurnInv /\ PlaceInv
    BY TurnInit, ResultInit
  <1>2. TypeInv /\ RequestInv /\ TurnInv /\ PlaceInv /\ [Next]_vars => (TurnInv /\ PlaceInv)'
    BY TurnNext, ResultNext
  <1> QED BY <1>1, <1>2, Requests, PTL DEF Spec

LEMMA Results == ASSUME Calm PROVE Spec => []ResultInv
  <1>1. Orderly
    BY DEF Calm
  <1>2. Init => ResultInv
    BY ResultInit
  <1>3. TypeInv /\ RequestInv /\ TurnInv /\ PlaceInv /\ ResultInv /\ [Next]_vars => ResultInv'
    BY <1>1, ResultNext
  <1> QED BY <1>1, <1>2, <1>3, Requests, Places, PTL DEF Spec

\* A restore reported as Succeeded was carried out by its own Job, for any number of
\* restores requested one after the other: the result of an earlier restore is never
\* taken for that of a later one, although ObserveStatus does not compare ids.  Jobs
\* may fail, Pods restart, restores be deleted, with their finalizer or before they
\* have it, and the operator may restart in the middle of a reconcile.
THEOREM RestoreSucceededRestored == ASSUME Calm PROVE Spec => []SucceededRestored
  <1>1. ResultInv => SucceededRestored
    BY DEF ResultInv
  <1> QED BY <1>1, Results, PTL

LEMMA Onces == ASSUME Orderly PROVE Spec => []OnceInv
  <1>1. Init => OnceInv
    BY OnceInit
  <1>2. TypeInv /\ RequestInv /\ TurnInv /\ PlaceInv /\ OnceInv /\ [Next]_vars => OnceInv'
    BY OnceNext
  <1> QED BY <1>1, <1>2, Requests, Places, PTL DEF Spec

\* A Job rewrites the data directory only for a restore that has no verdict and whose
\* data has not been put in place before.  While the request of a restore that is over
\* still stands, its status tells the result, so that C starts no second Job; and a
\* restore that has been carried out is not requested again, although R may have lost
\* track of it.
THEOREM RestoreRestoresOnce == ASSUME Calm PROVE Spec => []RestoresOnce
  <1>1. Orderly
    BY DEF Calm
  <1>2. TypeInv /\ ResultInv /\ OnceInv => RestoresOnce
    <2> SUFFICES ASSUME TypeInv, ResultInv, OnceInv, job # None, job.phase = "active"
                 PROVE  restore[job.id].state \notin Ended /\ job.id \notin restored
      BY DEF RestoresOnce
    <2>1. job.id \in Objects
      BY Types DEF RestoreJob
    <2>2. restore[job.id].state \notin Ended
      BY <2>1 DEF ResultInv, Verdicts, Over
    <2>3. job.id \notin restored
      BY DEF OnceInv, Once
    <2> QED BY <2>2, <2>3
  <1> QED BY <1>1, <1>2, Requests, Results, Onces, PTL

\* While the Job of the restore that is asked for rewrites the data directory, no
\* instance runs on it or is about to: reconcileInstances starts one only once the Job
\* has ended, whatever status C has read and however fast the Job is.
THEOREM RestoreJobAlone == ASSUME Steady PROVE Spec => []JobAlone
  <1>1. Orderly
    BY DEF Steady
  <1>2. Init => DownInv
    BY DownInit
  <1>3. TypeInv /\ RequestInv /\ TurnInv /\ PlaceInv /\ DownInv /\ [Next]_vars => DownInv'
    BY DownNext
  <1>4. TypeInv /\ PlaceInv /\ DownInv => JobAlone
    BY JobIsAlone
  <1> QED BY <1>1, <1>2, <1>3, <1>4, Requests, Places, PTL DEF Spec
=============================================================================
