------------------------ MODULE SnapshotBackup_proofs ------------------------
(***************************************************************************)
(* A snapshot backup that succeeds is of one state of the data, and its    *)
(* instance is down as long as a snapshot is missing, for any numbers of   *)
(* backups, instances and volumes and under every fault.                   *)
(***************************************************************************)
EXTENDS SnapshotBackup, TLAPS

-----------------------------------------------------------------------------
(* The inductive invariant.                                                *)

\* The worker has a backup in hand.  All snapshots of a backup are ready; they are
\* of one state of one instance.  An instance is stopped.  The worker is in
\* prepare, or in or behind complete.
Working == w.pc \notin {"idle", "down"}
AllReady(b) == \A v \in Volumes : vs[b][v].st = "ready"
OneState(b) == \E i \in Instances : \A v \in Volumes :
                   vs[b][v] = [st |-> "ready", from |-> i, still |-> TRUE]
Down(i) == sts[i].suspended /\ ~sts[i].up
Ending == {"complete", "resuming", "dropFin", "succeed"}
Preparing == {"suspend", "suspending", "annotate", "addFin"}

\* Nothing is recorded on a backup that does not exist, and only a backup with a
\* finalizer is there while it is being deleted.
Recorded == \A b \in Backups :
    /\ ~Live(b) => bk[b].state = "New" /\ ~bk[b].fin /\ ~bk[b].deleting
    /\ Live(b) /\ bk[b].deleting => bk[b].fin \/ bk[b].del
    /\ bk[b].del => bk[b].state = "Failed"
    /\ bk[b].fin \/ bk[b].state = "Running" => bk[b].target # None
    /\ bk[b].state = "New" => ~bk[b].fin

\* What the worker has read of its backup is what the backup still is, but for
\* the deletion that a user may have asked for since and for what the worker
\* itself wrote.
ReadTrue == Working /\ Live(wb) =>
    /\ bk[wb].state = w.snap.state
    /\ w.snap.deleting => bk[wb].deleting
    /\ w.pc \notin {"running", "succeed"} => bk[wb].fin = w.snap.fin
    /\ w.pc = "succeed" => ~bk[wb].fin /\ ~bk[wb].deleting
    /\ w.pc = "running" => bk[wb].fin
    /\ w.pc \notin {"addFin", "running"} => bk[wb].target = w.snap.target
    /\ w.pc = "addFin" => bk[wb].target = w.target

\* Where the worker is says what it has read.
Place == Working =>
    /\ wb \in Backups
    /\ bk[wb].phase # "absent"
    /\ w.pgNil => ~cluster /\ w.snap.state \notin {"Starting", "Running"}
    /\ w.snap.fin \/ w.snap.state = "Running" => w.snap.target # None
    /\ w.snap.fin /\ w.pc # "succeed" => Live(wb)
    /\ w.pc = "finalize" => w.pgNil
    /\ w.pc \notin {"lease", "finalize"} => ~w.pgNil
    /\ w.pc \in Preparing => ~w.snap.fin /\ w.target \in Instances
    /\ w.pc \in Preparing \cup {"running"} => w.snap.state = "Starting" /\ ~w.snap.deleting
    /\ w.pc = "volumes" => w.snap.state = "Running" /\ ~w.snap.deleting
    /\ w.pc \in Ending =>
           w.snap.deleting \/ w.snap.state \in Terminal \/ w.snap.state = "Running"
    /\ w.pc \in {"resuming", "dropFin"} => w.snap.fin /\ w.target = w.snap.target
    /\ w.pc = "succeed" => w.snap.state = "Running" /\ ~w.snap.deleting

\* The worker holds the lock unless it releases it, and a finalizer is only left
\* without the lock when the cluster is gone.
Locked ==
    /\ Working /\ w.pc # "lease" /\ ~Releasing(w.snap, w.pgNil) => lease = wb
    /\ \A b \in Backups : Live(b) /\ bk[b].fin =>
           lease = b \/ (~cluster /\ (Working => w.pgNil))

\* The target is down from before it is annotated until the snapshots are ready.
Suspended ==
    /\ w.pc = "suspending" => sts[w.target].suspended
    /\ w.pc \in {"annotate", "addFin"} => Down(w.target)
    /\ \A b \in Backups : Live(b) /\ ~bk[b].deleting =>
        /\ bk[b].state = "Running" /\ ~AllReady(b) => bk[b].fin
        /\ bk[b].fin /\ bk[b].state \in {"Starting", "Running"}
           /\ (bk[b].state = "Running" => ~AllReady(b)) => Down(bk[b].target)

\* The snapshots of a backup are of its target, which stood still.
Taken == \A b \in Backups :
    /\ bk[b].phase # "gone" /\ bk[b].state \in {"New", "Starting"} =>
           \A v \in Volumes : vs[b][v].st = "none"
    /\ Live(b) /\ ~bk[b].deleting /\ bk[b].state = "Running" =>
           \A v \in Volumes : vs[b][v].st # "none" =>
               vs[b][v].from = bk[b].target /\ vs[b][v].still
    /\ bk[b].state = "Succeeded" => OneState(b)

\* The worker completes a running backup only when all snapshots are ready.
Observed == Working =>
    /\ w.pc = "volumes" /\ w.seen = "ready" =>
           \A v \in Volumes \ w.todo : vs[wb][v].st = "ready"
    /\ w.pc \in Ending /\ ~w.snap.deleting /\ w.snap.state = "Running" => AllReady(wb)

SnapshotInv == /\ TypeOK /\ Recorded /\ ReadTrue /\ Place /\ Locked /\ Suspended
               /\ Taken /\ Observed

-----------------------------------------------------------------------------
(* What a step does, field by field.                                       *)

\* The object of b became obj, or went because obj had no finalizer left.
Replaced(b, obj) ==
    /\ bk' \in [Backups -> Backup]
    /\ \A c \in Backups \ {b} : bk'[c] = bk[c]
    /\ \/ bk'[b] = obj /\ (obj.deleting => obj.fin \/ obj.del)
       \/ /\ obj.deleting /\ ~obj.fin /\ ~obj.del
          /\ bk'[b].phase = "gone" /\ bk'[b].state = "New"
          /\ ~bk'[b].deleting /\ ~bk'[b].fin /\ ~bk'[b].del

Worker == [pc : WPCs, b : Backups \cup {None}, snap : Backup, pgNil : BOOLEAN,
           on : BOOLEAN, target : Instances \cup {None}, todo : SUBSET Volumes,
           seen : {"ready", "pending", "failed"}]

\* The worker went on to l with what it has read.
WentTo(l) == /\ w'.pc = l /\ wb' = wb /\ w'.snap = w.snap /\ w'.pgNil = w.pgNil
             /\ w'.target = w.target /\ w'.todo = w.todo /\ w'.seen = w.seen
             /\ w' \in Worker

\* The worker stopped, and has nothing in hand that could be wrong.
Stopped == /\ w'.pc \in {"idle", "down"} /\ w' \in Worker
           /\ ReadTrue' /\ Place' /\ Observed'


-----------------------------------------------------------------------------
(* Lemmas about the objects and the worker.                                *)

\* The writes of the reconciler make a backup object of a backup object.
LEMMA ObjectsWritten ==
    ASSUME NEW r \in Backup
    PROVE  /\ \A x \in BOOLEAN : /\ [r EXCEPT !.fin = x] \in Backup
                                 /\ [r EXCEPT !.acquired = x] \in Backup
                                 /\ [r EXCEPT !.deleting = x] \in Backup
                                 /\ [r EXCEPT !.fin = x, !.del = x] \in Backup
           /\ \A s \in States : /\ [r EXCEPT !.state = s] \in Backup
                                /\ [r EXCEPT !.del = TRUE, !.state = s] \in Backup
           /\ \A i \in Instances \cup {None} : [r EXCEPT !.target = i] \in Backup
           /\ [r EXCEPT !.phase = "live"] \in Backup
<1>1. \A x \in BOOLEAN : [r EXCEPT !.fin = x] \in Backup
  BY DEF Backup
<1>2. \A x \in BOOLEAN : [r EXCEPT !.acquired = x] \in Backup
  BY DEF Backup
<1>3. \A x \in BOOLEAN : [r EXCEPT !.deleting = x] \in Backup
  BY DEF Backup
<1>4. \A x \in BOOLEAN : [r EXCEPT !.fin = x, !.del = x] \in Backup
  BY DEF Backup
<1>5. \A s \in States : [r EXCEPT !.state = s] \in Backup
  BY DEF Backup
<1>6. \A s \in States : [r EXCEPT !.del = TRUE, !.state = s] \in Backup
  BY DEF Backup
<1>7. \A i \in Instances \cup {None} : [r EXCEPT !.target = i] \in Backup
  BY DEF Backup
<1>8. [r EXCEPT !.phase = "live"] \in Backup
  BY DEF Backup
<1> QED BY <1>1, <1>2, <1>3, <1>4, <1>5, <1>6, <1>7, <1>8

\* An instance that starts changes at most whether a snapshot is of one state.
LEMMA SnapshotStill ==
    ASSUME NEW r \in Snapshot, NEW x \in BOOLEAN, NEW p, p = [r EXCEPT !.still = x]
    PROVE  /\ p \in Snapshot /\ p.st = r.st /\ p.from = r.from /\ (p.still <=> x)
           /\ r.still /\ x => p = r
<1>1. p \in Snapshot
  BY DEF Snapshot
<1>2. r.still /\ x => p = r
  BY DEF Snapshot
<1>3. p.st = r.st /\ p.from = r.from /\ (p.still <=> x)
  BY DEF Snapshot
<1> QED BY <1>1, <1>2, <1>3

\* The snapshot controller changes only the status of a snapshot.
LEMMA SnapshotStatus ==
    ASSUME NEW r \in Snapshot, NEW s \in {"error", "overdue", "ready"},
           NEW q, q = [r EXCEPT !.st = s]
    PROVE  q \in Snapshot /\ q.st = s /\ q.from = r.from /\ (q.still <=> r.still)
<1>1. q \in Snapshot
  BY DEF Snapshot
<1>2. q.st = s /\ q.from = r.from /\ (q.still <=> r.still)
  BY DEF Snapshot
<1> QED BY <1>1, <1>2

\* A write replaces one object, or removes it when that was the last finalizer
\* of an object being deleted.
LEMMA WriteSettles ==
    ASSUME TypeOK, NEW b \in Backups, NEW obj \in Backup,
           bk' = [bk EXCEPT ![b] = Settle(obj)]
    PROVE  Replaced(b, obj)
<1>1. Settle(obj) \in Backup
  BY DEF Backup, Settle, Unborn, States
<1>2. \/ Settle(obj) = obj /\ (obj.deleting => obj.fin \/ obj.del)
      \/ /\ obj.deleting /\ ~obj.fin /\ ~obj.del
         /\ Settle(obj) = [Unborn EXCEPT !.phase = "gone"]
  BY DEF Settle
<1>3. bk'[b] = Settle(obj)
  BY DEF TypeOK
<1> QED BY <1>1, <1>2, <1>3 DEF TypeOK, Unborn, Replaced

\* A worker that goes on remembers what it has read.
LEMMA GoesOn ==
    ASSUME TypeOK, NEW l \in WPCs, w' = [w EXCEPT !.pc = l]
    PROVE  WentTo(l)
BY DEF TypeOK, WentTo, Worker, wb

\* A worker that stops has nothing in hand that could be wrong.
LEMMA Stops ==
    ASSUME w' = WIdle \/ w' = [WIdle EXCEPT !.pc = "down"]
    PROVE  Stopped
<1>1. w'.pc \in {"idle", "down"}
  BY DEF WIdle
<1>2. ReadTrue' /\ Place' /\ Observed'
  BY <1>1 DEF ReadTrue, Place, Observed, Working
<1>3. Unborn \in Backup
  BY DEF Unborn, Backup, States
<1>4. WIdle \in Worker
  BY <1>3 DEF WIdle, WPCs, Worker
<1>5. [WIdle EXCEPT !.pc = "down"] \in Worker
  BY <1>4 DEF WPCs, Worker
<1> QED BY <1>1, <1>2, <1>4, <1>5 DEF Stopped

\* What is known of the snapshots stays while nobody changes them.
LEMMA SnapshotsKept ==
    ASSUME UNCHANGED vs
    PROVE  \A b \in Backups : OneState(b)' = OneState(b) /\ AllReady(b)' = AllReady(b)
BY DEF OneState, AllReady

\* A worker that gives up, having moved the lock at most from a backup without a
\* claim to it, leaves the invariant as it is.
LEMMA StopKeeps ==
    ASSUME SnapshotInv,
           w' = WIdle \/ w' = [WIdle EXCEPT !.pc = "down"],
           lease' \in Backups \cup {None},
           \A b \in Backups : Live(b) /\ bk[b].fin /\ lease = b => lease' = b,
           UNCHANGED <<bk, vs, sts, primary, cluster, enabled>>
    PROVE  SnapshotInv'
<1>1. Stopped
  BY Stops
<1>2. TypeOK'
  BY <1>1 DEF Stopped, Worker, SnapshotInv, TypeOK
<1>3. Recorded' /\ Taken'
  BY SnapshotsKept DEF SnapshotInv, Recorded, Taken, Live
<1>4. Locked'
  BY <1>1 DEF Stopped, SnapshotInv, Locked, Live, Working
<1>5. Suspended'
  BY <1>1 DEF Stopped, SnapshotInv, Suspended, Live, Down, AllReady
<1> QED BY <1>1, <1>2, <1>3, <1>4, <1>5 DEF Stopped, SnapshotInv

\* While the worker only moves on, the objects are what they were.
LEMMA WorkerMoves ==
    ASSUME SnapshotInv, w' \in Worker,
           UNCHANGED <<bk, vs, sts, primary, cluster, enabled, lease>>
    PROVE  TypeOK' /\ Recorded' /\ Taken'
BY SnapshotsKept DEF SnapshotInv, TypeOK, Worker, Recorded, Taken, Live

\* Neither a failover nor a change of the cluster's spec touches the invariant.
LEMMA UnseenChange ==
    ASSUME SnapshotInv, primary' \in Instances, enabled' \in BOOLEAN,
           UNCHANGED <<bk, vs, sts, cluster, lease, w>>
    PROVE  SnapshotInv'
<1>1. TypeOK'
  BY DEF SnapshotInv, TypeOK
<1>2. Recorded' /\ Taken'
  BY SnapshotsKept DEF SnapshotInv, Recorded, Taken, Live
<1>3. ReadTrue' /\ Place'
  BY DEF SnapshotInv, ReadTrue, Place, Working, wb, Live
<1>4. Locked' /\ Suspended'
  BY DEF SnapshotInv, Locked, Suspended, Working, wb, Live, Down, AllReady
<1>5. Observed'
  BY DEF SnapshotInv, Observed, Working, wb, AllReady
<1> QED BY <1>1, <1>2, <1>3, <1>4, <1>5 DEF SnapshotInv

-----------------------------------------------------------------------------
(* The invariant is inductive.                                             *)

\* Every step of the reconciler and of its environment keeps the invariant.
LEMMA SnapshotStep == SnapshotInv /\ [Next]_vars => SnapshotInv'
<1> SUFFICES ASSUME SnapshotInv, [Next]_vars PROVE SnapshotInv'
    OBVIOUS
<1> USE NoneAssumption DEF SnapshotInv
<1>0. \A b \in Backups : bk[b].target \in Instances \cup {None}
  BY DEF TypeOK, Backup
<1>1. ASSUME NEW b \in Backups, WGet(b) PROVE SnapshotInv'
  <2> DEFINE s == IF ~cluster /\ bk[b].state \in {"Starting", "Running"}
                  THEN "Failed" ELSE bk[b].state
             obj == [bk[b] EXCEPT !.state = s]
  <2>1. /\ w.pc = "idle" /\ Live(b) /\ bk[b] \in Backup
        /\ bk' = [bk EXCEPT ![b] = obj]
        /\ w' = [WIdle EXCEPT !.pc = "lease", !.b = b, !.snap = bk'[b],
                              !.pgNil = ~cluster, !.on = enabled]
        /\ UNCHANGED <<vs, sts, primary, cluster, enabled, lease>>
    BY <1>1 DEF WGet, TypeOK
  <2>2. /\ s \in States
        /\ s = bk[b].state \/ s = "Failed"
        /\ ~cluster => s \notin {"Starting", "Running"}
    BY <2>1 DEF Backup, States, Terminal
  <2> HIDE DEF s
  <2>3. obj \in Backup
    BY <2>1, <2>2, ObjectsWritten
  <2>4. /\ bk' \in [Backups -> Backup] /\ bk'[b] \in Backup
        /\ \A c \in Backups \ {b} : bk'[c] = bk[c]
        /\ bk'[b].phase = "live" /\ bk'[b].state = s /\ bk'[b].del = bk[b].del
        /\ bk'[b].deleting = bk[b].deleting /\ bk'[b].fin = bk[b].fin
        /\ bk'[b].target = bk[b].target
    BY <2>1, <2>3 DEF TypeOK, Backup, Live
  <2>5. /\ w'.pc = "lease" /\ wb' = b /\ w'.snap = bk'[b] /\ (w'.pgNil <=> ~cluster)
        /\ w' \in Worker
    BY <2>1, <2>4 DEF TypeOK, WIdle, WPCs, Worker, wb
  <2>6. TypeOK'
    BY <2>1, <2>4, <2>5 DEF TypeOK, Worker
  <2>7. Recorded'
    BY <2>1, <2>2, <2>4, <2>5 DEF Recorded, Live
  <2>8. ReadTrue'
    BY <2>1, <2>2, <2>4, <2>5 DEF ReadTrue, Live, Working
  <2>9. Place'
    BY <2>1, <2>2, <2>4, <2>5 DEF Place, Live, Working, Preparing, Ending, Terminal,
       Recorded
  <2>10. Locked'
    BY <2>1, <2>2, <2>4, <2>5 DEF Locked, Live, Working, Releasing, Terminal
  <2>11. Suspended'
    BY <2>1, <2>2, <2>4, <2>5 DEF Suspended, Live, AllReady, Down, Recorded
  <2>12. Taken'
    BY <2>1, <2>2, <2>4, <2>5, SnapshotsKept DEF Taken, Live
  <2>13. Observed'
    BY <2>1, <2>2, <2>4, <2>5 DEF Observed, Working, Ending, AllReady
  <2> QED BY <2>6, <2>7, <2>8, <2>9, <2>10, <2>11, <2>12, <2>13
<1>2. CASE WRelease
  <2>0. /\ w.pc = "lease" /\ Releasing(w.snap, w.pgNil) /\ wb \in Backups
        /\ AfterLease \in WPCs
    BY <1>2 DEF Place, Working, WRelease, AfterLease, WPCs
  <2>1. CASE ~w.snap.acquired
    <3>1. /\ w' = [w EXCEPT !.pc = AfterLease]
          /\ UNCHANGED <<bk, vs, sts, primary, cluster, enabled, lease>>
      BY <1>2, <2>1 DEF WRelease, WGoto
    <3>2. WentTo(AfterLease)
      BY <2>0, <3>1, GoesOn
    <3>3. TypeOK' /\ Recorded' /\ Taken'
      BY <3>1, <3>2, WorkerMoves DEF WentTo
    <3>4. ReadTrue'
      BY <2>0, <3>1, <3>2 DEF ReadTrue, Live, Working, AfterLease, WentTo
    <3>5. Place'
      BY <2>0, <3>1, <3>2 DEF Place, Live, Working, Preparing, Ending, Terminal,
         AfterLease,
         WentTo
    <3>6. Locked'
      BY <2>0, <3>1, <3>2 DEF Locked, Live, Working, Releasing, Terminal, AfterLease,
         WentTo
    <3>7. Suspended'
      BY <2>0, <3>1, <3>2 DEF Suspended, Live, AllReady, Down, AfterLease, WentTo
    <3>8. Observed'
      BY <2>0, <3>1, <3>2 DEF Observed, Working, Ending, AllReady, AfterLease, WentTo
    <3> QED BY <3>3, <3>4, <3>5, <3>6, <3>7, <3>8
  <2>2. CASE w.snap.acquired /\ lease \in {None, wb}
    <3> DEFINE obj == [bk[wb] EXCEPT !.acquired = FALSE]
    <3>1. w.pc = "lease" /\ wb \in Backups /\ bk[wb] \in Backup
      BY <1>2, <2>2 DEF TypeOK, Place, Working, WRelease
    <3>2. CASE ~Live(wb)
      <4>1. /\ w' = WIdle /\ lease' = None
             /\ UNCHANGED <<bk, vs, sts, primary, cluster, enabled>>
        BY <3>2, <1>2, <2>2 DEF WriteThen, WStop, WRelease
      <4>2. \A b \in Backups : Live(b) /\ bk[b].fin /\ lease = b => lease' = b
        BY <3>1, <3>2, <4>1, <1>2, <2>2, NoneAssumption DEF Live
      <4> QED BY <4>1, <4>2, <3>1, StopKeeps
    <3>3. CASE Live(wb)
      <4>0. obj \in Backup
        BY <3>1, ObjectsWritten DEF States, Terminal, TypeOK
      <4>1. /\ obj.phase = bk[wb].phase /\ obj.state = bk[wb].state
            /\ obj.deleting = bk[wb].deleting /\ obj.fin = bk[wb].fin
            /\ obj.del = bk[wb].del /\ obj.target = bk[wb].target
        BY <3>1 DEF Backup
      <4>2. /\ bk' = [bk EXCEPT ![wb] = Settle(obj)] /\ w' = [w EXCEPT !.pc = AfterLease]
            /\ lease' = None
            /\ UNCHANGED <<vs, sts, primary, cluster, enabled>>
        BY <3>3, <1>2, <2>2 DEF WriteThen, WStop, WGoto, SetState, WRelease
      <4>3. Replaced(wb, obj)
        BY <3>1, <4>0, <4>2, WriteSettles
      <4>4. WentTo(AfterLease)
        BY <2>0, <4>2, GoesOn DEF WPCs
      <4>5. TypeOK'
        BY <3>1, <4>2, <4>3, <4>4 DEF TypeOK, Replaced, Worker, WentTo
      <4> HIDE DEF obj
      <4>6. Recorded'
        BY <3>1, <3>3, <4>1, <4>2, <4>3, <4>4, <1>2, <2>2 DEF Recorded, Live, Replaced,
           WentTo
      <4>7. ReadTrue'
        BY <3>1, <3>3, <4>1, <4>2, <4>3, <4>4, <1>2, <2>2, <2>0 DEF ReadTrue, Live,
           Working,
           AfterLease, Replaced, WentTo
      <4>8. Place'
        BY <3>1, <3>3, <4>1, <4>2, <4>3, <4>4, <1>2, <2>2, <2>0 DEF Place, Live, Working,
           Preparing, Ending, Terminal, AfterLease, ReadTrue, Replaced, WentTo
      <4>9. Locked'
        BY <3>1, <3>3, <4>1, <4>2, <4>3, <4>4, <1>2, <2>2, <2>0 DEF Locked, Live, Working,
           Releasing, Terminal, AfterLease, Place, ReadTrue, Replaced, WentTo
      <4>10. Suspended'
        BY <3>1, <3>3, <4>1, <4>2, <4>3, <4>4, <1>2, <2>2 DEF Suspended, Live, AllReady,
           Down, AfterLease, Replaced, WentTo
      <4>11. Taken'
        BY <3>1, <3>3, <4>1, <4>2, <4>3, <4>4, <1>2, <2>2, SnapshotsKept DEF Taken, Live,
           Replaced, WentTo
      <4>12. Observed'
        BY <3>1, <3>3, <4>1, <4>2, <4>3, <4>4, <1>2, <2>2, <2>0 DEF Observed, Working,
           Ending, AllReady, AfterLease, Replaced, WentTo
      <4> QED BY <4>4, <4>5, <4>6, <4>7, <4>8, <4>9, <4>10, <4>11, <4>12
    <3> QED BY <3>2, <3>3
  <2>3. CASE w.snap.acquired /\ lease \notin {None, wb}
    BY <1>2, <2>0, <2>3, StopKeeps DEF TypeOK, WRelease, WStop
  <2> QED BY <2>1, <2>2, <2>3
<1>3. CASE WAcquire
  <2>0. /\ w.pc = "lease" /\ ~Releasing(w.snap, w.pgNil) /\ wb \in Backups
        /\ AfterLease \in WPCs
    BY <1>3 DEF Place, Working, WAcquire, AfterLease, WPCs
  <2>1. CASE Obtainable
    <3> DEFINE obj == [bk[wb] EXCEPT !.acquired = TRUE]
    <3>1. w.pc = "lease" /\ wb \in Backups /\ bk[wb] \in Backup
      BY <1>3, <2>0, <2>1 DEF TypeOK, Place, Working, WAcquire
    <3>2. CASE ~Live(wb)
      <4>1. /\ w' = WIdle /\ lease' = wb
             /\ UNCHANGED <<bk, vs, sts, primary, cluster, enabled>>
        BY <3>2, <1>3, <2>0, <2>1 DEF WriteThen, WStop, WAcquire
      <4>2. \A b \in Backups : Live(b) /\ bk[b].fin /\ lease = b => lease' = b
        BY <3>1, <3>2, <4>1, <1>3, <2>0, <2>1, NoneAssumption DEF Live, Obtainable, Stale
      <4> QED BY <4>1, <4>2, <3>1, StopKeeps
    <3>3. CASE Live(wb)
      <4>0. obj \in Backup
        BY <3>1, ObjectsWritten DEF States, Terminal, TypeOK
      <4>1. /\ obj.phase = bk[wb].phase /\ obj.state = bk[wb].state
            /\ obj.deleting = bk[wb].deleting /\ obj.fin = bk[wb].fin
            /\ obj.del = bk[wb].del /\ obj.target = bk[wb].target
        BY <3>1 DEF Backup
      <4>2. /\ bk' = [bk EXCEPT ![wb] = Settle(obj)] /\ w' = [w EXCEPT !.pc = AfterLease]
            /\ lease' = wb
            /\ UNCHANGED <<vs, sts, primary, cluster, enabled>>
        BY <3>3, <1>3, <2>0, <2>1 DEF WriteThen, WStop, WGoto, SetState, WAcquire
      <4>3. Replaced(wb, obj)
        BY <3>1, <4>0, <4>2, WriteSettles
      <4>4. WentTo(AfterLease)
        BY <2>0, <4>2, GoesOn DEF WPCs
      <4>5. TypeOK'
        BY <3>1, <4>2, <4>3, <4>4 DEF TypeOK, Replaced, Worker, WentTo
      <4> HIDE DEF obj
      <4>6. Recorded'
        BY <3>1, <3>3, <4>1, <4>2, <4>3, <4>4, <1>3, <2>0, <2>1 DEF Recorded, Live,
           Replaced, WentTo
      <4>7. ReadTrue'
        BY <3>1, <3>3, <4>1, <4>2, <4>3, <4>4, <1>3, <2>0, <2>1 DEF ReadTrue, Live,
           Working,
           AfterLease, Replaced, WentTo
      <4>8. Place'
        BY <3>1, <3>3, <4>1, <4>2, <4>3, <4>4, <1>3, <2>0, <2>1 DEF Place, Live, Working,
           Preparing, Ending, Terminal, AfterLease, ReadTrue, Replaced, WentTo
      <4>9. Locked'
        BY <3>1, <3>3, <4>1, <4>2, <4>3, <4>4, <1>3, <2>0, <2>1 DEF Locked, Live, Working,
           Releasing, Terminal, AfterLease, Obtainable, Stale, Replaced, WentTo
      <4>10. Suspended'
        BY <3>1, <3>3, <4>1, <4>2, <4>3, <4>4, <1>3, <2>0, <2>1 DEF Suspended, Live,
           AllReady, Down, AfterLease, Replaced, WentTo
      <4>11. Taken'
        BY <3>1, <3>3, <4>1, <4>2, <4>3, <4>4, <1>3, <2>0, <2>1, SnapshotsKept DEF Taken,
           Live, Replaced, WentTo
      <4>12. Observed'
        BY <3>1, <3>3, <4>1, <4>2, <4>3, <4>4, <1>3, <2>0, <2>1 DEF Observed, Working,
           Ending, AllReady, AfterLease, Replaced, WentTo
      <4> QED BY <4>4, <4>5, <4>6, <4>7, <4>8, <4>9, <4>10, <4>11, <4>12
    <3> QED BY <3>2, <3>3
  <2>2. CASE ~Obtainable
    <3> DEFINE obj == [bk[wb] EXCEPT !.acquired = FALSE]
    <3>1. w.pc = "lease" /\ wb \in Backups /\ bk[wb] \in Backup
      BY <1>3, <2>0, <2>2 DEF TypeOK, Place, Working, WAcquire
    <3>2. CASE ~Live(wb)
      BY <3>2, <1>3, <2>0, <2>2, StopKeeps DEF TypeOK, WriteThen, WStop, SetState,
         WAcquire
    <3>3. CASE Live(wb)
      <4>0. obj \in Backup
        BY <3>1, ObjectsWritten DEF States, Terminal, TypeOK
      <4>1. /\ obj.phase = bk[wb].phase /\ obj.state = bk[wb].state
            /\ obj.deleting = bk[wb].deleting /\ obj.fin = bk[wb].fin
            /\ obj.del = bk[wb].del /\ obj.target = bk[wb].target
        BY <3>1 DEF Backup
      <4>2. /\ bk' = [bk EXCEPT ![wb] = Settle(obj)] /\ w' = WIdle
            /\ UNCHANGED <<vs, sts, primary, cluster, enabled, lease>>
        BY <3>3, <1>3, <2>0, <2>2 DEF WriteThen, WStop, WGoto, SetState, WAcquire
      <4>3. Replaced(wb, obj)
        BY <3>1, <4>0, <4>2, WriteSettles
      <4>4. Stopped
        BY <4>2, Stops
      <4>5. TypeOK'
        BY <3>1, <4>2, <4>3, <4>4 DEF TypeOK, Replaced, Worker, Stopped
      <4> HIDE DEF obj
      <4>6. Recorded'
        BY <3>1, <3>3, <4>1, <4>2, <4>3, <4>4 DEF Recorded, Live, Replaced, Stopped
      <4>7. Locked'
        BY <3>1, <3>3, <4>1, <4>2, <4>3, <4>4 DEF Locked, Live, Working, Releasing,
           Terminal, Replaced, Stopped
      <4>8. Suspended'
        BY <3>1, <3>3, <4>1, <4>2, <4>3, <4>4 DEF Suspended, Live, AllReady, Down,
           Replaced,
           Stopped
      <4>9. Taken'
        BY <3>1, <3>3, <4>1, <4>2, <4>3, <4>4, SnapshotsKept DEF Taken, Live, Replaced,
           Stopped
      <4> QED BY <4>4, <4>5, <4>6, <4>7, <4>8, <4>9 DEF Stopped
    <3> QED BY <3>2, <3>3
  <2> QED BY <2>1, <2>2
<1>4. CASE WFinalize
  <2>0. w.pc = "finalize" /\ wb \in Backups /\ w.pgNil /\ ~cluster
    BY <1>4 DEF Place, Working, WFinalize
  <2>1. CASE w.snap.deleting \/ w.snap.state = "Failed"
    <3> DEFINE obj == [bk[wb] EXCEPT !.fin = FALSE, !.del = FALSE]
    <3>1. w.pc = "finalize" /\ wb \in Backups /\ bk[wb] \in Backup
      BY <1>4, <2>0, <2>1 DEF TypeOK, Place, Working, WFinalize
    <3>2. CASE ~Live(wb)
      BY <3>2, <1>4, <2>0, <2>1, StopKeeps DEF TypeOK, WriteThen, WStop, SetState,
         WFinalize
    <3>3. CASE Live(wb)
      <4>0. obj \in Backup
        BY <3>1, ObjectsWritten DEF States, Terminal, TypeOK
      <4>1. /\ ~obj.fin /\ ~obj.del
            /\ obj.phase = bk[wb].phase /\ obj.state = bk[wb].state
            /\ obj.deleting = bk[wb].deleting /\ obj.target = bk[wb].target
        BY <3>1 DEF Backup
      <4>2. /\ bk' = [bk EXCEPT ![wb] = Settle(obj)] /\ w' = WIdle
            /\ UNCHANGED <<vs, sts, primary, cluster, enabled, lease>>
        BY <3>3, <1>4, <2>0, <2>1 DEF WriteThen, WStop, WGoto, SetState, WFinalize
      <4>3. Replaced(wb, obj)
        BY <3>1, <4>0, <4>2, WriteSettles
      <4>4. Stopped
        BY <4>2, Stops
      <4>5. TypeOK'
        BY <3>1, <4>2, <4>3, <4>4 DEF TypeOK, Replaced, Worker, Stopped
      <4> HIDE DEF obj
      <4>6. Recorded'
        BY <3>1, <3>3, <4>1, <4>2, <4>3, <4>4 DEF Recorded, Live, Replaced, Stopped
      <4>7. Locked'
        BY <3>1, <3>3, <4>1, <4>2, <4>3, <4>4 DEF Locked, Live, Working, Releasing,
           Terminal, Replaced, Stopped
      <4>8. Suspended'
        BY <3>1, <3>3, <4>1, <4>2, <4>3, <4>4, <2>1 DEF Suspended, Live, AllReady, Down,
           ReadTrue, Working, Replaced, Stopped
      <4>9. Taken'
        BY <3>1, <3>3, <4>1, <4>2, <4>3, <4>4, SnapshotsKept DEF Taken, Live, Replaced,
           Stopped
      <4> QED BY <4>4, <4>5, <4>6, <4>7, <4>8, <4>9 DEF Stopped
    <3> QED BY <3>2, <3>3
  <2>2. CASE ~w.snap.deleting /\ w.snap.state = "New"
    <3> DEFINE obj == [bk[wb] EXCEPT !.del = TRUE, !.state = "Failed"]
    <3>1. w.pc = "finalize" /\ wb \in Backups /\ bk[wb] \in Backup
      BY <1>4, <2>0, <2>2 DEF TypeOK, Place, Working, WFinalize
    <3>2. CASE ~Live(wb)
      BY <3>2, <1>4, <2>0, <2>2, StopKeeps DEF TypeOK, WriteThen, WStop, SetState,
         WFinalize
    <3>3. CASE Live(wb)
      <4>0. obj \in Backup
        BY <3>1, ObjectsWritten DEF States, Terminal, TypeOK
      <4>1. /\ obj.del /\ obj.state = "Failed"
            /\ obj.phase = bk[wb].phase /\ obj.deleting = bk[wb].deleting
            /\ obj.fin = bk[wb].fin /\ obj.target = bk[wb].target
        BY <3>1 DEF Backup
      <4>2. /\ bk' = [bk EXCEPT ![wb] = Settle(obj)] /\ w' = WIdle
            /\ UNCHANGED <<vs, sts, primary, cluster, enabled, lease>>
        BY <3>3, <1>4, <2>0, <2>2 DEF WriteThen, WStop, WGoto, SetState, WFinalize
      <4>3. Replaced(wb, obj)
        BY <3>1, <4>0, <4>2, WriteSettles
      <4>4. Stopped
        BY <4>2, Stops
      <4>5. TypeOK'
        BY <3>1, <4>2, <4>3, <4>4 DEF TypeOK, Replaced, Worker, Stopped
      <4> HIDE DEF obj
      <4>6. Recorded'
        BY <3>1, <3>3, <4>1, <4>2, <4>3, <4>4 DEF Recorded, Live, Replaced, Stopped
      <4>7. Locked'
        BY <3>1, <3>3, <4>1, <4>2, <4>3, <4>4 DEF Locked, Live, Working, Releasing,
           Terminal, Replaced, Stopped
      <4>8. Suspended'
        BY <3>1, <3>3, <4>1, <4>2, <4>3, <4>4 DEF Suspended, Live, AllReady, Down,
           Replaced,
           Stopped
      <4>9. Taken'
        BY <3>1, <3>3, <4>1, <4>2, <4>3, <4>4, SnapshotsKept DEF Taken, Live, Replaced,
           Stopped
      <4> QED BY <4>4, <4>5, <4>6, <4>7, <4>8, <4>9 DEF Stopped
    <3> QED BY <3>2, <3>3
  <2>3. CASE ~w.snap.deleting /\ w.snap.state = "Succeeded"
    <3> DEFINE obj == [bk[wb] EXCEPT !.state = "Failed"]
    <3>1. w.pc = "finalize" /\ wb \in Backups /\ bk[wb] \in Backup
      BY <1>4, <2>0, <2>3 DEF TypeOK, Place, Working, WFinalize
    <3>2. CASE ~Live(wb)
      BY <3>2, <1>4, <2>0, <2>3, StopKeeps DEF TypeOK, WriteThen, WStop, SetState,
         WFinalize
    <3>3. CASE Live(wb)
      <4>0. obj \in Backup
        BY <3>1, ObjectsWritten DEF States, Terminal, TypeOK
      <4>1. /\ obj.del = bk[wb].del /\ obj.state = "Failed"
            /\ obj.phase = bk[wb].phase /\ obj.deleting = bk[wb].deleting
            /\ obj.fin = bk[wb].fin /\ obj.target = bk[wb].target
        BY <3>1 DEF Backup
      <4>2. /\ bk' = [bk EXCEPT ![wb] = Settle(obj)] /\ w' = WIdle
            /\ UNCHANGED <<vs, sts, primary, cluster, enabled, lease>>
        BY <3>3, <1>4, <2>0, <2>3 DEF WriteThen, WStop, WGoto, SetState, WFinalize
      <4>3. Replaced(wb, obj)
        BY <3>1, <4>0, <4>2, WriteSettles
      <4>4. Stopped
        BY <4>2, Stops
      <4>5. TypeOK'
        BY <3>1, <4>2, <4>3, <4>4 DEF TypeOK, Replaced, Worker, Stopped
      <4> HIDE DEF obj
      <4>6. Recorded'
        BY <3>1, <3>3, <4>1, <4>2, <4>3, <4>4 DEF Recorded, Live, Replaced, Stopped
      <4>7. Locked'
        BY <3>1, <3>3, <4>1, <4>2, <4>3, <4>4 DEF Locked, Live, Working, Releasing,
           Terminal, Replaced, Stopped
      <4>8. Suspended'
        BY <3>1, <3>3, <4>1, <4>2, <4>3, <4>4 DEF Suspended, Live, AllReady, Down,
           Replaced,
           Stopped
      <4>9. Taken'
        BY <3>1, <3>3, <4>1, <4>2, <4>3, <4>4, SnapshotsKept DEF Taken, Live, Replaced,
           Stopped
      <4> QED BY <4>4, <4>5, <4>6, <4>7, <4>8, <4>9 DEF Stopped
    <3> QED BY <3>2, <3>3
  <2>4. CASE ~w.snap.deleting /\ w.snap.state \in {"Starting", "Running"}
    BY <2>0, <2>4 DEF Place, Working
  <2> QED BY <2>1, <2>2, <2>3, <2>4 DEF TypeOK, Backup, States, Terminal
<1>5. CASE WDisabled
  <2> DEFINE obj == [bk[wb] EXCEPT !.state = "Failed"]
  <2>1. w.pc = "reconcile" /\ wb \in Backups /\ bk[wb] \in Backup
    BY <1>5 DEF TypeOK, Place, Working, WDisabled
  <2>2. CASE ~Live(wb)
    BY <2>2, <1>5, StopKeeps DEF TypeOK, WriteThen, WStop, SetState, WDisabled
  <2>3. CASE Live(wb)
    <3>0. obj \in Backup
      BY <2>1, ObjectsWritten DEF States, Terminal, TypeOK
    <3>1. /\ obj.state = "Failed" /\ obj.phase = bk[wb].phase
          /\ obj.deleting = bk[wb].deleting /\ obj.fin = bk[wb].fin
          /\ obj.del = bk[wb].del /\ obj.target = bk[wb].target
      BY <2>1 DEF Backup
    <3>2. /\ bk' = [bk EXCEPT ![wb] = Settle(obj)] /\ w' = WIdle
          /\ UNCHANGED <<vs, sts, primary, cluster, enabled, lease>>
      BY <2>3, <1>5 DEF WriteThen, WStop, WGoto, SetState, WDisabled
    <3>3. Replaced(wb, obj)
      BY <2>1, <3>0, <3>2, WriteSettles
    <3>4. Stopped
      BY <3>2, Stops
    <3>5. TypeOK'
      BY <2>1, <3>2, <3>3, <3>4 DEF TypeOK, Replaced, Worker, Stopped
    <3> HIDE DEF obj
    <3>6. Recorded'
      BY <2>1, <2>3, <3>1, <3>2, <3>3, <3>4 DEF Recorded, Live, Replaced, Stopped
    <3>7. Locked'
      BY <2>1, <2>3, <3>1, <3>2, <3>3, <3>4 DEF Locked, Live, Working, Releasing,
         Terminal,
         Replaced, Stopped
    <3>8. Suspended'
      BY <2>1, <2>3, <3>1, <3>2, <3>3, <3>4 DEF Suspended, Live, AllReady, Down, Replaced,
         Stopped
    <3>9. Taken'
      BY <2>1, <2>3, <3>1, <3>2, <3>3, <3>4, SnapshotsKept DEF Taken, Live, Replaced,
         Stopped
    <3> QED BY <3>4, <3>5, <3>6, <3>7, <3>8, <3>9 DEF Stopped
  <2> QED BY <2>2, <2>3
<1>6. CASE WNew
  <2>1. CASE WriteThen(SetState("Starting"), WStop)
    <3> DEFINE obj == [bk[wb] EXCEPT !.state = "Starting"]
    <3>1. w.pc = "reconcile" /\ w.snap.state = "New" /\ wb \in Backups /\ bk[wb] \in Backup
      BY <1>6, <2>1 DEF TypeOK, Place, Working, WNew, AtState, AtReconcile
    <3>2. CASE ~Live(wb)
      BY <3>2, <1>6, <2>1, StopKeeps DEF TypeOK, WriteThen, WStop, SetState, WNew,
         AtState, AtReconcile
    <3>3. CASE Live(wb)
      <4>0. obj \in Backup
        BY <3>1, ObjectsWritten DEF States, Terminal, TypeOK
      <4>1. /\ obj.state = "Starting" /\ obj.phase = bk[wb].phase
            /\ obj.deleting = bk[wb].deleting /\ obj.fin = bk[wb].fin
            /\ obj.del = bk[wb].del /\ obj.target = bk[wb].target
        BY <3>1 DEF Backup
      <4>2. /\ bk' = [bk EXCEPT ![wb] = Settle(obj)] /\ w' = WIdle
            /\ UNCHANGED <<vs, sts, primary, cluster, enabled, lease>>
        BY <3>3, <1>6, <2>1 DEF WriteThen, WStop, WGoto, SetState, WNew, AtState,
           AtReconcile
      <4>3. Replaced(wb, obj)
        BY <3>1, <4>0, <4>2, WriteSettles
      <4>4. Stopped
        BY <4>2, Stops
      <4>5. TypeOK'
        BY <3>1, <4>2, <4>3, <4>4 DEF TypeOK, Replaced, Worker, Stopped
      <4> HIDE DEF obj
      <4>6. Recorded'
        BY <3>1, <3>3, <4>1, <4>2, <4>3, <4>4 DEF Recorded, Live, ReadTrue, Working,
           Replaced, Stopped
      <4>7. Locked'
        BY <3>1, <3>3, <4>1, <4>2, <4>3, <4>4 DEF Locked, Live, Working, Releasing,
           Terminal, Replaced, Stopped
      <4>8. Suspended'
        BY <3>1, <3>3, <4>1, <4>2, <4>3, <4>4 DEF Suspended, Live, AllReady, Down,
           ReadTrue,
           Working, Recorded, Replaced, Stopped
      <4>9. Taken'
        BY <3>1, <3>3, <4>1, <4>2, <4>3, <4>4, SnapshotsKept DEF Taken, Live, ReadTrue,
           Working, Replaced, Stopped
      <4> QED BY <4>4, <4>5, <4>6, <4>7, <4>8, <4>9 DEF Stopped
    <3> QED BY <3>2, <3>3
  <2>2. CASE WStop /\ UNCHANGED bk
    BY <1>6, <2>2, StopKeeps DEF TypeOK, WNew, WStop
  <2> QED BY <1>6, <2>1, <2>2 DEF WNew
<1>7. CASE WPrepare
  <2>0. /\ w.pc = "reconcile" /\ ~w.snap.deleting /\ w.snap.state = "Starting"
        /\ UNCHANGED <<bk, vs, sts, primary, cluster, enabled, lease>>
    BY <1>7 DEF WPrepare, AtState, AtReconcile
  <2>1. CASE w.snap.fin /\ WGoto("running")
    <3>1. WentTo("running")
      BY <2>1, GoesOn DEF WGoto, WPCs
    <3>2. TypeOK' /\ Recorded' /\ Taken'
      BY <2>0, <3>1, WorkerMoves DEF WentTo
    <3>3. ReadTrue'
      BY <2>0, <2>1, <3>1 DEF ReadTrue, Live, Working, Place, WentTo
    <3>4. Place'
      BY <2>0, <2>1, <3>1 DEF Place, Live, Working, Preparing, Ending, Terminal, WentTo
    <3>5. Locked'
      BY <2>0, <2>1, <3>1 DEF Locked, Live, Working, Releasing, Terminal, WentTo
    <3>6. Suspended'
      BY <2>0, <2>1, <3>1 DEF Suspended, Live, AllReady, Down, WentTo
    <3>7. Observed'
      BY <2>0, <2>1, <3>1 DEF Observed, Working, Ending, AllReady, WentTo
    <3> QED BY <3>2, <3>3, <3>4, <3>5, <3>6, <3>7
  <2>2. CASE /\ ~w.snap.fin
             /\ \E i \in getBackupTarget(w.snap) :
                    w' = [w EXCEPT !.pc = "suspend", !.target = i]
    <3>1. PICK i \in Instances : w' = [w EXCEPT !.pc = "suspend", !.target = i]
      BY <2>2 DEF getBackupTarget, Replicas, TypeOK, Backup
    <3>2. /\ w'.pc = "suspend" /\ wb' = wb /\ w'.snap = w.snap /\ w'.pgNil = w.pgNil
          /\ w'.target \in Instances /\ w' \in Worker
      BY <2>0, <3>1 DEF TypeOK, WPCs, wb, Worker
    <3>3. TypeOK' /\ Recorded' /\ Taken'
      BY <2>0, <3>2, WorkerMoves
    <3>4. ReadTrue'
      BY <2>0, <2>2, <3>2 DEF ReadTrue, Live, Working
    <3>5. Place'
      BY <2>0, <2>2, <3>2 DEF Place, Live, Working, Preparing, Ending, Terminal
    <3>6. Locked'
      BY <2>0, <2>2, <3>2 DEF Locked, Live, Working, Releasing, Terminal
    <3>7. Suspended'
      BY <2>0, <2>2, <3>2 DEF Suspended, Live, AllReady, Down
    <3>8. Observed'
      BY <2>0, <2>2, <3>2 DEF Observed, Working, Ending, AllReady
    <3> QED BY <3>3, <3>4, <3>5, <3>6, <3>7, <3>8
  <2>3. CASE WStop
    BY <2>0, <2>3, StopKeeps DEF TypeOK, WStop
  <2> QED BY <1>7, <2>1, <2>2, <2>3 DEF WPrepare
<1>8. CASE WSuspend
  <2>1. /\ w.pc = "suspend" /\ w' = [w EXCEPT !.pc = "suspending"]
        /\ sts' = [sts EXCEPT ![w.target].suspended = TRUE]
        /\ UNCHANGED <<bk, vs, primary, cluster, enabled, lease>>
    BY <1>8 DEF WSuspend, WGoto
  <2>2. WentTo("suspending")
    BY <2>1, GoesOn DEF WPCs
  <2>3. sts' \in [Instances -> StatefulSet]
    BY <2>1, ZenonT(60) DEF TypeOK, StatefulSet
  <2>4. TypeOK'
    BY <2>1, <2>2, <2>3 DEF TypeOK, WentTo, Worker
  <2>5. /\ sts'[w.target].suspended
        /\ \A i \in Instances : Down(i) => Down(i)'
    BY <2>1 DEF TypeOK, StatefulSet, Down, Place, Working, Preparing
  <2>6. Recorded'
    BY <2>1, <2>2, <2>5 DEF Recorded, Live, WentTo
  <2>7. ReadTrue'
    BY <2>1, <2>2, <2>5 DEF ReadTrue, Live, Working, WentTo
  <2>8. Place'
    BY <2>1, <2>2, <2>5 DEF Place, Live, Working, Preparing, Ending, Terminal, WentTo
  <2>9. Locked'
    BY <2>1, <2>2, <2>5 DEF Locked, Live, Working, Releasing, Terminal, WentTo
  <2>10. Suspended'
    BY <2>1, <2>2, <2>5 DEF Suspended, Live, AllReady, Down, Recorded, TypeOK, Backup,
       WentTo
  <2>11. Taken'
    BY <2>1, <2>2, <2>5, SnapshotsKept DEF Taken, Live, WentTo
  <2>12. Observed'
    BY <2>1, <2>2, <2>5 DEF Observed, Working, Ending, AllReady, WentTo
  <2> QED BY <2>4, <2>6, <2>7, <2>8, <2>9, <2>10, <2>11, <2>12
<1>9. CASE WSuspended
  <2>1. /\ w.pc = "suspending" /\ w' = [w EXCEPT !.pc = "annotate"]
        /\ UNCHANGED <<bk, vs, sts, primary, cluster, enabled, lease>>
    BY <1>9 DEF WSuspended, WGoto
  <2>2. WentTo("annotate")
    BY <2>1, GoesOn DEF WPCs
  <2>3. TypeOK' /\ Recorded' /\ Taken'
    BY <2>1, <2>2, WorkerMoves DEF WentTo
  <2>4. ReadTrue'
    BY <2>1, <2>2 DEF ReadTrue, Live, Working, WentTo
  <2>5. Place'
    BY <2>1, <2>2 DEF Place, Live, Working, Preparing, Ending, Terminal, WentTo
  <2>6. Locked'
    BY <2>1, <2>2 DEF Locked, Live, Working, Releasing, Terminal, WentTo
  <2>7. Suspended'
    BY <2>1, <2>2, <1>9 DEF Suspended, Live, AllReady, Down, WSuspended, Place, Working,
       Preparing, WentTo
  <2>8. Observed'
    BY <2>1, <2>2 DEF Observed, Working, Ending, AllReady, WentTo
  <2> QED BY <2>3, <2>4, <2>5, <2>6, <2>7, <2>8
<1>10. CASE WAnnotate
  <2> DEFINE obj == [bk[wb] EXCEPT !.target = w.target]
  <2>1. w.pc = "annotate" /\ wb \in Backups /\ bk[wb] \in Backup
    BY <1>10 DEF TypeOK, Place, Working, WAnnotate
  <2>2. CASE ~Live(wb)
    BY <2>2, <1>10, StopKeeps DEF TypeOK, WriteThen, WStop, SetState, WAnnotate
  <2>3. CASE Live(wb)
    <3>0. obj \in Backup
      BY <2>1, ObjectsWritten DEF States, Terminal, TypeOK
    <3>1. /\ obj.target = w.target /\ obj.phase = bk[wb].phase
          /\ obj.state = bk[wb].state /\ obj.deleting = bk[wb].deleting
          /\ obj.fin = bk[wb].fin /\ obj.del = bk[wb].del
      BY <2>1 DEF Backup
    <3>2. /\ bk' = [bk EXCEPT ![wb] = Settle(obj)] /\ w' = [w EXCEPT !.pc = "addFin"]
          /\ UNCHANGED <<vs, sts, primary, cluster, enabled, lease>>
      BY <2>3, <1>10 DEF WriteThen, WStop, WGoto, SetState, WAnnotate
    <3>3. Replaced(wb, obj)
      BY <2>1, <3>0, <3>2, WriteSettles
    <3>4. WentTo("addFin")
      BY <3>2, GoesOn DEF WPCs
    <3>5. TypeOK'
      BY <2>1, <3>2, <3>3, <3>4 DEF TypeOK, Replaced, Worker, WentTo
    <3> HIDE DEF obj
    <3>6. Recorded'
      BY <2>1, <2>3, <3>1, <3>2, <3>3, <3>4 DEF Recorded, Live, Place, Working, Preparing,
         ReadTrue, Replaced, WentTo
    <3>7. ReadTrue'
      BY <2>1, <2>3, <3>1, <3>2, <3>3, <3>4 DEF ReadTrue, Live, Working, Replaced, WentTo
    <3>8. Place'
      BY <2>1, <2>3, <3>1, <3>2, <3>3, <3>4 DEF Place, Live, Working, Preparing, Ending,
         Terminal, Replaced, WentTo
    <3>9. Locked'
      BY <2>1, <2>3, <3>1, <3>2, <3>3, <3>4 DEF Locked, Live, Working, Releasing,
         Terminal,
         Place, Preparing, ReadTrue, Replaced, WentTo
    <3>10. Suspended'
      BY <2>1, <2>3, <3>1, <3>2, <3>3, <3>4 DEF Suspended, Live, AllReady, Down, Place,
         Working, Preparing, ReadTrue, Replaced, WentTo
    <3>11. Taken'
      BY <2>1, <2>3, <3>1, <3>2, <3>3, <3>4, SnapshotsKept DEF Taken, Live, Place,
         Working,
         Preparing, ReadTrue, Replaced, WentTo
    <3>12. Observed'
      BY <2>1, <2>3, <3>1, <3>2, <3>3, <3>4 DEF Observed, Working, Ending, AllReady,
         Replaced, WentTo
    <3> QED BY <3>4, <3>5, <3>6, <3>7, <3>8, <3>9, <3>10, <3>11, <3>12
  <2> QED BY <2>2, <2>3
<1>11. CASE WAddFinalizer
  <2> DEFINE obj == [bk[wb] EXCEPT !.fin = TRUE]
  <2>1. w.pc = "addFin" /\ wb \in Backups /\ bk[wb] \in Backup
    BY <1>11 DEF TypeOK, Place, Working, WAddFinalizer
  <2>2. CASE ~Live(wb)
    BY <2>2, <1>11, StopKeeps DEF TypeOK, WriteThen, WStop, SetState, WAddFinalizer
  <2>3. CASE Live(wb)
    <3>0. obj \in Backup
      BY <2>1, ObjectsWritten DEF States, Terminal, TypeOK
    <3>1. /\ obj.fin = TRUE /\ obj.phase = bk[wb].phase
          /\ obj.state = bk[wb].state /\ obj.deleting = bk[wb].deleting
          /\ obj.del = bk[wb].del /\ obj.target = bk[wb].target
      BY <2>1 DEF Backup
    <3>2. /\ bk' = [bk EXCEPT ![wb] = Settle(obj)] /\ w' = [w EXCEPT !.pc = "running"]
          /\ UNCHANGED <<vs, sts, primary, cluster, enabled, lease>>
      BY <2>3, <1>11 DEF WriteThen, WStop, WGoto, SetState, WAddFinalizer
    <3>3. Replaced(wb, obj)
      BY <2>1, <3>0, <3>2, WriteSettles
    <3>4. WentTo("running")
      BY <3>2, GoesOn DEF WPCs
    <3>5. TypeOK'
      BY <2>1, <3>2, <3>3, <3>4 DEF TypeOK, Replaced, Worker, WentTo
    <3> HIDE DEF obj
    <3>6. Recorded'
      BY <2>1, <2>3, <3>1, <3>2, <3>3, <3>4 DEF Recorded, Live, Place, Working, Preparing,
         ReadTrue, Replaced, WentTo
    <3>7. ReadTrue'
      BY <2>1, <2>3, <3>1, <3>2, <3>3, <3>4 DEF ReadTrue, Live, Working, Replaced, WentTo
    <3>8. Place'
      BY <2>1, <2>3, <3>1, <3>2, <3>3, <3>4 DEF Place, Live, Working, Preparing, Ending,
         Terminal, Replaced, WentTo
    <3>9. Locked'
      BY <2>1, <2>3, <3>1, <3>2, <3>3, <3>4 DEF Locked, Live, Working, Releasing,
         Terminal,
         Place, Preparing, ReadTrue, Replaced, WentTo
    <3>10. Suspended'
      BY <2>1, <2>3, <3>1, <3>2, <3>3, <3>4 DEF Suspended, Live, AllReady, Down, Place,
         Working, Preparing, ReadTrue, Replaced, WentTo
    <3>11. Taken'
      BY <2>1, <2>3, <3>1, <3>2, <3>3, <3>4, SnapshotsKept DEF Taken, Live, Replaced,
         WentTo
    <3>12. Observed'
      BY <2>1, <2>3, <3>1, <3>2, <3>3, <3>4 DEF Observed, Working, Ending, AllReady,
         Replaced, WentTo
    <3> QED BY <3>4, <3>5, <3>6, <3>7, <3>8, <3>9, <3>10, <3>11, <3>12
  <2> QED BY <2>2, <2>3
<1>12. CASE WRunning
  <2> DEFINE obj == [bk[wb] EXCEPT !.state = "Running"]
  <2>1. w.pc = "running" /\ wb \in Backups /\ bk[wb] \in Backup
    BY <1>12 DEF TypeOK, Place, Working, WRunning
  <2>2. CASE ~Live(wb)
    BY <2>2, <1>12, StopKeeps DEF TypeOK, WriteThen, WStop, SetState, WRunning
  <2>3. CASE Live(wb)
    <3>0. obj \in Backup
      BY <2>1, ObjectsWritten DEF States, Terminal, TypeOK
    <3>1. /\ obj.state = "Running" /\ obj.phase = bk[wb].phase
          /\ obj.deleting = bk[wb].deleting /\ obj.fin = bk[wb].fin
          /\ obj.del = bk[wb].del /\ obj.target = bk[wb].target
      BY <2>1 DEF Backup
    <3>2. /\ bk' = [bk EXCEPT ![wb] = Settle(obj)] /\ w' = WIdle
          /\ UNCHANGED <<vs, sts, primary, cluster, enabled, lease>>
      BY <2>3, <1>12 DEF WriteThen, WStop, WGoto, SetState, WRunning
    <3>3. Replaced(wb, obj)
      BY <2>1, <3>0, <3>2, WriteSettles
    <3>4. Stopped
      BY <3>2, Stops
    <3>5. TypeOK'
      BY <2>1, <3>2, <3>3, <3>4 DEF TypeOK, Replaced, Worker, Stopped
    <3> HIDE DEF obj
    <3>6. Recorded'
      BY <2>1, <2>3, <3>1, <3>2, <3>3, <3>4 DEF Recorded, Live, Place, Working, ReadTrue,
         Replaced, Stopped
    <3>7. Locked'
      BY <2>1, <2>3, <3>1, <3>2, <3>3, <3>4 DEF Locked, Live, Working, Releasing,
         Terminal,
         Place, ReadTrue, Replaced, Stopped
    <3>8. Suspended'
      BY <2>1, <2>3, <3>1, <3>2, <3>3, <3>4 DEF Suspended, Live, AllReady, Down, Place,
         Working, ReadTrue, Replaced, Stopped
    <3>9. Taken'
      BY <2>1, <2>3, <3>1, <3>2, <3>3, <3>4, SnapshotsKept DEF Taken, Live, Place,
         Working,
         ReadTrue, Replaced, Stopped
    <3> QED BY <3>4, <3>5, <3>6, <3>7, <3>8, <3>9 DEF Stopped
  <2> QED BY <2>2, <2>3
<1>13. CASE WVolumes
  <2>1. /\ w.pc = "reconcile" /\ ~w.snap.deleting /\ w.snap.state = "Running"
        /\ w' = [w EXCEPT !.pc = "volumes", !.todo = Volumes]
        /\ UNCHANGED <<bk, vs, sts, primary, cluster, enabled, lease>>
    BY <1>13 DEF WVolumes, AtState, AtReconcile
  <2>2. /\ w'.pc = "volumes" /\ wb' = wb /\ w'.snap = w.snap /\ w'.pgNil = w.pgNil
        /\ w'.target = w.target /\ w'.todo = Volumes /\ w' \in Worker
    BY <2>1 DEF TypeOK, WPCs, wb, Worker
  <2>3. TypeOK' /\ Recorded' /\ Taken'
    BY <2>1, <2>2, WorkerMoves
  <2>4. ReadTrue'
    BY <2>1, <2>2 DEF ReadTrue, Live, Working
  <2>5. Place'
    BY <2>1, <2>2 DEF Place, Live, Working, Preparing, Ending, Terminal
  <2>6. Locked'
    BY <2>1, <2>2 DEF Locked, Live, Working, Releasing, Terminal
  <2>7. Suspended'
    BY <2>1, <2>2 DEF Suspended, Live, AllReady, Down
  <2>8. Observed'
    BY <2>1, <2>2 DEF Observed, Working, Ending, AllReady
  <2> QED BY <2>3, <2>4, <2>5, <2>6, <2>7, <2>8
<1>14. ASSUME NEW v \in Volumes, WSnapshot(v) PROVE SnapshotInv'
  <2> DEFINE st == vs[wb][v].st
             new == [st |-> "pending", from |-> w.snap.target,
                     still |-> ~sts[w.snap.target].up]
  <2>1. /\ w.pc = "volumes" /\ v \in w.todo
        /\ vs' = IF st = "none" THEN [vs EXCEPT ![wb][v] = new] ELSE vs
        /\ w' = [w EXCEPT !.todo = @ \ {v}, !.seen = Merge(@, st)]
        /\ UNCHANGED <<bk, sts, primary, cluster, enabled, lease>>
    BY <1>14 DEF WSnapshot
  <2>2. /\ wb \in Backups /\ w.snap.state = "Running" /\ ~w.snap.deleting
        /\ w.snap.target \in Instances
    BY <2>1 DEF Place, Working, TypeOK, Backup
  <2>3. st \in {"none", "pending", "error", "overdue", "ready"} /\ new \in Snapshot
    BY <2>2 DEF TypeOK, Snapshot, StatefulSet
  <2>4. Merge(w.seen, st) \in {"ready", "pending", "failed"}
    BY <2>3 DEF Merge, TypeOK
  <2>5. Merge(w.seen, st) = "ready" => st = "ready" /\ w.seen = "ready"
    BY <2>3 DEF Merge, TypeOK
  <2>6. /\ \A b \in Backups \ {wb} : vs'[b] = vs[b]
        /\ \A u \in Volumes \ {v} : vs'[wb][u] = vs[wb][u]
        /\ \/ st # "none" /\ vs'[wb][v] = vs[wb][v]
           \/ st = "none" /\ vs'[wb][v] = new
        /\ vs' \in [Backups -> [Volumes -> Snapshot]]
    BY <2>1, <2>2, <2>3 DEF TypeOK
  <2>7. /\ w'.pc = "volumes" /\ wb' = wb /\ w'.snap = w.snap /\ w'.pgNil = w.pgNil
        /\ w'.target = w.target /\ w'.todo = w.todo \ {v} /\ w'.seen = Merge(w.seen, st)
        /\ TypeOK'
    BY <2>1, <2>4, <2>6 DEF TypeOK, wb
  <2>8. Live(wb) => /\ bk[wb].state = "Running" /\ bk[wb].target = w.snap.target
    BY <2>1, <2>2 DEF ReadTrue, Working
  <2>9. new.st = "pending" /\ new.from = w.snap.target /\ (new.still <=> ~sts[w.snap.target].up)
    OBVIOUS
  <2>10. vs'[wb][v].st = "ready" <=> st = "ready"
    BY <2>6, <2>9
  <2>11. \A b \in Backups : AllReady(b)' <=> AllReady(b)
    BY <2>2, <2>6, <2>10 DEF AllReady
  <2>12. \A b \in Backups : b # wb => OneState(b)' = OneState(b)
    BY <2>6 DEF OneState
  <2>13. bk[wb].state # "Succeeded"
    BY <2>2, <2>8 DEF Recorded
  <2>14. Live(wb) /\ ~bk[wb].deleting /\ st = "none" => ~sts[w.snap.target].up
    BY <2>2, <2>8 DEF Suspended, AllReady, Down
  <2> HIDE DEF new, st
  <2>15. Live(wb) /\ ~bk[wb].deleting => vs'[wb][v].st # "none" /\
             vs'[wb][v].from = bk[wb].target /\ vs'[wb][v].still
    <3>1. CASE st = "none"
      BY <2>6, <2>8, <2>9, <2>14, <3>1
    <3>2. CASE st # "none"
      BY <2>2, <2>6, <2>8, <3>2 DEF Taken, st
    <3> QED BY <3>1, <3>2
  <2>16. bk[wb].phase # "gone" => bk[wb].state = "Running"
    BY <2>1, <2>2, <2>8 DEF Place, Working, TypeOK, Backup, Live
  <2>17. Recorded'
    BY <2>1, <2>2, <2>6, <2>7, <2>8, <2>11 DEF Recorded, Live
  <2>18. ReadTrue'
    BY <2>1, <2>2, <2>6, <2>7, <2>8, <2>11 DEF ReadTrue, Live, Working
  <2>19. Place'
    BY <2>1, <2>2, <2>6, <2>7, <2>8, <2>11 DEF Place, Live, Working, Preparing, Ending,
       Terminal
  <2>20. Locked'
    BY <2>1, <2>2, <2>6, <2>7, <2>8, <2>11 DEF Locked, Live, Working, Releasing, Terminal
  <2>21. Suspended'
    BY <2>1, <2>2, <2>6, <2>7, <2>8, <2>11 DEF Suspended, Live, AllReady, Down
  <2>22. Taken'
    BY <2>1, <2>2, <2>6, <2>7, <2>8, <2>11, <2>12, <2>13, <2>15, <2>16 DEF Taken, Live
  <2>23. Observed'
    BY <2>1, <2>2, <2>6, <2>7, <2>8, <2>11, <2>5, <2>10 DEF Observed, Working, Ending,
       AllReady, st
  <2> QED BY <2>7, <2>17, <2>18, <2>19, <2>20, <2>21, <2>22, <2>23
<1>15. CASE WVolumesDone
  <2>0. /\ w.pc = "volumes" /\ w.todo = {} /\ wb \in Backups
        /\ w.seen \in {"ready", "pending", "failed"}
    BY <1>15 DEF TypeOK, Place, Working, WVolumesDone
  <2>1. CASE w.seen = "failed"
    <3> DEFINE obj == [bk[wb] EXCEPT !.state = "Failed"]
    <3>1. w.pc = "volumes" /\ wb \in Backups /\ bk[wb] \in Backup
      BY <1>15, <2>0, <2>1 DEF TypeOK, Place, Working, WVolumesDone
    <3>2. CASE ~Live(wb)
      BY <3>2, <1>15, <2>0, <2>1, StopKeeps DEF TypeOK, WriteThen, WStop, SetState,
         WVolumesDone
    <3>3. CASE Live(wb)
      <4>0. obj \in Backup
        BY <3>1, ObjectsWritten DEF States, Terminal, TypeOK
      <4>1. /\ obj.state = "Failed" /\ obj.phase = bk[wb].phase
            /\ obj.deleting = bk[wb].deleting /\ obj.fin = bk[wb].fin
            /\ obj.del = bk[wb].del /\ obj.target = bk[wb].target
        BY <3>1 DEF Backup
      <4>2. /\ bk' = [bk EXCEPT ![wb] = Settle(obj)] /\ w' = WIdle
            /\ UNCHANGED <<vs, sts, primary, cluster, enabled, lease>>
        BY <3>3, <1>15, <2>0, <2>1 DEF WriteThen, WStop, WGoto, SetState, WVolumesDone
      <4>3. Replaced(wb, obj)
        BY <3>1, <4>0, <4>2, WriteSettles
      <4>4. Stopped
        BY <4>2, Stops
      <4>5. TypeOK'
        BY <3>1, <4>2, <4>3, <4>4 DEF TypeOK, Replaced, Worker, Stopped
      <4> HIDE DEF obj
      <4>6. Recorded'
        BY <3>1, <3>3, <4>1, <4>2, <4>3, <4>4 DEF Recorded, Live, Replaced, Stopped
      <4>7. Locked'
        BY <3>1, <3>3, <4>1, <4>2, <4>3, <4>4 DEF Locked, Live, Working, Releasing,
           Terminal, Replaced, Stopped
      <4>8. Suspended'
        BY <3>1, <3>3, <4>1, <4>2, <4>3, <4>4 DEF Suspended, Live, AllReady, Down,
           Replaced,
           Stopped
      <4>9. Taken'
        BY <3>1, <3>3, <4>1, <4>2, <4>3, <4>4, SnapshotsKept DEF Taken, Live, Replaced,
           Stopped
      <4> QED BY <4>4, <4>5, <4>6, <4>7, <4>8, <4>9 DEF Stopped
    <3> QED BY <3>2, <3>3
  <2>2. CASE w.seen = "pending"
    BY <1>15, <2>2, StopKeeps DEF TypeOK, WVolumesDone, WStop
  <2>3. CASE w.seen = "ready"
    <3>1. /\ w' = [w EXCEPT !.pc = "complete"]
          /\ UNCHANGED <<bk, vs, sts, primary, cluster, enabled, lease>>
      BY <1>15, <2>3 DEF WVolumesDone, WGoto
    <3>2. WentTo("complete")
      BY <3>1, GoesOn DEF WPCs
    <3>3. TypeOK' /\ Recorded' /\ Taken'
      BY <3>1, <3>2, WorkerMoves DEF WentTo
    <3>4. ReadTrue'
      BY <2>0, <2>3, <3>1, <3>2 DEF ReadTrue, Live, Working, WentTo
    <3>5. Place'
      BY <2>0, <2>3, <3>1, <3>2 DEF Place, Live, Working, Preparing, Ending, Terminal,
         WentTo
    <3>6. Locked'
      BY <2>0, <2>3, <3>1, <3>2 DEF Locked, Live, Working, Releasing, Terminal, WentTo
    <3>7. Suspended'
      BY <2>0, <2>3, <3>1, <3>2 DEF Suspended, Live, AllReady, Down, WentTo
    <3>8. Observed'
      BY <2>0, <2>3, <3>1, <3>2 DEF Observed, Working, Ending, AllReady, WentTo
    <3> QED BY <3>3, <3>4, <3>5, <3>6, <3>7, <3>8
  <2> QED BY <2>0, <2>1, <2>2, <2>3
<1>16. CASE WEnd
  <2>1. /\ w.pc = "reconcile" /\ w' = [w EXCEPT !.pc = "complete"]
        /\ UNCHANGED <<bk, vs, sts, primary, cluster, enabled, lease>>
    BY <1>16 DEF WEnd, WGoto, AtReconcile
  <2>2. WentTo("complete")
    BY <2>1, GoesOn DEF WPCs
  <2>3. TypeOK' /\ Recorded' /\ Taken'
    BY <2>1, <2>2, WorkerMoves DEF WentTo
  <2>4. ReadTrue'
    BY <2>1, <2>2 DEF ReadTrue, Live, Working, WentTo
  <2>5. Place'
    BY <2>1, <2>2, <1>16 DEF Place, Live, Working, Preparing, Ending, Terminal, WEnd,
       WentTo
  <2>6. Locked'
    BY <2>1, <2>2 DEF Locked, Live, Working, Releasing, Terminal, WentTo
  <2>7. Suspended'
    BY <2>1, <2>2 DEF Suspended, Live, AllReady, Down, WentTo
  <2>8. Observed'
    BY <2>1, <2>2, <1>16 DEF Observed, Working, Ending, AllReady, WEnd, Terminal, WentTo
  <2> QED BY <2>3, <2>4, <2>5, <2>6, <2>7, <2>8
<1>17. CASE WComplete
  <2>0. /\ w.pc = "complete" /\ wb \in Backups
        /\ UNCHANGED <<bk, vs, primary, cluster, enabled, lease>>
    BY <1>17 DEF WComplete, Place, Working
  <2>1. CASE ~w.snap.fin /\ (w.snap.deleting \/ w.snap.state \in Terminal)
    BY <1>17, <2>0, <2>1, StopKeeps DEF TypeOK, WComplete, AfterComplete, WStop
  <2>2. CASE ~w.snap.fin /\ ~w.snap.deleting /\ w.snap.state \notin Terminal
    <3>1. w' = [w EXCEPT !.pc = "succeed"] /\ UNCHANGED sts
      BY <1>17, <2>2 DEF WComplete, AfterComplete, WGoto
    <3>2. WentTo("succeed")
      BY <3>1, GoesOn DEF WPCs
    <3>3. TypeOK' /\ Recorded' /\ Taken'
      BY <2>0, <3>1, <3>2, WorkerMoves DEF WentTo
    <3>4. ReadTrue'
      BY <2>0, <2>2, <3>1, <3>2 DEF ReadTrue, Live, Working, Recorded, Place, Ending,
         Terminal, WentTo
    <3>5. Place'
      BY <2>0, <2>2, <3>1, <3>2 DEF Place, Live, Working, Preparing, Ending, Terminal,
         WentTo
    <3>6. Locked'
      BY <2>0, <2>2, <3>1, <3>2 DEF Locked, Live, Working, Releasing, Terminal, WentTo
    <3>7. Suspended'
      BY <2>0, <2>2, <3>1, <3>2 DEF Suspended, Live, AllReady, Down, WentTo
    <3>8. Observed'
      BY <2>0, <2>2, <3>1, <3>2 DEF Observed, Working, Ending, AllReady, WentTo
    <3> QED BY <3>3, <3>4, <3>5, <3>6, <3>7, <3>8
  <2>3. CASE w.snap.fin
    <3>0. getBackupTarget(w.snap) = {w.snap.target} /\ w.snap.target \in Instances
      BY <2>0, <2>3 DEF Place, Working, TypeOK, Backup, getBackupTarget
    <3>1. /\ sts' = [sts EXCEPT ![w.snap.target].suspended = FALSE]
          /\ w' = [w EXCEPT !.pc = "resuming", !.target = w.snap.target]
      BY <1>17, <2>3, <3>0 DEF WComplete
    <3>2. /\ w'.pc = "resuming" /\ wb' = wb /\ w'.snap = w.snap /\ w'.pgNil = w.pgNil
          /\ w'.target = w.snap.target
      BY <3>1 DEF TypeOK, wb
    <3>3. sts' \in [Instances -> StatefulSet]
      BY <3>0, <3>1, ZenonT(60) DEF TypeOK, StatefulSet
    <3>4. TypeOK'
      BY <2>0, <3>0, <3>1, <3>3 DEF TypeOK, WPCs
    <3>5. \A i \in Instances : i # w.snap.target /\ Down(i) => Down(i)'
      BY <3>1 DEF TypeOK, StatefulSet, Down
    <3>6. Live(wb) /\ lease = wb /\ bk[wb].target = w.snap.target
      BY <2>0, <2>3 DEF Place, ReadTrue, Locked, Working, Releasing
    <3>7. \A b \in Backups : Live(b) /\ bk[b].fin => b = wb
      BY <2>0, <3>6 DEF Place, Locked, Working
    <3>8. ~(~bk[wb].deleting /\ bk[wb].state \in {"Starting", "Running"}
            /\ (bk[wb].state = "Running" => ~AllReady(wb)))
      BY <2>0, <3>6 DEF Place, ReadTrue, Observed, Working, Ending, Terminal
    <3>9. Recorded'
      BY <2>0, <2>3, <3>0, <3>2, <3>5, <3>6, <3>7, <3>8 DEF Recorded, Live
    <3>10. ReadTrue'
      BY <2>0, <2>3, <3>0, <3>2, <3>5, <3>6, <3>7, <3>8 DEF ReadTrue, Live, Working
    <3>11. Place'
      BY <2>0, <2>3, <3>0, <3>2, <3>5, <3>6, <3>7, <3>8 DEF Place, Live, Working,
         Preparing,
         Ending, Terminal
    <3>12. Locked'
      BY <2>0, <2>3, <3>0, <3>2, <3>5, <3>6, <3>7, <3>8 DEF Locked, Live, Working,
         Releasing, Terminal
    <3>13. Suspended'
      BY <2>0, <2>3, <3>0, <3>2, <3>5, <3>6, <3>7, <3>8 DEF Suspended, Live, AllReady,
         Down
    <3>14. Taken'
      BY <2>0, <2>3, <3>0, <3>2, <3>5, <3>6, <3>7, <3>8, SnapshotsKept DEF Taken, Live
    <3>15. Observed'
      BY <2>0, <2>3, <3>0, <3>2, <3>5, <3>6, <3>7, <3>8 DEF Observed, Working, Ending,
         AllReady
    <3> QED BY <3>4, <3>9, <3>10, <3>11, <3>12, <3>13, <3>14, <3>15
  <2> QED BY <2>1, <2>2, <2>3
<1>18. CASE WResumed
  <2>1. /\ w.pc = "resuming" /\ w' = [w EXCEPT !.pc = "dropFin"]
        /\ UNCHANGED <<bk, vs, sts, primary, cluster, enabled, lease>>
    BY <1>18 DEF WResumed, WGoto
  <2>2. WentTo("dropFin")
    BY <2>1, GoesOn DEF WPCs
  <2>3. TypeOK' /\ Recorded' /\ Taken'
    BY <2>1, <2>2, WorkerMoves DEF WentTo
  <2>4. ReadTrue'
    BY <2>1, <2>2 DEF ReadTrue, Live, Working, WentTo
  <2>5. Place'
    BY <2>1, <2>2 DEF Place, Live, Working, Preparing, Ending, Terminal, WentTo
  <2>6. Locked'
    BY <2>1, <2>2 DEF Locked, Live, Working, Releasing, Terminal, WentTo
  <2>7. Suspended'
    BY <2>1, <2>2 DEF Suspended, Live, AllReady, Down, WentTo
  <2>8. Observed'
    BY <2>1, <2>2 DEF Observed, Working, Ending, AllReady, WentTo
  <2> QED BY <2>3, <2>4, <2>5, <2>6, <2>7, <2>8
<1>19. CASE WDropFinalizer
  <2>1. CASE w.snap.deleting \/ w.snap.state \in Terminal
    <3> DEFINE obj == [bk[wb] EXCEPT !.fin = FALSE]
    <3>1. w.pc = "dropFin" /\ wb \in Backups /\ bk[wb] \in Backup
      BY <1>19, <2>1 DEF TypeOK, Place, Working, WDropFinalizer, AfterComplete
    <3>2. CASE ~Live(wb)
      BY <3>2, <1>19, <2>1, StopKeeps DEF TypeOK, WriteThen, WStop, SetState,
         WDropFinalizer, AfterComplete
    <3>3. CASE Live(wb)
      <4>0. obj \in Backup
        BY <3>1, ObjectsWritten DEF States, Terminal, TypeOK
      <4>1. /\ obj.fin = FALSE /\ obj.phase = bk[wb].phase
            /\ obj.state = bk[wb].state /\ obj.deleting = bk[wb].deleting
            /\ obj.del = bk[wb].del /\ obj.target = bk[wb].target
        BY <3>1 DEF Backup
      <4>2. /\ bk' = [bk EXCEPT ![wb] = Settle(obj)] /\ w' = WIdle
            /\ UNCHANGED <<vs, sts, primary, cluster, enabled, lease>>
        BY <3>3, <1>19, <2>1 DEF WriteThen, WStop, WGoto, SetState, WDropFinalizer,
           AfterComplete
      <4>3. Replaced(wb, obj)
        BY <3>1, <4>0, <4>2, WriteSettles
      <4>4. Stopped
        BY <4>2, Stops
      <4>5. TypeOK'
        BY <3>1, <4>2, <4>3, <4>4 DEF TypeOK, Replaced, Worker, Stopped
      <4> HIDE DEF obj
      <4>6. Recorded'
        BY <3>1, <3>3, <4>1, <4>2, <4>3, <4>4 DEF Recorded, Live, Replaced, Stopped
      <4>7. Locked'
        BY <3>1, <3>3, <4>1, <4>2, <4>3, <4>4 DEF Locked, Live, Working, Releasing,
           Terminal, Replaced, Stopped
      <4>8. Suspended'
        BY <3>1, <3>3, <4>1, <4>2, <4>3, <4>4, <2>1 DEF Suspended, Live, AllReady, Down,
           Working, ReadTrue, Terminal, Replaced, Stopped
      <4>9. Taken'
        BY <3>1, <3>3, <4>1, <4>2, <4>3, <4>4, SnapshotsKept DEF Taken, Live, Replaced,
           Stopped
      <4> QED BY <4>4, <4>5, <4>6, <4>7, <4>8, <4>9 DEF Stopped
    <3> QED BY <3>2, <3>3
  <2>2. CASE ~(w.snap.deleting \/ w.snap.state \in Terminal)
    <3> DEFINE obj == [bk[wb] EXCEPT !.fin = FALSE]
    <3>1. w.pc = "dropFin" /\ wb \in Backups /\ bk[wb] \in Backup
      BY <1>19, <2>2 DEF TypeOK, Place, Working, WDropFinalizer, AfterComplete
    <3>2. CASE ~Live(wb)
      BY <3>2, <1>19, <2>2, StopKeeps DEF TypeOK, WriteThen, WStop, SetState,
         WDropFinalizer, AfterComplete
    <3>3. CASE Live(wb)
      <4>0. obj \in Backup
        BY <3>1, ObjectsWritten DEF States, Terminal, TypeOK
      <4>1. /\ obj.fin = FALSE /\ obj.phase = bk[wb].phase
            /\ obj.state = bk[wb].state /\ obj.deleting = bk[wb].deleting
            /\ obj.del = bk[wb].del /\ obj.target = bk[wb].target
        BY <3>1 DEF Backup
      <4>2. /\ bk' = [bk EXCEPT ![wb] = Settle(obj)] /\ w' = [w EXCEPT !.pc = "succeed"]
            /\ UNCHANGED <<vs, sts, primary, cluster, enabled, lease>>
        BY <3>3, <1>19, <2>2 DEF WriteThen, WStop, WGoto, SetState, WDropFinalizer,
           AfterComplete
      <4>3. Replaced(wb, obj)
        BY <3>1, <4>0, <4>2, WriteSettles
      <4>4. WentTo("succeed")
        BY <4>2, GoesOn DEF WPCs
      <4>5. TypeOK'
        BY <3>1, <4>2, <4>3, <4>4 DEF TypeOK, Replaced, Worker, WentTo
      <4> HIDE DEF obj
      <4>6. Recorded'
        BY <3>1, <3>3, <4>1, <4>2, <4>3, <4>4 DEF Recorded, Live, Replaced, WentTo
      <4>7. ReadTrue'
        BY <3>1, <3>3, <4>1, <4>2, <4>3, <4>4, <2>2 DEF ReadTrue, Live, Working, Place,
           Terminal, Ending, Recorded, Replaced, WentTo
      <4>8. Place'
        BY <3>1, <3>3, <4>1, <4>2, <4>3, <4>4, <2>2 DEF Place, Live, Working, Preparing,
           Ending, Terminal, Replaced, WentTo
      <4>9. Locked'
        BY <3>1, <3>3, <4>1, <4>2, <4>3, <4>4 DEF Locked, Live, Working, Releasing,
           Terminal, Replaced, WentTo
      <4>10. Suspended'
        BY <3>1, <3>3, <4>1, <4>2, <4>3, <4>4, <2>2 DEF Suspended, Live, AllReady, Down,
           Place, Working, Terminal, Ending, Observed, Replaced, WentTo
      <4>11. Taken'
        BY <3>1, <3>3, <4>1, <4>2, <4>3, <4>4, SnapshotsKept DEF Taken, Live, Replaced,
           WentTo
      <4>12. Observed'
        BY <3>1, <3>3, <4>1, <4>2, <4>3, <4>4, <2>2 DEF Observed, Working, Ending,
           AllReady,
           Replaced, WentTo
      <4> QED BY <4>4, <4>5, <4>6, <4>7, <4>8, <4>9, <4>10, <4>11, <4>12
    <3> QED BY <3>2, <3>3
  <2> QED BY <2>1, <2>2
<1>20. CASE WSucceed
  <2>0. Live(wb) /\ ~bk[wb].deleting => OneState(wb)
    <3>1. Live(wb) /\ ~bk[wb].deleting => \A v \in Volumes :
              vs[wb][v].st = "ready" /\ vs[wb][v].from = w.snap.target /\ vs[wb][v].still
      BY <1>20 DEF WSucceed, Place, ReadTrue, Observed, Taken, Working, Ending, AllReady
    <3>2. w.snap.target \in Instances /\ wb \in Backups
      BY <1>20 DEF WSucceed, Place, Working, TypeOK, Backup
    <3>3. \A v \in Volumes : vs[wb][v] \in Snapshot
      BY <3>2 DEF TypeOK
    <3>4. \A q \in Snapshot : q.st = "ready" /\ q.from = w.snap.target /\ q.still
              => q = [st |-> "ready", from |-> w.snap.target, still |-> TRUE]
      BY DEF Snapshot
    <3> QED BY <3>1, <3>2, <3>3, <3>4 DEF OneState
  <2> DEFINE obj == [bk[wb] EXCEPT !.state = "Succeeded"]
  <2>1. w.pc = "succeed" /\ wb \in Backups /\ bk[wb] \in Backup
    BY <1>20 DEF TypeOK, Place, Working, WSucceed
  <2>2. CASE ~Live(wb)
    BY <2>2, <1>20, StopKeeps DEF TypeOK, WriteThen, WStop, SetState, WSucceed
  <2>3. CASE Live(wb)
    <3>0. obj \in Backup
      BY <2>1, ObjectsWritten DEF States, Terminal, TypeOK
    <3>1. /\ obj.state = "Succeeded" /\ obj.phase = bk[wb].phase
          /\ obj.deleting = bk[wb].deleting /\ obj.fin = bk[wb].fin
          /\ obj.del = bk[wb].del /\ obj.target = bk[wb].target
      BY <2>1 DEF Backup
    <3>2. /\ bk' = [bk EXCEPT ![wb] = Settle(obj)] /\ w' = WIdle
          /\ UNCHANGED <<vs, sts, primary, cluster, enabled, lease>>
      BY <2>3, <1>20 DEF WriteThen, WStop, WGoto, SetState, WSucceed
    <3>3. Replaced(wb, obj)
      BY <2>1, <3>0, <3>2, WriteSettles
    <3>4. Stopped
      BY <3>2, Stops
    <3>5. TypeOK'
      BY <2>1, <3>2, <3>3, <3>4 DEF TypeOK, Replaced, Worker, Stopped
    <3> HIDE DEF obj
    <3>6. Recorded'
      BY <2>1, <2>3, <3>1, <3>2, <3>3, <3>4 DEF Recorded, Live, ReadTrue, Working, Place,
         Replaced, Stopped
    <3>7. Locked'
      BY <2>1, <2>3, <3>1, <3>2, <3>3, <3>4 DEF Locked, Live, Working, Releasing,
         Terminal,
         Replaced, Stopped
    <3>8. Suspended'
      BY <2>1, <2>3, <3>1, <3>2, <3>3, <3>4 DEF Suspended, Live, AllReady, Down, Replaced,
         Stopped
    <3>9. Taken'
      BY <2>1, <2>3, <3>1, <3>2, <3>3, <3>4, <2>0, SnapshotsKept DEF Taken, Live,
         ReadTrue,
         Working, Replaced, Stopped
    <3> QED BY <3>4, <3>5, <3>6, <3>7, <3>8, <3>9 DEF Stopped
  <2> QED BY <2>2, <2>3
<1>21. CASE WTimeout
  BY <1>21, StopKeeps DEF TypeOK, WTimeout, WStop
<1>22. ASSUME NEW i \in Instances, Scale(i) PROVE SnapshotInv'
  <2>1. /\ sts[i].up = sts[i].suspended
        /\ sts' = [sts EXCEPT ![i].up = ~@]
        /\ UNCHANGED <<bk, primary, cluster, enabled, lease, w>>
    BY <1>22 DEF Scale
  <2>2. \A j \in Instances : Down(j) => j # i /\ Down(j)'
    BY <2>1 DEF TypeOK, StatefulSet, Down
  <2> DEFINE kept(b, v) == vs[b][v].still /\ (sts[i].up \/ vs[b][v].from # i
                                              \/ vs[b][v].st = "ready")
  <2>3. \A b \in Backups, v \in Volumes :
            vs[b][v] \in Snapshot /\ vs'[b][v] = [vs[b][v] EXCEPT !.still = kept(b, v)]
    BY <1>22 DEF Scale, TypeOK
  <2>4. \A b \in Backups, v \in Volumes :
          /\ vs'[b][v].st = vs[b][v].st /\ vs'[b][v].from = vs[b][v].from
          /\ (vs'[b][v].still <=> kept(b, v)) /\ vs'[b][v] \in Snapshot
          /\ vs[b][v].st = "ready" /\ vs[b][v].still => vs'[b][v] = vs[b][v]
    <3> SUFFICES ASSUME NEW b \in Backups, NEW v \in Volumes
        PROVE  /\ vs'[b][v].st = vs[b][v].st /\ vs'[b][v].from = vs[b][v].from
               /\ (vs'[b][v].still <=> kept(b, v)) /\ vs'[b][v] \in Snapshot
               /\ vs[b][v].st = "ready" /\ vs[b][v].still => vs'[b][v] = vs[b][v]
      OBVIOUS
    <3>1. kept(b, v) \in BOOLEAN
      OBVIOUS
    <3>2. vs[b][v].st = "ready" /\ vs[b][v].still => kept(b, v) = TRUE
      OBVIOUS
    <3> HIDE DEF kept
    <3>3. vs[b][v] \in Snapshot /\ vs'[b][v] = [vs[b][v] EXCEPT !.still = kept(b, v)]
      BY <2>3
    <3> QED BY <3>1, <3>2, <3>3, SnapshotStill
  <2>5. vs' \in [Backups -> [Volumes -> Snapshot]]
    <3>1. \A b \in Backups : vs'[b] \in [Volumes -> Snapshot]
      BY <1>22, <2>4 DEF Scale
    <3> QED BY <1>22, <3>1 DEF Scale
  <2>6. sts' \in [Instances -> StatefulSet]
    BY <2>1, ZenonT(60) DEF TypeOK, StatefulSet
  <2>7. TypeOK'
    BY <2>1, <2>5, <2>6 DEF TypeOK
  <2>8. \A b \in Backups : AllReady(b)' = AllReady(b)
    BY <2>4 DEF AllReady
  <2>9. \A b \in Backups : OneState(b) => OneState(b)'
    <3> SUFFICES ASSUME NEW b \in Backups, OneState(b) PROVE OneState(b)'
      OBVIOUS
    <3>1. PICK j \in Instances : \A v \in Volumes :
              vs[b][v] = [st |-> "ready", from |-> j, still |-> TRUE]
      BY DEF OneState
    <3>2. \A v \in Volumes : vs'[b][v] = vs[b][v]
      BY <2>4, <3>1
    <3> QED BY <3>1, <3>2 DEF OneState
  <2>10. \A b \in Backups, v \in Volumes : Down(bk[b].target) /\ vs[b][v].from = bk[b].target
           /\ bk[b].target \in Instances /\ vs[b][v].still => vs'[b][v].still
    BY <2>2, <2>4 DEF Down
  <2>11. \A b \in Backups, v \in Volumes :
           vs[b][v].st = "ready" /\ vs[b][v].still => vs'[b][v].still
    BY <2>4
  <2>12. /\ w.pc \in {"suspending", "annotate", "addFin"} => w.target \in Instances
         /\ \A j \in Instances : sts'[j].suspended = sts[j].suspended
    BY <2>1 DEF Place, Working, Preparing, TypeOK, StatefulSet
  <2> HIDE DEF kept
  <2>13. Recorded'
    BY <2>1, <2>2, <2>4, <2>8 DEF Recorded, Live
  <2>14. ReadTrue'
    BY <2>1, <2>2, <2>4, <2>8 DEF ReadTrue, Live, Working, wb
  <2>15. Place'
    BY <2>1, <2>2, <2>4, <2>8 DEF Place, Live, Working, Preparing, Ending, Terminal, wb
  <2>16. Locked'
    BY <2>1, <2>2, <2>4, <2>8 DEF Locked, Live, Working, Releasing, Terminal, wb
  <2>17. Suspended'
    BY <2>1, <2>2, <2>4, <2>8, <1>0, <2>12 DEF Suspended, Live, AllReady, Down,
       Recorded, wb
  <2>18. Taken'
    BY <2>1, <2>2, <2>4, <2>8, <1>0, <2>9, <2>10, <2>11 DEF Taken, Live, Suspended,
       AllReady, Recorded
  <2>19. Observed'
    BY <2>1, <2>2, <2>4, <2>8 DEF Observed, Working, Ending, AllReady, wb, Place
  <2> QED BY <2>7, <2>13, <2>14, <2>15, <2>16, <2>17, <2>18, <2>19
<1>23. ASSUME NEW i \in Instances, Failover(i) PROVE SnapshotInv'
  BY <1>23, UnseenChange DEF Failover, TypeOK
<1>24. ASSUME NEW b \in Backups, NEW v \in Volumes, SnapshotReady(b, v) PROVE SnapshotInv'
  <2> DEFINE s == "ready"
  <2>1. /\ vs[b][v].st \in {"pending", "error", "overdue"}
        /\ UNCHANGED <<bk, sts, primary, cluster, enabled, lease, w>>
        /\ vs[b] \in [Volumes -> Snapshot] /\ vs[b][v] \in Snapshot
        /\ vs' = [vs EXCEPT ![b] = [vs[b] EXCEPT ![v] = [vs[b][v] EXCEPT !.st = s]]]
    BY <1>24 DEF SnapshotReady, TypeOK
  <2>2. s \in {"error", "overdue", "ready"}
    OBVIOUS
  <2> HIDE DEF s
  <2> DEFINE q == [vs[b][v] EXCEPT !.st = s]
  <2>3. /\ q \in Snapshot /\ q.st = s /\ q.from = vs[b][v].from
        /\ (q.still <=> vs[b][v].still)
    BY <2>1, <2>2, SnapshotStatus
  <2> HIDE DEF q
  <2>4. /\ \A c \in Backups \ {b} : vs'[c] = vs[c]
        /\ \A u \in Volumes \ {v} : vs'[b][u] = vs[b][u]
        /\ vs'[b][v] = q
        /\ vs' \in [Backups -> [Volumes -> Snapshot]]
    BY <2>1, <2>3 DEF TypeOK, q
  <2>5. /\ vs'[b][v].st \in {"error", "overdue", "ready"}
        /\ vs'[b][v].from = vs[b][v].from
        /\ (vs'[b][v].still <=> vs[b][v].still)
    BY <2>2, <2>3, <2>4
  <2>6. TypeOK'
    BY <2>1, <2>4 DEF TypeOK
  <2>7. ~OneState(b) /\ \A c \in Backups : c # b => OneState(c)' = OneState(c)
    BY <2>1, <2>4 DEF OneState
  <2>8. \A c \in Backups : AllReady(c) => AllReady(c)'
    BY <2>1, <2>4 DEF AllReady
  <2>9. Recorded'
    BY <2>1, <2>4, <2>5, <2>7, <2>8 DEF Recorded, Live
  <2>10. ReadTrue'
    BY <2>1, <2>4, <2>5, <2>7, <2>8 DEF ReadTrue, Live, Working, wb, Place
  <2>11. Place'
    BY <2>1, <2>4, <2>5, <2>7, <2>8 DEF Place, Live, Working, Preparing, Ending, Terminal,
       wb
  <2>12. Locked'
    BY <2>1, <2>4, <2>5, <2>7, <2>8 DEF Locked, Live, Working, Releasing, Terminal, wb,
       Place
  <2>13. Suspended'
    BY <2>1, <2>4, <2>5, <2>7, <2>8 DEF Suspended, Live, AllReady, Down
  <2>14. Taken'
    BY <2>1, <2>4, <2>5, <2>7, <2>8 DEF Taken, Live
  <2>15. Observed'
    BY <2>1, <2>4, <2>5, <2>7, <2>8 DEF Observed, Working, Ending, AllReady, wb, Place
  <2> QED BY <2>6, <2>9, <2>10, <2>11, <2>12, <2>13, <2>14, <2>15
<1>25. ASSUME NEW b \in Backups, NEW v \in Volumes, SnapshotError(b, v) PROVE SnapshotInv'
  <2> DEFINE s == IF vs[b][v].st = "pending" THEN "error" ELSE "overdue"
  <2>1. /\ vs[b][v].st \in {"pending", "error", "overdue"}
        /\ UNCHANGED <<bk, sts, primary, cluster, enabled, lease, w>>
        /\ vs[b] \in [Volumes -> Snapshot] /\ vs[b][v] \in Snapshot
        /\ vs' = [vs EXCEPT ![b] = [vs[b] EXCEPT ![v] = [vs[b][v] EXCEPT !.st = s]]]
    BY <1>25 DEF SnapshotError, TypeOK
  <2>2. s \in {"error", "overdue", "ready"}
    OBVIOUS
  <2> HIDE DEF s
  <2> DEFINE q == [vs[b][v] EXCEPT !.st = s]
  <2>3. /\ q \in Snapshot /\ q.st = s /\ q.from = vs[b][v].from
        /\ (q.still <=> vs[b][v].still)
    BY <2>1, <2>2, SnapshotStatus
  <2> HIDE DEF q
  <2>4. /\ \A c \in Backups \ {b} : vs'[c] = vs[c]
        /\ \A u \in Volumes \ {v} : vs'[b][u] = vs[b][u]
        /\ vs'[b][v] = q
        /\ vs' \in [Backups -> [Volumes -> Snapshot]]
    BY <2>1, <2>3 DEF TypeOK, q
  <2>5. /\ vs'[b][v].st \in {"error", "overdue", "ready"}
        /\ vs'[b][v].from = vs[b][v].from
        /\ (vs'[b][v].still <=> vs[b][v].still)
    BY <2>2, <2>3, <2>4
  <2>6. TypeOK'
    BY <2>1, <2>4 DEF TypeOK
  <2>7. ~OneState(b) /\ \A c \in Backups : c # b => OneState(c)' = OneState(c)
    BY <2>1, <2>4 DEF OneState
  <2>8. \A c \in Backups : AllReady(c) => AllReady(c)'
    BY <2>1, <2>4 DEF AllReady
  <2>9. Recorded'
    BY <2>1, <2>4, <2>5, <2>7, <2>8 DEF Recorded, Live
  <2>10. ReadTrue'
    BY <2>1, <2>4, <2>5, <2>7, <2>8 DEF ReadTrue, Live, Working, wb, Place
  <2>11. Place'
    BY <2>1, <2>4, <2>5, <2>7, <2>8 DEF Place, Live, Working, Preparing, Ending, Terminal,
       wb
  <2>12. Locked'
    BY <2>1, <2>4, <2>5, <2>7, <2>8 DEF Locked, Live, Working, Releasing, Terminal, wb,
       Place
  <2>13. Suspended'
    BY <2>1, <2>4, <2>5, <2>7, <2>8 DEF Suspended, Live, AllReady, Down
  <2>14. Taken'
    BY <2>1, <2>4, <2>5, <2>7, <2>8 DEF Taken, Live
  <2>15. Observed'
    BY <2>1, <2>4, <2>5, <2>7, <2>8 DEF Observed, Working, Ending, AllReady, wb, Place
  <2> QED BY <2>6, <2>9, <2>10, <2>11, <2>12, <2>13, <2>14, <2>15
<1>26. ASSUME NEW b \in Backups, Create(b) PROVE SnapshotInv'
  <2> DEFINE obj == [bk[b] EXCEPT !.phase = "live"]
  <2>1. /\ bk[b].phase = "absent" /\ bk' = [bk EXCEPT ![b] = obj] /\ bk[b] \in Backup
        /\ UNCHANGED <<vs, sts, primary, cluster, enabled, lease, w>>
    BY <1>26 DEF Create, TypeOK
  <2>2. obj \in Backup
    BY <2>1, ObjectsWritten
  <2>3. /\ \A c \in Backups \ {b} : bk'[c] = bk[c]
        /\ bk'[b].phase = "live" /\ bk'[b].state = bk[b].state /\ bk'[b].fin = bk[b].fin
        /\ bk'[b].deleting = bk[b].deleting /\ bk'[b].del = bk[b].del
        /\ bk'[b].target = bk[b].target
    BY <2>1 DEF TypeOK, Backup
  <2>4. TypeOK'
    BY <2>1, <2>2 DEF TypeOK
  <2>5. Recorded'
    BY <2>1, <2>3 DEF Recorded, Live, wb, Place, Working
  <2>6. ReadTrue'
    BY <2>1, <2>3 DEF ReadTrue, Live, Working, wb, Place, Recorded
  <2>7. Place'
    BY <2>1, <2>3 DEF Place, Live, Working, Preparing, Ending, Terminal, wb, Recorded
  <2>8. Locked'
    BY <2>1, <2>3 DEF Locked, Live, Working, Releasing, Terminal, wb, Place, Recorded
  <2>9. Suspended'
    BY <2>1, <2>3 DEF Suspended, Live, AllReady, Down, wb, Place, Recorded, Working
  <2>10. Taken'
    BY <2>1, <2>3, SnapshotsKept DEF Taken, Live, wb, Place, Recorded, Working
  <2>11. Observed'
    BY <2>1, <2>3 DEF Observed, Working, Ending, AllReady, wb, Place, Recorded, Live
  <2> QED BY <2>4, <2>5, <2>6, <2>7, <2>8, <2>9, <2>10, <2>11
<1>27. ASSUME NEW b \in Backups, Delete(b) PROVE SnapshotInv'
  <2> DEFINE obj == [bk[b] EXCEPT !.deleting = TRUE]
  <2>1. /\ Live(b) /\ ~bk[b].deleting /\ bk' = [bk EXCEPT ![b] = Settle(obj)]
        /\ bk[b] \in Backup
        /\ UNCHANGED <<vs, sts, primary, cluster, enabled, lease, w>>
    BY <1>27 DEF Delete, TypeOK
  <2>2. obj \in Backup
    BY <2>1, ObjectsWritten
  <2>3. /\ obj.deleting /\ obj.phase = bk[b].phase /\ obj.state = bk[b].state
        /\ obj.fin = bk[b].fin /\ obj.del = bk[b].del /\ obj.target = bk[b].target
    BY <2>1 DEF Backup
  <2>4. Replaced(b, obj)
    BY <2>1, <2>2, WriteSettles
  <2>5. TypeOK'
    BY <2>1, <2>4 DEF TypeOK, Replaced
  <2> HIDE DEF obj
  <2>6. Recorded'
    BY <2>1, <2>3, <2>4 DEF Recorded, Live, wb, Place, Working, ReadTrue, Replaced
  <2>7. ReadTrue'
    BY <2>1, <2>3, <2>4 DEF ReadTrue, Live, Working, wb, Place, Recorded, Replaced
  <2>8. Place'
    BY <2>1, <2>3, <2>4 DEF Place, Live, Working, Preparing, Ending, Terminal, wb,
       Recorded,
       ReadTrue, Replaced
  <2>9. Locked'
    BY <2>1, <2>3, <2>4 DEF Locked, Live, Working, Releasing, Terminal, wb, Place,
       Recorded,
       ReadTrue, Replaced
  <2>10. Suspended'
    BY <2>1, <2>3, <2>4 DEF Suspended, Live, AllReady, Down, wb, Place, Recorded, Working,
       ReadTrue, Replaced
  <2>11. Taken'
    BY <2>1, <2>3, <2>4, SnapshotsKept DEF Taken, Live, wb, Place, Recorded, Working,
       ReadTrue, Replaced
  <2>12. Observed'
    BY <2>1, <2>3, <2>4 DEF Observed, Working, Ending, AllReady, wb, Place, Recorded,
       ReadTrue, Replaced
  <2> QED BY <2>5, <2>6, <2>7, <2>8, <2>9, <2>10, <2>11, <2>12
<1>28. CASE DeleteCluster
  <2>1. cluster' = FALSE /\ UNCHANGED <<bk, vs, sts, primary, enabled, lease, w>>
    BY <1>28 DEF DeleteCluster
  <2>2. TypeOK'
    BY <2>1 DEF TypeOK
  <2>3. Recorded'
    BY <2>1 DEF Recorded, Live, wb
  <2>4. ReadTrue'
    BY <2>1 DEF ReadTrue, Live, Working, wb
  <2>5. Place'
    BY <2>1 DEF Place, Live, Working, Preparing, Ending, Terminal, wb
  <2>6. Locked'
    BY <2>1 DEF Locked, Live, Working, Releasing, Terminal, wb
  <2>7. Suspended'
    BY <2>1 DEF Suspended, Live, AllReady, Down, wb
  <2>8. Taken'
    BY <2>1, SnapshotsKept DEF Taken, Live, wb
  <2>9. Observed'
    BY <2>1 DEF Observed, Working, Ending, AllReady, wb
  <2> QED BY <2>2, <2>3, <2>4, <2>5, <2>6, <2>7, <2>8, <2>9
<1>29. CASE Disable
  BY <1>29, UnseenChange DEF Disable, TypeOK
<1>30. CASE Crash
  BY <1>30, StopKeeps DEF TypeOK, Crash
<1>31. CASE Restart
  BY <1>31, StopKeeps DEF TypeOK, Restart, WStop
<1>32. CASE UNCHANGED vars
  BY <1>32, UnseenChange DEF vars, TypeOK
<1> QED
  BY <1>1, <1>2, <1>3, <1>4, <1>5, <1>6, <1>7, <1>8, <1>9, <1>10, <1>11, <1>12, <1>13,
     <1>14, <1>15, <1>16,
     <1>17, <1>18, <1>19, <1>20, <1>21, <1>22, <1>23, <1>24, <1>25, <1>26, <1>27, <1>28, <1>29, <1>30, <1>31, <1>32
     DEF Next, W, Environment

-----------------------------------------------------------------------------
(* The theorems.                                                           *)

\* The initial state: no backup exists, every instance is up.
LEMMA SnapshotInit == Init => SnapshotInv
<1> SUFFICES ASSUME Init PROVE SnapshotInv
    OBVIOUS
<1> USE NoneAssumption DEF Init
<1>0. Unborn \in Backup /\ NoSnapshot \in Snapshot
  BY DEF Unborn, Backup, States, NoSnapshot, Snapshot
<1>1. TypeOK
  <2>1. w \in Worker
    BY <1>0 DEF WIdle, WPCs, Worker
  <2>2. sts \in [Instances -> StatefulSet]
    BY DEF StatefulSet
  <2> QED BY <1>0, <2>1, <2>2 DEF TypeOK, Worker
<1>2. Recorded /\ Taken
  BY DEF Recorded, Taken, Live, Unborn, NoSnapshot
<1>3. ReadTrue /\ Place /\ Observed
  BY DEF ReadTrue, Place, Observed, Working, WIdle
<1>4. Locked /\ Suspended
  BY DEF Locked, Suspended, Working, WIdle, Live, Unborn
<1> QED BY <1>1, <1>2, <1>3, <1>4 DEF SnapshotInv

\* The inductive invariant holds in every reachable state, for any numbers of
\* backups, instances and volumes and whichever faults happen.
THEOREM SnapshotInvariant == Spec => []SnapshotInv
BY SnapshotInit, SnapshotStep, PTL DEF Spec

\* The objects, the StatefulSets and the worker keep their types.
THEOREM SnapshotTypeOK == Spec => []TypeOK
<1>1. SnapshotInv => TypeOK
  BY DEF SnapshotInv
<1> QED BY <1>1, SnapshotInvariant, PTL

\* From the annotation of the target until the last snapshot is ready, the
\* instance that reconcileRunning takes snapshots of is suspended, without a Pod
\* and protected by the finalizer and the lock.
THEOREM InstanceDownWhileRunning == Spec => []DownWhileRunning
<1>1. SnapshotInv => DownWhileRunning
  <2> SUFFICES ASSUME SnapshotInv, NEW b \in Backups, cluster, Live(b),
                      bk[b].state = "Running", ~bk[b].deleting, ~AllReady(b)
               PROVE  /\ bk[b].fin /\ lease = b /\ bk[b].target # None
                      /\ sts[bk[b].target] = [suspended |-> TRUE, up |-> FALSE]
    BY DEF DownWhileRunning, AllReady
  <2>1. bk[b].fin /\ bk[b].target # None /\ Down(bk[b].target)
    BY DEF SnapshotInv, Suspended, Recorded
  <2>2. lease = b
    BY <2>1 DEF SnapshotInv, Locked
  <2>3. bk[b].target \in Instances
    BY <2>1 DEF SnapshotInv, TypeOK, Backup
  <2>4. sts[bk[b].target] \in StatefulSet
    BY <2>3 DEF SnapshotInv, TypeOK
  <2>5. sts[bk[b].target] = [suspended |-> TRUE, up |-> FALSE]
    BY <2>1, <2>4 DEF Down, StatefulSet
  <2> QED BY <2>1, <2>2, <2>5
<1> QED BY <1>1, SnapshotInvariant, PTL

\* Whatever fails, crashes or is deleted, a backup is Succeeded only with a
\* snapshot of every volume of one instance that stood still all the time.
THEOREM SucceededIsConsistent == Spec => []SnapshotConsistent
<1>1. SnapshotInv => SnapshotConsistent
  BY DEF SnapshotInv, Taken, OneState, SnapshotConsistent
<1> QED BY <1>1, SnapshotInvariant, PTL

-----------------------------------------------------------------------------
(* The verdict of a backup.                                                *)

Verdict == \A b \in Backups : bk[b].state \in Terminal =>
               \/ bk'[b].phase = "gone" \/ bk'[b].state = bk[b].state
               \/ bk'[b].state = "Failed" /\ ~(cluster /\ enabled)

\* A write that leaves the state alone, is made to a backup that has not ended, or
\* fails one without its cluster or its configuration, keeps every verdict.
LEMMA WriteKeepsVerdict ==
    ASSUME TypeOK, NEW b \in Backups, NEW obj \in Backup,
           bk' = [bk EXCEPT ![b] = Settle(obj)],
           \/ obj.state = bk[b].state \/ bk[b].state \notin Terminal
           \/ obj.state = "Failed" /\ ~(cluster /\ enabled)
    PROVE  Verdict
<1>1. Replaced(b, obj)
  BY WriteSettles
<1> QED BY <1>1 DEF Replaced, Verdict

\* So does a write of the worker to its own backup.
LEMMA WorkerKeepsVerdict ==
    ASSUME SnapshotInv, Working, NEW obj \in Backup,
           \/ Live(wb) /\ bk' = [bk EXCEPT ![wb] = Settle(obj)]
           \/ UNCHANGED bk,
           \/ obj.state = bk[wb].state \/ w.snap.state \notin Terminal
           \/ obj.state = "Failed" /\ ~(cluster /\ enabled)
    PROVE  Verdict
<1>1. wb \in Backups
  BY DEF SnapshotInv, Place
<1>2. CASE UNCHANGED bk
  BY <1>2 DEF Verdict
<1>3. CASE Live(wb) /\ bk' = [bk EXCEPT ![wb] = Settle(obj)]
  BY <1>1, <1>3, WriteKeepsVerdict DEF SnapshotInv, ReadTrue
<1> QED BY <1>2, <1>3

\* The worker has not read that volume snapshots are off while they are on.
Configured == enabled => w.on

\* What the worker has read of the configuration is not undone behind its back.
LEMMA StaysConfigured == Spec => []Configured
<1>1. Init => Configured
  BY DEF Init, Configured, WIdle
<1>2. SnapshotInv /\ Configured /\ [Next]_vars => Configured'
  <2> SUFFICES ASSUME SnapshotInv, Configured, [Next]_vars PROVE Configured'
    OBVIOUS
  <2>0. /\ WStop => w'.on
        /\ \A l \in WPCs : WGoto(l) => (w.on => w'.on)
        /\ AfterComplete => (w.on => w'.on)
        /\ AfterLease \in WPCs
    BY DEF SnapshotInv, Configured, TypeOK, WStop, WGoto, WIdle, AfterComplete, WPCs,
       AfterLease
  <2> USE <2>0 DEF SnapshotInv, Configured, TypeOK, WPCs
  <2>1. ASSUME NEW b \in Backups, WGet(b) PROVE Configured'
    BY <2>1 DEF WGet, WIdle
  <2>2. CASE WRelease
    BY <2>2 DEF WRelease, WriteThen
  <2>3. CASE WAcquire
    BY <2>3 DEF WAcquire, WriteThen
  <2>4. CASE WFinalize
    <3>1. CASE w.snap.deleting \/ w.snap.state = "Failed"
      BY <2>4, <3>1 DEF WFinalize, WriteThen
    <3>2. CASE ~w.snap.deleting /\ w.snap.state = "New"
      BY <2>4, <3>2 DEF WFinalize, WriteThen
    <3>3. CASE ~w.snap.deleting /\ w.snap.state = "Succeeded"
      BY <2>4, <3>3 DEF WFinalize, WriteThen
    <3>4. CASE ~w.snap.deleting /\ w.snap.state \in {"Starting", "Running"}
      BY <2>4, <3>4 DEF WFinalize, SnapshotInv, Place, Working
    <3> QED BY <3>1, <3>2, <3>3, <3>4 DEF Backup, States, Terminal
  <2>5. CASE WDisabled \/ WNew \/ WAnnotate \/ WAddFinalizer \/ WRunning
    BY <2>5 DEF WDisabled, WNew, WAnnotate, WAddFinalizer, WRunning, WriteThen
  <2>6. CASE WPrepare
    BY <2>6 DEF WPrepare
  <2>7. CASE WSuspend \/ WSuspended \/ WVolumes \/ \E v \in Volumes : WSnapshot(v)
    BY <2>7 DEF WSuspend, WSuspended, WVolumes, WSnapshot
  <2>8. CASE WVolumesDone
    BY <2>8 DEF WVolumesDone, WriteThen
  <2>9. CASE WEnd \/ WComplete \/ WResumed \/ WTimeout
    BY <2>9 DEF WEnd, WComplete, WResumed, WTimeout
  <2>10. CASE WDropFinalizer \/ WSucceed
    BY <2>10 DEF WDropFinalizer, WSucceed, WriteThen
  <2>11. CASE Environment
    <3>1. CASE Crash \/ Restart
      BY <3>1 DEF Crash, Restart, WIdle
    <3> QED BY <2>11, <3>1 DEF Environment, Scale, Failover, SnapshotReady, SnapshotError,
                               Create, Delete, DeleteCluster, Disable
  <2>12. CASE UNCHANGED vars
    BY <2>12 DEF vars
  <2> QED BY <2>1, <2>2, <2>3, <2>4, <2>5, <2>6, <2>7, <2>8, <2>9, <2>10, <2>11, <2>12
          DEF Next, W
<1> QED BY <1>1, <1>2, SnapshotInvariant, PTL DEF Spec

\* No later reconcile, crash or deletion changes the state of a backup that has
\* ended, but for the success that the reconciler turns into a failure once the
\* cluster is gone or does not configure volume snapshots any more.
THEOREM VerdictIsKept == Spec => VerdictKept
<1>1. SnapshotInv /\ Configured /\ [Next]_vars => [Verdict]_vars
  <2> SUFFICES ASSUME SnapshotInv, Configured, Next PROVE Verdict
    OBVIOUS
  <2>0. /\ TypeOK
        /\ Working => wb \in Backups /\ bk[wb] \in Backup
        /\ \A b \in Backups : bk[b] \in Backup
    BY DEF SnapshotInv, Place, TypeOK
  <2>1. ASSUME NEW b \in Backups, WGet(b) PROVE Verdict
    BY <2>0, <2>1 DEF WGet, Verdict, Terminal, TypeOK
  <2>2. CASE WRelease \/ WAcquire
    <3>1. ASSUME NEW x \in BOOLEAN PROVE [bk[wb] EXCEPT !.acquired = x].state = bk[wb].state
      OBVIOUS
    <3>2. ASSUME NEW x \in BOOLEAN, Working PROVE [bk[wb] EXCEPT !.acquired = x] \in Backup
      BY <2>0, <3>2, ObjectsWritten
    <3>3. Working /\ \/ UNCHANGED bk
                     \/ \E x \in BOOLEAN : Live(wb) /\
                           bk' = [bk EXCEPT ![wb] = Settle([bk[wb] EXCEPT !.acquired = x])]
      BY <2>2 DEF WRelease, WAcquire, WriteThen, Working
    <3> QED BY <3>1, <3>2, <3>3, WorkerKeepsVerdict DEF Verdict
  <2>3. CASE WFinalize
    <3> DEFINE Wrote(obj) == Live(wb) /\ bk' = [bk EXCEPT ![wb] = Settle(obj)]
               done == [bk[wb] EXCEPT !.fin = FALSE, !.del = FALSE]
               held == [bk[wb] EXCEPT !.del = TRUE, !.state = "Failed"]
               failed == [bk[wb] EXCEPT !.state = "Failed"]
    <3>1. /\ Working /\ ~cluster
          /\ UNCHANGED bk \/ Wrote(done) \/ Wrote(held) \/ Wrote(failed)
      BY <2>3 DEF WFinalize, WriteThen, SetState, Working, SnapshotInv, Place, TypeOK,
         Backup, States, Terminal
    <3>2. done \in Backup /\ held \in Backup /\ failed \in Backup
      BY <2>0, <3>1, ObjectsWritten DEF States, Terminal
    <3>3. done.state = bk[wb].state /\ held.state = "Failed" /\ failed.state = "Failed"
      BY <2>0, <3>1 DEF Backup
    <3> HIDE DEF done, held, failed
    <3> QED BY <3>1, <3>2, <3>3, WorkerKeepsVerdict DEF Verdict
  <2>4. CASE WDisabled
    <3>1. /\ Working /\ ~enabled
          /\ \/ UNCHANGED bk
             \/ Live(wb) /\ bk' = [bk EXCEPT ![wb] = Settle([bk[wb] EXCEPT !.state = "Failed"])]
      BY <2>4 DEF WDisabled, WriteThen, SetState, Working, Configured
    <3>2. [bk[wb] EXCEPT !.state = "Failed"] \in Backup
      BY <2>0, <3>1, ObjectsWritten DEF States, Terminal
    <3>3. [bk[wb] EXCEPT !.state = "Failed"].state = "Failed"
      BY <2>0, <3>1 DEF Backup
    <3> QED BY <3>1, <3>2, <3>3, WorkerKeepsVerdict
  <2>5. CASE WNew \/ WRunning \/ WVolumesDone \/ WSucceed
    <3> DEFINE Wrote(s) == /\ Live(wb)
                           /\ bk' = [bk EXCEPT ![wb] = Settle([bk[wb] EXCEPT !.state = s])]
    <3>1. Working /\ w.snap.state \notin Terminal
      BY <2>5 DEF WNew, WRunning, WVolumesDone, WSucceed, AtState, AtReconcile, Working,
                  SnapshotInv, Place, Terminal
    <3>2. UNCHANGED bk \/ Wrote("Starting") \/ Wrote("Running") \/ Wrote("Succeeded")
          \/ Wrote("Failed")
      <4>1. CASE WNew
        BY <4>1 DEF WNew, WriteThen, SetState
      <4>2. CASE WRunning
        BY <4>2 DEF WRunning, WriteThen, SetState
      <4>3. CASE WSucceed
        BY <4>3 DEF WSucceed, WriteThen, SetState
      <4>4. CASE WVolumesDone
        BY <4>4 DEF WVolumesDone, WriteThen, SetState, SnapshotInv, TypeOK
      <4> QED BY <2>5, <4>1, <4>2, <4>3, <4>4
    <3>3. ASSUME NEW s \in States PROVE [bk[wb] EXCEPT !.state = s] \in Backup
      BY <2>0, <3>1, ObjectsWritten
    <3>4. ASSUME NEW s \in States, Wrote(s) PROVE Verdict
      BY <3>1, <3>3, <3>4, WorkerKeepsVerdict
    <3> QED BY <3>2, <3>4 DEF Verdict, States, Terminal
  <2>6. CASE WAnnotate
    <3>1. /\ Working /\ w.snap.state \notin Terminal
          /\ \/ UNCHANGED bk
             \/ Live(wb) /\ bk' = [bk EXCEPT ![wb] = Settle([bk[wb] EXCEPT !.target = w.target])]
      BY <2>6 DEF WAnnotate, WriteThen, Working, SnapshotInv, Place, Preparing, Terminal
    <3>2. [bk[wb] EXCEPT !.target = w.target] \in Backup
      BY <2>0, <3>1, ObjectsWritten DEF TypeOK
    <3> QED BY <3>1, <3>2, WorkerKeepsVerdict
  <2>7. CASE WAddFinalizer \/ WDropFinalizer
    <3>1. /\ Working
          /\ \/ UNCHANGED bk
             \/ \E x \in BOOLEAN : Live(wb) /\
                   bk' = [bk EXCEPT ![wb] = Settle([bk[wb] EXCEPT !.fin = x])]
      BY <2>7 DEF WAddFinalizer, WDropFinalizer, WriteThen, Working
    <3>2. ASSUME NEW x \in BOOLEAN PROVE [bk[wb] EXCEPT !.fin = x] \in Backup
      BY <2>0, <3>1, ObjectsWritten
    <3>3. ASSUME NEW x \in BOOLEAN PROVE [bk[wb] EXCEPT !.fin = x].state = bk[wb].state
      OBVIOUS
    <3> QED BY <3>1, <3>2, <3>3, WorkerKeepsVerdict DEF Verdict
  <2>8. CASE UNCHANGED bk
    BY <2>8 DEF Verdict
  <2>9. ASSUME NEW b \in Backups, Create(b) PROVE Verdict
    BY <2>0, <2>9 DEF Create, Verdict, TypeOK
  <2>10. ASSUME NEW b \in Backups, Delete(b) PROVE Verdict
    <3>1. [bk[b] EXCEPT !.deleting = TRUE] \in Backup
      BY <2>0, ObjectsWritten
    <3>2. [bk[b] EXCEPT !.deleting = TRUE].state = bk[b].state
      OBVIOUS
    <3> QED BY <2>0, <2>10, <3>1, <3>2, WriteKeepsVerdict DEF Delete, TypeOK
  <2>11. WPrepare \/ WSuspend \/ WSuspended \/ WVolumes \/ (\E v \in Volumes : WSnapshot(v))
         \/ WEnd \/ WComplete \/ WResumed \/ WTimeout => UNCHANGED bk
    BY DEF WPrepare, WSuspend, WSuspended, WVolumes, WSnapshot, WEnd, WComplete,
       WResumed, WTimeout
  <2>12. \/ \E i \in Instances : Scale(i) \/ Failover(i)
         \/ \E b \in Backups, v \in Volumes : SnapshotReady(b, v) \/ SnapshotError(b, v)
         \/ DeleteCluster \/ Disable \/ Crash \/ Restart
         => UNCHANGED bk
    BY DEF Scale, Failover, SnapshotReady, SnapshotError, DeleteCluster, Disable, Crash,
       Restart
  <2> QED BY <2>1, <2>2, <2>3, <2>4, <2>5, <2>6, <2>7, <2>8, <2>9, <2>10, <2>11, <2>12
          DEF Next, W, Environment
<1> QED BY <1>1, SnapshotInvariant, StaysConfigured, PTL DEF Spec, VerdictKept, Verdict
=============================================================================
