---------------------------- MODULE BackupLease ----------------------------
(***************************************************************************)
(* The lock that serialises the backups of one cluster: the Lease object   *)
(* pg-<cluster>-backup-lock, percona/k8s/lease.go, and its use by the      *)
(* PerconaPGBackup reconciler (handleLease, tryAcquireLease,               *)
(* releaseLeaseIfNeeded).  Every API call is a step of its own, so other   *)
(* reconciles interleave between a Get and the write that depends on it;   *)
(* the API server rejects a write whose resource version is out of date.   *)
(*                                                                         *)
(* A Lease holder is the string "name|uid".  A backup is identified with   *)
(* its UID here; NameOf gives its name, which a later backup may reuse.    *)
(***************************************************************************)
EXTENDS Naturals, FiniteSets

CONSTANTS Backups,    \* PerconaPGBackup objects, one per UID
          Names,      \* object names
          NameOf,     \* the name of each object
          NoHolder,   \* the Lease object does not exist
          MaxCrashes  \* bound: how often the operator restarts

ASSUME NamesAssumption == NameOf \in [Backups -> Names]
ASSUME HolderAssumption == NoHolder \notin Backups
ASSUME CrashAssumption == MaxCrashes \in Nat

VARIABLES
    bk,        \* the PerconaPGBackup objects
    cluster,   \* TRUE while the PerconaPGCluster exists and is not being deleted
    lease,     \* spec.holderIdentity of the Lease, NoHolder when it is absent
    pc,        \* where the reconcile of each backup is
    seen,      \* the other holder a reconcile has read, until it is done with it
    fresh,     \* TRUE until someone writes the Lease a reconcile has read
    crashes    \* how often the operator has restarted

vars == <<bk, cluster, lease, pc, seen, fresh, crashes>>

Phases == {"absent", "live", "gone"}
Conds  == {"none", "True", "False"}   \* condition BackupLeaseAcquired
States == {"New", "Active", "Terminal"}
PCs    == {"idle", "acqGet", "acqCheck", "acqCreate", "acqUpdate", "granted",
           "denied", "work", "relGet", "relDelete", "relCond", "finalizers"}

\* status.state with Starting and Running merged into Active, Succeeded and
\* Failed into Terminal; snapshotting is the finalizer snapshot-in-progress.
Backup == [phase : Phases, state : States, deleting : BOOLEAN,
           snapshotting : BOOLEAN, cond : Conds]

Unborn == [phase |-> "absent", state |-> "New", deleting |-> FALSE,
           snapshotting |-> FALSE, cond |-> "none"]

\* Nothing of an object is left once it is gone.
Removed == [Unborn EXCEPT !.phase = "gone"]

TypeOK ==
    /\ bk \in [Backups -> Backup]
    /\ cluster \in BOOLEAN
    /\ lease \in Backups \cup {NoHolder}
    /\ pc \in [Backups -> PCs]
    /\ seen \in [Backups -> Backups \cup {NoHolder}]
    /\ fresh \in [Backups -> BOOLEAN]
    /\ crashes \in 0..MaxCrashes

Init ==
    /\ bk = [b \in Backups |-> Unborn]
    /\ cluster = TRUE
    /\ lease = NoHolder
    /\ pc = [b \in Backups |-> "idle"]
    /\ seen = [b \in Backups |-> NoHolder]
    /\ fresh = [b \in Backups |-> FALSE]
    /\ crashes = 0

-----------------------------------------------------------------------------
(* The API server and the users of it.                                     *)

Live(b) == bk[b].phase = "live"

\* A write of the Lease invalidates every resource version read before it.
WriteLease(h) == /\ lease' = h
                 /\ fresh' = [b \in Backups |-> FALSE]

\* Two objects of one name never coexist.
Create(b) ==
    /\ bk[b].phase = "absent"
    /\ \A c \in Backups : Live(c) => NameOf[c] # NameOf[b]
    /\ bk' = [bk EXCEPT ![b].phase = "live"]
    /\ UNCHANGED <<cluster, lease, pc, seen, fresh, crashes>>

\* kubectl delete: the object stays, marked, while the reconciler's
\* finalizers run; Purge is the removal of the last one.
Delete(b) ==
    /\ Live(b) /\ ~bk[b].deleting
    /\ bk' = [bk EXCEPT ![b].deleting = TRUE]
    /\ UNCHANGED <<cluster, lease, pc, seen, fresh, crashes>>

Purge(b) ==
    /\ Live(b) /\ bk[b].deleting /\ ~bk[b].snapshotting
    /\ bk' = [bk EXCEPT ![b] = Removed]
    /\ UNCHANGED <<cluster, lease, pc, seen, fresh, crashes>>

DeleteCluster ==
    /\ cluster
    /\ cluster' = FALSE
    /\ UNCHANGED <<bk, lease, pc, seen, fresh, crashes>>

-----------------------------------------------------------------------------
(* handleLease.                                                            *)

Goto(b, l) == pc' = [pc EXCEPT ![b] = l]

\* Mutant: the state keeps a value the API does not have.
FailIfClusterGoneUnknown(b) ==
    IF ~cluster /\ bk[b].state = "Active" THEN "Lost" ELSE bk[b].state

\* Reconcile fails a backup in progress whose cluster is gone, before it
\* enters handleLease.
FailIfClusterGone(b) ==
    IF ~cluster /\ bk[b].state = "Active" THEN "Terminal" ELSE bk[b].state

\* The test with which handleLease chooses between release and acquire.
Releasing(b) == /\ FailIfClusterGone(b) = "Terminal" \/ bk[b].deleting
                /\ ~cluster \/ ~bk[b].snapshotting

\* Reconcile reads the backup and enters handleLease.  releaseLeaseIfNeeded
\* returns at once when the condition is not True.
HandleLease(b) ==
    /\ pc[b] = "idle" /\ Live(b)
    /\ bk' = [bk EXCEPT ![b].state = FailIfClusterGone(b)]
    /\ Goto(b, CASE ~Releasing(b)         -> "acqGet"
                 [] Releasing(b) /\ bk[b].cond = "True" -> "relGet"
                 [] Releasing(b) /\ bk[b].cond # "True" -> "finalizers")
    /\ UNCHANGED <<cluster, lease, seen, fresh, crashes>>

\* AcquireLease: the Get of CreateOrUpdate, then the mutate function.
AcquireGet(b) ==
    /\ pc[b] = "acqGet"
    /\ seen' = [seen EXCEPT ![b] = IF lease = b THEN NoHolder ELSE lease]
    /\ fresh' = [fresh EXCEPT ![b] = lease \notin {b, NoHolder}]
    /\ Goto(b, CASE lease = NoHolder -> "acqCreate"
                 [] lease = b        -> "granted"
                 [] OTHER            -> "acqCheck")
    /\ UNCHANGED <<bk, cluster, lease, crashes>>

\* Mutants: the snapshot finalizer is not looked at; a missing holder is not
\* recognised as stale.
StaleIgnoresSnapshot(h) == Live(h) => bk[h].state = "Terminal"
StaleNeedsHolder(h) == Live(h) /\ bk[h].state = "Terminal" /\ ~bk[h].snapshotting

\* checkStale: the holder is looked up by name; an object of another UID under
\* that name means the holder itself is gone.
Stale(h) == Live(h) => bk[h].state = "Terminal" /\ ~bk[h].snapshotting

CheckStale(b) ==
    /\ pc[b] = "acqCheck"
    /\ \/ Stale(seen[b]) /\ Goto(b, "acqUpdate") /\ UNCHANGED fresh
       \/ /\ ~Stale(seen[b])
          /\ Goto(b, "denied")
          /\ fresh' = [fresh EXCEPT ![b] = FALSE]
    /\ seen' = [seen EXCEPT ![b] = NoHolder]
    /\ UNCHANGED <<bk, cluster, lease, crashes>>

\* Create answers AlreadyExists when another reconcile was faster.
AcquireCreate(b) ==
    /\ pc[b] = "acqCreate"
    /\ \/ lease = NoHolder /\ WriteLease(b) /\ Goto(b, "granted")
       \/ lease # NoHolder /\ Goto(b, "denied") /\ UNCHANGED <<lease, fresh>>
    /\ UNCHANGED <<bk, cluster, seen, crashes>>

\* Mutant: the Update carries no resource version.
AcquireUpdateBlind(b) ==
    /\ pc[b] = "acqUpdate"
    /\ WriteLease(b) /\ Goto(b, "granted")
    /\ UNCHANGED <<bk, cluster, seen, crashes>>

\* Update answers Conflict when the Lease was written since the Get, and
\* NotFound, which fails the reconcile, when it was deleted.
AcquireUpdate(b) ==
    /\ pc[b] = "acqUpdate"
    /\ \/ fresh[b] /\ WriteLease(b) /\ Goto(b, "granted")
       \/ /\ ~fresh[b]
          /\ Goto(b, IF lease = NoHolder THEN "idle" ELSE "denied")
          /\ UNCHANGED <<lease, fresh>>
    /\ UNCHANGED <<bk, cluster, seen, crashes>>

\* tryAcquireLease records the outcome in the status condition; the status
\* update of an object that is gone fails the reconcile.
RecordAcquire(b) ==
    /\ pc[b] \in {"granted", "denied"}
    /\ \/ /\ Live(b)
          /\ bk' = [bk EXCEPT ![b].cond = IF pc[b] = "granted" THEN "True" ELSE "False"]
          /\ Goto(b, IF pc[b] = "granted" THEN "work" ELSE "idle")
       \/ ~Live(b) /\ Goto(b, "idle") /\ UNCHANGED bk
    /\ UNCHANGED <<cluster, lease, seen, fresh, crashes>>

\* ReleaseLease: the Get and the comparison of the holder.  A Lease of another
\* holder is an error: the condition stays and the next reconcile tries again.
ReleaseGet(b) ==
    /\ pc[b] = "relGet"
    /\ fresh' = [fresh EXCEPT ![b] = lease = b]
    /\ Goto(b, CASE lease = NoHolder -> "relCond"
                 [] lease = b        -> "relDelete"
                 [] OTHER            -> "idle")
    /\ UNCHANGED <<bk, cluster, lease, seen, crashes>>

\* Mutant: the Delete has no preconditions.
ReleaseDeleteBlind(b) ==
    /\ pc[b] = "relDelete"
    /\ WriteLease(NoHolder)
    /\ Goto(b, "relCond")
    /\ UNCHANGED <<bk, cluster, seen, crashes>>

\* The Delete carries UID and resource version preconditions; NotFound and
\* Conflict count as released.
ReleaseDelete(b) ==
    /\ pc[b] = "relDelete"
    /\ \/ fresh[b] /\ WriteLease(NoHolder)
       \/ ~fresh[b] /\ UNCHANGED <<lease, fresh>>
    /\ Goto(b, "relCond")
    /\ UNCHANGED <<bk, cluster, seen, crashes>>

ReleaseCond(b) ==
    /\ pc[b] = "relCond"
    /\ bk' = IF Live(b) THEN [bk EXCEPT ![b].cond = "none"] ELSE bk
    /\ Goto(b, IF Live(b) THEN "finalizers" ELSE "idle")
    /\ UNCHANGED <<cluster, lease, seen, fresh, crashes>>

-----------------------------------------------------------------------------
(* The rest of the reconcile, as far as the lock is concerned.             *)

\* runFinalizers drops the snapshot finalizer only when the cluster is gone
\* (snapshotInProgressFinalizer).
RunFinalizers(b) ==
    /\ pc[b] = "finalizers"
    /\ bk' = IF ~cluster THEN [bk EXCEPT ![b].snapshotting = FALSE] ELSE bk
    /\ Goto(b, "idle")
    /\ UNCHANGED <<cluster, lease, seen, fresh, crashes>>

\* The reconcile that was granted the lock ends.  The backup waits for its
\* next reconcile; moves on (New, Starting, Running); enters the offline
\* snapshot procedure, which adds the finalizer to an object that must still
\* be there; or ends, a failed snapshot backup with the finalizer in place.
WorkWait(b) == UNCHANGED bk

WorkStart(b) == /\ Live(b) /\ bk[b].state = "New"
                /\ bk' = [bk EXCEPT ![b].state = "Active"]

WorkSuspend(b) == /\ Live(b) /\ bk[b].state = "Active" /\ ~bk[b].deleting
                  /\ bk' = [bk EXCEPT ![b].snapshotting = TRUE]

WorkResume(b) == /\ Live(b) /\ bk[b].snapshotting
                 /\ bk' = [bk EXCEPT ![b].snapshotting = FALSE]

WorkEnd(b) == /\ Live(b) /\ bk[b].state # "Terminal"
              /\ bk' = [bk EXCEPT ![b].state = "Terminal"]

Work(b) ==
    /\ pc[b] = "work"
    /\ WorkWait(b) \/ WorkStart(b) \/ WorkSuspend(b) \/ WorkResume(b) \/ WorkEnd(b)
    /\ Goto(b, "idle")
    /\ UNCHANGED <<cluster, lease, seen, fresh, crashes>>

\* The operator stops and starts again: every reconcile in progress is lost.
Crash ==
    /\ crashes < MaxCrashes
    /\ crashes' = crashes + 1
    /\ \E b \in Backups : pc[b] # "idle"
    /\ pc' = [b \in Backups |-> "idle"]
    /\ seen' = [b \in Backups |-> NoHolder]
    /\ fresh' = [b \in Backups |-> FALSE]
    /\ UNCHANGED <<bk, cluster, lease>>

Reconcile(b) ==
    \/ HandleLease(b)
    \/ AcquireGet(b) \/ CheckStale(b) \/ AcquireCreate(b) \/ AcquireUpdate(b)
    \/ RecordAcquire(b)
    \/ ReleaseGet(b) \/ ReleaseDelete(b) \/ ReleaseCond(b)
    \/ RunFinalizers(b) \/ Work(b)

Next ==
    \/ \E b \in Backups : Create(b) \/ Delete(b) \/ Purge(b) \/ Reconcile(b)
    \/ DeleteCluster
    \/ Crash

Spec == Init /\ [][Next]_vars

\* A reconcile that runs ends, and a backup is reconciled again while it
\* exists: handleLease requeues a denied backup after 10 seconds and an error
\* is retried with back-off.  A backup that holds the lock ends at some point,
\* and a deleted object goes once its finalizers allow it.
Fairness == \A b \in Backups :
    /\ WF_vars(Reconcile(b))
    /\ SF_vars(Work(b) /\ WorkEnd(b))
    /\ SF_vars(Work(b) /\ WorkResume(b))
    /\ WF_vars(Purge(b))

FairSpec == Spec /\ Fairness

-----------------------------------------------------------------------------
(* Properties.                                                             *)

Engaged(b) == Live(b) /\ bk[b].state # "Terminal" /\ ~bk[b].deleting

\* Two backups never both believe in the lock: whenever two unfinished backups
\* report BackupLeaseAcquired=True they are the same object, whatever the
\* interleaving of Get, stale check, write and crash.
LeaseExclusive ==
    \A b, c \in Backups :
        /\ Engaged(b) /\ bk[b].cond = "True"
        /\ Engaged(c) /\ bk[c].cond = "True"
        => b = c

\* While the cluster exists, at most one backup has an instance suspended for
\* its snapshot, and that backup holds the lock: neither deletion of the backup
\* nor its failure lets another one in before the instance is resumed.
SuspendedHoldsLease ==
    \A b \in Backups : cluster /\ Live(b) /\ bk[b].snapshotting => lease = b

retiredBackups == {b \in Backups : \/ bk[b].phase = "gone"
                                   \/ bk[b].state = "Terminal"}

leavingBackups == {b \in Backups : b \in retiredBackups \/ bk[b].deleting}

Slot == INSTANCE BackupSlot WITH Free <- NoHolder, slot <- lease,
                                 leaving <- leavingBackups,
                                 retired <- retiredBackups

\* The lock changes hands only as BackupSlot allows: a holder that is neither
\* terminal nor gone is never evicted, and the Lease of a holder that is not
\* leaving is never deleted by a late ReleaseLease of another backup, although
\* Get, check and write are separate API calls.
LeaseImplementsSlot == Slot!Spec

\* A holder that disappears never wedges the lock: a backup that stays
\* and wants the lock gets it, or ends, or is deleted.
EveryoneGetsLease ==
    \A b \in Backups : Engaged(b) ~> (bk[b].cond = "True" \/ ~Engaged(b))
=============================================================================
