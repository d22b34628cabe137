------------------------ MODULE BackupLease_proofs ------------------------
(***************************************************************************)
(* The lock of BackupLease is exclusive, and implements BackupSlot, for    *)
(* any number of backups, names and restarts.                              *)
(***************************************************************************)
EXTENDS BackupLease, TLAPS

-----------------------------------------------------------------------------
(* The inductive invariant.                                                *)

\* Only objects that were created have a status, hold the lock or are
\* reconciled.
Born == \A b \in Backups : bk[b].phase = "absent" =>
    lease # b /\ pc[b] = "idle" /\ bk[b].cond # "True" /\ bk[b].snapshotting = FALSE

\* A reconcile that is releasing has a reason to, which stays.
ReleaseJustified == \A b \in Backups :
    Live(b) /\ pc[b] \in {"relGet", "relDelete"} =>
        /\ bk[b].state = "Terminal" \/ bk[b].deleting
        /\ ~cluster \/ ~bk[b].snapshotting

\* What a reconcile read of the Lease still holds while nobody wrote it.
FreshReads == \A b \in Backups : fresh[b] =>
    /\ pc[b] \in {"acqCheck", "acqUpdate", "relDelete"}
    /\ pc[b] = "acqCheck" => seen[b] = lease /\ lease \in Backups
    /\ pc[b] = "acqUpdate" => lease \in Backups /\ Stale(lease)
    /\ pc[b] = "relDelete" => lease = b

\* An unfinished backup that was granted the lock still has it.
GrantKept == \A b \in Backups :
    Engaged(b) /\ (bk[b].cond = "True" \/ pc[b] = "granted") => lease = b

\* Past the grant the condition is recorded.
WorkRecorded == \A b \in Backups :
    pc[b] = "work" /\ Live(b) => bk[b].cond = "True"

LeaseInv == /\ TypeOK /\ Born /\ ReleaseJustified /\ FreshReads
            /\ GrantKept /\ WorkRecorded /\ SuspendedHoldsLease

-----------------------------------------------------------------------------
(* The invariant is inductive.                                             *)

\* The initial state: nothing exists and no reconcile runs.
LEMMA LeaseInit == Init => LeaseInv
BY HolderAssumption, CrashAssumption
   DEF Init, LeaseInv, TypeOK, Born, ReleaseJustified, FreshReads, GrantKept,
       WorkRecorded, SuspendedHoldsLease, Engaged, Live, Unborn, Backup, Phases,
       States, Conds, PCs

\* Every step keeps the types.
LEMMA LeaseTypes == TypeOK /\ [Next]_vars => TypeOK'
<1> SUFFICES ASSUME TypeOK, [Next]_vars PROVE TypeOK'
    OBVIOUS
<1> USE HolderAssumption, CrashAssumption
    DEF TypeOK, Backup, Phases, States, Conds, PCs, Live
<1>1. ASSUME NEW b \in Backups, Create(b) PROVE TypeOK'
  BY <1>1, SMTT(30) DEF Create
<1>2. ASSUME NEW b \in Backups, Delete(b) PROVE TypeOK'
  BY <1>2, ZenonT(60) DEF Delete
<1>3. ASSUME NEW b \in Backups, Purge(b) PROVE TypeOK'
  BY <1>3 DEF Purge, Removed, Unborn
<1>4. ASSUME NEW b \in Backups, HandleLease(b) PROVE TypeOK'
  BY <1>4 DEF HandleLease, FailIfClusterGone, Releasing, Goto
<1>5. ASSUME NEW b \in Backups, AcquireGet(b) PROVE TypeOK'
  BY <1>5 DEF AcquireGet, Goto
<1>6. ASSUME NEW b \in Backups, CheckStale(b) PROVE TypeOK'
  BY <1>6 DEF CheckStale, Goto, Stale
<1>7. ASSUME NEW b \in Backups, AcquireCreate(b) PROVE TypeOK'
  BY <1>7, ZenonT(60) DEF AcquireCreate, Goto, WriteLease
<1>8. ASSUME NEW b \in Backups, AcquireUpdate(b) PROVE TypeOK'
  BY <1>8, ZenonT(60) DEF AcquireUpdate, Goto, WriteLease
<1>9. ASSUME NEW b \in Backups, RecordAcquire(b) PROVE TypeOK'
  <2>1. bk' \in [Backups -> Backup]
    BY <1>9 DEF RecordAcquire
  <2>2. pc' \in [Backups -> PCs]
    BY <1>9 DEF RecordAcquire, Goto
  <2> QED BY <1>9, <2>1, <2>2 DEF RecordAcquire
<1>10. ASSUME NEW b \in Backups, ReleaseGet(b) PROVE TypeOK'
  BY <1>10 DEF ReleaseGet, Goto
<1>11. ASSUME NEW b \in Backups, ReleaseDelete(b) PROVE TypeOK'
  BY <1>11 DEF ReleaseDelete, Goto, WriteLease
<1>12. ASSUME NEW b \in Backups, ReleaseCond(b) PROVE TypeOK'
  BY <1>12 DEF ReleaseCond, Goto
<1>13. ASSUME NEW b \in Backups, RunFinalizers(b) PROVE TypeOK'
  BY <1>13, ZenonT(60) DEF RunFinalizers, Goto
<1>14. ASSUME NEW b \in Backups, Work(b) PROVE TypeOK'
  <2>1. bk' \in [Backups -> Backup]
    <3>1. CASE WorkWait(b)    BY <1>14, <3>1 DEF WorkWait
    <3>2. CASE WorkStart(b)   BY <1>14, <3>2 DEF WorkStart
    <3>3. CASE WorkSuspend(b)
      <4>1. bk' = [bk EXCEPT ![b].snapshotting = TRUE]
        BY <3>3 DEF WorkSuspend
      <4> QED BY <4>1, ZenonT(60)
    <3>4. CASE WorkResume(b)
      <4>1. bk' = [bk EXCEPT ![b].snapshotting = FALSE]
        BY <3>4 DEF WorkResume
      <4> QED BY <4>1, ZenonT(60)
    <3>5. CASE WorkEnd(b)     BY <1>14, <3>5 DEF WorkEnd
    <3> QED BY <1>14, <3>1, <3>2, <3>3, <3>4, <3>5 DEF Work
  <2>2. pc' \in [Backups -> PCs]
    BY <1>14 DEF Work, Goto
  <2> QED BY <1>14, <2>1, <2>2 DEF Work
<1>15. CASE DeleteCluster
  BY <1>15 DEF DeleteCluster
<1>16. CASE Crash
  BY <1>16 DEF Crash
<1>17. CASE UNCHANGED vars
  BY <1>17 DEF vars
<1> QED
  BY <1>1, <1>2, <1>3, <1>4, <1>5, <1>6, <1>7, <1>8, <1>9, <1>10, <1>11, <1>12, <1>13, <1>14, <1>15, <1>16, <1>17 DEF Next, Reconcile

\* Every step keeps the rest of the invariant.
LEMMA LeaseStep == LeaseInv /\ [Next]_vars => LeaseInv'
<1> SUFFICES ASSUME LeaseInv, [Next]_vars PROVE LeaseInv'
    OBVIOUS
<1>0. TypeOK'
  BY LeaseTypes DEF LeaseInv
<1> USE <1>0, HolderAssumption
    DEF LeaseInv, TypeOK, Backup, Phases, States, Conds, PCs, Born,
        ReleaseJustified, FreshReads, GrantKept, WorkRecorded,
        SuspendedHoldsLease, Engaged, Stale, Live
<1>1. ASSUME NEW b \in Backups, Create(b) PROVE LeaseInv'
  <2>1. Born'
    BY <1>1 DEF Create
  <2>2. ReleaseJustified'
    BY <1>1 DEF Create
  <2>3. FreshReads'
    BY <1>1 DEF Create
  <2>4. GrantKept'
    BY <1>1 DEF Create
  <2>5. WorkRecorded'
    BY <1>1 DEF Create
  <2>6. SuspendedHoldsLease'
    BY <1>1 DEF Create
  <2> QED BY <2>1, <2>2, <2>3, <2>4, <2>5, <2>6
<1>2. ASSUME NEW b \in Backups, Delete(b) PROVE LeaseInv'
  <2>1. Born'
    BY <1>2 DEF Delete
  <2>2. ReleaseJustified'
    BY <1>2 DEF Delete
  <2>3. FreshReads'
    BY <1>2 DEF Delete
  <2>4. GrantKept'
    BY <1>2 DEF Delete
  <2>5. WorkRecorded'
    BY <1>2 DEF Delete
  <2>6. SuspendedHoldsLease'
    BY <1>2 DEF Delete
  <2> QED BY <2>1, <2>2, <2>3, <2>4, <2>5, <2>6
<1>3. ASSUME NEW b \in Backups, Purge(b) PROVE LeaseInv'
  <2>1. Born'
    BY <1>3 DEF Purge, Removed, Unborn
  <2>2. ReleaseJustified'
    BY <1>3 DEF Purge, Removed, Unborn
  <2>3. FreshReads'
    BY <1>3 DEF Purge, Removed, Unborn
  <2>4. GrantKept'
    BY <1>3 DEF Purge, Removed, Unborn
  <2>5. WorkRecorded'
    BY <1>3 DEF Purge, Removed, Unborn
  <2>6. SuspendedHoldsLease'
    BY <1>3 DEF Purge, Removed, Unborn
  <2> QED BY <2>1, <2>2, <2>3, <2>4, <2>5, <2>6
<1>4. ASSUME NEW b \in Backups, HandleLease(b) PROVE LeaseInv'
  <2>1. Born'
    BY <1>4 DEF HandleLease, FailIfClusterGone, Releasing, Goto
  <2>2. ReleaseJustified'
    BY <1>4 DEF HandleLease, FailIfClusterGone, Releasing, Goto
  <2>3. FreshReads'
    BY <1>4 DEF HandleLease, FailIfClusterGone, Releasing, Goto
  <2>4. GrantKept'
    BY <1>4 DEF HandleLease, FailIfClusterGone, Releasing, Goto
  <2>5. WorkRecorded'
    BY <1>4 DEF HandleLease, FailIfClusterGone, Releasing, Goto
  <2>6. SuspendedHoldsLease'
    BY <1>4 DEF HandleLease, FailIfClusterGone, Releasing, Goto
  <2> QED BY <2>1, <2>2, <2>3, <2>4, <2>5, <2>6
<1>5. ASSUME NEW b \in Backups, AcquireGet(b) PROVE LeaseInv'
  <2>1. Born'
    BY <1>5 DEF AcquireGet, Goto
  <2>2. ReleaseJustified'
    BY <1>5 DEF AcquireGet, Goto
  <2>3. FreshReads'
    BY <1>5 DEF AcquireGet, Goto
  <2>4. GrantKept'
    BY <1>5 DEF AcquireGet, Goto
  <2>5. WorkRecorded'
    BY <1>5 DEF AcquireGet, Goto
  <2>6. SuspendedHoldsLease'
    BY <1>5 DEF AcquireGet, Goto
  <2> QED BY <2>1, <2>2, <2>3, <2>4, <2>5, <2>6
<1>6. ASSUME NEW b \in Backups, CheckStale(b) PROVE LeaseInv'
  <2>1. Born'
    BY <1>6 DEF CheckStale, Goto
  <2>2. ReleaseJustified'
    BY <1>6 DEF CheckStale, Goto
  <2>3. FreshReads'
    BY <1>6 DEF CheckStale, Goto
  <2>4. GrantKept'
    BY <1>6 DEF CheckStale, Goto
  <2>5. WorkRecorded'
    BY <1>6 DEF CheckStale, Goto
  <2>6. SuspendedHoldsLease'
    BY <1>6 DEF CheckStale, Goto
  <2> QED BY <2>1, <2>2, <2>3, <2>4, <2>5, <2>6
<1>7. ASSUME NEW b \in Backups, AcquireCreate(b) PROVE LeaseInv'
  <2>1. Born'
    BY <1>7 DEF AcquireCreate, Goto, WriteLease
  <2>2. ReleaseJustified'
    BY <1>7 DEF AcquireCreate, Goto, WriteLease
  <2>3. FreshReads'
    BY <1>7 DEF AcquireCreate, Goto, WriteLease
  <2>4. GrantKept'
    BY <1>7 DEF AcquireCreate, Goto, WriteLease
  <2>5. WorkRecorded'
    BY <1>7 DEF AcquireCreate, Goto, WriteLease
  <2>6. SuspendedHoldsLease'
    BY <1>7 DEF AcquireCreate, Goto, WriteLease
  <2> QED BY <2>1, <2>2, <2>3, <2>4, <2>5, <2>6
<1>8. ASSUME NEW b \in Backups, AcquireUpdate(b) PROVE LeaseInv'
  <2>1. Born'
    BY <1>8 DEF AcquireUpdate, Goto, WriteLease
  <2>2. ReleaseJustified'
    BY <1>8 DEF AcquireUpdate, Goto, WriteLease
  <2>3. FreshReads'
    BY <1>8 DEF AcquireUpdate, Goto, WriteLease
  <2>4. GrantKept'
    BY <1>8 DEF AcquireUpdate, Goto, WriteLease
  <2>5. WorkRecorded'
    BY <1>8 DEF AcquireUpdate, Goto, WriteLease
  <2>6. SuspendedHoldsLease'
    BY <1>8 DEF AcquireUpdate, Goto, WriteLease
  <2> QED BY <2>1, <2>2, <2>3, <2>4, <2>5, <2>6
<1>9. ASSUME NEW b \in Backups, RecordAcquire(b) PROVE LeaseInv'
  <2>1. Born'
    BY <1>9 DEF RecordAcquire, Goto
  <2>2. ReleaseJustified'
    BY <1>9 DEF RecordAcquire, Goto
  <2>3. FreshReads'
    BY <1>9 DEF RecordAcquire, Goto
  <2>4. GrantKept'
    BY <1>9 DEF RecordAcquire, Goto
  <2>5. WorkRecorded'
    BY <1>9 DEF RecordAcquire, Goto
  <2>6. SuspendedHoldsLease'
    BY <1>9 DEF RecordAcquire, Goto
  <2> QED BY <2>1, <2>2, <2>3, <2>4, <2>5, <2>6
<1>10. ASSUME NEW b \in Backups, ReleaseGet(b) PROVE LeaseInv'
  <2>1. Born'
    BY <1>10 DEF ReleaseGet, Goto
  <2>2. ReleaseJustified'
    BY <1>10 DEF ReleaseGet, Goto
  <2>3. FreshReads'
    BY <1>10 DEF ReleaseGet, Goto
  <2>4. GrantKept'
    BY <1>10 DEF ReleaseGet, Goto
  <2>5. WorkRecorded'
    BY <1>10 DEF ReleaseGet, Goto
  <2>6. SuspendedHoldsLease'
    BY <1>10 DEF ReleaseGet, Goto
  <2> QED BY <2>1, <2>2, <2>3, <2>4, <2>5, <2>6
<1>11. ASSUME NEW b \in Backups, ReleaseDelete(b) PROVE LeaseInv'
  <2>1. Born'
    BY <1>11 DEF ReleaseDelete, Goto, WriteLease
  <2>2. ReleaseJustified'
    BY <1>11 DEF ReleaseDelete, Goto, WriteLease
  <2>3. FreshReads'
    BY <1>11 DEF ReleaseDelete, Goto, WriteLease
  <2>4. GrantKept'
    BY <1>11 DEF ReleaseDelete, Goto, WriteLease
  <2>5. WorkRecorded'
    BY <1>11 DEF ReleaseDelete, Goto, WriteLease
  <2>6. SuspendedHoldsLease'
    BY <1>11 DEF ReleaseDelete, Goto, WriteLease
  <2> QED BY <2>1, <2>2, <2>3, <2>4, <2>5, <2>6
<1>12. ASSUME NEW b \in Backups, ReleaseCond(b) PROVE LeaseInv'
  <2>1. Born'
    BY <1>12 DEF ReleaseCond, Goto
  <2>2. ReleaseJustified'
    BY <1>12 DEF ReleaseCond, Goto
  <2>3. FreshReads'
    BY <1>12 DEF ReleaseCond, Goto
  <2>4. GrantKept'
    BY <1>12 DEF ReleaseCond, Goto
  <2>5. WorkRecorded'
    BY <1>12 DEF ReleaseCond, Goto
  <2>6. SuspendedHoldsLease'
    BY <1>12 DEF ReleaseCond, Goto
  <2> QED BY <2>1, <2>2, <2>3, <2>4, <2>5, <2>6
<1>13. ASSUME NEW b \in Backups, RunFinalizers(b) PROVE LeaseInv'
  <2>1. Born'
    BY <1>13 DEF RunFinalizers, Goto
  <2>2. ReleaseJustified'
    BY <1>13 DEF RunFinalizers, Goto
  <2>3. FreshReads'
    BY <1>13 DEF RunFinalizers, Goto
  <2>4. GrantKept'
    BY <1>13 DEF RunFinalizers, Goto
  <2>5. WorkRecorded'
    BY <1>13 DEF RunFinalizers, Goto
  <2>6. SuspendedHoldsLease'
    BY <1>13 DEF RunFinalizers, Goto
  <2> QED BY <2>1, <2>2, <2>3, <2>4, <2>5, <2>6
<1>14. ASSUME NEW b \in Backups, Work(b) PROVE LeaseInv'
  <2>1. Born'
    BY <1>14 DEF Work, Goto, WorkWait, WorkStart, WorkSuspend, WorkResume, WorkEnd
  <2>2. ReleaseJustified'
    BY <1>14 DEF Work, Goto, WorkWait, WorkStart, WorkSuspend, WorkResume, WorkEnd
  <2>3. FreshReads'
    BY <1>14, SMTT(30) DEF Work, Goto, WorkWait, WorkStart, WorkSuspend, WorkResume, WorkEnd
  <2>4. GrantKept'
    BY <1>14 DEF Work, Goto, WorkWait, WorkStart, WorkSuspend, WorkResume, WorkEnd
  <2>5. WorkRecorded'
    BY <1>14 DEF Work, Goto, WorkWait, WorkStart, WorkSuspend, WorkResume, WorkEnd
  <2>6. SuspendedHoldsLease'
    BY <1>14 DEF Work, Goto, WorkWait, WorkStart, WorkSuspend, WorkResume, WorkEnd
  <2> QED BY <2>1, <2>2, <2>3, <2>4, <2>5, <2>6
<1>15. CASE DeleteCluster
  BY <1>15 DEF DeleteCluster
<1>16. CASE Crash
  BY <1>16 DEF Crash
<1>17. CASE UNCHANGED vars
  BY <1>17 DEF vars
<1> QED
  BY <1>1, <1>2, <1>3, <1>4, <1>5, <1>6, <1>7, <1>8, <1>9, <1>10, <1>11, <1>12, <1>13, <1>14, <1>15, <1>16, <1>17 DEF Next, Reconcile

-----------------------------------------------------------------------------
(* What the lock guarantees.                                               *)

\* The inductive invariant holds in every reachable state.
THEOREM LeaseInvariant == Spec => []LeaseInv
BY LeaseInit, LeaseStep, PTL DEF Spec

\* The variables keep their types, the restart counter its bound.
THEOREM LeaseTypeOK == Spec => []TypeOK
<1>1. LeaseInv => TypeOK
  BY DEF LeaseInv
<1> QED BY <1>1, LeaseInvariant, PTL

\* handleLease grants the lock to one unfinished backup at a time.
THEOREM LeaseMutualExclusion == Spec => []LeaseExclusive
<1>1. LeaseInv => LeaseExclusive
  BY HolderAssumption DEF LeaseInv, GrantKept, LeaseExclusive
<1> QED BY <1>1, LeaseInvariant, PTL

\* While the cluster exists a suspended instance belongs to the backup that
\* holds the lock.
THEOREM LeaseCoversSuspension == Spec => []SuspendedHoldsLease
<1>1. LeaseInv => SuspendedHoldsLease
  BY DEF LeaseInv
<1> QED BY <1>1, LeaseInvariant, PTL

-----------------------------------------------------------------------------
(* The Lease implements the slot.                                          *)

\* A step that writes no Lease retires at most one backup, and none returns.
LEMMA RetireStep ==
    ASSUME LeaseInv, NEW b \in Backups, lease' = lease,
           \A c \in Backups : c # b => bk'[c] = bk[c],
           b \in retiredBackups => b \in retiredBackups',
           b \in leavingBackups => b \in leavingBackups'
    PROVE  [Slot!Next]_Slot!vars
<1>1. CASE b \in retiredBackups' /\ b \notin retiredBackups
  <2>1. retiredBackups' = retiredBackups \cup {b}
    BY <1>1 DEF retiredBackups
  <2>2. leavingBackups' = leavingBackups \cup {b}
    BY <1>1 DEF retiredBackups, leavingBackups
  <2> QED BY <2>1, <2>2 DEF Slot!Next, Slot!Retire
<1>2. CASE ~(b \in retiredBackups' /\ b \notin retiredBackups)
  <2>1. retiredBackups' = retiredBackups
    BY <1>2 DEF retiredBackups
  <2>2. CASE b \in leavingBackups'
    <3>1. leavingBackups' = leavingBackups \cup {b}
      BY <2>2 DEF retiredBackups, leavingBackups
    <3> QED BY <2>1, <3>1 DEF Slot!Next, Slot!Leave
  <2>3. CASE b \notin leavingBackups'
    <3>1. leavingBackups' = leavingBackups
      BY <2>3 DEF retiredBackups, leavingBackups
    <3> QED BY <2>1, <3>1 DEF Slot!vars
  <2> QED BY <2>2, <2>3
<1> QED BY <1>1, <1>2

\* Every step is a step of the slot, or leaves it alone.
LEMMA SlotStep == LeaseInv /\ [Next]_vars => [Slot!Next]_Slot!vars
<1> SUFFICES ASSUME LeaseInv, [Next]_vars PROVE [Slot!Next]_Slot!vars
    OBVIOUS
<1> USE HolderAssumption DEF LeaseInv, TypeOK, Backup, Phases, States
<1>1. ASSUME NEW b \in Backups, Create(b) PROVE [Slot!Next]_Slot!vars
  <2>1. /\ lease' = lease
        /\ \A c \in Backups : c # b => bk'[c] = bk[c]
        /\ b \in retiredBackups => b \in retiredBackups'
        /\ b \in leavingBackups => b \in leavingBackups'
    BY <1>1 DEF Create, retiredBackups, leavingBackups
  <2> QED BY <2>1, RetireStep
<1>2. ASSUME NEW b \in Backups, Delete(b) PROVE [Slot!Next]_Slot!vars
  <2>1. /\ lease' = lease
        /\ \A c \in Backups : c # b => bk'[c] = bk[c]
        /\ b \in retiredBackups => b \in retiredBackups'
        /\ b \in leavingBackups => b \in leavingBackups'
    BY <1>2 DEF Delete, retiredBackups, leavingBackups
  <2> QED BY <2>1, RetireStep
<1>3. ASSUME NEW b \in Backups, Purge(b) PROVE [Slot!Next]_Slot!vars
  <2>1. /\ lease' = lease
        /\ \A c \in Backups : c # b => bk'[c] = bk[c]
        /\ b \in retiredBackups => b \in retiredBackups'
        /\ b \in leavingBackups => b \in leavingBackups'
    BY <1>3 DEF Purge, Removed, Unborn, retiredBackups, leavingBackups
  <2> QED BY <2>1, RetireStep
<1>4. ASSUME NEW b \in Backups, HandleLease(b) PROVE [Slot!Next]_Slot!vars
  <2>1. /\ lease' = lease
        /\ \A c \in Backups : c # b => bk'[c] = bk[c]
        /\ b \in retiredBackups => b \in retiredBackups'
        /\ b \in leavingBackups => b \in leavingBackups'
    BY <1>4 DEF HandleLease, FailIfClusterGone, retiredBackups, leavingBackups
  <2> QED BY <2>1, RetireStep
<1>5. ASSUME NEW b \in Backups, AcquireGet(b) PROVE [Slot!Next]_Slot!vars
  BY <1>5 DEF AcquireGet, Slot!vars, retiredBackups, leavingBackups
<1>6. ASSUME NEW b \in Backups, CheckStale(b) PROVE [Slot!Next]_Slot!vars
  BY <1>6 DEF CheckStale, Slot!vars, retiredBackups, leavingBackups
<1>7. ASSUME NEW b \in Backups, AcquireCreate(b) PROVE [Slot!Next]_Slot!vars
  <2>1. CASE lease = NoHolder
    BY <1>7, <2>1 DEF AcquireCreate, WriteLease, Slot!Next, Slot!Take, retiredBackups, leavingBackups
  <2>2. CASE lease # NoHolder
    BY <1>7, <2>2 DEF AcquireCreate, Slot!vars, retiredBackups, leavingBackups
  <2> QED BY <2>1, <2>2
<1>8. ASSUME NEW b \in Backups, AcquireUpdate(b) PROVE [Slot!Next]_Slot!vars
  <2>1. CASE fresh[b]
    <3>1. /\ lease' = b
          /\ retiredBackups' = retiredBackups
          /\ leavingBackups' = leavingBackups
      BY <1>8, <2>1 DEF AcquireUpdate, WriteLease, retiredBackups, leavingBackups
    <3>2. lease \in retiredBackups
      BY <1>8, <2>1 DEF AcquireUpdate, FreshReads, Stale, Live, Born, retiredBackups, leavingBackups
    <3> QED BY <3>1, <3>2 DEF Slot!Next, Slot!Take
  <2>2. CASE ~fresh[b]
    BY <1>8, <2>2 DEF AcquireUpdate, Slot!vars, retiredBackups, leavingBackups
  <2> QED BY <2>1, <2>2
<1>9. ASSUME NEW b \in Backups, RecordAcquire(b) PROVE [Slot!Next]_Slot!vars
  <2>1. /\ lease' = lease
        /\ \A c \in Backups : c # b => bk'[c] = bk[c]
        /\ b \in retiredBackups => b \in retiredBackups'
        /\ b \in leavingBackups => b \in leavingBackups'
    BY <1>9 DEF RecordAcquire, retiredBackups, leavingBackups
  <2> QED BY <2>1, RetireStep
<1>10. ASSUME NEW b \in Backups, ReleaseGet(b) PROVE [Slot!Next]_Slot!vars
  BY <1>10 DEF ReleaseGet, Slot!vars, retiredBackups, leavingBackups
<1>11. ASSUME NEW b \in Backups, ReleaseDelete(b) PROVE [Slot!Next]_Slot!vars
  <2>1. CASE fresh[b]
    <3>1. lease = b /\ lease' = NoHolder
      BY <1>11, <2>1 DEF ReleaseDelete, WriteLease, FreshReads
    <3>2. b \in leavingBackups
      BY <1>11, <3>1 DEF ReleaseDelete, ReleaseJustified, Born, Live,
                         retiredBackups, leavingBackups
    <3>3. retiredBackups' = retiredBackups /\ leavingBackups' = leavingBackups
      BY <1>11 DEF ReleaseDelete, retiredBackups, leavingBackups
    <3> QED BY <3>1, <3>2, <3>3 DEF Slot!Next, Slot!Vacate
  <2>2. CASE ~fresh[b]
    BY <1>11, <2>2 DEF ReleaseDelete, Slot!vars, retiredBackups, leavingBackups
  <2> QED BY <2>1, <2>2
<1>12. ASSUME NEW b \in Backups, ReleaseCond(b) PROVE [Slot!Next]_Slot!vars
  <2>1. /\ lease' = lease
        /\ \A c \in Backups : c # b => bk'[c] = bk[c]
        /\ b \in retiredBackups => b \in retiredBackups'
        /\ b \in leavingBackups => b \in leavingBackups'
    BY <1>12 DEF ReleaseCond, retiredBackups, leavingBackups
  <2> QED BY <2>1, RetireStep
<1>13. ASSUME NEW b \in Backups, RunFinalizers(b) PROVE [Slot!Next]_Slot!vars
  <2>1. /\ lease' = lease
        /\ \A c \in Backups : c # b => bk'[c] = bk[c]
        /\ b \in retiredBackups => b \in retiredBackups'
        /\ b \in leavingBackups => b \in leavingBackups'
    BY <1>13 DEF RunFinalizers, retiredBackups, leavingBackups
  <2> QED BY <2>1, RetireStep
<1>14. ASSUME NEW b \in Backups, Work(b) PROVE [Slot!Next]_Slot!vars
  <2>1. /\ lease' = lease
        /\ \A c \in Backups : c # b => bk'[c] = bk[c]
        /\ b \in retiredBackups => b \in retiredBackups'
        /\ b \in leavingBackups => b \in leavingBackups'
    BY <1>14 DEF Work, WorkWait, WorkStart, WorkSuspend, WorkResume, WorkEnd, retiredBackups, leavingBackups
  <2> QED BY <2>1, RetireStep
<1>15. CASE DeleteCluster
  BY <1>15 DEF DeleteCluster, Slot!vars, retiredBackups, leavingBackups
<1>16. CASE Crash
  BY <1>16 DEF Crash, Slot!vars, retiredBackups, leavingBackups
<1>17. CASE UNCHANGED vars
  BY <1>17 DEF vars, Slot!vars, retiredBackups, leavingBackups
<1> QED
  BY <1>1, <1>2, <1>3, <1>4, <1>5, <1>6, <1>7, <1>8, <1>9, <1>10, <1>11, <1>12, <1>13, <1>14, <1>15, <1>16, <1>17 DEF Next, Reconcile

\* The Lease protocol, with its separate reads and writes, implements the
\* atomic slot: no eviction of an unfinished holder, no release by another.
THEOREM LeaseRefinesSlot == Spec => LeaseImplementsSlot
<1>1. Init => Slot!Init
  BY DEF Init, Slot!Init, retiredBackups, leavingBackups, Unborn
<1> QED
  BY <1>1, LeaseInvariant, SlotStep, PTL DEF Spec, LeaseImplementsSlot, Slot!Spec
=============================================================================
