---------------------------- MODULE BackupSlot ----------------------------
(***************************************************************************)
(* What the backup lock of one cluster promises: a single slot that a      *)
(* backup occupies, that another one takes over only when the occupant has *)
(* retired (it reached a terminal state or its object is gone), and that   *)
(* is emptied only when the occupant is leaving (it has retired or is      *)
(* being deleted).  Neither is ever revoked.  BackupLease implements this  *)
(* with a Lease object, optimistic concurrency and object conditions.      *)
(***************************************************************************)
CONSTANTS Backups,   \* PerconaPGBackup objects (one per UID)
          Free       \* the slot is empty

VARIABLES slot,      \* the occupant, or Free
          leaving,   \* the backups that are done or being deleted
          retired    \* the backups that will never need the slot again

vars == <<slot, leaving, retired>>

Init == /\ slot = Free
        /\ leaving = {}
        /\ retired = {}

\* A backup takes a free slot, or the slot of a retired occupant.
Take(b) == /\ slot \in {Free, b} \cup retired
           /\ slot' = b
           /\ UNCHANGED <<leaving, retired>>

\* The slot is given back for an occupant that leaves, and for nobody else.
Vacate(b) == /\ slot = b /\ b \in leaving
             /\ slot' = Free
             /\ UNCHANGED <<leaving, retired>>

\* A backup is deleted by its user.
Leave(b) == /\ leaving' = leaving \cup {b}
            /\ UNCHANGED <<slot, retired>>

\* A backup finishes, fails, or its object disappears.
Retire(b) == /\ leaving' = leaving \cup {b}
             /\ retired' = retired \cup {b}
             /\ UNCHANGED slot

Next == \E b \in Backups : Take(b) \/ Vacate(b) \/ Leave(b) \/ Retire(b)

Spec == Init /\ [][Next]_vars
=============================================================================
