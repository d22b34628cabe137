--------------------------- MODULE MCBackupLease ---------------------------
(***************************************************************************)
(* Small instances of BackupLease for TLC.                                 *)
(***************************************************************************)
EXTENDS BackupLease

\* Three objects, two of which bear the same name one after the other.
MCNameOf == [b \in Backups |-> IF b = 3 THEN 1 ELSE b]
=============================================================================
