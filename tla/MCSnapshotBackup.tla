-------------------------- MODULE MCSnapshotBackup --------------------------
(***************************************************************************)
(* SnapshotBackup for TLC.  Backups, instances and volumes are             *)
(* interchangeable: the first primary may be any instance.                 *)
(***************************************************************************)
EXTENDS SnapshotBackup, TLC

Symmetry == Permutations(Backups) \cup Permutations(Instances)
            \cup Permutations(Volumes)
=============================================================================
