---------------------------- MODULE MCBackupJobs ----------------------------
(***************************************************************************)
(* The backup job registry on a small instance.                            *)
(***************************************************************************)
EXTENDS BackupJobs, TLC

Symmetry == Permutations(Job)
=============================================================================
