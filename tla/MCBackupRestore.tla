-------------------------- MODULE MCBackupRestore ---------------------------
(* Instances of BackupRestore for TLC. *)
EXTENDS BackupRestore, TLC

\* Restore requests differ in nothing.
RequestSymmetry == Permutations(Request)

=============================================================================
