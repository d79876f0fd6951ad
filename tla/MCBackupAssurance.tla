-------------------------- MODULE MCBackupAssurance --------------------------
(* BackupAssurance on small instances, with replicas interchangeable. *)
EXTENDS BackupAssurance, TLC

Replicas == Permutations(Replica)
=============================================================================
