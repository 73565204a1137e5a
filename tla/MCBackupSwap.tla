----------------------------- MODULE MCBackupSwap -----------------------------
(* Small instances of BackupSwap: of the paths, the last one belongs to the *)
(* sync state, which a backup does not hold.                                *)
EXTENDS BackupSwap
=============================================================================
