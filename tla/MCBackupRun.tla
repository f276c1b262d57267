---------------------------- MODULE MCBackupRun -----------------------------
(* One backup, after an earlier one that may have left anything it can     *)
(* leave at the mount path.                                                *)
EXTENDS BackupRun

=============================================================================
