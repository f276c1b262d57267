---------------------------- MODULE MCBackupFish ----------------------------
(* The backup operation with its one client.                               *)
EXTENDS BackupFish

=============================================================================
