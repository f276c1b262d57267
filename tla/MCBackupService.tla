-------------------------- MODULE MCBackupService ---------------------------
(* The service with up to two other processes in the job, and timeouts of  *)
(* different lengths so that a sum with one missing shows.                 *)
EXTENDS BackupService

=============================================================================
