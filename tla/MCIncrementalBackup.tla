------------------------ MODULE MCIncrementalBackup -------------------------
(* Five clusters in three blocks and two chunks, the last of both partial.   *)
EXTENDS IncrementalBackup

MCInitialAllocations == {{0, 1, 3}, {0, 2, 3, 4}}
=============================================================================
