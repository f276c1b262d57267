---------------------------- MODULE PbsOperation ----------------------------
(***************************************************************************)
(* What RunPbsFish promises RunSnapshotBackup about a backup upload, with  *)
(* the control protocol hidden.  BackupFish implements this specification, *)
(* and BackupRun uses it in place of the Fish program.                     *)
(***************************************************************************)
VARIABLES
    cancellation_event, \* the caller's event: "reset" or "signaled"
    pbs,                \* "idle", "running", "finished", "failed" or "abandoned"
    code,               \* what RunPbsFish returned, "none" before that
    vss_mount,          \* "unmounted" or "mounted": the images' mount in WSL
    upload              \* "none" or "complete": the snapshot on the backup server

vars == <<cancellation_event, pbs, code, vss_mount, upload>>

TypeOK ==
    /\ cancellation_event \in {"reset", "signaled"}
    /\ pbs \in {"idle", "running", "finished", "failed", "abandoned"}
    /\ code \in {"zero", "nonzero", "none"}
    /\ vss_mount \in {"unmounted", "mounted"}
    /\ upload \in {"none", "complete"}

Init ==
    /\ cancellation_event = "reset"
    /\ pbs = "idle"
    /\ code = "none"
    /\ vss_mount = "unmounted"
    /\ upload = "none"

RequestCancellation ==
    /\ cancellation_event = "reset"
    /\ cancellation_event' = "signaled"
    /\ UNCHANGED <<pbs, code, vss_mount, upload>>

\* Fish has its complete input and proceeds by itself.
Start ==
    /\ pbs = "idle"
    /\ pbs' = "running"
    /\ UNCHANGED <<cancellation_event, code, vss_mount, upload>>

\* RunPbsFish throws before Fish could do anything.
Fail ==
    /\ pbs = "idle"
    /\ pbs' = "failed"
    /\ UNCHANGED <<cancellation_event, code, vss_mount, upload>>

\* Fish mounts the images while it is running, whether or not the supervisor
\* still waits for it.
Mount ==
    /\ pbs \in {"running", "abandoned"}
    /\ upload = "none"
    /\ vss_mount = "unmounted"
    /\ vss_mount' = "mounted"
    /\ UNCHANGED <<cancellation_event, pbs, code, upload>>

\* The client completes the snapshot; it reads the images, so they are mounted.
Upload ==
    /\ pbs \in {"running", "abandoned"}
    /\ vss_mount = "mounted"
    /\ upload = "none"
    /\ upload' = "complete"
    /\ UNCHANGED <<cancellation_event, pbs, code, vss_mount>>

Unmount ==
    /\ pbs \in {"running", "abandoned"}
    /\ vss_mount = "mounted"
    /\ vss_mount' = "unmounted"
    /\ UNCHANGED <<cancellation_event, pbs, code, upload>>

\* Fish has exited and RunPbsFish returns: zero means that the snapshot is
\* complete and that nothing in WSL holds the images.
Finish ==
    /\ pbs = "running"
    /\ pbs' = "finished"
    /\ \E c \in {"zero", "nonzero"} :
          /\ c = "zero" => upload = "complete" /\ vss_mount = "unmounted"
          /\ code' = c
    /\ UNCHANGED <<cancellation_event, vss_mount, upload>>

\* RunPbsFish gives up on a Fish program that it could not stop.
Abandon ==
    /\ pbs = "running"
    /\ cancellation_event = "signaled"
    /\ pbs' = "abandoned"
    /\ UNCHANGED <<cancellation_event, code, vss_mount, upload>>

Next ==
    \/ RequestCancellation
    \/ Start \/ Fail \/ Mount \/ Upload \/ Unmount \/ Finish \/ Abandon

Spec == Init /\ [][Next]_vars

=============================================================================
