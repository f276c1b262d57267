----------------------------- MODULE BackupFish -----------------------------
(***************************************************************************)
(* The backup operation of start-pbs.fish (run_backup, supervise_pbs,      *)
(* wait_for_published_child, unmount_vss) under the control of RunPbsFish. *)
(* Fish mounts the DeviceFs images, starts proxmox-backup-client, publishes*)
(* its PID, waits for it, unmounts the images and exits.                   *)
(***************************************************************************)
EXTENDS PbsControl

CONSTANTS
    client      \* the one child: proxmox-backup-client backup

VARIABLES
    vss_mount   \* "unmounted" or "mounted": $vss_mount_point in WSL

vars == <<pbsVars, vss_mount>>

ASSUME ClientAssumption == Children = {client}

BackupStates ==
    {"unborn", "input", "prepare", "mount", "spawn", "publish", "wait",
     "remove", "unmount", "exit", "exited"}

TypeOK ==
    /\ PbsTypeOK
    /\ fish \in BackupStates
    /\ vss_mount \in {"unmounted", "mounted"}

Init ==
    /\ PbsInit
    /\ vss_mount = "unmounted"

-----------------------------------------------------------------------------

ReadInput ==
    /\ standard_input = "complete"
    /\ FishStep("input", "prepare", status)
    /\ UNCHANGED vss_mount

\* mktemp, and the manifest written to the temporary file.
PrepareManifest ==
    /\ FishStep("prepare", "mount", status)
    /\ UNCHANGED vss_mount

\* mktemp fails, or the file cannot be written.
PrepareManifestFails ==
    /\ FishStep("prepare", "exit", "nonzero")
    /\ UNCHANGED vss_mount

\* sudo -n mount $vss_mount_point || exit
MountVss ==
    /\ FishStep("mount", "spawn", status)
    /\ vss_mount' = "mounted"

MountVssFails ==
    /\ FishStep("mount", "exit", "nonzero")
    /\ UNCHANGED vss_mount

\* $DEVICEFS_PBS_CLIENT $backup_argv &
SpawnClient ==
    /\ StartChild("spawn", "publish", client)
    /\ UNCHANGED vss_mount

\* wait_for_published_child calls publish_children.
PublishClient ==
    /\ CallPublish("publish", "wait", {client})
    /\ UNCHANGED vss_mount

\* Mutant: a client that failed is published and waited for again.
WaitClientAgain ==
    /\ Exited(client)
    /\ IF proc[client] = "ok" THEN FishStep("wait", "remove", "zero")
                              ELSE FishStep("wait", "publish", status)
    /\ UNCHANGED vss_mount

\* wait returns and the exit handler has recorded the client's exit code.
WaitClient ==
    /\ Exited(client)
    /\ FishStep("wait", "remove",
                IF proc[client] = "ok" THEN "zero" ELSE "nonzero")
    /\ UNCHANGED vss_mount

RemoveClientPid ==
    /\ RemovePidFile("remove", "unmount")
    /\ UNCHANGED vss_mount

\* The finalizer unmount_vss.  The exit status is the client's unless that is 0.
UnmountVss ==
    /\ FishStep("unmount", "exit", status)
    /\ vss_mount' = "unmounted"

\* Mutant: the status of the finalizer is dropped.
UnmountVssTimesOutUnnoticed ==
    /\ FishStep("unmount", "exit", status)
    /\ UNCHANGED vss_mount

\* The mount stays busy until timeout ends the retries.
UnmountVssTimesOut ==
    /\ FishStep("unmount", "exit", "nonzero")
    /\ UNCHANGED vss_mount

Program ==
    \/ ReadInput \/ PrepareManifest \/ PrepareManifestFails
    \/ MountVss \/ MountVssFails \/ SpawnClient \/ PublishClient
    \/ WaitClient \/ RemoveClientPid \/ UnmountVss \/ UnmountVssTimesOut
    \/ (ReadInputFails \/ PublishChildren \/ FishExit) /\ UNCHANGED vss_mount

Environment ==
    /\ \/ RequestCancellation
       \/ Supervisor
       \/ \E s \in Signals : Control(s)
       \/ ChildExit(client)
    /\ UNCHANGED vss_mount

\* RunPbsFish is over and no process is left that could take a step.
Terminated ==
    /\ sup \in {"finished", "threw"}
    /\ fish \in {"unborn", "exited"}
    /\ \A s \in Signals : ctl[s] \in {"off", "done"}
    /\ UNCHANGED vars

Next == Program \/ Environment \/ Terminated

Spec == Init /\ [][Next]_vars

(***************************************************************************)
(* Fairness.  Windows schedules the supervisor and its timed waits end;    *)
(* WSL schedules Fish and the control programs; every mount and unmount    *)
(* returns, since unmount_vss runs under timeout.  A client that has been  *)
(* signalled ends; one that has not may upload for ever.                   *)
(***************************************************************************)
Fairness ==
    /\ WF_vars(Supervisor /\ UNCHANGED vss_mount)
    /\ WF_vars(Program)
    /\ \A s \in Signals : WF_vars(Control(s) /\ UNCHANGED vss_mount)
    /\ WF_vars(signalled[client] # {} /\ ChildExit(client)
               /\ UNCHANGED vss_mount)

FairSpec == Spec /\ Fairness

-----------------------------------------------------------------------------
(* Properties.                                                             *)

\* The client never reads images that are not there: the mount is made before
\* the client starts and unmount_vss runs only after the client has exited.
MountedWhileClientReads == Running(client) => vss_mount = "mounted"

\* RunPbsFish returns 0 only when the client completed the snapshot and the
\* images are unmounted, whatever was cancelled, timed out or lost meanwhile.
SuccessMeansUploaded ==
    (sup = "finished" /\ result = "zero") =>
        proc[client] = "ok" /\ vss_mount = "unmounted"

\* RunPbsFish never outlives a cancellation: with or without the cooperation
\* of WSL, the timeouts of StopPbsFish bring it to an end.
CancellationEndsRunPbsFish ==
    (sup = "poll" /\ cancellation_event = "signaled")
        ~> sup \in {"finished", "threw"}

\* A TERM request that reaches WSL ends the Fish program, whichever side of
\* the publication it arrives on and even if the supervisor stopped waiting.
TermEndsOperation == ctl["TERM"] = "done" ~> fish = "exited"

-----------------------------------------------------------------------------
(* BackupFish implements PbsOperation.                                     *)

PbsPhase ==
    CASE sup \in {"start", "write"} -> "idle"
      [] sup = "finished" -> "finished"
      [] sup = "threw" -> IF standard_input = "complete"
                          THEN "abandoned" ELSE "failed"
      [] OTHER -> "running"

Operation == INSTANCE PbsOperation WITH
    pbs <- PbsPhase,
    code <- result,
    upload <- IF proc[client] = "ok" THEN "complete" ELSE "none"

\* Seen from RunSnapshotBackup the whole protocol is one upload that mounts,
\* completes, unmounts and is then reported, or is abandoned half-way.
ImplementsPbsOperation == Operation!Spec

=============================================================================
