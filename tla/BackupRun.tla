----------------------------- MODULE BackupRun ------------------------------
(***************************************************************************)
(* One backup, from RunNativeBackup to its exit code: the snapshot set     *)
(* (Vshadow), RunSnapshotBackup as its operation, the DeviceFs process     *)
(* that serves the snapshots as image files, and the upload (PbsOperation, *)
(* which BackupFish implements).  What the module is about is the nesting  *)
(* of their lifetimes: the upload reads from DeviceFs, DeviceFs reads from *)
(* the snapshots, and each can fail, hang or be cancelled at any step.     *)
(*                                                                         *)
(* The mount path is the same for all backups and the images in it are     *)
(* named for their volumes.  A backup that was killed, or that gave up on  *)
(* its DeviceFs, leaves that process behind: it may serve the path, or not *)
(* have mounted there yet, when the next backup begins.  AcquireBackupLock *)
(* keeps two backups apart, but not what they leave.                       *)
(***************************************************************************)
EXTENDS Vshadow

VARIABLES
    run,            \* where RunSnapshotBackup is
    returned,       \* what it returns or "threw", once it unwinds
    mount_target,   \* what is at kMountTarget, see MountTargets
    earlier,        \* "starting": the DeviceFs of an earlier backup that has
                    \* not mounted yet; "none"
    devicefs,       \* the DeviceFs process of this backup
    source,         \* whose images were uploaded: mount_target at that moment
    stop_timeout,   \* "no", or "yes" after kShutdownTimeout passed
    exit_code,      \* what RunNativeBackup gives back; "none" before
    pbs, code, vss_mount, upload    \* of PbsOperation

runVars == <<run, returned, mount_target, earlier, devicefs, source,
             stop_timeout, exit_code>>
pbsOperationVars == <<pbs, code, vss_mount, upload>>
vars == <<vshadowVars, runVars, pbsOperationVars>>

Pbs == INSTANCE PbsOperation

\* The images of this backup's DeviceFs, of an earlier one that was there when
\* ClearMountTarget looked, or of one that mounted afterwards.
Served == {"own", "earlier", "late"}

\* Otherwise: nothing, an empty directory or dangling junction, or files that
\* somebody has put there.
MountTargets == {"absent", "leftover", "files"} \cup Served

TypeOK ==
    /\ VssTypeOK
    /\ run \in {"idle", "enter", "target", "maps", "open", "start", "ready",
                "pbs", "stop", "return", "returned"}
    /\ returned \in VssResults \cup {"none", "uncaught"}
    /\ mount_target \in MountTargets
    /\ earlier \in {"none", "starting"}
    /\ source \in Served \cup {"none"}
    /\ devicefs \in {"none", "starting", "serving", "stopping", "exited"}
    /\ stop_timeout \in {"no", "yes"}
    /\ exit_code \in VssResults \cup {"none"}
    /\ Pbs!TypeOK

\* Whatever an earlier backup has left.
Init ==
    /\ VssInit
    /\ run = "idle"
    /\ returned = "none"
    /\ mount_target \in {"absent", "leftover", "files", "earlier"}
    /\ earlier \in {"none", "starting"}
    /\ devicefs = "none"
    /\ source = "none"
    /\ stop_timeout = "no"
    /\ exit_code = "none"
    /\ Pbs!Init

-----------------------------------------------------------------------------
(* RunNativeBackup and RunSnapshotBackup.                                  *)

\* The event is already signaled when RunNativeBackup starts.
CancelledBeforeStart ==
    /\ vss = "idle"
    /\ cancellation_event = "signaled"
    /\ vss' = "done"
    /\ vss_result' = "cancelled"
    /\ UNCHANGED <<cancellation_event, completion_, snapshot_set, async,
                   cancel_called, m_bSnapshotSetCreated, writers, vss_fault,
                   runVars, pbsOperationVars>>

\* ERROR_CANCELLED becomes kCancelledExitCode if the event is signaled.
RunVssOperation ==
    /\ vss = "done"
    /\ exit_code = "none"
    /\ exit_code' = IF vss_result = "cancelled" /\ cancellation_event = "reset"
                    THEN "threw" ELSE vss_result
    /\ UNCHANGED <<vshadowVars, run, returned, mount_target, earlier, devicefs,
                   source, stop_timeout, pbsOperationVars>>

EnterOperation ==
    /\ BeginOperation
    /\ run' = "enter"
    /\ UNCHANGED <<returned, mount_target, earlier, devicefs, source,
                   stop_timeout, exit_code, pbsOperationVars>>

RunStep(from, to) ==
    /\ run = from
    /\ run' = to
    /\ UNCHANGED <<vshadowVars, earlier, source, exit_code, pbsOperationVars>>

\* The operation leaves with result; DeviceFsChild, if built, is destroyed.
Leave(from, result) ==
    /\ RunStep(from, IF devicefs = "none" THEN "return" ELSE "stop")
    /\ returned' = result
    /\ UNCHANGED <<mount_target, devicefs, stop_timeout>>

\* if (wil::event_is_signaled(cancellation_event)) return kCancelledExitCode;
CheckCancellation ==
    IF cancellation_event = "signaled"
    THEN Leave("enter", "cancelled")
    ELSE /\ RunStep("enter", "target")
         /\ UNCHANGED <<returned, mount_target, devicefs, stop_timeout>>

\* Mutant: what is at the mount path is not looked at.
ClearMountTargetUnchecked ==
    /\ RunStep("target", "maps")
    /\ UNCHANGED <<returned, mount_target, devicefs, stop_timeout>>

\* An empty leftover is removed; anything else is left alone and refused.
ClearMountTarget ==
    IF mount_target \in Served \cup {"files"}
    THEN Leave("target", "threw")
    ELSE /\ RunStep("target", "maps")
         /\ mount_target' = "absent"
         /\ UNCHANGED <<returned, devicefs, stop_timeout>>

\* PrepareDirtyMaps reports its failures, a cancellation included, and goes on
\* without the maps, but for those between its two handlers (below).
PrepareDirtyMaps ==
    /\ RunStep("maps", "open")
    /\ UNCHANGED <<returned, mount_target, devicefs, stop_timeout>>

OpenSnapshotHandles ==
    /\ RunStep("open", "start")
    /\ UNCHANGED <<returned, mount_target, devicefs, stop_timeout>>

StartDeviceFs ==
    /\ RunStep("start", "ready")
    /\ devicefs' = "starting"
    /\ UNCHANGED <<returned, mount_target, stop_timeout>>

\* Reading the status of the mount path, QuerySnapshotVolumes in
\* PrepareDirtyMaps, opening a snapshot, or starting the process fails; or
\* std::expected::value in PrepareDirtyMaps throws what is no
\* std::runtime_error.
SnapshotBackupThrows ==
    \/ Leave("target", "threw") \/ Leave("open", "threw")
    \/ Leave("start", "threw")
    \/ Leave("maps", "threw") \/ Leave("maps", "uncaught")

\* WaitForDeviceFs: the process exited or the deadline passed.
WaitForDeviceFsThrows ==
    /\ devicefs \in {"starting", "exited"}
    /\ Leave("ready", "threw")

WaitForDeviceFsCancelled ==
    /\ cancellation_event = "signaled"
    /\ Leave("ready", "cancelled")

\* The readiness path exists, whoever serves it.  The process had not exited
\* and the event was not signaled when the loop looked, and may be now.
DeviceFsReady ==
    /\ mount_target \in Served
    /\ RunStep("ready", "pbs")
    /\ UNCHANGED <<returned, mount_target, devicefs, stop_timeout>>

\* RunPbsFish.
StartPbs ==
    /\ run = "pbs"
    /\ Pbs!Start
    /\ UNCHANGED <<vssVars, runVars>>

PbsThrows ==
    /\ run = "pbs"
    /\ Pbs!Fail \/ Pbs!Abandon
    /\ run' = "stop"
    /\ returned' = "threw"
    /\ UNCHANGED <<vssVars, mount_target, earlier, devicefs, source,
                   stop_timeout, exit_code>>

\* Mutant: the exit code of RunPbsFish is dropped.
PbsReturnsZero ==
    /\ run = "pbs"
    /\ Pbs!Finish
    /\ run' = "stop"
    /\ returned' = "zero"
    /\ UNCHANGED <<vssVars, mount_target, earlier, devicefs, source,
                   stop_timeout, exit_code>>

PbsReturns ==
    /\ run = "pbs"
    /\ Pbs!Finish
    /\ run' = "stop"
    /\ returned' = code'
    /\ UNCHANGED <<vssVars, mount_target, earlier, devicefs, source,
                   stop_timeout, exit_code>>

\* ~DeviceFsChild: the stop event, then a wait of kShutdownTimeout.
RequestStop ==
    /\ run = "stop"
    /\ devicefs \in {"starting", "serving"}
    /\ devicefs' = "stopping"
    /\ UNCHANGED <<vshadowVars, run, returned, mount_target, earlier, source,
                   stop_timeout, exit_code, pbsOperationVars>>

\* Mutant: the destructor does not wait for the process.
DeviceFsStoppedUnconfirmed ==
    /\ devicefs \in {"stopping", "exited"}
    /\ RunStep("stop", "return")
    /\ UNCHANGED <<returned, mount_target, devicefs, stop_timeout>>

DeviceFsStopped ==
    /\ devicefs = "exited"
    /\ RunStep("stop", "return")
    /\ UNCHANGED <<returned, mount_target, devicefs, stop_timeout>>

\* Mutant: the wait for DeviceFs to close its files has no timeout.
StopNeverTimesOut == FALSE /\ UNCHANGED vars

\* DeviceFs waits for open files; it is left running.
StopTimesOut ==
    /\ devicefs = "stopping"
    /\ RunStep("stop", "return")
    /\ stop_timeout' = "yes"
    /\ UNCHANGED <<returned, mount_target, devicefs>>

\* The callback of RunNativeBackup turns a std::runtime_error into exit code 2
\* before class Backup sees it, and lets other exceptions pass.
CallbackResult ==
    IF returned = "threw" THEN "nonzero"
    ELSE IF returned = "uncaught" THEN "threw" ELSE returned

ReturnFromOperation ==
    /\ run = "return"
    /\ run' = "returned"
    /\ EndOperation(CallbackResult)
    /\ UNCHANGED <<returned, mount_target, earlier, devicefs, source,
                   stop_timeout, exit_code, pbsOperationVars>>

RunSnapshotBackup ==
    \/ EnterOperation \/ CheckCancellation \/ ClearMountTarget
    \/ PrepareDirtyMaps \/ OpenSnapshotHandles \/ StartDeviceFs
    \/ SnapshotBackupThrows \/ WaitForDeviceFsThrows
    \/ WaitForDeviceFsCancelled \/ DeviceFsReady \/ StartPbs
    \/ RequestStop \/ DeviceFsStopped \/ StopTimesOut \/ ReturnFromOperation

RunPbsFish == PbsThrows \/ PbsReturns

-----------------------------------------------------------------------------
(* DeviceFs, and the Fish program behind PbsOperation.                     *)

\* WinFsp mounts on an absent path only; otherwise the process exits.  One
\* that was asked to stop looks at the event after it has mounted.
DeviceFsMounts ==
    /\ devicefs \in {"starting", "stopping"}
    /\ mount_target = "absent"
    /\ devicefs' = IF devicefs = "starting" THEN "serving" ELSE "stopping"
    /\ mount_target' = "own"
    /\ UNCHANGED <<vshadowVars, run, returned, earlier, source, stop_timeout,
                   exit_code, pbsOperationVars>>

\* DeviceFs ends on request, or dies, or cannot mount; WinFsp removes the
\* mount directory unless the process could not clean up.
DeviceFsExits ==
    /\ devicefs \in {"starting", "serving", "stopping"}
    /\ devicefs' = "exited"
    /\ mount_target' \in IF mount_target \in {"own", "absent"}
                         THEN {"absent", "leftover"} ELSE {mount_target}
    /\ UNCHANGED <<vshadowVars, run, returned, earlier, source, stop_timeout,
                   exit_code, pbsOperationVars>>

\* The DeviceFs of an earlier backup goes on with its start.  Its stop event
\* may have gone with that backup, or nobody ever signaled it.
EarlierMounts ==
    /\ earlier = "starting"
    /\ mount_target = "absent"
    /\ earlier' = "none"
    /\ mount_target' = IF run \in {"idle", "enter", "target"}
                       THEN "earlier" ELSE "late"
    /\ UNCHANGED <<vshadowVars, run, returned, devicefs, source, stop_timeout,
                   exit_code, pbsOperationVars>>

EarlierExits ==
    /\ \/ /\ earlier = "starting"
          /\ earlier' = "none"
          /\ UNCHANGED mount_target
       \/ /\ mount_target \in {"earlier", "late"}
          /\ mount_target' \in {"absent", "leftover"}
          /\ UNCHANGED earlier
    /\ UNCHANGED <<vshadowVars, run, returned, devicefs, source, stop_timeout,
                   exit_code, pbsOperationVars>>

\* The mount and the client need a DeviceFs that answers.
FishMounts ==
    /\ mount_target \in Served
    /\ Pbs!Mount
    /\ UNCHANGED <<vssVars, runVars>>

FishUploads ==
    /\ mount_target \in Served
    /\ Pbs!Upload
    /\ source' = mount_target
    /\ UNCHANGED <<vssVars, run, returned, mount_target, earlier, devicefs,
                   stop_timeout, exit_code>>

FishUnmounts ==
    /\ Pbs!Unmount
    /\ UNCHANGED <<vssVars, runVars>>

Others ==
    \/ DeviceFsMounts \/ DeviceFsExits
    \/ EarlierMounts \/ EarlierExits
    \/ FishMounts \/ FishUploads \/ FishUnmounts

\* RunNativeBackup is over; a leftover DeviceFs or Fish may go on.
Terminated ==
    /\ exit_code # "none"
    /\ UNCHANGED vars

Next ==
    \/ (VssRequestCancellation \/ CreateSnapshotSet \/ CreateSnapshotSetFails
        \/ DestroyBackup \/ Service) /\ UNCHANGED <<runVars, pbsOperationVars>>
    \/ CancelledBeforeStart \/ RunVssOperation
    \/ RunSnapshotBackup \/ RunPbsFish
    \/ Others
    \/ Terminated

Spec == Init /\ [][Next]_vars

\* The supervisor's thread runs, its timed waits end, VSS answers, and
\* RunPbsFish ends (CancellationEndsRunPbsFish) once it is cancelled.
Fairness ==
    /\ WF_vars(CreateSnapshotSet /\ UNCHANGED <<runVars, pbsOperationVars>>)
    /\ WF_vars(DestroyBackup /\ UNCHANGED <<runVars, pbsOperationVars>>)
    /\ WF_vars(Service /\ UNCHANGED <<runVars, pbsOperationVars>>)
    /\ WF_vars(RunVssOperation)
    /\ WF_vars(RunSnapshotBackup)
    /\ WF_vars(RunPbsFish /\ cancellation_event = "signaled")

FairSpec == Spec /\ Fairness

-----------------------------------------------------------------------------
(* Properties.                                                             *)

\* The exit code tells what became of the backup.  0 means a usable one: the
\* upload is complete, the images are unmounted, and the snapshot set still
\* exists, as the next backup's dirty maps need it as their baseline.
\* kCancelledExitCode is not a failure: it is returned only when cancellation
\* was requested before RunPbsFish was called for the upload, so that nothing
\* of the backup reached the server (the query for the previous manifest, in
\* PrepareDirtyMaps, may have run); a later cancellation is reported by the
\* upload's own exit code.
ExitCodeIsTruthful ==
    /\ exit_code = "zero" =>
          /\ upload = "complete"
          /\ vss_mount = "unmounted"
          /\ snapshot_set = "created"
    /\ exit_code = "cancelled" =>
          cancellation_event = "signaled" /\ pbs = "idle"

\* Lifetimes nest, on every path out of RunSnapshotBackup.  The upload never
\* loses its source to the supervisor: as long as RunPbsFish runs, nobody has
\* asked DeviceFs to stop, and a mount that is left when it is asked belongs to
\* an upload that was abandoned or could not unmount.  The snapshots outlive
\* DeviceFs, which reads them: the set is deleted only when the process has
\* exited, or was given kShutdownTimeout to do so.
LifetimesNest ==
    /\ pbs = "running" => devicefs \notin {"none", "stopping"}
    /\ (devicefs = "stopping" /\ vss_mount = "mounted") =>
          pbs = "abandoned" \/ code = "nonzero"
    /\ (snapshot_set = "deleted" /\ devicefs # "none") =>
          devicefs = "exited" \/ stop_timeout = "yes"

\* What an interrupted backup left behind does not get into the next one: no
\* upload is completed from the images of a DeviceFs that served the mount path
\* before this backup looked at it in ClearMountTarget.  WaitForDeviceFs alone
\* would not notice, as it asks for an image file and not for who serves it,
\* and the new DeviceFs, which cannot mount, may not have exited yet.  One case
\* is excepted because the code does not exclude it: an earlier DeviceFs that
\* was still starting and mounts after ClearMountTarget ("late").
UploadReadsOwnImages == upload = "complete" => source \in {"own", "late"}

\* A cancelled backup ends, in whatever step the event finds it.
CancellationEndsBackup == cancellation_event = "signaled" ~> exit_code # "none"

=============================================================================
