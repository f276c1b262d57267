--------------------------- MODULE SelectiveView ----------------------------
(***************************************************************************)
(* RunSelectiveView: the Windows side of a view.  It starts the view       *)
(* program in WSL (ViewFish), a DeviceFs process that presents the RPC     *)
(* device as a VHDX file, attaches that file as a disk and mounts its      *)
(* volume; then it waits for the end of the session.  Its destructors take *)
(* all this down in the opposite order, on every path out of the function. *)
(***************************************************************************)
EXTENDS ViewFish

CONSTANTS
    StartableSignals    \* the requests WSL can start; the others fail to start

ASSUME SelectiveViewAssumption == StartableSignals \subseteq Signals

VARIABLES
    view,               \* where RunSelectiveView is
    devicefs,           \* "none", "starting", "serving" or "exited"
    vhdx,               \* the file of DeviceFs: "closed", "open", "attached",
                        \* or "stuck": detaching failed and Windows reads on
    should_stop_pbs     \* of RunSelectiveView

windowsVars == <<view, devicefs, vhdx, should_stop_pbs>>
vars == <<pbsVars, viewFishVars, windowsVars>>

ViewStates ==
    {"begin", "directories", "start_fish", "readiness", "start_devicefs",
     "wait_devicefs", "check_fish", "open", "attach", "query", "mount",
     "session", "detach", "stop_devicefs", "wait_stop", "stop_fish",
     "stopping", "returned"}

TypeOK ==
    /\ ViewFishTypeOK
    /\ view \in ViewStates
    /\ devicefs \in {"none", "starting", "serving", "exited"}
    /\ vhdx \in {"closed", "open", "attached", "stuck"}
    /\ should_stop_pbs \in BOOLEAN

Init ==
    /\ ViewFishInit
    /\ view = "begin"
    /\ devicefs = "none"
    /\ vhdx = "closed"
    /\ should_stop_pbs = TRUE

-----------------------------------------------------------------------------
(* Steps of RunSelectiveView.                                              *)

(* A return or an exception leads to the first destructor that has         *)
(* something to do; which of the two it is, only the exit code tells.      *)

Cancelled == cancellation_event = "signaled"

ViewStep(from, to) == view = from /\ view' = to

Begin ==
    /\ IF Cancelled THEN ViewStep("begin", "returned")
                    ELSE ViewStep("begin", "directories")
    /\ UNCHANGED <<pbsVars, viewFishVars, devicefs, vhdx, should_stop_pbs>>

\* The user, the port, the two directories and the password.
PrepareDirectories ==
    /\ ViewStep("directories", "start_fish") \/ ViewStep("directories", "returned")
    /\ UNCHANGED <<pbsVars, viewFishVars, devicefs, vhdx, should_stop_pbs>>

\* StartViewFish, the steps of which are StartPbsFish's.
StartViewFish ==
    /\ view = "start_fish"
    /\ \/ StartWslFishProcess \/ StartWslFishProcessThrows
       \/ WriteInput \/ WriteInputThrows
    /\ view' = CASE sup' = "poll"  -> "readiness"
                 [] sup' = "threw" -> "returned"
                 [] OTHER          -> view
    /\ UNCHANGED <<viewFishVars, devicefs, vhdx, should_stop_pbs>>

\* WaitForSambaReadiness: the end of the view program, or cancellation.
SambaIsNotReady ==
    /\ fish = "exited" \/ Cancelled
    /\ ViewStep("readiness", "stop_fish")
    /\ UNCHANGED <<pbsVars, viewFishVars, devicefs, vhdx, should_stop_pbs>>

\* Samba writes to --ready-signal-fd and SambaReadinessReader gets the byte.
SambaIsReady ==
    /\ Running(samba)
    /\ ViewStep("readiness", "start_devicefs")
    /\ UNCHANGED <<pbsVars, viewFishVars, devicefs, vhdx, should_stop_pbs>>

\* The pipe to WSL breaks while the view program runs.
ReadinessBreaks ==
    /\ ViewStep("readiness", "stop_fish")
    /\ UNCHANGED <<pbsVars, viewFishVars, devicefs, vhdx, should_stop_pbs>>

StartDeviceFsThrows ==
    /\ ViewStep("start_devicefs", "stop_fish")
    /\ UNCHANGED <<pbsVars, viewFishVars, devicefs, vhdx, should_stop_pbs>>

\* Mutant: the constructor of DeviceFsChild leaves should_stop_pbs alone.
StartDeviceFsTrusting ==
    /\ ViewStep("start_devicefs", "wait_devicefs")
    /\ devicefs' = "starting"
    /\ UNCHANGED <<pbsVars, viewFishVars, vhdx, should_stop_pbs>>

\* From here on WSL is stopped only after DeviceFs is known to have ended.
StartDeviceFs ==
    /\ ViewStep("start_devicefs", "wait_devicefs")
    /\ devicefs' = "starting"
    /\ should_stop_pbs' = FALSE
    /\ UNCHANGED <<pbsVars, viewFishVars, vhdx>>

\* WaitForDeviceFs: the readiness path is found, or DeviceFs exits early, or
\* kStartTimeout passes, or the event is signaled.
WaitForDeviceFs ==
    /\ \/ devicefs = "serving" /\ ViewStep("wait_devicefs", "check_fish")
       \/ ViewStep("wait_devicefs", "stop_devicefs")
    /\ UNCHANGED <<pbsVars, viewFishVars, devicefs, vhdx, should_stop_pbs>>

\* The view program must still run; the privileges may be refused.
CheckFish ==
    /\ \/ fish # "exited" /\ ViewStep("check_fish", "open")
       \/ ViewStep("check_fish", "stop_devicefs")
    /\ UNCHANGED <<pbsVars, viewFishVars, devicefs, vhdx, should_stop_pbs>>

\* AttachedVhdx::Attach tests the event before OpenVhdx ...
OpenVhdx ==
    /\ \/ /\ ~Cancelled
          /\ devicefs = "serving"
          /\ ViewStep("open", "attach")
          /\ vhdx' = "open"
       \/ /\ ViewStep("open", "stop_devicefs")
          /\ UNCHANGED vhdx
    /\ UNCHANGED <<pbsVars, viewFishVars, devicefs, should_stop_pbs>>

\* ... and before AttachVhdx.  A pending attachment ends with or without the
\* CancelIoEx that cancellation asks for; its own status decides.
AttachVhdx ==
    /\ \/ /\ ~Cancelled
          /\ vhdx = "open"
          /\ ViewStep("attach", "query")
          /\ vhdx' = "attached"
       \/ /\ ViewStep("attach", "stop_devicefs")
          /\ vhdx' = "closed"
    /\ UNCHANGED <<pbsVars, viewFishVars, devicefs, should_stop_pbs>>

\* DetachVirtualDisk; closing the handle is the fallback of a failed detach, and
\* may leave the disk in use as well.
Detach == vhdx' \in (IF vhdx = "closed" THEN {"closed"} ELSE {"closed", "stuck"})

\* The event is tested once more, then QueryAttachedVhdxRoot looks for the
\* volume; cleanup_failed_attachment detaches the disk if one of them throws.
QueryAttachedVhdxRoot ==
    /\ \/ /\ ~Cancelled
          /\ ViewStep("query", "mount")
          /\ UNCHANGED vhdx
       \/ /\ ViewStep("query", "stop_devicefs")
          /\ Detach
    /\ UNCHANGED <<pbsVars, viewFishVars, devicefs, should_stop_pbs>>

\* SetVolumeMountPointW
MountVolume ==
    /\ ViewStep("mount", "session") \/ ViewStep("mount", "detach")
    /\ UNCHANGED <<pbsVars, viewFishVars, devicefs, vhdx, should_stop_pbs>>

\* The end of DeviceFs, of the view program, or cancellation.
WaitForViewSession ==
    /\ devicefs = "exited" \/ fish = "exited" \/ Cancelled
    /\ ViewStep("session", "detach")
    /\ UNCHANGED <<pbsVars, viewFishVars, devicefs, vhdx, should_stop_pbs>>

-----------------------------------------------------------------------------
(* The destructors.                                                        *)

\* ~MountedVolume and DetachNoThrow.
DetachVhdx ==
    /\ ViewStep("detach", "stop_devicefs")
    /\ Detach
    /\ UNCHANGED <<pbsVars, viewFishVars, devicefs, should_stop_pbs>>

\* ~DeviceFsChild sets stop_event, which is set from "wait_stop" on.
SetStopEvent ==
    /\ ViewStep("stop_devicefs", "wait_stop")
    /\ UNCHANGED <<pbsVars, viewFishVars, devicefs, vhdx, should_stop_pbs>>

\* Mutant: the exit of DeviceFs is not handed to exit_confirmed.
DeviceFsEndedUnconfirmed ==
    /\ devicefs = "exited"
    /\ ViewStep("wait_stop", "stop_fish")
    /\ UNCHANGED <<pbsVars, viewFishVars, devicefs, vhdx, should_stop_pbs>>

DeviceFsEnded ==
    /\ devicefs = "exited"
    /\ ViewStep("wait_stop", "stop_fish")
    /\ should_stop_pbs' = TRUE
    /\ UNCHANGED <<pbsVars, viewFishVars, devicefs, vhdx>>

\* Mutant: DeviceFsChild waits without a timeout.
ShutdownTimeoutNever == FALSE /\ UNCHANGED vars

\* kShutdownTimeout: DeviceFs, and with it WSL, is left to serve the disk.
ShutdownTimeout ==
    /\ devicefs # "exited"
    /\ ViewStep("wait_stop", "stop_fish")
    /\ UNCHANGED <<pbsVars, viewFishVars, devicefs, vhdx, should_stop_pbs>>

\* stop_fish calls TryStopPbsFish, or does not.
StopFish ==
    /\ IF should_stop_pbs
       THEN ViewStep("stop_fish", "stopping") /\ sup' = "stop"
       ELSE ViewStep("stop_fish", "returned") /\ UNCHANGED sup
    /\ UNCHANGED <<cancellation_event, result, standard_input, controlVars,
                   fileVars, programVars, publishVars, childVars,
                   viewFishVars, devicefs, vhdx, should_stop_pbs>>

\* StopPbsFish, whose exception TryStopPbsFish reports.
StopPbsFish ==
    /\ view = "stopping"
    /\ \/ FinishWsl \/ KillGraceExpires
       \/ \E s \in StartableSignals : StartSignal(s) \/ SignalReturns(s)
       \/ \E s \in Signals : StartSignalThrows(s)
    /\ view' = IF sup' \in {"finished", "threw"} THEN "returned" ELSE view
    /\ UNCHANGED <<viewFishVars, devicefs, vhdx, should_stop_pbs>>

RunSelectiveView ==
    \/ Begin \/ PrepareDirectories \/ StartViewFish \/ SambaIsNotReady
    \/ StartDeviceFs \/ StartDeviceFsThrows \/ WaitForDeviceFs \/ CheckFish
    \/ OpenVhdx \/ AttachVhdx \/ QueryAttachedVhdxRoot \/ MountVolume
    \/ WaitForViewSession \/ DetachVhdx \/ SetStopEvent
    \/ DeviceFsEnded \/ ShutdownTimeout \/ StopFish \/ StopPbsFish

-----------------------------------------------------------------------------
(* The DeviceFs process, as DeviceFsShutdown models it.                    *)

StopRequested == view \in {"wait_stop", "stop_fish", "stopping", "returned"}

DeviceFsServes ==
    /\ devicefs = "starting"
    /\ devicefs' = "serving"
    /\ UNCHANGED <<pbsVars, viewFishVars, view, vhdx, should_stop_pbs>>

\* A requested shutdown waits for open files: DeviceFs goes on serving an
\* attached disk.
DeviceFsStops ==
    /\ devicefs \in {"starting", "serving"}
    /\ StopRequested
    /\ vhdx = "closed"
    /\ devicefs' = "exited"
    /\ UNCHANGED <<pbsVars, viewFishVars, view, vhdx, should_stop_pbs>>

\* It fails, or somebody ends it, and its files are gone with it.
DeviceFsDies ==
    /\ devicefs \in {"starting", "serving"}
    /\ devicefs' = "exited"
    /\ vhdx' = "closed"
    /\ UNCHANGED <<pbsVars, viewFishVars, view, should_stop_pbs>>

\* The last user of a disk whose detachment had failed leaves it.
DiskReleased ==
    /\ vhdx = "stuck"
    /\ vhdx' = "closed"
    /\ UNCHANGED <<pbsVars, viewFishVars, devicefs, view, should_stop_pbs>>

-----------------------------------------------------------------------------

Linux == ViewProgram \/ ReaderEof

\* Nobody looks at the event after the session.
Cancel == view \notin {"detach", "stop_devicefs"} /\ ~StopRequested
            /\ RequestCancellation

Unfair ==
    \/ SambaIsReady \/ ReadinessBreaks
    \/ DeviceFsServes \/ DeviceFsStops \/ DeviceFsDies \/ DiskReleased
    \/ (ReaderReadsLine \/ ReaderDies) /\ UNCHANGED windowsVars
    \/ (Cancel \/ \E c \in Children : ChildExit(c))
          /\ UNCHANGED <<viewFishVars, windowsVars>>

Terminated ==
    /\ view = "returned"
    /\ UNCHANGED vars

Next ==
    \/ RunSelectiveView
    \/ Linux /\ UNCHANGED windowsVars
    \/ (\E s \in Signals : Control(s))
          /\ UNCHANGED <<viewFishVars, windowsVars>>
    \/ Unfair
    \/ Terminated

Spec == Init /\ [][Next]_vars

(***************************************************************************)
(* Schedulers run and timed waits end, an attachment that is pending ends, *)
(* a child that was signalled ends.  No fairness for a mapper or a Samba   *)
(* that gets ready, for a stuck disk, for DeviceFs, or for cancellation.   *)
(***************************************************************************)
Fairness ==
    /\ WF_vars(RunSelectiveView)
    /\ WF_vars(ViewProgram /\ UNCHANGED windowsVars)
    /\ WF_vars(ReaderEof /\ UNCHANGED windowsVars)
    /\ \A s \in Signals :
          WF_vars(Control(s) /\ UNCHANGED <<viewFishVars, windowsVars>>)
    /\ \A c \in Children :
          WF_vars(signalled[c] # {} /\ ChildExit(c)
                    /\ UNCHANGED <<viewFishVars, windowsVars>>)

FairSpec == Spec /\ Fairness

-----------------------------------------------------------------------------
(* Properties.                                                             *)

\* "Windows must still be able to read a VHDX's backing file to detach the
\* disk": the supervisor asks WSL to stop only when DeviceFs, whose reads end
\* in WSL, has exited or was never started.  No path out of RunSelectiveView,
\* with a detach that fails or a shutdown that times out, takes the storage
\* away from a disk that is still served.
ServedDiskKeepsItsStorage ==
    devicefs \in {"starting", "serving"} =>
        \A s \in Signals : ctl[s] = "off"

\* A view whose DeviceFs has ended also ends its WSL side: StopPbsFish runs to
\* its end, be it that DeviceFs died in the middle of a session or before the
\* disk was attached, and however the disk takes its detachment.
EndOfDeviceFsStopsWsl ==
    (devicefs = "exited" /\ view \in {"check_fish", "open", "attach", "query",
                                      "mount", "session", "detach"})
        ~> sup \in {"finished", "threw"}

\* Cancellation ends RunSelectiveView from every step of it, whatever Samba,
\* the mapper, Fish, its FIFOs, DeviceFs and the disk do.
CancellationEndsView ==
    (cancellation_event = "signaled") ~> (view = "returned")

=============================================================================
