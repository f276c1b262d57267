-------------------------- MODULE BackupFishProofs --------------------------
(***************************************************************************)
(* Proofs about BackupFish: type correctness, the safety properties of the *)
(* control protocol and of the backup, and the refinement of PbsOperation. *)
(***************************************************************************)
EXTENDS BackupFish, TLAPS

-----------------------------------------------------------------------------
(* The inductive invariant.                                                *)

\* Which of the program's steps come before and after which others.
Unstarted == {"unborn", "input", "prepare", "mount", "spawn"}
Leaving == {"exit", "exited"}
Stopping == {"stop", "sendTERM", "waitTERM", "sendKILL", "waitKILL"}

\* Where the child and the PID file are at each step of the program.
ProgramInv ==
    /\ fish \in Unstarted => proc[client] = "unborn"
    /\ fish \in {"publish", "wait"} => proc[client] # "unborn"
    /\ fish \in {"remove", "unmount"} => Exited(client)
    /\ fish \in Leaving => ~ Running(client)
    /\ fish # "wait" => publish = "idle"
    /\ fish \in Unstarted \cup {"publish"} => argv = {}
    /\ fish = "wait" => argv = {client}
    /\ (fish = "wait" /\ publish \in {"idle", "test", "kill"})
          => pid_file = {client}
    /\ fish \notin {"wait", "remove"} => pid_file = {}

\* The rendezvous of the control program and publish_children.
RendezvousInv ==
    /\ \A s \in Signals :
          (ctl[s] \notin {"off", "touch"} /\ fish # "exited")
              => stop_file = "present"
    /\ (fish = "wait" /\ publish = "idle" /\ Running(client)
            /\ signalled[client] = {})
          => \A s \in Signals : WillSignal(s, client)

\* Nothing of a stop request exists before the event is signaled.
CancelInv ==
    cancellation_event = "reset" =>
        /\ sup \notin Stopping
        /\ \A s \in Signals : ctl[s] = "off"
        /\ stop_file = "absent"
        /\ publish # "kill"
        /\ signalled[client] = {}

MountInv ==
    /\ fish \in {"unborn", "input", "prepare", "mount"}
          => vss_mount = "unmounted"
    /\ fish \in {"spawn", "publish", "wait", "remove", "unmount"}
          => vss_mount = "mounted"

\* What a status of zero means on the way out.
OutcomeInv ==
    /\ (fish \in {"remove", "unmount", "exit", "exited"} /\ status = "zero")
          => proc[client] = "ok"
    /\ (fish \in Leaving /\ status = "zero") => vss_mount = "unmounted"
    /\ sup = "finished" => fish = "exited" /\ result = status
    /\ sup # "finished" => result = "none"

\* How far the supervisor is, in terms of the input it has written.
InputInv ==
    /\ sup = "start" <=> fish = "unborn" /\ sup # "threw"
    /\ sup \in {"start", "write"} => standard_input = "open"
    /\ sup \in Stopping \cup {"poll", "finished"}
          => standard_input = "complete"
    /\ fish \notin {"unborn", "input", "exit", "exited"}
          => standard_input = "complete"
    /\ proc[client] # "unborn" => standard_input = "complete"
    /\ standard_input = "closed" => sup = "threw"

IInv ==
    /\ TypeOK
    /\ ProgramInv
    /\ RendezvousInv
    /\ CancelInv
    /\ MountInv
    /\ OutcomeInv
    /\ InputInv

-----------------------------------------------------------------------------
(* The invariant holds initially and every action preserves it.            *)

\* Before the supervisor starts WSL nothing is published, mounted or signalled.
LEMMA InitEstablishesIInv == Init => IInv
  <1> SUFFICES ASSUME Init PROVE IInv
    OBVIOUS
  <1>1. TypeOK
    BY ClientAssumption DEF Init, PbsInit, TypeOK, PbsTypeOK, SupervisorStates,
        ExitCodes, Signals, ControlStates, PublishStates, ProcessStates,
        BackupStates
  <1>2. ProgramInv /\ RendezvousInv /\ CancelInv
    BY ClientAssumption DEF Init, PbsInit, ProgramInv, RendezvousInv,
        CancelInv, Unstarted, Leaving, Stopping, Exited, Running
  <1>3. MountInv /\ OutcomeInv /\ InputInv
    BY ClientAssumption DEF Init, PbsInit, MountInv, OutcomeInv, InputInv,
        Leaving, Stopping
  <1> QED
    BY <1>1, <1>2, <1>3 DEF IInv

\* Type correctness needs nothing but itself.
LEMMA TypeOKInductive == TypeOK /\ [Next]_vars => TypeOK'
  <1> SUFFICES ASSUME TypeOK, [Next]_vars PROVE TypeOK'
    OBVIOUS
  <1> USE ClientAssumption DEF TypeOK, PbsTypeOK, Signals
  <1>1. CASE Supervisor /\ UNCHANGED vss_mount
    BY <1>1 DEF Supervisor, StartWslFishProcess, StartWslFishProcessThrows,
        WriteInput, WriteInputThrows, FinishWsl, PollCancelled,
        KillGraceExpires, StartSignal, StartSignalThrows, SignalReturns,
        SupervisorStates, ControlStates, ExitCodes, BackupStates,
        controlVars, publishVars, fileVars, childVars, programVars
  <1>2. CASE (\E s \in Signals : Control(s)) /\ UNCHANGED vss_mount
    BY <1>2 DEF Control, ControlTouch, ControlTest, ControlCat, ControlKill,
        Signal, ControlStates, Running,
        supervisorVars, publishVars, fileVars, childVars, programVars
  <1>3. CASE (RequestCancellation \/ ChildExit(client)) /\ UNCHANGED vss_mount
    BY <1>3 DEF RequestCancellation, ChildExit, Running, ProcessStates,
        controlVars, supervisorVars, publishVars, fileVars, childVars,
        programVars
  <1>4. CASE PublishChildren /\ UNCHANGED vss_mount
    BY <1>4 DEF PublishChildren, PublishOpen, PublishWrite, PublishTest,
        PublishKill, Signal, Running, PublishStates,
        controlVars, supervisorVars, fileVars, childVars, programVars
  <1>5. CASE (ReadInputFails \/ FishExit) /\ UNCHANGED vss_mount
    BY <1>5 DEF ReadInputFails, FishExit, BackupStates, ExitCodes,
        controlVars, supervisorVars, publishVars, fileVars, childVars
  <1>6. CASE \/ ReadInput \/ PrepareManifest \/ PrepareManifestFails
             \/ MountVss \/ MountVssFails \/ WaitClient
             \/ UnmountVss \/ UnmountVssTimesOut
    BY <1>6 DEF ReadInput, PrepareManifest, PrepareManifestFails, MountVss,
        MountVssFails, WaitClient, UnmountVss, UnmountVssTimesOut, FishStep,
        BackupStates, ExitCodes,
        controlVars, supervisorVars, publishVars, fileVars, childVars
  <1>7. CASE SpawnClient \/ PublishClient \/ RemoveClientPid
    BY <1>7 DEF SpawnClient, StartChild, PublishClient, CallPublish, Publish,
        RemoveClientPid, RemovePidFile, BackupStates, ProcessStates,
        PublishStates,
        controlVars, supervisorVars, publishVars, fileVars, childVars
  <1>8. CASE UNCHANGED vars
    BY <1>8 DEF vars, pbsVars, controlVars, supervisorVars, publishVars,
        fileVars, childVars, programVars
  <1> QED
    BY <1>1, <1>2, <1>3, <1>4, <1>5, <1>6, <1>7, <1>8
    DEF Next, Program, Environment, Terminated

\* Fish proceeds past its input only when all of it was written.
LEMMA InputInvInductive == TypeOK /\ InputInv /\ [Next]_vars => InputInv'
  <1> SUFFICES ASSUME TypeOK, InputInv, [Next]_vars PROVE InputInv'
    OBVIOUS
  <1> USE ClientAssumption DEF TypeOK, PbsTypeOK, InputInv, Stopping, Running,
        Exited, Signals, controlVars, supervisorVars, publishVars, fileVars,
        childVars, programVars
  <1>1. CASE Supervisor /\ UNCHANGED vss_mount
    BY <1>1 DEF Supervisor, StartWslFishProcess, StartWslFishProcessThrows,
        WriteInput, WriteInputThrows, FinishWsl, PollCancelled,
        KillGraceExpires, StartSignal, StartSignalThrows, SignalReturns
  <1>2. CASE (\E s \in Signals : Control(s)) /\ UNCHANGED vss_mount
    BY <1>2 DEF Control, ControlTouch, ControlTest, ControlCat, ControlKill,
        Signal
  <1>3. CASE (RequestCancellation \/ ChildExit(client)) /\ UNCHANGED vss_mount
    BY <1>3 DEF RequestCancellation, ChildExit
  <1>4. CASE PublishChildren /\ UNCHANGED vss_mount
    BY <1>4 DEF PublishChildren, PublishOpen, PublishWrite, PublishTest,
        PublishKill, Signal
  <1>5. CASE (ReadInputFails \/ FishExit) /\ UNCHANGED vss_mount
    BY <1>5 DEF ReadInputFails, FishExit
  <1>6. CASE \/ ReadInput \/ PrepareManifest \/ PrepareManifestFails
             \/ MountVss \/ MountVssFails \/ WaitClient
             \/ UnmountVss \/ UnmountVssTimesOut
    BY <1>6 DEF ReadInput, PrepareManifest, PrepareManifestFails, MountVss,
        MountVssFails, WaitClient, UnmountVss, UnmountVssTimesOut, FishStep
  <1>7. CASE SpawnClient \/ PublishClient \/ RemoveClientPid
    BY <1>7 DEF SpawnClient, StartChild, PublishClient, CallPublish, Publish,
        RemoveClientPid, RemovePidFile
  <1>8. CASE UNCHANGED vars
    BY <1>8 DEF vars, pbsVars
  <1> QED
    BY <1>1, <1>2, <1>3, <1>4, <1>5, <1>6, <1>7, <1>8
    DEF Next, Program, Environment, Terminated

\* The PID file holds the client exactly while the program waits for it.
LEMMA ProgramInvInductive ==
    TypeOK /\ InputInv /\ ProgramInv /\ [Next]_vars => ProgramInv'
  <1> SUFFICES ASSUME TypeOK, InputInv, ProgramInv, [Next]_vars
               PROVE  ProgramInv'
    OBVIOUS
  <1> USE ClientAssumption DEF TypeOK, PbsTypeOK, InputInv, ProgramInv,
        Unstarted, Leaving, Running, Exited, Signals, controlVars,
        supervisorVars, publishVars, fileVars, childVars, programVars
  <1>1. CASE Supervisor /\ UNCHANGED vss_mount
    BY <1>1 DEF Supervisor, StartWslFishProcess, StartWslFishProcessThrows,
        WriteInput, WriteInputThrows, FinishWsl, PollCancelled,
        KillGraceExpires, StartSignal, StartSignalThrows, SignalReturns
  <1>2. CASE (\E s \in Signals : Control(s)) /\ UNCHANGED vss_mount
    BY <1>2 DEF Control, ControlTouch, ControlTest, ControlCat, ControlKill,
        Signal
  <1>3. CASE (RequestCancellation \/ ChildExit(client)) /\ UNCHANGED vss_mount
    BY <1>3 DEF RequestCancellation, ChildExit
  <1>4. CASE PublishChildren /\ UNCHANGED vss_mount
    BY <1>4 DEF PublishChildren, PublishOpen, PublishWrite, PublishTest,
        PublishKill, Signal
  <1>5. CASE (ReadInputFails \/ FishExit) /\ UNCHANGED vss_mount
    BY <1>5 DEF ReadInputFails, FishExit
  <1>6. CASE \/ ReadInput \/ PrepareManifest \/ PrepareManifestFails
             \/ MountVss \/ MountVssFails \/ WaitClient
             \/ UnmountVss \/ UnmountVssTimesOut
    BY <1>6 DEF ReadInput, PrepareManifest, PrepareManifestFails, MountVss,
        MountVssFails, WaitClient, UnmountVss, UnmountVssTimesOut, FishStep
  <1>7. CASE SpawnClient \/ PublishClient \/ RemoveClientPid
    BY <1>7 DEF SpawnClient, StartChild, PublishClient, CallPublish, Publish,
        RemoveClientPid, RemovePidFile
  <1>8. CASE UNCHANGED vars
    BY <1>8 DEF vars, pbsVars
  <1> QED
    BY <1>1, <1>2, <1>3, <1>4, <1>5, <1>6, <1>7, <1>8
    DEF Next, Program, Environment, Terminated

\* A signal, and the stop file, go back to the event.
LEMMA CancelInvInductive == TypeOK /\ CancelInv /\ [Next]_vars => CancelInv'
  <1> SUFFICES ASSUME TypeOK, CancelInv, [Next]_vars PROVE CancelInv'
    OBVIOUS
  <1> USE ClientAssumption DEF TypeOK, PbsTypeOK, CancelInv, Stopping,
        Running, Exited, Signals, controlVars, supervisorVars, publishVars,
        fileVars, childVars, programVars
  <1>1. CASE Supervisor /\ UNCHANGED vss_mount
    BY <1>1 DEF Supervisor, StartWslFishProcess, StartWslFishProcessThrows,
        WriteInput, WriteInputThrows, FinishWsl, PollCancelled,
        KillGraceExpires, StartSignal, StartSignalThrows, SignalReturns
  <1>2. CASE (\E s \in Signals : Control(s)) /\ UNCHANGED vss_mount
    BY <1>2 DEF Control, ControlTouch, ControlTest, ControlCat, ControlKill,
        Signal
  <1>3. CASE (RequestCancellation \/ ChildExit(client)) /\ UNCHANGED vss_mount
    BY <1>3 DEF RequestCancellation, ChildExit
  <1>4. CASE PublishChildren /\ UNCHANGED vss_mount
    BY <1>4 DEF PublishChildren, PublishOpen, PublishWrite, PublishTest,
        PublishKill, Signal
  <1>5. CASE (ReadInputFails \/ FishExit) /\ UNCHANGED vss_mount
    BY <1>5 DEF ReadInputFails, FishExit
  <1>6. CASE \/ ReadInput \/ PrepareManifest \/ PrepareManifestFails
             \/ MountVss \/ MountVssFails \/ WaitClient
             \/ UnmountVss \/ UnmountVssTimesOut
    BY <1>6 DEF ReadInput, PrepareManifest, PrepareManifestFails, MountVss,
        MountVssFails, WaitClient, UnmountVss, UnmountVssTimesOut, FishStep
  <1>7. CASE SpawnClient \/ PublishClient \/ RemoveClientPid
    BY <1>7 DEF SpawnClient, StartChild, PublishClient, CallPublish, Publish,
        RemoveClientPid, RemovePidFile
  <1>8. CASE UNCHANGED vars
    BY <1>8 DEF vars, pbsVars
  <1> QED
    BY <1>1, <1>2, <1>3, <1>4, <1>5, <1>6, <1>7, <1>8
    DEF Next, Program, Environment, Terminated

\* Whoever comes second, the control program or publish_children, sees the other.
LEMMA RendezvousInvInductive ==
    TypeOK /\ InputInv /\ ProgramInv /\ RendezvousInv /\ [Next]_vars
        => RendezvousInv'
  <1> SUFFICES ASSUME TypeOK, InputInv, ProgramInv, RendezvousInv, [Next]_vars
               PROVE  RendezvousInv'
    OBVIOUS
  <1> USE ClientAssumption DEF TypeOK, PbsTypeOK, InputInv, ProgramInv,
        RendezvousInv, WillSignal, Unstarted, Leaving, Running, Exited,
        Signals, controlVars, supervisorVars, publishVars, fileVars,
        childVars, programVars
  <1>1. CASE Supervisor /\ UNCHANGED vss_mount
    BY <1>1 DEF Supervisor, StartWslFishProcess, StartWslFishProcessThrows,
        WriteInput, WriteInputThrows, FinishWsl, PollCancelled,
        KillGraceExpires, StartSignal, StartSignalThrows, SignalReturns
  <1>2. CASE (\E s \in Signals : Control(s)) /\ UNCHANGED vss_mount
    BY <1>2 DEF Control, ControlTouch, ControlTest, ControlCat, ControlKill,
        Signal
  <1>3. CASE (RequestCancellation \/ ChildExit(client)) /\ UNCHANGED vss_mount
    BY <1>3 DEF RequestCancellation, ChildExit
  <1>4. CASE PublishChildren /\ UNCHANGED vss_mount
    BY <1>4 DEF PublishChildren, PublishOpen, PublishWrite, PublishTest,
        PublishKill, Signal
  <1>5. CASE (ReadInputFails \/ FishExit) /\ UNCHANGED vss_mount
    BY <1>5 DEF ReadInputFails, FishExit
  <1>6. CASE \/ ReadInput \/ PrepareManifest \/ PrepareManifestFails
             \/ MountVss \/ MountVssFails \/ WaitClient
             \/ UnmountVss \/ UnmountVssTimesOut
    BY <1>6 DEF ReadInput, PrepareManifest, PrepareManifestFails, MountVss,
        MountVssFails, WaitClient, UnmountVss, UnmountVssTimesOut, FishStep
  <1>7. CASE SpawnClient \/ PublishClient \/ RemoveClientPid
    BY <1>7 DEF SpawnClient, StartChild, PublishClient, CallPublish, Publish,
        RemoveClientPid, RemovePidFile
  <1>8. CASE UNCHANGED vars
    BY <1>8 DEF vars, pbsVars
  <1> QED
    BY <1>1, <1>2, <1>3, <1>4, <1>5, <1>6, <1>7, <1>8
    DEF Next, Program, Environment, Terminated

\* The mount brackets the life of the client.
LEMMA MountInvInductive ==
    TypeOK /\ InputInv /\ MountInv /\ [Next]_vars => MountInv'
  <1> SUFFICES ASSUME TypeOK, InputInv, MountInv, [Next]_vars PROVE MountInv'
    OBVIOUS
  <1> USE ClientAssumption DEF TypeOK, PbsTypeOK, InputInv, MountInv, Running,
        Exited, Signals, controlVars, supervisorVars, publishVars, fileVars,
        childVars, programVars
  <1>1. CASE Supervisor /\ UNCHANGED vss_mount
    BY <1>1 DEF Supervisor, StartWslFishProcess, StartWslFishProcessThrows,
        WriteInput, WriteInputThrows, FinishWsl, PollCancelled,
        KillGraceExpires, StartSignal, StartSignalThrows, SignalReturns
  <1>2. CASE (\E s \in Signals : Control(s)) /\ UNCHANGED vss_mount
    BY <1>2 DEF Control, ControlTouch, ControlTest, ControlCat, ControlKill,
        Signal
  <1>3. CASE (RequestCancellation \/ ChildExit(client)) /\ UNCHANGED vss_mount
    BY <1>3 DEF RequestCancellation, ChildExit
  <1>4. CASE PublishChildren /\ UNCHANGED vss_mount
    BY <1>4 DEF PublishChildren, PublishOpen, PublishWrite, PublishTest,
        PublishKill, Signal
  <1>5. CASE (ReadInputFails \/ FishExit) /\ UNCHANGED vss_mount
    BY <1>5 DEF ReadInputFails, FishExit
  <1>6. CASE \/ ReadInput \/ PrepareManifest \/ PrepareManifestFails
             \/ MountVss \/ MountVssFails \/ WaitClient
             \/ UnmountVss \/ UnmountVssTimesOut
    BY <1>6 DEF ReadInput, PrepareManifest, PrepareManifestFails, MountVss,
        MountVssFails, WaitClient, UnmountVss, UnmountVssTimesOut, FishStep
  <1>7. CASE SpawnClient \/ PublishClient \/ RemoveClientPid
    BY <1>7 DEF SpawnClient, StartChild, PublishClient, CallPublish, Publish,
        RemoveClientPid, RemovePidFile
  <1>8. CASE UNCHANGED vars
    BY <1>8 DEF vars, pbsVars
  <1> QED
    BY <1>1, <1>2, <1>3, <1>4, <1>5, <1>6, <1>7, <1>8
    DEF Next, Program, Environment, Terminated

\* No failure is lost between the client and the result of RunPbsFish.
LEMMA OutcomeInvInductive ==
    TypeOK /\ InputInv /\ ProgramInv /\ MountInv /\ OutcomeInv /\ [Next]_vars
        => OutcomeInv'
  <1> SUFFICES ASSUME TypeOK, InputInv, ProgramInv, MountInv, OutcomeInv, [Next]_vars
               PROVE  OutcomeInv'
    OBVIOUS
  <1> USE ClientAssumption DEF TypeOK, PbsTypeOK, InputInv, ProgramInv,
        MountInv, OutcomeInv, Unstarted, Leaving, Stopping, Running, Exited,
        Signals, controlVars, supervisorVars, publishVars, fileVars,
        childVars, programVars
  <1>1. CASE Supervisor /\ UNCHANGED vss_mount
    BY <1>1 DEF Supervisor, StartWslFishProcess, StartWslFishProcessThrows,
        WriteInput, WriteInputThrows, FinishWsl, PollCancelled,
        KillGraceExpires, StartSignal, StartSignalThrows, SignalReturns
  <1>2. CASE (\E s \in Signals : Control(s)) /\ UNCHANGED vss_mount
    BY <1>2 DEF Control, ControlTouch, ControlTest, ControlCat, ControlKill,
        Signal
  <1>3. CASE (RequestCancellation \/ ChildExit(client)) /\ UNCHANGED vss_mount
    BY <1>3 DEF RequestCancellation, ChildExit
  <1>4. CASE PublishChildren /\ UNCHANGED vss_mount
    BY <1>4 DEF PublishChildren, PublishOpen, PublishWrite, PublishTest,
        PublishKill, Signal
  <1>5. CASE (ReadInputFails \/ FishExit) /\ UNCHANGED vss_mount
    BY <1>5 DEF ReadInputFails, FishExit
  <1>6. CASE \/ ReadInput \/ PrepareManifest \/ PrepareManifestFails
             \/ MountVss \/ MountVssFails \/ WaitClient
             \/ UnmountVss \/ UnmountVssTimesOut
    BY <1>6 DEF ReadInput, PrepareManifest, PrepareManifestFails, MountVss,
        MountVssFails, WaitClient, UnmountVss, UnmountVssTimesOut, FishStep
  <1>7. CASE SpawnClient \/ PublishClient \/ RemoveClientPid
    BY <1>7 DEF SpawnClient, StartChild, PublishClient, CallPublish, Publish,
        RemoveClientPid, RemovePidFile
  <1>8. CASE UNCHANGED vars
    BY <1>8 DEF vars, pbsVars
  <1> QED
    BY <1>1, <1>2, <1>3, <1>4, <1>5, <1>6, <1>7, <1>8
    DEF Next, Program, Environment, Terminated

\* IInv is an invariant of the backup program.
LEMMA IInvInvariant == Spec => []IInv
  <1>1. IInv /\ [Next]_vars => IInv'
    BY TypeOKInductive, InputInvInductive, ProgramInvInductive,
        CancelInvInductive, RendezvousInvInductive, MountInvInductive,
        OutcomeInvInductive DEF IInv
  <1> QED
    BY InitEstablishesIInv, <1>1, PTL DEF Spec

-----------------------------------------------------------------------------
(* The properties, for every behaviour.                                    *)

\* Every variable of the supervisor, the control programs and the backup
\* program keeps to its values.
THEOREM TypeCorrect == Spec => []TypeOK
  <1>1. IInv => TypeOK
    BY DEF IInv
  <1> QED
    BY IInvInvariant, <1>1, PTL

\* SendPbsFishSignal and publish_children, each writing one file before it
\* reads the other's, between them signal a client that has been published.
THEOREM StopRequestIsNotLost == Spec => []StopRequestReachesChildren
  <1>1. IInv => StopRequestReachesChildren
    BY ClientAssumption
    DEF IInv, TypeOK, PbsTypeOK, ProgramInv, RendezvousInv, WillSignal,
        StopRequestReachesChildren, Unstarted, Leaving, Running, Exited,
        BackupStates
  <1> QED
    BY IInvInvariant, <1>1, PTL

\* RunPbsFish signals the client only after its event was signaled.
THEOREM SignalNeedsCancellation == Spec => []SignalOnlyWhenCancelled
  <1>1. IInv => SignalOnlyWhenCancelled
    BY ClientAssumption
    DEF IInv, TypeOK, PbsTypeOK, CancelInv, SignalOnlyWhenCancelled
  <1> QED
    BY IInvInvariant, <1>1, PTL

\* run_backup leaves no PID behind, on whatever path it exits.
THEOREM PidFileRemoved == Spec => []NoPidsAfterExit
  <1>1. IInv => NoPidsAfterExit
    BY DEF IInv, ProgramInv, NoPidsAfterExit
  <1> QED
    BY IInvInvariant, <1>1, PTL

\* run_backup mounts the images before the client runs and unmounts them after.
THEOREM ImagesMounted == Spec => []MountedWhileClientReads
  <1>1. IInv => MountedWhileClientReads
    BY DEF IInv, TypeOK, ProgramInv, MountInv, MountedWhileClientReads,
        Unstarted, Leaving, Running, Exited, BackupStates
  <1> QED
    BY IInvInvariant, <1>1, PTL

\* RunPbsFish returns 0 only for a completed snapshot whose images are unmounted.
THEOREM ZeroMeansUploaded == Spec => []SuccessMeansUploaded
  <1>1. IInv => SuccessMeansUploaded
    BY DEF IInv, OutcomeInv, SuccessMeansUploaded, Leaving
  <1> QED
    BY IInvInvariant, <1>1, PTL

-----------------------------------------------------------------------------
(* The refinement.                                                         *)

\* The initial states of the backup program are those of PbsOperation.
LEMMA InitRefines == Init => Operation!Init
  BY ClientAssumption
  DEF Init, PbsInit, Operation!Init, PbsPhase

\* Every step is a step of PbsOperation or leaves its variables alone.
LEMMA StepRefines == IInv /\ [Next]_vars => [Operation!Next]_(Operation!vars)
  <1> SUFFICES ASSUME IInv, [Next]_vars
               PROVE  [Operation!Next]_(Operation!vars)
    OBVIOUS
  <1> USE ClientAssumption
      DEF IInv, TypeOK, PbsTypeOK, PbsPhase, Stopping, controlVars,
          supervisorVars, publishVars, fileVars, childVars, programVars
  <1>1. CASE RequestCancellation /\ UNCHANGED vss_mount
    BY <1>1 DEF RequestCancellation, Operation!RequestCancellation,
        Operation!Next
  <1>2. CASE WriteInput /\ UNCHANGED vss_mount
    BY <1>2 DEF WriteInput, Operation!Start, Operation!Next
  <1>3. CASE /\ StartWslFishProcessThrows \/ WriteInputThrows
             /\ UNCHANGED vss_mount
    BY <1>3 DEF StartWslFishProcessThrows, WriteInputThrows, InputInv,
        Operation!Fail, Operation!Next
  <1>4. CASE FinishWsl /\ UNCHANGED vss_mount
    BY <1>4 DEF FinishWsl, OutcomeInv, Leaving, ExitCodes, Operation!Finish,
        Operation!Next
  <1>5. CASE KillGraceExpires /\ UNCHANGED vss_mount
    BY <1>5 DEF KillGraceExpires, InputInv, CancelInv, Operation!Abandon,
        Operation!Next
  <1>6. CASE MountVss
    BY <1>6 DEF MountVss, FishStep, InputInv, ProgramInv, MountInv, OutcomeInv,
        Unstarted, SupervisorStates, Operation!Mount, Operation!Next
  <1>7. CASE ChildExit(client) /\ UNCHANGED vss_mount
    BY <1>7 DEF ChildExit, Running, Exited, InputInv, ProgramInv, MountInv,
        OutcomeInv, Unstarted, Leaving, SupervisorStates, BackupStates,
        Operation!Upload, Operation!Next, Operation!vars
  <1>8. CASE UnmountVss
    BY <1>8 DEF UnmountVss, FishStep, InputInv, MountInv, OutcomeInv,
        SupervisorStates, Operation!Unmount, Operation!Next
  <1>9. CASE /\ \/ StartWslFishProcess \/ PollCancelled
                \/ \E s \in Signals : \/ StartSignal(s)
                                      \/ StartSignalThrows(s)
                                      \/ SignalReturns(s)
             /\ UNCHANGED vss_mount
    BY <1>9 DEF StartWslFishProcess, PollCancelled, StartSignal,
        StartSignalThrows, SignalReturns, Signals, Operation!vars
  <1>10. CASE (\E s \in Signals : Control(s)) /\ UNCHANGED vss_mount
    BY <1>10 DEF Control, ControlTouch, ControlTest, ControlCat, ControlKill,
        Operation!vars
  <1>11. CASE /\ PublishChildren \/ ReadInputFails \/ FishExit
              /\ UNCHANGED vss_mount
    BY <1>11 DEF PublishChildren, PublishOpen, PublishWrite, PublishTest,
        PublishKill, ReadInputFails, FishExit, Operation!vars
  <1>12. CASE \/ ReadInput \/ PrepareManifest \/ PrepareManifestFails
              \/ MountVssFails \/ WaitClient \/ UnmountVssTimesOut
              \/ PublishClient \/ RemoveClientPid
    BY <1>12 DEF ReadInput, PrepareManifest, PrepareManifestFails,
        MountVssFails, WaitClient, UnmountVssTimesOut, FishStep,
        PublishClient, CallPublish, Publish, RemoveClientPid, RemovePidFile,
        Operation!vars
  <1>13. CASE SpawnClient
    BY <1>13 DEF SpawnClient, StartChild, ProgramInv, Unstarted, Operation!vars
  <1>14. CASE UNCHANGED vars
    BY <1>14 DEF vars, pbsVars, Operation!vars
  <1> QED
    BY <1>1, <1>2, <1>3, <1>4, <1>5, <1>6, <1>7, <1>8, <1>9, <1>10, <1>11,
        <1>12, <1>13, <1>14
    DEF Next, Program, Environment, Supervisor, Terminated

\* The control protocol implements what RunSnapshotBackup relies on: BackupRun
\* may use PbsOperation in the place of RunPbsFish and the Fish program.
THEOREM BackupFishRefinesPbsOperation == Spec => ImplementsPbsOperation
  BY InitRefines, StepRefines, IInvInvariant, PTL
  DEF Spec, ImplementsPbsOperation, Operation!Spec

=============================================================================
