------------------------ MODULE SelectiveViewProofs -------------------------
(***************************************************************************)
(* Proofs about SelectiveView: WSL is never asked to stop while DeviceFs   *)
(* may still read from it, and the view program reports 0 only for a view  *)
(* that was served.  Neither depends on which requests WSL can start.      *)
(***************************************************************************)
EXTENDS SelectiveView, TLAPS

-----------------------------------------------------------------------------
(* The inductive invariant.                                                *)

\* No signal request has been started.
Quiet == \A s \in Signals : ctl[s] = "off"

\* should_stop_pbs is the permission to stop WSL, and StopFish asks for it.
StorageInv ==
    /\ should_stop_pbs => devicefs \in {"none", "exited"}
    /\ view = "stopping" => should_stop_pbs
    /\ view \in {"stopping", "returned"} \/ Quiet
    /\ devicefs \in {"none", "exited"} \/ Quiet

\* Where Samba has been waited for; where the reader has been started, unless
\* the program failed before that; where the mapper, the reader were waited for.
AfterSamba ==
    {"rm_samba", "test_stop", "finish", "open_pids", "write_pids", "kill",
     "wait_mapper", "rm_mapper", "wait_reader", "rm_root", "exit", "exited"}
BeforeReader == {"unborn", "input", "mktemp", "mkfifo", "reader"}
AfterMapper == {"rm_mapper", "wait_reader", "rm_root", "exit", "exited"}
AfterReader == {"rm_root", "exit", "exited"}

\* The mapper's exit is noticed in the wait for Samba, and finish_view comes
\* after it.
ReapedInv ==
    /\ sup = "start" => fish = "unborn"
    /\ reaped => Exited(mapper) /\ fish \in AfterSamba
    /\ termination_requested => fish \in AfterSamba

\* As long as nobody has asked for the end, a status of 0 means that all that
\* was waited for so far has succeeded.
ServedInv ==
    Quiet =>
        /\ stop_file = "absent"
        /\ reaped => ~termination_requested
        /\ status = "zero" =>
              /\ fish \in AfterSamba => proc[samba] = "ok"
              /\ fish \notin BeforeReader => reader # "unborn"
              /\ fish \in AfterMapper /\ reaped => proc[mapper] = "ok"
              /\ fish \in AfterReader => reader = "exited"

IInv ==
    /\ TypeOK
    /\ StorageInv
    /\ ReapedInv
    /\ ServedInv

-----------------------------------------------------------------------------
(* Every action preserves the invariant, part by part.                     *)

\* The mapper and Samba are two children.
LEMMA ChildrenAre == mapper \in Children /\ samba \in Children /\ mapper # samba
BY ViewFishAssumption

\* Nothing has been started and nobody has asked for anything.
LEMMA InitIInv == Init => IInv
BY ChildrenAre DEF Init, ViewFishInit, PbsInit, IInv, TypeOK, ViewFishTypeOK,
     PbsTypeOK, StorageInv, ReapedInv, ServedInv, Quiet, AfterSamba,
     BeforeReader, AfterMapper, AfterReader, Exited, ViewFishStates,
     ReaderAlive, SupervisorStates, ExitCodes, ControlStates, PublishStates,
     ProcessStates, ViewStates, Signals

\* Each variable keeps to its values.
LEMMA TypeStep == TypeOK /\ [Next]_vars => TypeOK'
  <1> SUFFICES ASSUME TypeOK, [Next]_vars
               PROVE  TypeOK'
    OBVIOUS
  <1> USE ChildrenAre, SelectiveViewAssumption DEF TypeOK, ViewFishTypeOK,
          PbsTypeOK, ViewFishStates, ReaderAlive, SupervisorStates, ExitCodes,
          ControlStates, PublishStates, ProcessStates, ViewStates, Signals,
          pbsVars, supervisorVars, controlVars, fileVars, programVars,
          publishVars, childVars, viewFishVars, windowsVars
  <1>1. CASE Begin
    BY <1>1 DEF Begin, ViewStep
  <1>2. CASE PrepareDirectories
    BY <1>2 DEF PrepareDirectories, ViewStep
  <1>3. CASE SambaIsNotReady
    BY <1>3 DEF SambaIsNotReady, ViewStep
  <1>4. CASE SambaIsReady
    BY <1>4 DEF SambaIsReady, ViewStep
  <1>5. CASE ReadinessBreaks
    BY <1>5 DEF ReadinessBreaks, ViewStep
  <1>6. CASE StartDeviceFs
    <2>1. should_stop_pbs' \in BOOLEAN
      BY <1>6, Zenon DEF StartDeviceFs
    <2> QED
      BY <1>6, <2>1 DEF StartDeviceFs, ViewStep
  <1>7. CASE StartDeviceFsThrows
    BY <1>7 DEF StartDeviceFsThrows, ViewStep
  <1>8. CASE WaitForDeviceFs
    BY <1>8 DEF WaitForDeviceFs, ViewStep
  <1>9. CASE CheckFish
    BY <1>9 DEF CheckFish, ViewStep
  <1>10. CASE OpenVhdx
    BY <1>10 DEF OpenVhdx, ViewStep
  <1>11. CASE AttachVhdx
    BY <1>11 DEF AttachVhdx, ViewStep
  <1>12. CASE StartViewFish
    BY <1>12 DEF StartViewFish, StartWslFishProcess,
       StartWslFishProcessThrows, WriteInput, WriteInputThrows
  <1>13. CASE QueryAttachedVhdxRoot
    BY <1>13 DEF QueryAttachedVhdxRoot, Detach, ViewStep
  <1>14. CASE MountVolume
    BY <1>14 DEF MountVolume, ViewStep
  <1>15. CASE WaitForViewSession
    BY <1>15 DEF WaitForViewSession, ViewStep
  <1>16. CASE DetachVhdx
    BY <1>16 DEF DetachVhdx, Detach, ViewStep
  <1>17. CASE SetStopEvent
    BY <1>17 DEF SetStopEvent, ViewStep
  <1>18. CASE DeviceFsEnded
    BY <1>18 DEF DeviceFsEnded, ViewStep
  <1>19. CASE ShutdownTimeout
    BY <1>19 DEF ShutdownTimeout, ViewStep
  <1>20. CASE StopFish
    BY <1>20 DEF StopFish, ViewStep
  <1>21. CASE StopPbsFish
    BY <1>21 DEF StopPbsFish, FinishWsl, KillGraceExpires, StartSignal,
       SignalReturns, StartSignalThrows
  <1>22. CASE DeviceFsServes
    BY <1>22 DEF DeviceFsServes
  <1>23. CASE DeviceFsStops
    BY <1>23 DEF DeviceFsStops
  <1>24. CASE DeviceFsDies
    BY <1>24 DEF DeviceFsDies
  <1>25. CASE DiskReleased
    BY <1>25 DEF DiskReleased
  <1>26. CASE ReadInput /\ UNCHANGED windowsVars
    BY <1>26 DEF ReadInput, FishStep
  <1>27. CASE MakeRoot /\ UNCHANGED windowsVars
    BY <1>27 DEF MakeRoot, FishStep
  <1>28. CASE MakeFifos /\ UNCHANGED windowsVars
    BY <1>28 DEF MakeFifos, FishStep
  <1>29. CASE StartReader /\ UNCHANGED windowsVars
    BY <1>29 DEF StartReader, FishStep
  <1>30. CASE StartMapper /\ UNCHANGED windowsVars
    BY <1>30 DEF StartMapper, StartChild
  <1>31. CASE PublishMapper /\ UNCHANGED windowsVars
    BY <1>31 DEF PublishMapper, CallPublish, Publish
  <1>32. CASE ReadDevice /\ UNCHANGED windowsVars
    BY <1>32 DEF ReadDevice, FishStep
  <1>33. CASE ReadNoDevice /\ UNCHANGED windowsVars
    BY <1>33 DEF ReadNoDevice, FishStep
  <1>34. CASE PrepareViewSamba /\ UNCHANGED windowsVars
    BY <1>34 DEF PrepareViewSamba, FishStep
  <1>35. CASE StartSamba /\ UNCHANGED windowsVars
    BY <1>35 DEF StartSamba, StartChild
  <1>36. CASE PublishSamba /\ UNCHANGED windowsVars
    BY <1>36 DEF PublishSamba, CallPublish, Publish
  <1>37. CASE WaitSamba /\ UNCHANGED windowsVars
    <2>1. reaped' \in BOOLEAN
      <3>1. Exited(mapper) \in BOOLEAN
        BY DEF Exited
      <3>2. reaped' = Exited(mapper)
        BY <1>37 DEF WaitSamba
      <3> QED
        BY <3>1, <3>2, Zenon
    <2> QED
      BY <1>37, <2>1 DEF WaitSamba, FishStep
  <1>38. CASE RemoveSambaPid /\ UNCHANGED windowsVars
    BY <1>38 DEF RemoveSambaPid, RemovePidFile
  <1>39. CASE TestStopFile /\ UNCHANGED windowsVars
    BY <1>39 DEF TestStopFile, FishStep
  <1>40. CASE FinishView /\ UNCHANGED windowsVars
    BY <1>40 DEF FinishView, FishStep
  <1>41. CASE TruncatePids /\ UNCHANGED windowsVars
    BY <1>41 DEF TruncatePids, RemovePidFile
  <1>42. CASE WriteMapperPid /\ UNCHANGED windowsVars
    BY <1>42 DEF WriteMapperPid
  <1>43. CASE KillMapper /\ UNCHANGED windowsVars
    <2>1. termination_requested' \in BOOLEAN
      BY <1>43, Zenon DEF KillMapper
    <2> QED
      BY <1>43, <2>1 DEF KillMapper, Signal
  <1>44. CASE WaitMapper /\ UNCHANGED windowsVars
    <2>1. termination_requested' \in BOOLEAN
      BY <1>44, Zenon DEF WaitMapper
    <2> QED
      BY <1>44, <2>1 DEF WaitMapper, FishStep
  <1>45. CASE RemoveMapperPid /\ UNCHANGED windowsVars
    BY <1>45 DEF RemoveMapperPid, RemovePidFile
  <1>46. CASE WaitReader /\ UNCHANGED windowsVars
    BY <1>46 DEF WaitReader, FishStep
  <1>47. CASE RemoveRoot /\ UNCHANGED windowsVars
    BY <1>47 DEF RemoveRoot, FishStep
  <1>48. CASE ReadInputFails /\ UNCHANGED <<viewFishVars, windowsVars>>
    BY <1>48 DEF ReadInputFails
  <1>49. CASE PublishChildren /\ UNCHANGED <<viewFishVars, windowsVars>>
    BY <1>49 DEF PublishChildren, PublishOpen, PublishWrite, PublishTest,
       PublishKill, Signal
  <1>50. CASE FishExit /\ UNCHANGED <<viewFishVars, windowsVars>>
    BY <1>50 DEF FishExit
  <1>51. CASE ReaderEof /\ UNCHANGED windowsVars
    BY <1>51 DEF ReaderEof
  <1>52. CASE ReaderReadsLine /\ UNCHANGED windowsVars
    BY <1>52 DEF ReaderReadsLine
  <1>53. CASE ReaderDies /\ UNCHANGED windowsVars
    BY <1>53 DEF ReaderDies
  <1>54. CASE (\E s \in Signals : Control(s))
             /\ UNCHANGED <<viewFishVars, windowsVars>>
    BY <1>54 DEF Control, ControlTouch, ControlTest, ControlCat, ControlKill,
       Signal
  <1>55. CASE Cancel /\ UNCHANGED <<viewFishVars, windowsVars>>
    BY <1>55 DEF Cancel, RequestCancellation
  <1>56. CASE (\E c \in Children : ChildExit(c))
             /\ UNCHANGED <<viewFishVars, windowsVars>>
    BY <1>56 DEF ChildExit
  <1>57. CASE UNCHANGED vars
    BY <1>57 DEF vars
  <1> QED
    BY <1>1, <1>2, <1>3, <1>4, <1>5, <1>6, <1>7, <1>8, <1>9, <1>10, <1>11,
       <1>12, <1>13, <1>14, <1>15, <1>16, <1>17, <1>18, <1>19, <1>20, <1>21,
       <1>22, <1>23, <1>24, <1>25, <1>26, <1>27, <1>28, <1>29, <1>30, <1>31,
       <1>32, <1>33, <1>34, <1>35, <1>36, <1>37, <1>38, <1>39, <1>40, <1>41,
       <1>42, <1>43, <1>44, <1>45, <1>46, <1>47, <1>48, <1>49, <1>50, <1>51,
       <1>52, <1>53, <1>54, <1>55, <1>56, <1>57 DEF Next, RunSelectiveView,
       Linux, ViewProgram, Unfair, Terminated

\* Permission is withdrawn when DeviceFs is started, and given back only when
\* it has exited.
LEMMA StorageStep == TypeOK /\ StorageInv /\ [Next]_vars => StorageInv'
  <1> SUFFICES ASSUME TypeOK, StorageInv, [Next]_vars
               PROVE  StorageInv'
    OBVIOUS
  <1> USE SelectiveViewAssumption DEF TypeOK, ViewFishTypeOK, PbsTypeOK,
          StorageInv, Quiet, Signals, pbsVars, supervisorVars, controlVars,
          fileVars, programVars, publishVars, childVars, viewFishVars,
          windowsVars
  <1>1. CASE Begin
    BY <1>1 DEF Begin, ViewStep
  <1>2. CASE PrepareDirectories
    BY <1>2 DEF PrepareDirectories, ViewStep
  <1>3. CASE SambaIsNotReady
    BY <1>3 DEF SambaIsNotReady, ViewStep
  <1>4. CASE SambaIsReady
    BY <1>4 DEF SambaIsReady, ViewStep
  <1>5. CASE ReadinessBreaks
    BY <1>5 DEF ReadinessBreaks, ViewStep
  <1>6. CASE StartDeviceFs
    BY <1>6 DEF StartDeviceFs, ViewStep
  <1>7. CASE StartDeviceFsThrows
    BY <1>7 DEF StartDeviceFsThrows, ViewStep
  <1>8. CASE WaitForDeviceFs
    BY <1>8 DEF WaitForDeviceFs, ViewStep
  <1>9. CASE CheckFish
    BY <1>9 DEF CheckFish, ViewStep
  <1>10. CASE OpenVhdx
    BY <1>10 DEF OpenVhdx, ViewStep
  <1>11. CASE AttachVhdx
    BY <1>11 DEF AttachVhdx, ViewStep
  <1>12. CASE StartViewFish
    BY <1>12 DEF StartViewFish, StartWslFishProcess,
       StartWslFishProcessThrows, WriteInput, WriteInputThrows
  <1>13. CASE QueryAttachedVhdxRoot
    BY <1>13 DEF QueryAttachedVhdxRoot, Detach, ViewStep
  <1>14. CASE MountVolume
    BY <1>14 DEF MountVolume, ViewStep
  <1>15. CASE WaitForViewSession
    BY <1>15 DEF WaitForViewSession, ViewStep
  <1>16. CASE DetachVhdx
    BY <1>16 DEF DetachVhdx, Detach, ViewStep
  <1>17. CASE SetStopEvent
    BY <1>17 DEF SetStopEvent, ViewStep
  <1>18. CASE DeviceFsEnded
    BY <1>18 DEF DeviceFsEnded, ViewStep
  <1>19. CASE ShutdownTimeout
    BY <1>19 DEF ShutdownTimeout, ViewStep
  <1>20. CASE StopFish
    BY <1>20 DEF StopFish, ViewStep
  <1>21. CASE StopPbsFish
    BY <1>21 DEF StopPbsFish, FinishWsl, KillGraceExpires, StartSignal,
       SignalReturns, StartSignalThrows
  <1>22. CASE DeviceFsServes
    BY <1>22 DEF DeviceFsServes
  <1>23. CASE DeviceFsStops
    BY <1>23 DEF DeviceFsStops
  <1>24. CASE DeviceFsDies
    BY <1>24 DEF DeviceFsDies
  <1>25. CASE DiskReleased
    BY <1>25 DEF DiskReleased
  <1>26. CASE ReadInput /\ UNCHANGED windowsVars
    BY <1>26 DEF ReadInput, FishStep
  <1>27. CASE MakeRoot /\ UNCHANGED windowsVars
    BY <1>27 DEF MakeRoot, FishStep
  <1>28. CASE MakeFifos /\ UNCHANGED windowsVars
    BY <1>28 DEF MakeFifos, FishStep
  <1>29. CASE StartReader /\ UNCHANGED windowsVars
    BY <1>29 DEF StartReader, FishStep
  <1>30. CASE StartMapper /\ UNCHANGED windowsVars
    BY <1>30 DEF StartMapper, StartChild
  <1>31. CASE PublishMapper /\ UNCHANGED windowsVars
    BY <1>31 DEF PublishMapper, CallPublish, Publish
  <1>32. CASE ReadDevice /\ UNCHANGED windowsVars
    BY <1>32 DEF ReadDevice, FishStep
  <1>33. CASE ReadNoDevice /\ UNCHANGED windowsVars
    BY <1>33 DEF ReadNoDevice, FishStep
  <1>34. CASE PrepareViewSamba /\ UNCHANGED windowsVars
    BY <1>34 DEF PrepareViewSamba, FishStep
  <1>35. CASE StartSamba /\ UNCHANGED windowsVars
    BY <1>35 DEF StartSamba, StartChild
  <1>36. CASE PublishSamba /\ UNCHANGED windowsVars
    BY <1>36 DEF PublishSamba, CallPublish, Publish
  <1>37. CASE WaitSamba /\ UNCHANGED windowsVars
    BY <1>37 DEF WaitSamba, FishStep
  <1>38. CASE RemoveSambaPid /\ UNCHANGED windowsVars
    BY <1>38 DEF RemoveSambaPid, RemovePidFile
  <1>39. CASE TestStopFile /\ UNCHANGED windowsVars
    BY <1>39 DEF TestStopFile, FishStep
  <1>40. CASE FinishView /\ UNCHANGED windowsVars
    BY <1>40 DEF FinishView, FishStep
  <1>41. CASE TruncatePids /\ UNCHANGED windowsVars
    BY <1>41 DEF TruncatePids, RemovePidFile
  <1>42. CASE WriteMapperPid /\ UNCHANGED windowsVars
    BY <1>42 DEF WriteMapperPid
  <1>43. CASE KillMapper /\ UNCHANGED windowsVars
    BY <1>43 DEF KillMapper, Signal
  <1>44. CASE WaitMapper /\ UNCHANGED windowsVars
    BY <1>44 DEF WaitMapper, FishStep
  <1>45. CASE RemoveMapperPid /\ UNCHANGED windowsVars
    BY <1>45 DEF RemoveMapperPid, RemovePidFile
  <1>46. CASE WaitReader /\ UNCHANGED windowsVars
    BY <1>46 DEF WaitReader, FishStep
  <1>47. CASE RemoveRoot /\ UNCHANGED windowsVars
    BY <1>47 DEF RemoveRoot, FishStep
  <1>48. CASE ReadInputFails /\ UNCHANGED <<viewFishVars, windowsVars>>
    BY <1>48 DEF ReadInputFails
  <1>49. CASE PublishChildren /\ UNCHANGED <<viewFishVars, windowsVars>>
    BY <1>49 DEF PublishChildren, PublishOpen, PublishWrite, PublishTest,
       PublishKill, Signal
  <1>50. CASE FishExit /\ UNCHANGED <<viewFishVars, windowsVars>>
    BY <1>50 DEF FishExit
  <1>51. CASE ReaderEof /\ UNCHANGED windowsVars
    BY <1>51 DEF ReaderEof
  <1>52. CASE ReaderReadsLine /\ UNCHANGED windowsVars
    BY <1>52 DEF ReaderReadsLine
  <1>53. CASE ReaderDies /\ UNCHANGED windowsVars
    BY <1>53 DEF ReaderDies
  <1>54. CASE (\E s \in Signals : Control(s))
             /\ UNCHANGED <<viewFishVars, windowsVars>>
    BY <1>54 DEF Control, ControlTouch, ControlTest, ControlCat, ControlKill,
       Signal
  <1>55. CASE Cancel /\ UNCHANGED <<viewFishVars, windowsVars>>
    BY <1>55 DEF Cancel, RequestCancellation
  <1>56. CASE (\E c \in Children : ChildExit(c))
             /\ UNCHANGED <<viewFishVars, windowsVars>>
    BY <1>56 DEF ChildExit
  <1>57. CASE UNCHANGED vars
    BY <1>57 DEF vars
  <1> QED
    BY <1>1, <1>2, <1>3, <1>4, <1>5, <1>6, <1>7, <1>8, <1>9, <1>10, <1>11,
       <1>12, <1>13, <1>14, <1>15, <1>16, <1>17, <1>18, <1>19, <1>20, <1>21,
       <1>22, <1>23, <1>24, <1>25, <1>26, <1>27, <1>28, <1>29, <1>30, <1>31,
       <1>32, <1>33, <1>34, <1>35, <1>36, <1>37, <1>38, <1>39, <1>40, <1>41,
       <1>42, <1>43, <1>44, <1>45, <1>46, <1>47, <1>48, <1>49, <1>50, <1>51,
       <1>52, <1>53, <1>54, <1>55, <1>56, <1>57 DEF Next, RunSelectiveView,
       Linux, ViewProgram, Unfair, Terminated

\* A child that has exited is not started again.
LEMMA ReapedStep == TypeOK /\ ReapedInv /\ [Next]_vars => ReapedInv'
  <1> SUFFICES ASSUME TypeOK, ReapedInv, [Next]_vars
               PROVE  ReapedInv'
    OBVIOUS
  <1> USE ChildrenAre DEF TypeOK, ViewFishTypeOK, PbsTypeOK, ReapedInv,
          AfterSamba, Exited, ViewFishStates, pbsVars, supervisorVars,
          controlVars, fileVars, programVars, publishVars, childVars,
          viewFishVars, windowsVars
  <1>1. CASE Begin
    BY <1>1 DEF Begin, ViewStep
  <1>2. CASE PrepareDirectories
    BY <1>2 DEF PrepareDirectories, ViewStep
  <1>3. CASE SambaIsNotReady
    BY <1>3 DEF SambaIsNotReady, ViewStep
  <1>4. CASE SambaIsReady
    BY <1>4 DEF SambaIsReady, ViewStep
  <1>5. CASE ReadinessBreaks
    BY <1>5 DEF ReadinessBreaks, ViewStep
  <1>6. CASE StartDeviceFs
    BY <1>6 DEF StartDeviceFs, ViewStep
  <1>7. CASE StartDeviceFsThrows
    BY <1>7 DEF StartDeviceFsThrows, ViewStep
  <1>8. CASE WaitForDeviceFs
    BY <1>8 DEF WaitForDeviceFs, ViewStep
  <1>9. CASE CheckFish
    BY <1>9 DEF CheckFish, ViewStep
  <1>10. CASE OpenVhdx
    BY <1>10 DEF OpenVhdx, ViewStep
  <1>11. CASE AttachVhdx
    BY <1>11 DEF AttachVhdx, ViewStep
  <1>12. CASE StartViewFish
    BY <1>12 DEF StartViewFish, StartWslFishProcess,
       StartWslFishProcessThrows, WriteInput, WriteInputThrows
  <1>13. CASE QueryAttachedVhdxRoot
    BY <1>13 DEF QueryAttachedVhdxRoot, Detach, ViewStep
  <1>14. CASE MountVolume
    BY <1>14 DEF MountVolume, ViewStep
  <1>15. CASE WaitForViewSession
    BY <1>15 DEF WaitForViewSession, ViewStep
  <1>16. CASE DetachVhdx
    BY <1>16 DEF DetachVhdx, Detach, ViewStep
  <1>17. CASE SetStopEvent
    BY <1>17 DEF SetStopEvent, ViewStep
  <1>18. CASE DeviceFsEnded
    BY <1>18 DEF DeviceFsEnded, ViewStep
  <1>19. CASE ShutdownTimeout
    BY <1>19 DEF ShutdownTimeout, ViewStep
  <1>20. CASE StopFish
    BY <1>20 DEF StopFish, ViewStep
  <1>21. CASE StopPbsFish
    BY <1>21 DEF StopPbsFish, FinishWsl, KillGraceExpires, StartSignal,
       SignalReturns, StartSignalThrows
  <1>22. CASE DeviceFsServes
    BY <1>22 DEF DeviceFsServes
  <1>23. CASE DeviceFsStops
    BY <1>23 DEF DeviceFsStops
  <1>24. CASE DeviceFsDies
    BY <1>24 DEF DeviceFsDies
  <1>25. CASE DiskReleased
    BY <1>25 DEF DiskReleased
  <1>26. CASE ReadInput /\ UNCHANGED windowsVars
    BY <1>26 DEF ReadInput, FishStep
  <1>27. CASE MakeRoot /\ UNCHANGED windowsVars
    BY <1>27 DEF MakeRoot, FishStep
  <1>28. CASE MakeFifos /\ UNCHANGED windowsVars
    BY <1>28 DEF MakeFifos, FishStep
  <1>29. CASE StartReader /\ UNCHANGED windowsVars
    BY <1>29 DEF StartReader, FishStep
  <1>30. CASE StartMapper /\ UNCHANGED windowsVars
    BY <1>30 DEF StartMapper, StartChild
  <1>31. CASE PublishMapper /\ UNCHANGED windowsVars
    BY <1>31 DEF PublishMapper, CallPublish, Publish
  <1>32. CASE ReadDevice /\ UNCHANGED windowsVars
    BY <1>32 DEF ReadDevice, FishStep
  <1>33. CASE ReadNoDevice /\ UNCHANGED windowsVars
    BY <1>33 DEF ReadNoDevice, FishStep
  <1>34. CASE PrepareViewSamba /\ UNCHANGED windowsVars
    BY <1>34 DEF PrepareViewSamba, FishStep
  <1>35. CASE StartSamba /\ UNCHANGED windowsVars
    BY <1>35 DEF StartSamba, StartChild
  <1>36. CASE PublishSamba /\ UNCHANGED windowsVars
    BY <1>36 DEF PublishSamba, CallPublish, Publish
  <1>37. CASE WaitSamba /\ UNCHANGED windowsVars
    BY <1>37 DEF WaitSamba, FishStep
  <1>38. CASE RemoveSambaPid /\ UNCHANGED windowsVars
    BY <1>38 DEF RemoveSambaPid, RemovePidFile
  <1>39. CASE TestStopFile /\ UNCHANGED windowsVars
    BY <1>39 DEF TestStopFile, FishStep
  <1>40. CASE FinishView /\ UNCHANGED windowsVars
    BY <1>40 DEF FinishView, FishStep
  <1>41. CASE TruncatePids /\ UNCHANGED windowsVars
    BY <1>41 DEF TruncatePids, RemovePidFile
  <1>42. CASE WriteMapperPid /\ UNCHANGED windowsVars
    BY <1>42 DEF WriteMapperPid
  <1>43. CASE KillMapper /\ UNCHANGED windowsVars
    BY <1>43 DEF KillMapper, Signal
  <1>44. CASE WaitMapper /\ UNCHANGED windowsVars
    BY <1>44 DEF WaitMapper, FishStep
  <1>45. CASE RemoveMapperPid /\ UNCHANGED windowsVars
    BY <1>45 DEF RemoveMapperPid, RemovePidFile
  <1>46. CASE WaitReader /\ UNCHANGED windowsVars
    BY <1>46 DEF WaitReader, FishStep
  <1>47. CASE RemoveRoot /\ UNCHANGED windowsVars
    BY <1>47 DEF RemoveRoot, FishStep
  <1>48. CASE ReadInputFails /\ UNCHANGED <<viewFishVars, windowsVars>>
    BY <1>48 DEF ReadInputFails
  <1>49. CASE PublishChildren /\ UNCHANGED <<viewFishVars, windowsVars>>
    BY <1>49 DEF PublishChildren, PublishOpen, PublishWrite, PublishTest,
       PublishKill, Signal
  <1>50. CASE FishExit /\ UNCHANGED <<viewFishVars, windowsVars>>
    BY <1>50 DEF FishExit
  <1>51. CASE ReaderEof /\ UNCHANGED windowsVars
    BY <1>51 DEF ReaderEof
  <1>52. CASE ReaderReadsLine /\ UNCHANGED windowsVars
    BY <1>52 DEF ReaderReadsLine
  <1>53. CASE ReaderDies /\ UNCHANGED windowsVars
    BY <1>53 DEF ReaderDies
  <1>54. CASE (\E s \in Signals : Control(s))
             /\ UNCHANGED <<viewFishVars, windowsVars>>
    BY <1>54 DEF Control, ControlTouch, ControlTest, ControlCat, ControlKill,
       Signal
  <1>55. CASE Cancel /\ UNCHANGED <<viewFishVars, windowsVars>>
    BY <1>55 DEF Cancel, RequestCancellation
  <1>56. CASE (\E c \in Children : ChildExit(c))
             /\ UNCHANGED <<viewFishVars, windowsVars>>
    BY <1>56 DEF ChildExit
  <1>57. CASE UNCHANGED vars
    BY <1>57 DEF vars
  <1> QED
    BY <1>1, <1>2, <1>3, <1>4, <1>5, <1>6, <1>7, <1>8, <1>9, <1>10, <1>11,
       <1>12, <1>13, <1>14, <1>15, <1>16, <1>17, <1>18, <1>19, <1>20, <1>21,
       <1>22, <1>23, <1>24, <1>25, <1>26, <1>27, <1>28, <1>29, <1>30, <1>31,
       <1>32, <1>33, <1>34, <1>35, <1>36, <1>37, <1>38, <1>39, <1>40, <1>41,
       <1>42, <1>43, <1>44, <1>45, <1>46, <1>47, <1>48, <1>49, <1>50, <1>51,
       <1>52, <1>53, <1>54, <1>55, <1>56, <1>57 DEF Next, RunSelectiveView,
       Linux, ViewProgram, Unfair, Terminated

\* A failure of what is waited for makes the status nonzero for good.
LEMMA ServedStep ==
    TypeOK /\ ReapedInv /\ ServedInv /\ [Next]_vars => ServedInv'
  <1> SUFFICES ASSUME TypeOK, ReapedInv, ServedInv, [Next]_vars
               PROVE  ServedInv'
    OBVIOUS
  <1> USE ChildrenAre, SelectiveViewAssumption DEF TypeOK, ViewFishTypeOK,
          PbsTypeOK, ReapedInv, ServedInv, Quiet, AfterSamba, BeforeReader,
          AfterMapper, AfterReader, Exited, Running, ReaderAlive, Signals,
          ProcessStates, pbsVars, supervisorVars, controlVars, fileVars,
          programVars, publishVars, childVars, viewFishVars, windowsVars
  <1>1. CASE Begin
    BY <1>1 DEF Begin, ViewStep
  <1>2. CASE PrepareDirectories
    BY <1>2 DEF PrepareDirectories, ViewStep
  <1>3. CASE SambaIsNotReady
    BY <1>3 DEF SambaIsNotReady, ViewStep
  <1>4. CASE SambaIsReady
    BY <1>4 DEF SambaIsReady, ViewStep
  <1>5. CASE ReadinessBreaks
    BY <1>5 DEF ReadinessBreaks, ViewStep
  <1>6. CASE StartDeviceFs
    BY <1>6 DEF StartDeviceFs, ViewStep
  <1>7. CASE StartDeviceFsThrows
    BY <1>7 DEF StartDeviceFsThrows, ViewStep
  <1>8. CASE WaitForDeviceFs
    BY <1>8 DEF WaitForDeviceFs, ViewStep
  <1>9. CASE CheckFish
    BY <1>9 DEF CheckFish, ViewStep
  <1>10. CASE OpenVhdx
    BY <1>10 DEF OpenVhdx, ViewStep
  <1>11. CASE AttachVhdx
    BY <1>11 DEF AttachVhdx, ViewStep
  <1>12. CASE StartViewFish
    BY <1>12 DEF StartViewFish, StartWslFishProcess,
       StartWslFishProcessThrows, WriteInput, WriteInputThrows
  <1>13. CASE QueryAttachedVhdxRoot
    BY <1>13 DEF QueryAttachedVhdxRoot, Detach, ViewStep
  <1>14. CASE MountVolume
    BY <1>14 DEF MountVolume, ViewStep
  <1>15. CASE WaitForViewSession
    BY <1>15 DEF WaitForViewSession, ViewStep
  <1>16. CASE DetachVhdx
    BY <1>16 DEF DetachVhdx, Detach, ViewStep
  <1>17. CASE SetStopEvent
    BY <1>17 DEF SetStopEvent, ViewStep
  <1>18. CASE DeviceFsEnded
    BY <1>18 DEF DeviceFsEnded, ViewStep
  <1>19. CASE ShutdownTimeout
    BY <1>19 DEF ShutdownTimeout, ViewStep
  <1>20. CASE StopFish
    BY <1>20 DEF StopFish, ViewStep
  <1>21. CASE StopPbsFish
    BY <1>21 DEF StopPbsFish, FinishWsl, KillGraceExpires, StartSignal,
       SignalReturns, StartSignalThrows
  <1>22. CASE DeviceFsServes
    BY <1>22 DEF DeviceFsServes
  <1>23. CASE DeviceFsStops
    BY <1>23 DEF DeviceFsStops
  <1>24. CASE DeviceFsDies
    BY <1>24 DEF DeviceFsDies
  <1>25. CASE DiskReleased
    BY <1>25 DEF DiskReleased
  <1>26. CASE ReadInput /\ UNCHANGED windowsVars
    BY <1>26 DEF ReadInput, FishStep
  <1>27. CASE MakeRoot /\ UNCHANGED windowsVars
    BY <1>27 DEF MakeRoot, FishStep
  <1>28. CASE MakeFifos /\ UNCHANGED windowsVars
    BY <1>28 DEF MakeFifos, FishStep
  <1>29. CASE StartReader /\ UNCHANGED windowsVars
    BY <1>29 DEF StartReader, FishStep
  <1>30. CASE StartMapper /\ UNCHANGED windowsVars
    BY <1>30 DEF StartMapper, StartChild
  <1>31. CASE PublishMapper /\ UNCHANGED windowsVars
    BY <1>31 DEF PublishMapper, CallPublish, Publish
  <1>32. CASE ReadDevice /\ UNCHANGED windowsVars
    BY <1>32 DEF ReadDevice, FishStep
  <1>33. CASE ReadNoDevice /\ UNCHANGED windowsVars
    BY <1>33 DEF ReadNoDevice, FishStep
  <1>34. CASE PrepareViewSamba /\ UNCHANGED windowsVars
    BY <1>34 DEF PrepareViewSamba, FishStep
  <1>35. CASE StartSamba /\ UNCHANGED windowsVars
    BY <1>35 DEF StartSamba, StartChild
  <1>36. CASE PublishSamba /\ UNCHANGED windowsVars
    BY <1>36 DEF PublishSamba, CallPublish, Publish
  <1>37. CASE WaitSamba /\ UNCHANGED windowsVars
    BY <1>37 DEF WaitSamba, FishStep
  <1>38. CASE RemoveSambaPid /\ UNCHANGED windowsVars
    BY <1>38 DEF RemoveSambaPid, RemovePidFile
  <1>39. CASE TestStopFile /\ UNCHANGED windowsVars
    BY <1>39 DEF TestStopFile, FishStep
  <1>40. CASE FinishView /\ UNCHANGED windowsVars
    BY <1>40 DEF FinishView, FishStep
  <1>41. CASE TruncatePids /\ UNCHANGED windowsVars
    BY <1>41 DEF TruncatePids, RemovePidFile
  <1>42. CASE WriteMapperPid /\ UNCHANGED windowsVars
    BY <1>42 DEF WriteMapperPid
  <1>43. CASE KillMapper /\ UNCHANGED windowsVars
    BY <1>43 DEF KillMapper, Signal
  <1>44. CASE WaitMapper /\ UNCHANGED windowsVars
    BY <1>44 DEF WaitMapper, FishStep
  <1>45. CASE RemoveMapperPid /\ UNCHANGED windowsVars
    BY <1>45 DEF RemoveMapperPid, RemovePidFile
  <1>46. CASE WaitReader /\ UNCHANGED windowsVars
    BY <1>46 DEF WaitReader, FishStep
  <1>47. CASE RemoveRoot /\ UNCHANGED windowsVars
    BY <1>47 DEF RemoveRoot, FishStep
  <1>48. CASE ReadInputFails /\ UNCHANGED <<viewFishVars, windowsVars>>
    BY <1>48 DEF ReadInputFails
  <1>49. CASE PublishChildren /\ UNCHANGED <<viewFishVars, windowsVars>>
    BY <1>49 DEF PublishChildren, PublishOpen, PublishWrite, PublishTest,
       PublishKill, Signal
  <1>50. CASE FishExit /\ UNCHANGED <<viewFishVars, windowsVars>>
    BY <1>50 DEF FishExit
  <1>51. CASE ReaderEof /\ UNCHANGED windowsVars
    BY <1>51 DEF ReaderEof
  <1>52. CASE ReaderReadsLine /\ UNCHANGED windowsVars
    BY <1>52 DEF ReaderReadsLine
  <1>53. CASE ReaderDies /\ UNCHANGED windowsVars
    BY <1>53 DEF ReaderDies
  <1>54. CASE (\E s \in Signals : Control(s))
             /\ UNCHANGED <<viewFishVars, windowsVars>>
    BY <1>54 DEF Control, ControlTouch, ControlTest, ControlCat, ControlKill,
       Signal
  <1>55. CASE Cancel /\ UNCHANGED <<viewFishVars, windowsVars>>
    BY <1>55 DEF Cancel, RequestCancellation
  <1>56. CASE (\E c \in Children : ChildExit(c))
             /\ UNCHANGED <<viewFishVars, windowsVars>>
    BY <1>56 DEF ChildExit
  <1>57. CASE UNCHANGED vars
    BY <1>57 DEF vars
  <1> QED
    BY <1>1, <1>2, <1>3, <1>4, <1>5, <1>6, <1>7, <1>8, <1>9, <1>10, <1>11,
       <1>12, <1>13, <1>14, <1>15, <1>16, <1>17, <1>18, <1>19, <1>20, <1>21,
       <1>22, <1>23, <1>24, <1>25, <1>26, <1>27, <1>28, <1>29, <1>30, <1>31,
       <1>32, <1>33, <1>34, <1>35, <1>36, <1>37, <1>38, <1>39, <1>40, <1>41,
       <1>42, <1>43, <1>44, <1>45, <1>46, <1>47, <1>48, <1>49, <1>50, <1>51,
       <1>52, <1>53, <1>54, <1>55, <1>56, <1>57 DEF Next, RunSelectiveView,
       Linux, ViewProgram, Unfair, Terminated

\* IInv is an invariant of a view.
LEMMA IInvInvariant == Spec => []IInv
  <1>1. IInv /\ [Next]_vars => IInv'
    BY TypeStep, StorageStep, ReapedStep, ServedStep DEF IInv
  <1> QED
    BY InitIInv, <1>1, PTL DEF Spec

-----------------------------------------------------------------------------
(* The properties.                                                         *)

\* Every variable of a view keeps to its values.
THEOREM TypeCorrect == Spec => []TypeOK
  <1>1. IInv => TypeOK
    BY DEF IInv
  <1> QED
    BY <1>1, IInvInvariant, PTL

\* WSL is asked to stop only when DeviceFs was not started or has exited, on
\* every path out of RunSelectiveView, with a detach that fails or a shutdown
\* that times out.
THEOREM StorageOutlivesDisk == Spec => []ServedDiskKeepsItsStorage
  <1>1. IInv => ServedDiskKeepsItsStorage
    BY DEF IInv, StorageInv, Quiet, ServedDiskKeepsItsStorage
  <1> QED
    BY <1>1, IInvInvariant, PTL

\* run_view exits with 0, unless it was asked to, only after Samba, the
\* reader and a mapper that ended by itself have succeeded.
THEOREM ZeroIsEarned == Spec => []ZeroMeansServed
  <1>1. IInv => ZeroMeansServed
    BY DEF IInv, ServedInv, Quiet, AfterSamba, AfterMapper, AfterReader,
       ZeroMeansServed
  <1> QED
    BY <1>1, IInvInvariant, PTL

=============================================================================
