-------------------------- MODULE BackupRunProofs ---------------------------
(***************************************************************************)
(* Proofs about a backup, with and without writers.  The first half is     *)
(* about Vshadow by itself, for an operation that may return anything: what*)
(* becomes of the snapshot set and of the writers.  The second half is     *)
(* about BackupRun, where RunSnapshotBackup is the operation: its exit code*)
(* is truthful, the lifetimes of upload, DeviceFs and snapshots nest, and  *)
(* the upload is used as PbsOperation allows.                              *)
(***************************************************************************)
EXTENDS BackupRun, TLAPS

-----------------------------------------------------------------------------
(* The snapshot set by itself: its inductive invariant.                    *)

\* What the service has, and what the client knows of it, before the wait for
\* DoSnapshotSet, in it, and after it has been recorded as a success.
SetInv ==
    /\ vss \in {"idle", "gather", "start"}
          => snapshot_set = "none" /\ async = "none"
    /\ vss \in {"add", "prepare", "do"}
          => snapshot_set = "started" /\ async = "none"
    /\ vss \in {"idle", "gather", "start", "add", "prepare", "do", "wait"}
          => m_bSnapshotSetCreated = "no"
    /\ vss \in {"check", "query", "operation"}
          => m_bSnapshotSetCreated = "yes"
    /\ m_bSnapshotSetCreated = "yes" => async = "finished"
    /\ (m_bSnapshotSetCreated = "yes" /\ vss # "done")
          => snapshot_set = "created"
    /\ async = "finished" => snapshot_set \in {"created", "deleted"}
    /\ snapshot_set = "created" => async = "finished"
    /\ snapshot_set = "deleted" => vss = "done"

\* Without a fault, nobody leaves the wait while the service is at work.
PendingInv ==
    vss_fault = "none" =>
        /\ async = "pending" => vss = "wait"
        /\ (async = "finished" /\ m_bSnapshotSetCreated = "no")
              => vss = "wait"

\* completion_ follows the result of the operation, and of nothing else.
CompletionInv ==
    /\ completion_ = "Success" <=> vss_result = "zero"
    /\ completion_ = "Success"
          => m_bSnapshotSetCreated = "yes"
             /\ vss \in {"complete", "delete", "done"}
    /\ vss \notin {"delete", "done"} => writers \in {"idle", "prepared"}
    /\ vss \in {"complete", "delete", "done"} => vss_result # "none"

\* What the destructor leaves of the set.
DestroyedInv ==
    (vss = "done" /\ vss_fault = "none") =>
        /\ completion_ = "Success" => snapshot_set = "created"
        /\ completion_ # "Success" => snapshot_set # "created"

VssIInv ==
    /\ VssTypeOK
    /\ SetInv
    /\ PendingInv
    /\ CompletionInv
    /\ DestroyedInv
    /\ WritersHearTheOutcome

-----------------------------------------------------------------------------
(* The invariant holds initially and every action preserves it.            *)

\* No call has been made and nothing is pending.
LEMMA VssInitIInv == VssInit => VssIInv
  BY DEF VssInit, VssIInv, VssTypeOK, SetInv, PendingInv, CompletionInv,
      DestroyedInv, WritersHearTheOutcome, VssResults

\* Each variable is assigned only values of its type.
LEMMA VssTypeStep == VssTypeOK /\ [VssNext]_vshadowVars => VssTypeOK'
  <1> SUFFICES ASSUME VssTypeOK, [VssNext]_vshadowVars PROVE VssTypeOK'
    OBVIOUS
  <1> USE DEF VssTypeOK, VssResults
  <1>1. CASE VssRequestCancellation
    BY <1>1 DEF VssRequestCancellation, vssVars
  <1>2. CASE BeginRun
    BY <1>2 DEF BeginRun
  <1>3. CASE InitializeThrows
    BY <1>3 DEF InitializeThrows
  <1>4. CASE GatherWriterMetadata
    BY <1>4 DEF GatherWriterMetadata
  <1>5. CASE StartSnapshotSet
    BY <1>5 DEF StartSnapshotSet
  <1>6. CASE AddToSnapshotSet
    BY <1>6 DEF AddToSnapshotSet
  <1>7. CASE PrepareForBackup
    BY <1>7 DEF PrepareForBackup
  <1>8. CASE DoSnapshotSet
    BY <1>8 DEF DoSnapshotSet
  <1>9. CASE CancelAsync
    BY <1>9 DEF CancelAsync
  <1>10. CASE AsyncFinished
    BY <1>10 DEF AsyncFinished
  <1>11. CASE AsyncNotFinished
    BY <1>11 DEF AsyncNotFinished, Throws
  <1>12. CASE CheckSelectedWriterStatus
    BY <1>12 DEF CheckSelectedWriterStatus
  <1>13. CASE WaitThrowsCancelled("gather") \/ WaitThrowsCancelled("prepare")
    BY <1>13 DEF WaitThrowsCancelled, Throws
  <1>14. CASE VssCallThrows
    BY <1>14 DEF VssCallThrows, Throws
  <1>15. CASE WaitThrows
    BY <1>15 DEF WaitThrows
  <1>16. CASE BeginOperation
    BY <1>16 DEF BeginOperation
  <1>17. CASE \E result \in VssResults : EndOperation(result)
    BY <1>17 DEF EndOperation
  <1>18. CASE CompleteBackup
    BY <1>18 DEF CompleteBackup
  <1>19. CASE CompleteBackupThrows
    BY <1>19 DEF CompleteBackupThrows
  <1>20. CASE DeleteSnapshotSet
    BY <1>20 DEF DeleteSnapshotSet
  <1>21. CASE DeleteSnapshotSetFails
    BY <1>21 DEF DeleteSnapshotSetFails
  <1>22. CASE ServiceCreates
    BY <1>22 DEF ServiceCreates
  <1>23. CASE ServiceFails
    BY <1>23 DEF ServiceFails
  <1>24. CASE UNCHANGED vshadowVars
    BY <1>24 DEF vshadowVars, vssVars
  <1> QED
    BY <1>1, <1>2, <1>3, <1>4, <1>5, <1>6, <1>7, <1>8, <1>9, <1>10, <1>11,
        <1>12, <1>13, <1>14, <1>15, <1>16, <1>17, <1>18, <1>19, <1>20, <1>21,
        <1>22, <1>23, <1>24
    DEF VssNext, CreateSnapshotSet, CreateSnapshotSetFails, DestroyBackup,
        Service, VssTerminated

\* One step per action: what the action does to the service's side, to the
\* client's side and to the outcome stays consistent.
LEMMA VssNextIInv == VssIInv /\ [VssNext]_vshadowVars => VssIInv'
  <1> SUFFICES ASSUME VssIInv, [VssNext]_vshadowVars PROVE VssIInv'
    OBVIOUS
  <1> VssTypeOK /\ VssTypeOK'
    BY VssTypeStep DEF VssIInv
  <1> SUFFICES /\ SetInv' /\ PendingInv' /\ CompletionInv'
               /\ DestroyedInv' /\ WritersHearTheOutcome'
    BY DEF VssIInv
  <1> USE DEF VssIInv, VssTypeOK, SetInv, PendingInv, CompletionInv,
        DestroyedInv, WritersHearTheOutcome, VssResults
  <1>1. CASE VssRequestCancellation
    BY <1>1 DEF VssRequestCancellation, vssVars
  <1>2. CASE BeginRun
    BY <1>2 DEF BeginRun
  <1>3. CASE InitializeThrows
    BY <1>3 DEF InitializeThrows
  <1>4. CASE GatherWriterMetadata
    BY <1>4 DEF GatherWriterMetadata
  <1>5. CASE StartSnapshotSet
    BY <1>5 DEF StartSnapshotSet
  <1>6. CASE AddToSnapshotSet
    BY <1>6 DEF AddToSnapshotSet
  <1>7. CASE PrepareForBackup
    BY <1>7 DEF PrepareForBackup
  <1>8. CASE DoSnapshotSet
    BY <1>8 DEF DoSnapshotSet
  <1>9. CASE CancelAsync
    BY <1>9 DEF CancelAsync
  <1>10. CASE AsyncFinished
    BY <1>10 DEF AsyncFinished
  <1>11. CASE AsyncNotFinished
    BY <1>11 DEF AsyncNotFinished, Throws
  <1>12. CASE CheckSelectedWriterStatus
    BY <1>12 DEF CheckSelectedWriterStatus
  <1>13. CASE WaitThrowsCancelled("gather") \/ WaitThrowsCancelled("prepare")
    BY <1>13 DEF WaitThrowsCancelled, Throws
  <1>14. CASE VssCallThrows
    BY <1>14 DEF VssCallThrows, Throws
  <1>15. CASE WaitThrows
    BY <1>15 DEF WaitThrows
  <1>16. CASE BeginOperation
    BY <1>16 DEF BeginOperation
  <1>17. CASE \E result \in VssResults : EndOperation(result)
    BY <1>17 DEF EndOperation
  <1>18. CASE CompleteBackup
    BY <1>18 DEF CompleteBackup
  <1>19. CASE CompleteBackupThrows
    BY <1>19 DEF CompleteBackupThrows
  <1>20. CASE DeleteSnapshotSet
    BY <1>20 DEF DeleteSnapshotSet
  <1>21. CASE DeleteSnapshotSetFails
    BY <1>21 DEF DeleteSnapshotSetFails
  <1>22. CASE ServiceCreates
    BY <1>22 DEF ServiceCreates
  <1>23. CASE ServiceFails
    BY <1>23 DEF ServiceFails
  <1>24. CASE UNCHANGED vshadowVars
    BY <1>24 DEF vshadowVars, vssVars
  <1> QED
    BY <1>1, <1>2, <1>3, <1>4, <1>5, <1>6, <1>7, <1>8, <1>9, <1>10, <1>11,
        <1>12, <1>13, <1>14, <1>15, <1>16, <1>17, <1>18, <1>19, <1>20, <1>21,
        <1>22, <1>23, <1>24
    DEF VssNext, CreateSnapshotSet, CreateSnapshotSetFails, DestroyBackup,
        Service, VssTerminated

\* VssIInv is an invariant of the snapshot set.
LEMMA VssIInvInvariant == VssSpec => []VssIInv
  BY VssInitIInv, VssNextIInv, PTL DEF VssSpec

-----------------------------------------------------------------------------
(* The properties of the set, for an operation that may return anything.   *)

\* Every variable of class Backup and of the service keeps to its values.
THEOREM VssTypeCorrect == VssSpec => []VssTypeOK
  <1>1. VssIInv => VssTypeOK
    BY DEF VssIInv
  <1> QED
    BY VssIInvInvariant, <1>1, PTL

\* ~Backup keeps the set of an operation that returned 0 and of no other, as
\* long as no VSS call of the wait, the abort or the deletion fails.
THEOREM SetIsRetainedOnlyOnSuccess == VssSpec => []RetainedOnlyOnSuccess
  <1>1. VssIInv => RetainedOnlyOnSuccess
    BY DEF VssIInv, VssTypeOK, SetInv, PendingInv, CompletionInv, DestroyedInv,
        RetainedOnlyOnSuccess
  <1> QED
    BY VssIInvInvariant, <1>1, PTL

\* BackupComplete tells the writers of a success exactly when there was one.
THEOREM WritersAreToldTheTruth == VssSpec => []WritersHearTheOutcome
  <1>1. VssIInv => WritersHearTheOutcome
    BY DEF VssIInv
  <1> QED
    BY VssIInvInvariant, <1>1, PTL

\* WaitAndCheckForAsyncOperation never goes on past a signaled event, also when
\* the service finished the set before it could be cancelled.
THEOREM CancelledWaitThrows == VssSpec => CancelledWaitSkipsOperation
  <1>1. VssIInv /\ [VssNext]_vshadowVars =>
            [vss = "wait" /\ cancellation_event = "signaled" =>
                vss' \in {"wait", "complete"}]_vshadowVars
    <2> SUFFICES ASSUME VssNext, vss = "wait",
                        cancellation_event = "signaled"
                 PROVE  vss' \in {"wait", "complete"}
      OBVIOUS
    <2> QED
      BY DEF VssNext, VssRequestCancellation, CreateSnapshotSet, BeginRun,
          GatherWriterMetadata, StartSnapshotSet, AddToSnapshotSet,
          PrepareForBackup, DoSnapshotSet, CancelAsync, AsyncFinished,
          AsyncNotFinished, CheckSelectedWriterStatus, WaitThrowsCancelled,
          Throws, CreateSnapshotSetFails, InitializeThrows, VssCallThrows,
          WaitThrows, BeginOperation, EndOperation, DestroyBackup,
          CompleteBackup, CompleteBackupThrows, DeleteSnapshotSet,
          DeleteSnapshotSetFails, Service, ServiceCreates, ServiceFails,
          VssTerminated, vshadowVars, vssVars
  <1> QED
    BY VssIInvInvariant, <1>1, PTL DEF VssSpec, CancelledWaitSkipsOperation

-----------------------------------------------------------------------------
(* The whole backup: its inductive invariant.                              *)

\* RunSnapshotBackup runs while class Backup is in its operation, and what it
\* returned, or 2 for an exception, is the result.
OperationInv ==
    /\ run \notin {"idle", "returned"} <=> vss = "operation"
    /\ run = "returned" =>
          /\ vss \in {"complete", "delete", "done"}
          /\ vss_result = CallbackResult
    /\ run = "idle" => vss_result # "zero"
    /\ run \in {"stop", "return", "returned"} <=> returned # "none"

\* DeviceFs is started where no earlier one has served, stopped last, and
\* waited for.
DeviceFsInv ==
    /\ run \in {"idle", "enter", "target", "maps", "open", "start"}
          => devicefs = "none"
    /\ run \in {"maps", "open", "start", "ready", "pbs"}
          \/ devicefs # "none" => mount_target # "earlier"
    /\ run = "ready" => devicefs \in {"starting", "serving", "exited"}
    /\ run = "pbs" => devicefs \in {"starting", "serving", "exited"}
    /\ run = "stop" => devicefs # "none"
    /\ run \in {"return", "returned"}
          => devicefs \in {"none", "exited"} \/ stop_timeout = "yes"

\* RunPbsFish is called from the step "pbs" only, and its 0 is an upload.
UploadInv ==
    /\ run \notin {"pbs", "stop", "return", "returned"} => pbs = "idle"
    /\ run = "pbs" => pbs \in {"idle", "running"}
    /\ pbs = "running" => run = "pbs"
    /\ code # "none" <=> pbs = "finished"
    /\ code = "zero" => upload = "complete" /\ vss_mount = "unmounted"
    /\ vss_mount = "mounted"
          => pbs \in {"running", "abandoned"} \/ code = "nonzero"
    /\ pbs # "idle" => devicefs # "none"
    /\ UploadReadsOwnImages

\* What RunSnapshotBackup returns, and what RunNativeBackup makes of it.
ReturnInv ==
    /\ returned = "zero" => code = "zero"
    /\ returned = "cancelled"
          => cancellation_event = "signaled" /\ pbs = "idle"
    /\ completion_ = "Success" => snapshot_set = "created"
    /\ exit_code # "none" => vss = "done"
    /\ exit_code = "zero" => vss_result = "zero"
    /\ exit_code = "cancelled"
          => vss_result = "cancelled" /\ cancellation_event = "signaled"

IInv ==
    /\ TypeOK
    /\ VssIInv
    /\ OperationInv
    /\ DeviceFsInv
    /\ UploadInv
    /\ ReturnInv

-----------------------------------------------------------------------------
(* The invariant holds initially and every action preserves it.            *)

\* Nothing has been started.
LEMMA InitIInv == Init => IInv
BY VssInitIInv DEF Init, VssInit, Pbs!Init, IInv, TypeOK, VssIInv, Pbs!TypeOK,
     OperationInv, DeviceFsInv, UploadInv, ReturnInv, VssResults,
     UploadReadsOwnImages, MountTargets, Served

\* What the steps of class Backup and of the service do to a backup: they leave
\* RunSnapshotBackup alone, and start from where it is not running.
SetStep ==
    /\ \/ VssRequestCancellation \/ CreateSnapshotSet
       \/ CreateSnapshotSetFails \/ DestroyBackup \/ Service
    /\ UNCHANGED <<runVars, pbsOperationVars>>

\* Of what the rest of the invariant is about they change little: the result is
\* set where the operation was not reached, and a retained set stays.
LEMMA SetStepEffect ==
    ASSUME VssIInv, SetStep
    PROVE  /\ vss = "operation" <=> vss' = "operation"
           /\ vss \in {"complete", "delete", "done"}
                 => vss_result' = vss_result
                    /\ vss' \in {"complete", "delete", "done"}
           /\ vss = "done" => vss' = "done"
           /\ vss_result' = "zero" => vss_result = "zero"
           /\ completion_' = "Success" => completion_ = "Success"
           /\ completion_ = "Success" /\ snapshot_set = "created"
                 => snapshot_set' = "created"
           /\ cancellation_event = "signaled"
                 => cancellation_event' = "signaled"
  <1> USE DEF VssIInv, VssTypeOK, SetInv, CompletionInv, VssResults
  <1>1. CASE VssRequestCancellation
    BY <1>1 DEF VssRequestCancellation, vssVars
  <1>2. CASE BeginRun
    BY <1>2 DEF BeginRun
  <1>3. CASE GatherWriterMetadata
    BY <1>3 DEF GatherWriterMetadata
  <1>4. CASE StartSnapshotSet
    BY <1>4 DEF StartSnapshotSet
  <1>5. CASE AddToSnapshotSet
    BY <1>5 DEF AddToSnapshotSet
  <1>6. CASE PrepareForBackup
    BY <1>6 DEF PrepareForBackup
  <1>7. CASE DoSnapshotSet
    BY <1>7 DEF DoSnapshotSet
  <1>8. CASE CancelAsync
    BY <1>8 DEF CancelAsync
  <1>9. CASE AsyncFinished
    BY <1>9 DEF AsyncFinished
  <1>10. CASE AsyncNotFinished
    BY <1>10 DEF AsyncNotFinished, Throws
  <1>11. CASE CheckSelectedWriterStatus
    BY <1>11 DEF CheckSelectedWriterStatus
  <1>12. CASE WaitThrowsCancelled("gather") \/ WaitThrowsCancelled("prepare")
    BY <1>12 DEF WaitThrowsCancelled, Throws
  <1>13. CASE InitializeThrows
    BY <1>13 DEF InitializeThrows
  <1>14. CASE VssCallThrows
    BY <1>14 DEF VssCallThrows, Throws
  <1>15. CASE WaitThrows
    BY <1>15 DEF WaitThrows
  <1>16. CASE CompleteBackup
    BY <1>16 DEF CompleteBackup
  <1>17. CASE CompleteBackupThrows
    BY <1>17 DEF CompleteBackupThrows
  <1>18. CASE DeleteSnapshotSet
    BY <1>18 DEF DeleteSnapshotSet
  <1>19. CASE DeleteSnapshotSetFails
    BY <1>19 DEF DeleteSnapshotSetFails
  <1>20. CASE ServiceCreates
    BY <1>20 DEF ServiceCreates
  <1>21. CASE ServiceFails
    BY <1>21 DEF ServiceFails
  <1> QED
    BY <1>1, <1>2, <1>3, <1>4, <1>5, <1>6, <1>7, <1>8, <1>9, <1>10, <1>11,
       <1>12, <1>13, <1>14, <1>15, <1>16, <1>17, <1>18, <1>19, <1>20, <1>21
       DEF SetStep, CreateSnapshotSet, CreateSnapshotSetFails, DestroyBackup,
       Service

\* Class Backup sees an operation that returns something, or never runs at all.
LEMMA VssStep ==
    TypeOK /\ OperationInv /\ VssIInv /\ [Next]_vars => VssIInv'
  <1> SUFFICES ASSUME TypeOK, OperationInv, VssIInv, [Next]_vars
               PROVE  VssIInv'
    OBVIOUS
  <1>1. CASE CancelledBeforeStart
    BY <1>1 DEF CancelledBeforeStart, VssIInv, VssTypeOK, SetInv, PendingInv,
       CompletionInv, DestroyedInv, WritersHearTheOutcome, VssResults
  <1>2. CASE EnterOperation
    BY <1>2, VssNextIInv DEF EnterOperation, VssNext
  <1>3. CASE ReturnFromOperation
    <2>1. CallbackResult \in VssResults
      BY <1>3 DEF ReturnFromOperation, TypeOK, OperationInv, VssResults,
         CallbackResult
    <2> QED
      BY <1>3, <2>1, VssNextIInv DEF ReturnFromOperation, VssNext
  <1>4. CASE SetStep
    BY <1>4, VssNextIInv DEF SetStep, VssNext
  <1>5. CASE \/ RunVssOperation \/ StartPbs \/ RunPbsFish \/ Others
             \/ RunSnapshotBackup /\ ~EnterOperation /\ ~ReturnFromOperation
             \/ UNCHANGED vars
    <2>1. UNCHANGED vshadowVars
      BY <1>5 DEF RunVssOperation, StartPbs, RunPbsFish, Others,
         RunSnapshotBackup, CheckCancellation, ClearMountTarget,
         PrepareDirtyMaps, OpenSnapshotHandles, StartDeviceFs,
         SnapshotBackupThrows, WaitForDeviceFsThrows,
         WaitForDeviceFsCancelled, DeviceFsReady, RequestStop,
         DeviceFsStopped, StopTimesOut, Leave, RunStep, PbsThrows, PbsReturns,
         DeviceFsMounts, DeviceFsExits, EarlierMounts, EarlierExits,
         FishMounts, FishUploads, FishUnmounts, Pbs!Start, Pbs!Fail,
         Pbs!Abandon, Pbs!Finish, Pbs!Mount, Pbs!Upload, Pbs!Unmount, vars,
         vshadowVars
    <2> QED
      BY <2>1, VssNextIInv
  <1> QED
    BY <1>1, <1>2, <1>3, <1>4, <1>5 DEF Next, SetStep, Terminated

\* Each variable keeps to its values.
LEMMA TypeStep == VssIInv /\ OperationInv /\ TypeOK /\ [Next]_vars => TypeOK'
  <1> SUFFICES ASSUME VssIInv, OperationInv, TypeOK, [Next]_vars
               PROVE  TypeOK'
    OBVIOUS
  <1> VssTypeOK'
    BY VssStep DEF VssIInv
  <1> USE DEF TypeOK, Pbs!TypeOK, VssResults, MountTargets, Served,
          vshadowVars, vssVars, runVars, pbsOperationVars
  <1>1. CASE SetStep
    BY <1>1 DEF SetStep, VssTypeOK
  <1>2. CASE CancelledBeforeStart
    BY <1>2 DEF CancelledBeforeStart
  <1>3. CASE RunVssOperation
    BY <1>3 DEF RunVssOperation, VssTypeOK
  <1>4. CASE EnterOperation
    BY <1>4 DEF EnterOperation, BeginOperation
  <1>5. CASE CheckCancellation
    BY <1>5 DEF CheckCancellation, Leave, RunStep
  <1>6. CASE ClearMountTarget
    BY <1>6 DEF ClearMountTarget, Leave, RunStep
  <1>7. CASE PrepareDirtyMaps
    BY <1>7 DEF PrepareDirtyMaps, RunStep
  <1>8. CASE OpenSnapshotHandles
    BY <1>8 DEF OpenSnapshotHandles, RunStep
  <1>9. CASE StartDeviceFs
    BY <1>9 DEF StartDeviceFs, RunStep
  <1>10. CASE SnapshotBackupThrows
    BY <1>10 DEF SnapshotBackupThrows, Leave, RunStep
  <1>11. CASE WaitForDeviceFsThrows
    BY <1>11 DEF WaitForDeviceFsThrows, Leave, RunStep
  <1>12. CASE WaitForDeviceFsCancelled
    BY <1>12 DEF WaitForDeviceFsCancelled, Leave, RunStep
  <1>13. CASE DeviceFsReady
    BY <1>13 DEF DeviceFsReady, RunStep
  <1>14. CASE StartPbs
    BY <1>14 DEF StartPbs, Pbs!Start
  <1>15. CASE PbsThrows
    BY <1>15 DEF PbsThrows, Pbs!Fail, Pbs!Abandon
  <1>16. CASE PbsReturns
    BY <1>16 DEF PbsReturns, Pbs!Finish
  <1>17. CASE RequestStop
    BY <1>17 DEF RequestStop
  <1>18. CASE DeviceFsStopped
    BY <1>18 DEF DeviceFsStopped, RunStep
  <1>19. CASE StopTimesOut
    BY <1>19 DEF StopTimesOut, RunStep
  <1>20. CASE ReturnFromOperation
    BY <1>20 DEF ReturnFromOperation, EndOperation
  <1>21. CASE DeviceFsMounts
    BY <1>21 DEF DeviceFsMounts
  <1>22. CASE DeviceFsExits
    BY <1>22 DEF DeviceFsExits
  <1>23. CASE FishMounts
    BY <1>23 DEF FishMounts, Pbs!Mount
  <1>24. CASE FishUploads
    BY <1>24 DEF FishUploads, Pbs!Upload
  <1>25. CASE FishUnmounts
    BY <1>25 DEF FishUnmounts, Pbs!Unmount
  <1>26. CASE UNCHANGED vars
    BY <1>26 DEF vars
  <1>27. CASE EarlierMounts
    BY <1>27 DEF EarlierMounts
  <1>28. CASE EarlierExits
    BY <1>28 DEF EarlierExits
  <1> QED
    BY <1>1, <1>2, <1>3, <1>4, <1>5, <1>6, <1>7, <1>8, <1>9, <1>10, <1>11,
       <1>12, <1>13, <1>14, <1>15, <1>16, <1>17, <1>18, <1>19, <1>20, <1>21,
       <1>22, <1>23, <1>24, <1>25, <1>26, <1>27, <1>28 DEF Next,
       RunSnapshotBackup, RunPbsFish, Others, Terminated, SetStep

\* RunSnapshotBackup is entered and left in step with class Backup.
LEMMA OperationStep ==
    TypeOK /\ VssIInv /\ OperationInv /\ [Next]_vars => OperationInv'
  <1> SUFFICES ASSUME TypeOK, VssIInv, OperationInv, [Next]_vars
               PROVE  OperationInv'
    OBVIOUS
  <1> USE DEF TypeOK, OperationInv, CallbackResult, VssResults, vshadowVars,
          vssVars, runVars, pbsOperationVars
  <1>1. CASE SetStep
    BY <1>1, SetStepEffect DEF SetStep
  <1>2. CASE CancelledBeforeStart
    BY <1>2 DEF CancelledBeforeStart
  <1>3. CASE RunVssOperation
    BY <1>3 DEF RunVssOperation
  <1>4. CASE EnterOperation
    BY <1>4 DEF EnterOperation, BeginOperation
  <1>5. CASE CheckCancellation
    BY <1>5 DEF CheckCancellation, Leave, RunStep
  <1>6. CASE ClearMountTarget
    BY <1>6 DEF ClearMountTarget, Leave, RunStep
  <1>7. CASE PrepareDirtyMaps
    BY <1>7 DEF PrepareDirtyMaps, RunStep
  <1>8. CASE OpenSnapshotHandles
    BY <1>8 DEF OpenSnapshotHandles, RunStep
  <1>9. CASE StartDeviceFs
    BY <1>9 DEF StartDeviceFs, RunStep
  <1>10. CASE SnapshotBackupThrows
    BY <1>10 DEF SnapshotBackupThrows, Leave, RunStep
  <1>11. CASE WaitForDeviceFsThrows
    BY <1>11 DEF WaitForDeviceFsThrows, Leave, RunStep
  <1>12. CASE WaitForDeviceFsCancelled
    BY <1>12 DEF WaitForDeviceFsCancelled, Leave, RunStep
  <1>13. CASE DeviceFsReady
    BY <1>13 DEF DeviceFsReady, RunStep
  <1>14. CASE StartPbs
    BY <1>14 DEF StartPbs, Pbs!Start
  <1>15. CASE PbsThrows
    BY <1>15 DEF PbsThrows, Pbs!Fail, Pbs!Abandon
  <1>16. CASE PbsReturns
    BY <1>16 DEF PbsReturns, Pbs!Finish
  <1>17. CASE RequestStop
    BY <1>17 DEF RequestStop
  <1>18. CASE DeviceFsStopped
    BY <1>18 DEF DeviceFsStopped, RunStep
  <1>19. CASE StopTimesOut
    BY <1>19 DEF StopTimesOut, RunStep
  <1>20. CASE ReturnFromOperation
    BY <1>20 DEF ReturnFromOperation, EndOperation
  <1>21. CASE DeviceFsMounts
    BY <1>21 DEF DeviceFsMounts
  <1>22. CASE DeviceFsExits
    BY <1>22 DEF DeviceFsExits
  <1>23. CASE FishMounts
    BY <1>23 DEF FishMounts, Pbs!Mount
  <1>24. CASE FishUploads
    BY <1>24 DEF FishUploads, Pbs!Upload
  <1>25. CASE FishUnmounts
    BY <1>25 DEF FishUnmounts, Pbs!Unmount
  <1>26. CASE UNCHANGED vars
    BY <1>26 DEF vars
  <1>27. CASE EarlierMounts
    BY <1>27 DEF EarlierMounts
  <1>28. CASE EarlierExits
    BY <1>28 DEF EarlierExits
  <1> QED
    BY <1>1, <1>2, <1>3, <1>4, <1>5, <1>6, <1>7, <1>8, <1>9, <1>10, <1>11,
       <1>12, <1>13, <1>14, <1>15, <1>16, <1>17, <1>18, <1>19, <1>20, <1>21,
       <1>22, <1>23, <1>24, <1>25, <1>26, <1>27, <1>28 DEF Next,
       RunSnapshotBackup, RunPbsFish, Others, Terminated, SetStep

\* DeviceFs is started by one step and known to be stopped by another.
LEMMA DeviceFsStep ==
    TypeOK /\ OperationInv /\ DeviceFsInv /\ [Next]_vars => DeviceFsInv'
  <1> SUFFICES ASSUME TypeOK, OperationInv, DeviceFsInv, [Next]_vars
               PROVE  DeviceFsInv'
    OBVIOUS
  <1> USE DEF TypeOK, OperationInv, DeviceFsInv, Served, vshadowVars,
          vssVars, runVars, pbsOperationVars
  <1>1. CASE SetStep
    BY <1>1 DEF SetStep
  <1>2. CASE CancelledBeforeStart
    BY <1>2 DEF CancelledBeforeStart
  <1>3. CASE RunVssOperation
    BY <1>3 DEF RunVssOperation
  <1>4. CASE EnterOperation
    BY <1>4 DEF EnterOperation, BeginOperation
  <1>5. CASE CheckCancellation
    BY <1>5 DEF CheckCancellation, Leave, RunStep
  <1>6. CASE ClearMountTarget
    BY <1>6 DEF ClearMountTarget, Leave, RunStep
  <1>7. CASE PrepareDirtyMaps
    BY <1>7 DEF PrepareDirtyMaps, RunStep
  <1>8. CASE OpenSnapshotHandles
    BY <1>8 DEF OpenSnapshotHandles, RunStep
  <1>9. CASE StartDeviceFs
    BY <1>9 DEF StartDeviceFs, RunStep
  <1>10. CASE SnapshotBackupThrows
    BY <1>10 DEF SnapshotBackupThrows, Leave, RunStep
  <1>11. CASE WaitForDeviceFsThrows
    BY <1>11 DEF WaitForDeviceFsThrows, Leave, RunStep
  <1>12. CASE WaitForDeviceFsCancelled
    BY <1>12 DEF WaitForDeviceFsCancelled, Leave, RunStep
  <1>13. CASE DeviceFsReady
    BY <1>13 DEF DeviceFsReady, RunStep
  <1>14. CASE StartPbs
    BY <1>14 DEF StartPbs, Pbs!Start
  <1>15. CASE PbsThrows
    BY <1>15 DEF PbsThrows, Pbs!Fail, Pbs!Abandon
  <1>16. CASE PbsReturns
    BY <1>16 DEF PbsReturns, Pbs!Finish
  <1>17. CASE RequestStop
    BY <1>17 DEF RequestStop
  <1>18. CASE DeviceFsStopped
    BY <1>18 DEF DeviceFsStopped, RunStep
  <1>19. CASE StopTimesOut
    BY <1>19 DEF StopTimesOut, RunStep
  <1>20. CASE ReturnFromOperation
    BY <1>20 DEF ReturnFromOperation, EndOperation
  <1>21. CASE DeviceFsMounts
    BY <1>21 DEF DeviceFsMounts
  <1>22. CASE DeviceFsExits
    BY <1>22 DEF DeviceFsExits
  <1>23. CASE FishMounts
    BY <1>23 DEF FishMounts, Pbs!Mount
  <1>24. CASE FishUploads
    BY <1>24 DEF FishUploads, Pbs!Upload
  <1>25. CASE FishUnmounts
    BY <1>25 DEF FishUnmounts, Pbs!Unmount
  <1>26. CASE UNCHANGED vars
    BY <1>26 DEF vars
  <1>27. CASE EarlierMounts
    BY <1>27 DEF EarlierMounts
  <1>28. CASE EarlierExits
    BY <1>28 DEF EarlierExits
  <1> QED
    BY <1>1, <1>2, <1>3, <1>4, <1>5, <1>6, <1>7, <1>8, <1>9, <1>10, <1>11,
       <1>12, <1>13, <1>14, <1>15, <1>16, <1>17, <1>18, <1>19, <1>20, <1>21,
       <1>22, <1>23, <1>24, <1>25, <1>26, <1>27, <1>28 DEF Next,
       RunSnapshotBackup, RunPbsFish, Others, Terminated, SetStep

\* RunPbsFish keeps what it promises.
LEMMA UploadStep ==
    TypeOK /\ OperationInv /\ DeviceFsInv /\ UploadInv /\ [Next]_vars
        => UploadInv'
  <1> SUFFICES ASSUME TypeOK, OperationInv, DeviceFsInv, UploadInv,
                      [Next]_vars
               PROVE  UploadInv'
    OBVIOUS
  <1> USE DEF TypeOK, OperationInv, DeviceFsInv, UploadInv, Pbs!TypeOK,
          UploadReadsOwnImages, Served, vshadowVars, vssVars, runVars,
          pbsOperationVars
  <1>1. CASE SetStep
    BY <1>1 DEF SetStep
  <1>2. CASE CancelledBeforeStart
    BY <1>2 DEF CancelledBeforeStart
  <1>3. CASE RunVssOperation
    BY <1>3 DEF RunVssOperation
  <1>4. CASE EnterOperation
    BY <1>4 DEF EnterOperation, BeginOperation
  <1>5. CASE CheckCancellation
    BY <1>5 DEF CheckCancellation, Leave, RunStep
  <1>6. CASE ClearMountTarget
    BY <1>6 DEF ClearMountTarget, Leave, RunStep
  <1>7. CASE PrepareDirtyMaps
    BY <1>7 DEF PrepareDirtyMaps, RunStep
  <1>8. CASE OpenSnapshotHandles
    BY <1>8 DEF OpenSnapshotHandles, RunStep
  <1>9. CASE StartDeviceFs
    BY <1>9 DEF StartDeviceFs, RunStep
  <1>10. CASE SnapshotBackupThrows
    BY <1>10 DEF SnapshotBackupThrows, Leave, RunStep
  <1>11. CASE WaitForDeviceFsThrows
    BY <1>11 DEF WaitForDeviceFsThrows, Leave, RunStep
  <1>12. CASE WaitForDeviceFsCancelled
    BY <1>12 DEF WaitForDeviceFsCancelled, Leave, RunStep
  <1>13. CASE DeviceFsReady
    BY <1>13 DEF DeviceFsReady, RunStep
  <1>14. CASE StartPbs
    BY <1>14 DEF StartPbs, Pbs!Start
  <1>15. CASE PbsThrows
    BY <1>15 DEF PbsThrows, Pbs!Fail, Pbs!Abandon
  <1>16. CASE PbsReturns
    BY <1>16 DEF PbsReturns, Pbs!Finish
  <1>17. CASE RequestStop
    BY <1>17 DEF RequestStop
  <1>18. CASE DeviceFsStopped
    BY <1>18 DEF DeviceFsStopped, RunStep
  <1>19. CASE StopTimesOut
    BY <1>19 DEF StopTimesOut, RunStep
  <1>20. CASE ReturnFromOperation
    BY <1>20 DEF ReturnFromOperation, EndOperation
  <1>21. CASE DeviceFsMounts
    BY <1>21 DEF DeviceFsMounts
  <1>22. CASE DeviceFsExits
    BY <1>22 DEF DeviceFsExits
  <1>23. CASE FishMounts
    BY <1>23 DEF FishMounts, Pbs!Mount
  <1>24. CASE FishUploads
    BY <1>24 DEF FishUploads, Pbs!Upload
  <1>25. CASE FishUnmounts
    BY <1>25 DEF FishUnmounts, Pbs!Unmount
  <1>26. CASE UNCHANGED vars
    BY <1>26 DEF vars
  <1>27. CASE EarlierMounts
    BY <1>27 DEF EarlierMounts
  <1>28. CASE EarlierExits
    BY <1>28 DEF EarlierExits
  <1> QED
    BY <1>1, <1>2, <1>3, <1>4, <1>5, <1>6, <1>7, <1>8, <1>9, <1>10, <1>11,
       <1>12, <1>13, <1>14, <1>15, <1>16, <1>17, <1>18, <1>19, <1>20, <1>21,
       <1>22, <1>23, <1>24, <1>25, <1>26, <1>27, <1>28 DEF Next,
       RunSnapshotBackup, RunPbsFish, Others, Terminated, SetStep

\* Results are handed on unchanged.
LEMMA ReturnStep ==
    TypeOK /\ VssIInv /\ OperationInv /\ UploadInv /\ ReturnInv /\ [Next]_vars
        => ReturnInv'
  <1> SUFFICES ASSUME TypeOK, VssIInv, OperationInv, UploadInv, ReturnInv,
                      [Next]_vars
               PROVE  ReturnInv'
    OBVIOUS
  <1> USE DEF TypeOK, VssTypeOK, VssIInv, SetInv, OperationInv, UploadInv,
          ReturnInv, vshadowVars, vssVars, runVars, pbsOperationVars
  <1>1. CASE SetStep
    BY <1>1, SetStepEffect DEF SetStep
  <1>2. CASE CancelledBeforeStart
    BY <1>2 DEF CancelledBeforeStart
  <1>3. CASE RunVssOperation
    BY <1>3 DEF RunVssOperation
  <1>4. CASE EnterOperation
    BY <1>4 DEF EnterOperation, BeginOperation
  <1>5. CASE CheckCancellation
    BY <1>5 DEF CheckCancellation, Leave, RunStep
  <1>6. CASE ClearMountTarget
    BY <1>6 DEF ClearMountTarget, Leave, RunStep
  <1>7. CASE PrepareDirtyMaps
    BY <1>7 DEF PrepareDirtyMaps, RunStep
  <1>8. CASE OpenSnapshotHandles
    BY <1>8 DEF OpenSnapshotHandles, RunStep
  <1>9. CASE StartDeviceFs
    BY <1>9 DEF StartDeviceFs, RunStep
  <1>10. CASE SnapshotBackupThrows
    BY <1>10 DEF SnapshotBackupThrows, Leave, RunStep
  <1>11. CASE WaitForDeviceFsThrows
    BY <1>11 DEF WaitForDeviceFsThrows, Leave, RunStep
  <1>12. CASE WaitForDeviceFsCancelled
    BY <1>12 DEF WaitForDeviceFsCancelled, Leave, RunStep
  <1>13. CASE DeviceFsReady
    BY <1>13 DEF DeviceFsReady, RunStep
  <1>14. CASE StartPbs
    BY <1>14 DEF StartPbs, Pbs!Start
  <1>15. CASE PbsThrows
    BY <1>15 DEF PbsThrows, Pbs!Fail, Pbs!Abandon
  <1>16. CASE PbsReturns
    BY <1>16 DEF PbsReturns, Pbs!Finish
  <1>17. CASE RequestStop
    BY <1>17 DEF RequestStop
  <1>18. CASE DeviceFsStopped
    BY <1>18 DEF DeviceFsStopped, RunStep
  <1>19. CASE StopTimesOut
    BY <1>19 DEF StopTimesOut, RunStep
  <1>20. CASE ReturnFromOperation
    BY <1>20 DEF ReturnFromOperation, EndOperation
  <1>21. CASE DeviceFsMounts
    BY <1>21 DEF DeviceFsMounts
  <1>22. CASE DeviceFsExits
    BY <1>22 DEF DeviceFsExits
  <1>23. CASE FishMounts
    BY <1>23 DEF FishMounts, Pbs!Mount
  <1>24. CASE FishUploads
    BY <1>24 DEF FishUploads, Pbs!Upload
  <1>25. CASE FishUnmounts
    BY <1>25 DEF FishUnmounts, Pbs!Unmount
  <1>26. CASE UNCHANGED vars
    BY <1>26 DEF vars
  <1>27. CASE EarlierMounts
    BY <1>27 DEF EarlierMounts
  <1>28. CASE EarlierExits
    BY <1>28 DEF EarlierExits
  <1> QED
    BY <1>1, <1>2, <1>3, <1>4, <1>5, <1>6, <1>7, <1>8, <1>9, <1>10, <1>11,
       <1>12, <1>13, <1>14, <1>15, <1>16, <1>17, <1>18, <1>19, <1>20, <1>21,
       <1>22, <1>23, <1>24, <1>25, <1>26, <1>27, <1>28 DEF Next,
       RunSnapshotBackup, RunPbsFish, Others, Terminated, SetStep

\* IInv is an invariant of a backup.
LEMMA IInvInvariant == Spec => []IInv
  <1>1. IInv /\ [Next]_vars => IInv'
    BY TypeStep, VssStep, OperationStep, DeviceFsStep, UploadStep, ReturnStep
       DEF IInv
  <1> QED
    BY InitIInv, <1>1, PTL DEF Spec

-----------------------------------------------------------------------------
(* The properties of a backup.                                             *)

\* Every variable of a backup keeps to its values.
THEOREM TypeCorrect == Spec => []TypeOK
  <1>1. IInv => TypeOK
    BY DEF IInv
  <1> QED
    BY <1>1, IInvInvariant, PTL

\* Also with RunSnapshotBackup as the operation, and with a cancellation
\* before it, the set outlives the backup exactly when the result is 0.
THEOREM BackupRetainsOnlyOnSuccess == Spec => []RetainedOnlyOnSuccess
  <1>1. IInv => RetainedOnlyOnSuccess
    BY DEF IInv, VssIInv, VssTypeOK, SetInv, PendingInv, CompletionInv,
       DestroyedInv, RetainedOnlyOnSuccess
  <1> QED
    BY <1>1, IInvInvariant, PTL

\* The writers are told the outcome of the upload.
THEOREM WritersHearOfTheBackup == Spec => []WritersHearTheOutcome
  <1>1. IInv => WritersHearTheOutcome
    BY DEF IInv, VssIInv
  <1> QED
    BY <1>1, IInvInvariant, PTL

\* 0 means an uploaded backup, unmounted images and a retained snapshot set,
\* and kCancelledExitCode a requested cancellation before the upload began,
\* whatever fails on the way.
THEOREM ExitCodesAreTruthful == Spec => []ExitCodeIsTruthful
  <1>1. IInv => ExitCodeIsTruthful
    BY DEF IInv, TypeOK, VssIInv, VssTypeOK, SetInv, CompletionInv,
       OperationInv, CallbackResult, UploadInv, ReturnInv,
       ExitCodeIsTruthful
  <1> QED
    BY <1>1, IInvInvariant, PTL

\* The upload, DeviceFs and the snapshots end in this order on every path, or
\* after kShutdownTimeout.
THEOREM LifetimesAreNested == Spec => []LifetimesNest
  <1>1. IInv => LifetimesNest
    BY DEF IInv, TypeOK, VssIInv, VssTypeOK, SetInv, OperationInv,
       DeviceFsInv, UploadInv, LifetimesNest
  <1> QED
    BY <1>1, IInvInvariant, PTL

\* No upload is completed from the images of a DeviceFs that served the mount
\* path when this backup looked at it, whatever earlier backups left.
THEOREM EarlierImagesAreNotUploaded == Spec => []UploadReadsOwnImages
  <1>1. IInv => UploadReadsOwnImages
    BY DEF IInv, UploadInv
  <1> QED
    BY <1>1, IInvInvariant, PTL

-----------------------------------------------------------------------------
(* The upload seen through PbsOperation.                                   *)

\* RunSnapshotBackup, DeviceFs and the Fish program together behave towards the
\* upload as PbsOperation allows, whose steps BackupFish implements.
THEOREM BackupRunRefinesPbsOperation == Spec => Pbs!Spec
  <1>1. Init => Pbs!Init
    BY DEF Init
  <1>2. [Next]_vars => [Pbs!Next]_Pbs!vars
    <2> SUFFICES ASSUME [Next]_vars PROVE [Pbs!Next]_Pbs!vars
      OBVIOUS
    <2> USE DEF Pbs!vars, pbsOperationVars, vshadowVars, vssVars, runVars
    <2>1. CASE VssRequestCancellation /\ UNCHANGED pbsOperationVars
      BY <2>1 DEF VssRequestCancellation, Pbs!RequestCancellation, Pbs!Next
    <2>2. CASE /\ \/ CreateSnapshotSet \/ CreateSnapshotSetFails
                  \/ DestroyBackup \/ Service
               /\ UNCHANGED pbsOperationVars
      BY <2>2 DEF CreateSnapshotSet, CreateSnapshotSetFails, DestroyBackup,
         Service, BeginRun, GatherWriterMetadata, StartSnapshotSet,
         AddToSnapshotSet, PrepareForBackup, DoSnapshotSet, CancelAsync,
         AsyncFinished, AsyncNotFinished, Throws, CheckSelectedWriterStatus,
         WaitThrowsCancelled, InitializeThrows, VssCallThrows, WaitThrows,
         CompleteBackup, CompleteBackupThrows, DeleteSnapshotSet,
         DeleteSnapshotSetFails, ServiceCreates, ServiceFails
    <2>3. CASE \/ CancelledBeforeStart \/ RunVssOperation
               \/ EnterOperation \/ CheckCancellation
               \/ ClearMountTarget \/ PrepareDirtyMaps
               \/ OpenSnapshotHandles \/ StartDeviceFs
               \/ SnapshotBackupThrows \/ WaitForDeviceFsThrows
               \/ WaitForDeviceFsCancelled \/ DeviceFsReady
               \/ RequestStop \/ DeviceFsStopped \/ StopTimesOut
               \/ ReturnFromOperation \/ DeviceFsMounts
               \/ DeviceFsExits \/ EarlierMounts \/ EarlierExits
      BY <2>3 DEF CancelledBeforeStart, RunVssOperation, EnterOperation,
         BeginOperation, CheckCancellation, Leave, RunStep, ClearMountTarget,
         PrepareDirtyMaps, OpenSnapshotHandles, StartDeviceFs,
         SnapshotBackupThrows, WaitForDeviceFsThrows,
         WaitForDeviceFsCancelled, DeviceFsReady, RequestStop,
         DeviceFsStopped, StopTimesOut, ReturnFromOperation, EndOperation,
         DeviceFsMounts, DeviceFsExits, EarlierMounts, EarlierExits
    <2>4. CASE StartPbs
      BY <2>4 DEF StartPbs, Pbs!Next
    <2>5. CASE PbsThrows
      BY <2>5 DEF PbsThrows, Pbs!Next
    <2>6. CASE PbsReturns
      BY <2>6 DEF PbsReturns, Pbs!Next
    <2>7. CASE FishMounts
      BY <2>7 DEF FishMounts, Pbs!Next
    <2>8. CASE FishUploads
      BY <2>8 DEF FishUploads, Pbs!Next
    <2>9. CASE FishUnmounts
      BY <2>9 DEF FishUnmounts, Pbs!Next
    <2>10. CASE UNCHANGED vars
      BY <2>10 DEF vars
    <2> QED
      BY <2>1, <2>2, <2>3, <2>4, <2>5, <2>6, <2>7, <2>8, <2>9, <2>10 DEF Next,
         RunSnapshotBackup, RunPbsFish, Others, Terminated
  <1> QED
    BY <1>1, <1>2, PTL DEF Spec, Pbs!Spec

=============================================================================
