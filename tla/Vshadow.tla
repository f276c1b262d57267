------------------------------ MODULE Vshadow -------------------------------
(***************************************************************************)
(* The life of one VSS snapshot set: class Backup of vshadow.ixx over      *)
(* VssClient of dependencies/vshadow.  CreateSnapshotSet asks the VSS      *)
(* service for the set, an operation runs while the set exists, and the    *)
(* destructor tells the writers, and deletes the set unless the operation  *)
(* returned 0.  Every call into VSS can fail, and the cancellation event   *)
(* may be signaled at any time, also while the service is creating the set.*)
(*                                                                         *)
(* The operation is a parameter of the code.  This module says when it     *)
(* starts (BeginOperation) and what it may give back (EndOperation); the   *)
(* specification below lets it return anything, and BackupRun puts         *)
(* RunSnapshotBackup in its place.                                         *)
(***************************************************************************)
CONSTANTS
    UseWriters  \* TRUE for VSS_CTX_APP_ROLLBACK, FALSE for --no-writers

VARIABLES
    cancellation_event,     \* "reset" or "signaled"
    vss,                    \* where Backup is
    completion_,            \* "None", "Failure" or "Success"
    snapshot_set,           \* what the VSS service has of the set
    async,                  \* the service's DoSnapshotSet
    cancel_called,          \* "no" or "yes": IVssAsync::Cancel was called
    m_bSnapshotSetCreated,  \* "no" or "yes"
    writers,                \* what the VSS writers know of this backup
    vss_fault,              \* the VSS call that left something behind, if any
    vss_result              \* what vshadow::Run gives back; "none" before

vssVars == <<vss, completion_, snapshot_set, async, cancel_called,
             m_bSnapshotSetCreated, writers, vss_fault, vss_result>>
vshadowVars == <<cancellation_event, vssVars>>

ASSUME WritersAssumption == UseWriters \in BOOLEAN

\* Exit codes, 130 being "cancelled", and exceptions, of which the one for
\* ERROR_CANCELLED is "cancelled" too: RunVssOperation makes 130 of it.
VssResults == {"zero", "nonzero", "cancelled", "threw"}

VssTypeOK ==
    /\ cancellation_event \in {"reset", "signaled"}
    /\ vss \in {"idle", "gather", "start", "add", "prepare", "do", "wait",
                "check", "query", "operation", "complete", "delete", "done"}
    /\ completion_ \in {"None", "Failure", "Success"}
    /\ snapshot_set \in {"none", "started", "created", "deleted", "aborted"}
    /\ async \in {"none", "pending", "finished", "failed", "cancelled"}
    /\ cancel_called \in {"no", "yes"}
    /\ m_bSnapshotSetCreated \in {"no", "yes"}
    /\ writers \in {"idle", "prepared", "succeeded", "failed"}
    /\ vss_fault \in {"none", "wait", "abort", "delete"}
    /\ vss_result \in VssResults \cup {"none"}

VssInit ==
    /\ cancellation_event = "reset"
    /\ vss = "idle"
    /\ completion_ = "None"
    /\ snapshot_set = "none"
    /\ async = "none"
    /\ cancel_called = "no"
    /\ m_bSnapshotSetCreated = "no"
    /\ writers = "idle"
    /\ vss_fault = "none"
    /\ vss_result = "none"

-----------------------------------------------------------------------------

VssRequestCancellation ==
    /\ cancellation_event = "reset"
    /\ cancellation_event' = "signaled"
    /\ UNCHANGED vssVars

\* The Backup object is built and Run sets completion_.
BeginRun ==
    /\ vss = "idle"
    /\ vss' = IF UseWriters THEN "gather" ELSE "start"
    /\ completion_' = "Failure"
    /\ UNCHANGED <<cancellation_event, snapshot_set, async, cancel_called,
                   m_bSnapshotSetCreated, writers, vss_fault, vss_result>>

\* A volume cannot be resolved or VssClient::Initialize fails: there is no
\* Backup object, hence no destructor.
InitializeThrows ==
    /\ vss = "idle"
    /\ vss' = "done"
    /\ vss_result' = "threw"
    /\ UNCHANGED <<cancellation_event, completion_, snapshot_set, async,
                   cancel_called, m_bSnapshotSetCreated, writers, vss_fault>>

\* An HRESULT leaves Run; the destructor is next.
Throws(from, exception) ==
    /\ vss = from
    /\ vss' = "complete"
    /\ vss_result' = exception
    /\ UNCHANGED <<cancellation_event, completion_, snapshot_set, async,
                   cancel_called, m_bSnapshotSetCreated, writers, vss_fault>>

\* WaitAndCheckForAsyncOperation without deferral, for the operations that
\* create nothing: a signaled event turns also a finished one into a throw.
WaitThrowsCancelled(from) ==
    /\ cancellation_event = "signaled"
    /\ Throws(from, "cancelled")

GatherWriterMetadata ==
    /\ vss = "gather"
    /\ vss' = "start"
    /\ UNCHANGED <<cancellation_event, completion_, snapshot_set, async,
                   cancel_called, m_bSnapshotSetCreated, writers, vss_fault,
                   vss_result>>

StartSnapshotSet ==
    /\ vss = "start"
    /\ vss' = "add"
    /\ snapshot_set' = "started"
    /\ UNCHANGED <<cancellation_event, completion_, async, cancel_called,
                   m_bSnapshotSetCreated, writers, vss_fault, vss_result>>

AddToSnapshotSet ==
    /\ vss = "add"
    /\ vss' = IF UseWriters THEN "prepare" ELSE "do"
    /\ UNCHANGED <<cancellation_event, completion_, snapshot_set, async,
                   cancel_called, m_bSnapshotSetCreated, writers, vss_fault,
                   vss_result>>

PrepareForBackup ==
    /\ vss = "prepare"
    /\ vss' = "do"
    /\ writers' = "prepared"
    /\ UNCHANGED <<cancellation_event, completion_, snapshot_set, async,
                   cancel_called, m_bSnapshotSetCreated, vss_fault, vss_result>>

DoSnapshotSet ==
    /\ vss = "do"
    /\ vss' = "wait"
    /\ async' = "pending"
    /\ UNCHANGED <<cancellation_event, completion_, snapshot_set,
                   cancel_called, m_bSnapshotSetCreated, writers, vss_fault,
                   vss_result>>

\* The loop of WaitAndCheckForAsyncOperation finds the event signaled.
CancelAsync ==
    /\ vss = "wait"
    /\ cancellation_event = "signaled"
    /\ cancel_called = "no"
    /\ cancel_called' = "yes"
    /\ UNCHANGED <<cancellation_event, vss, completion_, snapshot_set, async,
                   m_bSnapshotSetCreated, writers, vss_fault, vss_result>>

\* Mutant: the cancelled wait throws before the set is recorded as created.
AsyncFinishedUnrecorded ==
    /\ vss = "wait"
    /\ async = "finished"
    /\ IF cancel_called = "yes" \/ cancellation_event = "signaled"
       THEN /\ vss' = "complete"
            /\ vss_result' = "cancelled"
            /\ UNCHANGED m_bSnapshotSetCreated
       ELSE /\ vss' = "check"
            /\ m_bSnapshotSetCreated' = "yes"
            /\ UNCHANGED vss_result
    /\ UNCHANGED <<cancellation_event, completion_, snapshot_set, async,
                   cancel_called, writers, vss_fault>>

\* The service created the set, with or without a Cancel on its way; the set
\* is the client's to delete even when the wait was cancelled.
AsyncFinished ==
    /\ vss = "wait"
    /\ async = "finished"
    /\ m_bSnapshotSetCreated' = "yes"
    /\ IF cancel_called = "yes" \/ cancellation_event = "signaled"
       THEN vss' = "complete" /\ vss_result' = "cancelled"
       ELSE vss' = "check" /\ UNCHANGED vss_result
    /\ UNCHANGED <<cancellation_event, completion_, snapshot_set, async,
                   cancel_called, writers, vss_fault>>

AsyncNotFinished ==
    \/ async = "failed" /\ Throws("wait", "threw")
    \/ async = "cancelled" /\ Throws("wait", "cancelled")

CheckSelectedWriterStatus ==
    /\ vss = "check"
    /\ vss' = "query"
    /\ UNCHANGED <<cancellation_event, completion_, snapshot_set, async,
                   cancel_called, m_bSnapshotSetCreated, writers, vss_fault,
                   vss_result>>

\* QuerySnapshotSet returned one snapshot per volume, and the operation starts.
BeginOperation ==
    /\ vss = "query"
    /\ vss' = "operation"
    /\ UNCHANGED <<cancellation_event, completion_, snapshot_set, async,
                   cancel_called, m_bSnapshotSetCreated, writers, vss_fault,
                   vss_result>>

\* Mutant: any result that is not an exception counts as success.
EndOperationAnyCode(result) ==
    /\ vss = "operation"
    /\ vss' = "complete"
    /\ vss_result' = result
    /\ completion_' = IF result = "threw" THEN completion_ ELSE "Success"
    /\ UNCHANGED <<cancellation_event, snapshot_set, async, cancel_called,
                   m_bSnapshotSetCreated, writers, vss_fault>>

\* The operation returns, and 0 makes the backup a success; or it throws.
EndOperation(result) ==
    /\ vss = "operation"
    /\ vss' = "complete"
    /\ vss_result' = result
    /\ completion_' = IF result = "zero" THEN "Success" ELSE completion_
    /\ UNCHANGED <<cancellation_event, snapshot_set, async, cancel_called,
                   m_bSnapshotSetCreated, writers, vss_fault>>

\* A call into VSS fails in any step but the operation itself, or the number
\* of snapshots is not the number of volumes.
VssCallThrows ==
    \E from \in {"gather", "start", "add", "prepare", "do", "check", "query"} :
        Throws(from, "threw")

\* QueryStatus, Cancel or the wait for the event fails.  The service goes on
\* creating the set, or has done so, and m_bSnapshotSetCreated stays false.
WaitThrows ==
    /\ vss = "wait"
    /\ vss' = "complete"
    /\ vss_result' = "threw"
    /\ vss_fault' = "wait"
    /\ UNCHANGED <<cancellation_event, completion_, snapshot_set, async,
                   cancel_called, m_bSnapshotSetCreated, writers>>

CreateSnapshotSet ==
    \/ BeginRun \/ GatherWriterMetadata \/ StartSnapshotSet
    \/ AddToSnapshotSet \/ PrepareForBackup \/ DoSnapshotSet
    \/ CancelAsync \/ AsyncFinished \/ AsyncNotFinished
    \/ CheckSelectedWriterStatus
    \/ WaitThrowsCancelled("gather") \/ WaitThrowsCancelled("prepare")

CreateSnapshotSetFails == InitializeThrows \/ VssCallThrows \/ WaitThrows

-----------------------------------------------------------------------------
(* The destructor.  Exceptions are swallowed; the set is deleted on leaving *)
(* its body, unless the backup is a success.                               *)

\* The writers are told the outcome, or a set not known to be created is
\* aborted: a service still creating it stops, one that is done ignores it.
CompleteBackup ==
    /\ vss = "complete"
    /\ vss' = "delete"
    /\ LET tell == UseWriters /\ (completion_ = "Success"
                                  \/ m_bSnapshotSetCreated = "yes")
           abort == /\ completion_ = "Failure"
                    /\ m_bSnapshotSetCreated = "no"
                    /\ snapshot_set # "none"
       IN  /\ writers' = CASE tell /\ completion_ = "Success" -> "succeeded"
                           [] tell /\ completion_ # "Success" -> "failed"
                           [] OTHER -> writers
           /\ snapshot_set' = IF abort /\ async # "finished"
                              THEN "aborted" ELSE snapshot_set
           /\ async' = IF abort /\ async = "pending" THEN "cancelled" ELSE async
    /\ UNCHANGED <<cancellation_event, completion_, cancel_called,
                   m_bSnapshotSetCreated, vss_fault, vss_result>>

\* BackupComplete or AbortBackup throws, or no writer has a component to tell.
CompleteBackupThrows ==
    /\ vss = "complete"
    /\ \/ UseWriters /\ m_bSnapshotSetCreated = "yes"
       \/ m_bSnapshotSetCreated = "no" /\ snapshot_set # "none"
    /\ vss' = "delete"
    /\ vss_fault' = IF m_bSnapshotSetCreated = "no" THEN "abort" ELSE vss_fault
    /\ UNCHANGED <<cancellation_event, completion_, snapshot_set, async,
                   cancel_called, m_bSnapshotSetCreated, writers, vss_result>>

\* TryDeleteCreatedSnapshotSet
DeleteSnapshotSet ==
    /\ vss = "delete"
    /\ vss' = "done"
    /\ snapshot_set' = IF completion_ # "Success"
                          /\ m_bSnapshotSetCreated = "yes"
                       THEN "deleted" ELSE snapshot_set
    /\ UNCHANGED <<cancellation_event, completion_, async, cancel_called,
                   m_bSnapshotSetCreated, writers, vss_fault, vss_result>>

DeleteSnapshotSetFails ==
    /\ vss = "delete"
    /\ completion_ # "Success"
    /\ m_bSnapshotSetCreated = "yes"
    /\ vss' = "done"
    /\ vss_fault' = "delete"
    /\ UNCHANGED <<cancellation_event, completion_, snapshot_set, async,
                   cancel_called, m_bSnapshotSetCreated, writers, vss_result>>

DestroyBackup ==
    \/ CompleteBackup \/ CompleteBackupThrows
    \/ DeleteSnapshotSet \/ DeleteSnapshotSetFails

-----------------------------------------------------------------------------
(* The VSS service (external): a pending DoSnapshotSet ends by itself, also *)
(* when its requester has stopped waiting for it.                          *)

ServiceCreates ==
    /\ async = "pending"
    /\ async' = "finished"
    /\ snapshot_set' = "created"
    /\ UNCHANGED <<cancellation_event, vss, completion_, cancel_called,
                   m_bSnapshotSetCreated, writers, vss_fault, vss_result>>

ServiceFails ==
    /\ async = "pending"
    /\ \/ async' = "failed"
       \/ async' = "cancelled" /\ cancel_called = "yes"
    /\ UNCHANGED <<cancellation_event, vss, completion_, snapshot_set,
                   cancel_called, m_bSnapshotSetCreated, writers, vss_fault,
                   vss_result>>

Service == ServiceCreates \/ ServiceFails

-----------------------------------------------------------------------------
(* The specification of vshadow::Run for an operation of any result.       *)

VssTerminated ==
    /\ vss = "done"
    /\ async # "pending"
    /\ UNCHANGED vshadowVars

VssNext ==
    \/ VssRequestCancellation
    \/ CreateSnapshotSet
    \/ CreateSnapshotSetFails
    \/ BeginOperation
    \/ \E result \in VssResults : EndOperation(result)
    \/ DestroyBackup
    \/ Service
    \/ VssTerminated

VssSpec == VssInit /\ [][VssNext]_vshadowVars

\* The supervisor's thread runs and the service answers; an operation ends.
\* No failure is taken for granted.
VssFairness ==
    /\ WF_vshadowVars(CreateSnapshotSet \/ BeginOperation)
    /\ WF_vshadowVars(\E result \in VssResults : EndOperation(result))
    /\ WF_vshadowVars(DestroyBackup)
    /\ WF_vshadowVars(Service)

VssFairSpec == VssSpec /\ VssFairness

-----------------------------------------------------------------------------
(* Properties.                                                             *)

\* The set outlives the run exactly when the operation returned 0: on every
\* other path, a cancellation that arrived while the service was creating the
\* set included, the destructor has deleted the set or aborted its creation.
\* The exception is a VSS call that failed in the wait for the service, in the
\* abort or in the deletion.
RetainedOnlyOnSuccess ==
    (vss = "done" /\ vss_fault = "none") =>
        /\ snapshot_set = "created" <=> vss_result = "zero"
        /\ async # "pending"

\* The writers hear of a success (BackupComplete(true) lets them truncate
\* their logs) only when the operation returned 0, and of a failure only when
\* it did not.
WritersHearTheOutcome ==
    /\ writers = "succeeded" => vss_result = "zero"
    /\ writers = "failed" => vss_result # "zero"

\* Cancellation is never lost: a run whose set was finished under a cancelled
\* wait does not start the operation.
CancelledWaitSkipsOperation ==
    [][vss = "wait" /\ cancellation_event = "signaled" =>
          vss' \in {"wait", "complete"}]_vshadowVars

\* Every run ends, whatever fails, and VSS is left with nothing pending.
RunEnds == vss = "gather" ~> vss = "done"

=============================================================================
