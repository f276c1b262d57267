---------------------------- MODULE BackupService ----------------------------
(***************************************************************************)
(* The Windows service of windows_service.ixx: the thread in ServiceMain   *)
(* starts the orchestrator suspended in a job object, reports RUNNING,     *)
(* waits for the orchestrator or for the cancellation event, and brings the*)
(* job to an end, by force if need be.  The service control manager calls  *)
(* ServiceControlHandler on another thread while RUNNING is the last state *)
(* it was told of; the handler may still be about to run when the state has*)
(* changed.  The orchestrator and the processes it leaves in the job end   *)
(* when they like, or never.                                               *)
(*                                                                         *)
(* Waiting is counted in abstract units: a wait returns after at most its  *)
(* timeout, and the kJobPollInterval granularity is left to the margin of  *)
(* kMinimumPreshutdownTimeout.                                             *)
(***************************************************************************)
EXTENDS Naturals

CONSTANTS
    GracefulStopTimeout,       \* kGracefulStopTimeout
    StrayProcessTimeout,       \* kStrayProcessTimeout
    ForcedTerminationTimeout,  \* kForcedTerminationTimeout
    MaxStrays                  \* bound on the other processes in the job

ASSUME TimeoutsAssumption ==
    /\ GracefulStopTimeout \in Nat
    /\ StrayProcessTimeout \in Nat
    /\ ForcedTerminationTimeout \in Nat
    /\ MaxStrays \in Nat

VARIABLES
    service,             \* where the service thread is
    state,               \* dwCurrentState, as last reported
    control,             \* a control the manager has accepted: its handler
    cancellation_event,  \* "none" before it exists, "reset" or "signaled"
    orchestrator,        \* the process: "none", "suspended", "running", "exited"
    exit_code,           \* its exit code; "none" while it lives
    strays,              \* the number of other live processes in the job
    terminated,          \* the job: "yes" after TerminateJobObject, "closed"
                         \* once only its last handle was closed
    cancellation_signaled, forced,  \* locals of RunBackup
    cleanup_return,      \* where force_cleanup returns to
    waited,              \* time spent waiting since STOP_PENDING
    outcome              \* ServiceOutcome; "none" before

threadVars == <<cancellation_signaled, forced, cleanup_return, waited>>
jobVars == <<orchestrator, exit_code, strays, terminated>>
vars == <<service, state, control, cancellation_event, jobVars, threadVars,
          outcome>>

\* What the handlers of RunService make of an exception.
Errors == {"system_error", "internal_failure", "unhandled_exception"}

\* Mutant: the hint forgets the stray processes.
StopWaitHintWithoutStrays == GracefulStopTimeout + ForcedTerminationTimeout

StopWaitHint ==
    GracefulStopTimeout + StrayProcessTimeout + ForcedTerminationTimeout

TypeOK ==
    /\ service \in {"ServiceMain", "CreateEvent", "CreateProcess",
                    "ReportRunning", "Resume", "WaitAny", "Sample",
                    "WaitProcess", "ForceCleanup", "WaitTerminated",
                    "ExitCode", "WaitForAll", "Return", "Report", "done"}
    /\ state \in {"none", "START_PENDING", "RUNNING", "STOP_PENDING",
                  "STOPPED"}
    /\ control \in {"idle", "dispatched"}
    /\ cancellation_event \in {"none", "reset", "signaled"}
    /\ orchestrator \in {"none", "suspended", "running", "exited"}
    /\ exit_code \in {"none", "zero", "nonzero", "terminated"}
    /\ strays \in 0..MaxStrays
    /\ terminated \in {"no", "yes", "closed"}
    /\ cancellation_signaled \in {"no", "yes"}
    /\ forced \in {"no", "yes"}
    /\ cleanup_return \in {"ExitCode", "Return"}
    /\ waited \in Nat
    /\ outcome \in {"none", "success", "timeout", "specific"} \cup Errors

Init ==
    /\ service = "ServiceMain"
    /\ state = "none"
    /\ control = "idle"
    /\ cancellation_event = "none"
    /\ orchestrator = "none"
    /\ exit_code = "none"
    /\ strays = 0
    /\ terminated = "no"
    /\ cancellation_signaled = "no"
    /\ forced = "no"
    /\ cleanup_return = "ExitCode"
    /\ waited = 0
    /\ outcome = "none"

-----------------------------------------------------------------------------
(* The service control manager and the handler.                            *)

\* Mutant: controls are accepted as soon as the service is starting.
AcceptsControlsEarly == state \in {"START_PENDING", "RUNNING"}

\* dwControlsAccepted of the state reported last.
AcceptsControls == state = "RUNNING"

\* A stop or preshutdown control is sent, and the handler will be called.
SendControl ==
    /\ AcceptsControls
    /\ control = "idle"
    /\ control' = "dispatched"
    /\ UNCHANGED <<service, state, cancellation_event, jobVars, threadVars,
                   outcome>>

ServiceControlHandler ==
    /\ control = "dispatched"
    /\ control' = "idle"
    /\ cancellation_event' = "signaled"
    /\ UNCHANGED <<service, state, jobVars, threadVars, outcome>>

-----------------------------------------------------------------------------
(* The processes of the job.                                               *)

\* While it runs the orchestrator starts processes that belong to the job.
OrchestratorStartsProcess ==
    /\ orchestrator = "running" /\ terminated = "no"
    /\ strays < MaxStrays
    /\ strays' = strays + 1
    /\ UNCHANGED <<service, state, control, cancellation_event, orchestrator,
                   exit_code, terminated, threadVars, outcome>>

OrchestratorExits(code) ==
    /\ orchestrator = "running" /\ terminated = "no"
    /\ orchestrator' = "exited"
    /\ exit_code' = code
    /\ UNCHANGED <<service, state, control, cancellation_event, strays,
                   terminated, threadVars, outcome>>

StrayExits ==
    /\ strays > 0
    /\ strays' = strays - 1
    /\ UNCHANGED <<service, state, control, cancellation_event, orchestrator,
                   exit_code, terminated, threadVars, outcome>>

\* Termination of the job takes effect on the orchestrator, some time after
\* TerminateJobObject or the close of the job's last handle.
OrchestratorDies ==
    /\ orchestrator \in {"suspended", "running"} /\ terminated # "no"
    /\ orchestrator' = "exited"
    /\ exit_code' = "terminated"
    /\ UNCHANGED <<service, state, control, cancellation_event, strays,
                   terminated, threadVars, outcome>>

JobProcesses ==
    \/ OrchestratorStartsProcess
    \/ \E code \in {"zero", "nonzero"} : OrchestratorExits(code)
    \/ StrayExits
    \/ OrchestratorDies

\* ActiveProcesses of the job.
JobIsEmpty == orchestrator \in {"none", "exited"} /\ strays = 0

-----------------------------------------------------------------------------
(* The service thread.                                                     *)

\* The handler is registered and START_PENDING reported.
ServiceMain ==
    /\ service = "ServiceMain"
    /\ service' = "CreateEvent"
    /\ state' = "START_PENDING"
    /\ UNCHANGED <<control, cancellation_event, jobVars, threadVars, outcome>>

\* RegisterServiceCtrlHandlerEx fails: nothing can be reported.
ServiceMainReturns ==
    /\ service = "ServiceMain"
    /\ service' = "done"
    /\ UNCHANGED <<state, control, cancellation_event, jobVars, threadVars,
                   outcome>>

CreateCancellationEvent ==
    /\ service = "CreateEvent"
    /\ service' = "CreateProcess"
    /\ cancellation_event' = "reset"
    /\ UNCHANGED <<state, control, jobVars, threadVars, outcome>>

StartBackupProcess ==
    /\ service = "CreateProcess"
    /\ service' = "ReportRunning"
    /\ orchestrator' = "suspended"
    /\ UNCHANGED <<state, control, cancellation_event, exit_code, strays,
                   terminated, threadVars, outcome>>

ReportRunning ==
    /\ service = "ReportRunning"
    /\ service' = "Resume"
    /\ state' = "RUNNING"
    /\ UNCHANGED <<control, cancellation_event, jobVars, threadVars, outcome>>

ResumeOrchestrator ==
    /\ service = "Resume"
    /\ service' = "WaitAny"
    /\ orchestrator' = "running"
    /\ UNCHANGED <<state, control, cancellation_event, exit_code, strays,
                   terminated, threadVars, outcome>>

\* wait_any returns, and STOP_PENDING is reported.
WaitAny ==
    /\ service = "WaitAny"
    /\ orchestrator = "exited" \/ cancellation_event = "signaled"
    /\ service' = "Sample"
    /\ state' = "STOP_PENDING"
    /\ UNCHANGED <<control, cancellation_event, jobVars, threadVars, outcome>>

\* The event is looked at once, whichever of the two ended the wait.
SampleCancellation ==
    /\ service = "Sample"
    /\ cancellation_signaled' =
          IF cancellation_event = "signaled" THEN "yes" ELSE "no"
    /\ service' = IF cancellation_event = "signaled" THEN "WaitProcess"
                                                     ELSE "ExitCode"
    /\ UNCHANGED <<state, control, cancellation_event, jobVars, forced,
                   cleanup_return, waited, outcome>>

\* backup.Wait(kGracefulStopTimeout) ends with the orchestrator ...
WaitProcess ==
    /\ service = "WaitProcess"
    /\ orchestrator = "exited"
    /\ \E time \in 0..GracefulStopTimeout : waited' = waited + time
    /\ service' = "ExitCode"
    /\ UNCHANGED <<state, control, cancellation_event, jobVars,
                   cancellation_signaled, forced, cleanup_return, outcome>>

\* Mutant: the wait has no timeout.
WaitProcessForEver ==
    /\ service = "WaitProcess"
    /\ orchestrator # "exited"
    /\ UNCHANGED vars

\* ... or times out.
WaitProcessTimesOut ==
    /\ service = "WaitProcess"
    /\ orchestrator # "exited"
    /\ waited' = waited + GracefulStopTimeout
    /\ service' = "ForceCleanup"
    /\ cleanup_return' = "ExitCode"
    /\ UNCHANGED <<state, control, cancellation_event, jobVars,
                   cancellation_signaled, forced, outcome>>

ReadExitCode ==
    /\ service = "ExitCode"
    /\ service' = "WaitForAll"
    /\ UNCHANGED <<state, control, cancellation_event, jobVars, threadVars,
                   outcome>>

\* WaitForAll(kStrayProcessTimeout) finds the job empty ...
WaitForAll ==
    /\ service = "WaitForAll"
    /\ JobIsEmpty
    /\ \E time \in 0..(IF forced = "yes" THEN 0 ELSE StrayProcessTimeout) :
          waited' = waited + time
    /\ service' = "Return"
    /\ UNCHANGED <<state, control, cancellation_event, jobVars,
                   cancellation_signaled, forced, cleanup_return, outcome>>

\* ... or times out.
WaitForAllTimesOut ==
    /\ service = "WaitForAll"
    /\ ~JobIsEmpty
    /\ waited' = waited + StrayProcessTimeout
    /\ service' = "ForceCleanup"
    /\ cleanup_return' = "Return"
    /\ UNCHANGED <<state, control, cancellation_event, jobVars,
                   cancellation_signaled, forced, outcome>>

\* force_cleanup: STOP_PENDING is reported again and the job terminated.
ForceCleanup ==
    /\ service = "ForceCleanup"
    /\ service' = "WaitTerminated"
    /\ state' = "STOP_PENDING"
    /\ terminated' = "yes"
    /\ UNCHANGED <<control, cancellation_event, orchestrator, exit_code,
                   strays, threadVars, outcome>>

\* Mutant: force_cleanup leaves forced alone.
WaitTerminatedUnrecorded ==
    /\ service = "WaitTerminated"
    /\ JobIsEmpty
    /\ \E time \in 0..ForcedTerminationTimeout : waited' = waited + time
    /\ service' = cleanup_return
    /\ UNCHANGED <<state, control, cancellation_event, jobVars,
                   cancellation_signaled, forced, cleanup_return, outcome>>

\* TerminateAndWait finds the job empty and returns into RunBackup.
WaitTerminated ==
    /\ service = "WaitTerminated"
    /\ JobIsEmpty
    /\ \E time \in 0..ForcedTerminationTimeout : waited' = waited + time
    /\ forced' = "yes"
    /\ service' = cleanup_return
    /\ UNCHANGED <<state, control, cancellation_event, jobVars,
                   cancellation_signaled, cleanup_return, outcome>>

\* ServiceOutcome of RunBackup.
Outcome ==
    CASE forced = "yes" -> "timeout"
      [] forced = "no" /\ (cancellation_signaled = "yes"
                            \/ exit_code = "zero") -> "success"
      [] OTHER -> "specific"

\* Mutant: the job is not KILL_ON_JOB_CLOSE.
CloseJobOnly == terminated' = terminated

\* The BackupProcess is destroyed; its job has no other handle and is
\* KILL_ON_JOB_CLOSE.
CloseJob ==
    terminated' = IF orchestrator = "none" \/ terminated = "yes"
                  THEN terminated ELSE "closed"

RunBackupReturns ==
    /\ service = "Return"
    /\ service' = "Report"
    /\ outcome' = Outcome
    /\ CloseJob
    /\ UNCHANGED <<state, control, cancellation_event, orchestrator,
                   exit_code, strays, threadVars>>

\* report_stopping, the scope guard that is armed while RUNNING was reported
\* and STOP_PENDING was not.
ReportStopping == state' = IF service = "Resume" THEN "STOP_PENDING" ELSE state

\* A call of RunService or RunBackup fails: everything is unwound and the
\* handlers of RunService make an outcome of the exception.
RunServiceCatches ==
    /\ service \in {"CreateEvent", "CreateProcess", "ReportRunning", "Resume",
                    "ForceCleanup", "ExitCode"}
    /\ outcome' \in Errors
    /\ service' = "Report"
    /\ CloseJob
    /\ ReportStopping
    /\ UNCHANGED <<control, cancellation_event, orchestrator, exit_code,
                   strays, threadVars>>

\* QueryInformationJobObject fails in one of the polls of WaitForAll, which
\* RunBackup calls itself and TerminateAndWait calls for it.
QueryJobFails ==
    /\ service \in {"WaitForAll", "WaitTerminated"}
    /\ \E time \in 0..(IF service = "WaitForAll" THEN StrayProcessTimeout
                        ELSE ForcedTerminationTimeout) :
          waited' = waited + time
    /\ outcome' \in Errors
    /\ service' = "Report"
    /\ CloseJob
    /\ UNCHANGED <<state, control, cancellation_event, orchestrator,
                   exit_code, strays, cancellation_signaled, forced,
                   cleanup_return>>

\* "backup processes survived job termination".
WaitTerminatedTimesOut ==
    /\ service = "WaitTerminated"
    /\ ~JobIsEmpty
    /\ waited' = waited + ForcedTerminationTimeout
    /\ outcome' = "internal_failure"
    /\ service' = "Report"
    /\ CloseJob
    /\ UNCHANGED <<state, control, cancellation_event, orchestrator,
                   exit_code, strays, cancellation_signaled, forced,
                   cleanup_return>>

ReportStopped ==
    /\ service = "Report"
    /\ service' = "done"
    /\ state' = "STOPPED"
    /\ UNCHANGED <<control, cancellation_event, jobVars, threadVars, outcome>>

RunBackup ==
    \/ StartBackupProcess
    \/ ReportRunning
    \/ ResumeOrchestrator
    \/ WaitAny
    \/ SampleCancellation
    \/ WaitProcess \/ WaitProcessTimesOut
    \/ ReadExitCode
    \/ WaitForAll \/ WaitForAllTimesOut
    \/ ForceCleanup
    \/ WaitTerminated \/ WaitTerminatedTimesOut
    \/ RunBackupReturns

ServiceThread ==
    \/ ServiceMain \/ ServiceMainReturns
    \/ CreateCancellationEvent
    \/ RunBackup
    \/ RunServiceCatches \/ QueryJobFails
    \/ ReportStopped

Next ==
    \/ SendControl
    \/ ServiceControlHandler
    \/ JobProcesses
    \/ ServiceThread
    \/ service = "done" /\ UNCHANGED vars

Spec == Init /\ [][Next]_vars

\* Windows runs the service thread and calls the handler of a control it has
\* accepted.  Nothing is assumed of the orchestrator and its processes, not
\* even that they die when the job is terminated.
FairSpec ==
    /\ Spec
    /\ WF_vars(ServiceThread)
    /\ WF_vars(ServiceControlHandler)

-----------------------------------------------------------------------------
(* Properties.                                                             *)

\* ServiceControlHandler uses cancellation_event without a test: whenever a
\* control is on its way to it the event exists, as no control is accepted
\* before RUNNING is reported.
ControlFindsEvent == control = "dispatched" => cancellation_event # "none"

\* The service reports success only if every process of the job ended by
\* itself, the orchestrator with exit code 0 or after a stop request.  An
\* orchestrator that failed unasked, and a cleanup by force, be it of the
\* orchestrator or of what it left behind after an exit code of 0, is reported
\* as a failure.
SuccessIsEarned ==
    (state = "STOPPED" /\ outcome = "success") =>
        /\ JobIsEmpty /\ terminated # "yes"
        /\ \/ exit_code = "zero"
           \/ exit_code = "nonzero" /\ cancellation_event = "signaled"

\* When STOPPED is reported no process of the job goes on: the job is empty
\* or has been terminated, whichever call failed on the way.
JobEndsWithService == state = "STOPPED" => JobIsEmpty \/ terminated # "no"

\* kStopWaitHint, from which the preshutdown timeout is computed, covers all
\* waits between the stop request and STOPPED, along every path.
StopWithinHint == waited <= StopWaitHint

\* A service that was RUNNING reports STOP_PENDING before STOPPED, also when
\* the orchestrator cannot be resumed.
StoppedThroughStopPending ==
    [][state = "RUNNING" => state' \in {"RUNNING", "STOP_PENDING"}]_vars

\* An accepted stop request stops the service, even if the orchestrator hangs
\* and its processes cannot be killed.
StopRequestEnds == control = "dispatched" ~> state = "STOPPED"

=============================================================================
