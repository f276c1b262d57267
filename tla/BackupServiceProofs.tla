------------------------- MODULE BackupServiceProofs -------------------------
(***************************************************************************)
(* Proofs about BackupService, for all timeouts and any number of processes*)
(* in the job: the reports are in order, truthful and within the hint.     *)
(***************************************************************************)
EXTENDS BackupService, TLAPS

-----------------------------------------------------------------------------
(* The inductive invariant.                                                *)

\* The event exists from before RUNNING is reported.
EventInv ==
    /\ service \in {"ServiceMain", "CreateEvent"}
          => control = "idle" /\ cancellation_signaled = "no"
    /\ service \in {"CreateProcess", "ReportRunning", "Resume", "WaitAny",
                    "Sample", "WaitProcess", "ForceCleanup", "WaitTerminated",
                    "ExitCode", "WaitForAll", "Return"}
          => cancellation_event # "none"
    /\ ControlFindsEvent
    /\ cancellation_signaled = "yes" => cancellation_event = "signaled"

\* RUNNING is the reported state in two places only.
StateInv ==
    /\ state = "RUNNING" <=> service \in {"Resume", "WaitAny"}
    /\ state = "STOPPED" => service = "done"

\* The job and what has been done to it.
JobInv ==
    /\ service \in {"ServiceMain", "CreateEvent", "CreateProcess"}
          => orchestrator = "none"
    /\ service \in {"ReportRunning", "Resume"} => orchestrator = "suspended"
    /\ service = "Sample"
          => orchestrator = "exited" \/ cancellation_event = "signaled"
    /\ service \in {"WaitAny", "Sample", "WaitProcess", "ForceCleanup",
                    "WaitTerminated"} => orchestrator # "none"
    /\ orchestrator = "none" => strays = 0
    /\ orchestrator = "exited" <=> exit_code # "none"
    /\ exit_code = "terminated" => terminated # "no"
    /\ (service \notin {"WaitTerminated", "Report", "done"} /\ forced = "no")
          => terminated = "no"
    /\ service = "WaitTerminated" => terminated = "yes"
    /\ service \in {"ExitCode", "WaitForAll", "Return"}
          => orchestrator = "exited"
    /\ service = "Return" => JobIsEmpty
    /\ forced = "yes" => JobIsEmpty /\ terminated = "yes"
    /\ service \in {"Report", "done"} => JobIsEmpty \/ terminated # "no"

\* What has been waited for at each point of RunBackup.
TimeInv ==
    /\ forced = "yes"
          => service \in {"ExitCode", "WaitForAll", "Return", "Report", "done"}
    /\ service \in {"ServiceMain", "CreateEvent", "CreateProcess",
                    "ReportRunning", "Resume", "WaitAny", "Sample",
                    "WaitProcess"} => waited = 0
    /\ service \in {"ForceCleanup", "WaitTerminated"}
          => waited <= GracefulStopTimeout
                + (IF cleanup_return = "ExitCode" THEN 0
                                                  ELSE StrayProcessTimeout)
    /\ service \in {"ExitCode", "WaitForAll"}
          => waited <= GracefulStopTimeout
                + (IF forced = "yes" THEN ForcedTerminationTimeout ELSE 0)
    /\ StopWithinHint

\* What the outcome was made of.
OutcomeInv ==
    outcome = "success" =>
        /\ service \in {"Report", "done"}
        /\ JobIsEmpty /\ terminated # "yes"
        /\ \/ exit_code = "zero"
           \/ exit_code = "nonzero" /\ cancellation_event = "signaled"

IInv ==
    /\ TypeOK
    /\ EventInv
    /\ StateInv
    /\ JobInv
    /\ TimeInv
    /\ OutcomeInv

-----------------------------------------------------------------------------
(* The invariant holds initially and every action preserves it.            *)

\* The thread is about to begin and nothing has been waited for.
LEMMA InitEstablishesIInv == Init => IInv
  BY TimeoutsAssumption DEF Init, IInv, TypeOK, EventInv, StateInv, JobInv,
      TimeInv, OutcomeInv, ControlFindsEvent, JobIsEmpty, StopWithinHint,
      StopWaitHint, Errors

\* Each variable is assigned only values of its type.
LEMMA TypeOKInductive == TypeOK /\ [Next]_vars => TypeOK'
  <1> SUFFICES ASSUME TypeOK, [Next]_vars
               PROVE  TypeOK'
    OBVIOUS
  <1> USE TimeoutsAssumption DEF TypeOK, Errors
  <1>1. CASE SendControl
    BY <1>1 DEF SendControl, AcceptsControls, jobVars, threadVars
  <1>2. CASE ServiceControlHandler
    BY <1>2 DEF ServiceControlHandler, jobVars, threadVars
  <1>3. CASE OrchestratorStartsProcess
    BY <1>3 DEF OrchestratorStartsProcess, threadVars
  <1>4. CASE \E code \in {"zero", "nonzero"} : OrchestratorExits(code)
    BY <1>4 DEF OrchestratorExits, threadVars
  <1>5. CASE StrayExits
    BY <1>5 DEF StrayExits, threadVars
  <1>6. CASE OrchestratorDies
    BY <1>6 DEF OrchestratorDies, threadVars
  <1>7. CASE ServiceMain
    BY <1>7 DEF ServiceMain, jobVars, threadVars
  <1>8. CASE ServiceMainReturns
    BY <1>8 DEF ServiceMainReturns, jobVars, threadVars
  <1>9. CASE CreateCancellationEvent
    BY <1>9 DEF CreateCancellationEvent, jobVars, threadVars
  <1>10. CASE StartBackupProcess
    BY <1>10 DEF StartBackupProcess, threadVars
  <1>11. CASE ReportRunning
    BY <1>11 DEF ReportRunning, jobVars, threadVars
  <1>12. CASE ResumeOrchestrator
    BY <1>12 DEF ResumeOrchestrator, threadVars
  <1>13. CASE WaitAny
    BY <1>13 DEF WaitAny, jobVars, threadVars
  <1>14. CASE SampleCancellation
    BY <1>14 DEF SampleCancellation, jobVars
  <1>15. CASE WaitProcess
    BY <1>15 DEF WaitProcess, jobVars
  <1>16. CASE WaitProcessTimesOut
    BY <1>16 DEF WaitProcessTimesOut, jobVars
  <1>17. CASE ReadExitCode
    BY <1>17 DEF ReadExitCode, jobVars, threadVars
  <1>18. CASE WaitForAll
    BY <1>18 DEF WaitForAll, jobVars
  <1>19. CASE WaitForAllTimesOut
    BY <1>19 DEF WaitForAllTimesOut, jobVars
  <1>20. CASE ForceCleanup
    BY <1>20 DEF ForceCleanup, threadVars
  <1>21. CASE WaitTerminated
    BY <1>21 DEF WaitTerminated, jobVars
  <1>22. CASE WaitTerminatedTimesOut
    BY <1>22 DEF WaitTerminatedTimesOut, CloseJob
  <1>23. CASE RunBackupReturns
    BY <1>23 DEF RunBackupReturns, CloseJob, Outcome, threadVars
  <1>24. CASE RunServiceCatches
    BY <1>24 DEF RunServiceCatches, CloseJob, ReportStopping, threadVars
  <1>25. CASE ReportStopped
    BY <1>25 DEF ReportStopped, jobVars, threadVars
  <1>26. CASE UNCHANGED vars
    BY <1>26 DEF vars, jobVars, threadVars
  <1>27. CASE QueryJobFails
    BY <1>27 DEF QueryJobFails, CloseJob
  <1> QED
    BY <1>1, <1>2, <1>3, <1>4, <1>5, <1>6, <1>7, <1>8, <1>9, <1>10, <1>11,
       <1>12, <1>13, <1>14, <1>15, <1>16, <1>17, <1>18, <1>19, <1>20, <1>21,
       <1>22, <1>23, <1>24, <1>25, <1>26, <1>27 DEF Next, JobProcesses,
       ServiceThread, RunBackup

\* The event is created before anyone can be sent to signal it.
LEMMA EventInvInductive ==
    TypeOK /\ StateInv /\ EventInv /\ [Next]_vars => EventInv'
  <1> SUFFICES ASSUME TypeOK, StateInv, EventInv, [Next]_vars
               PROVE  EventInv'
    OBVIOUS
  <1> USE TimeoutsAssumption DEF EventInv, StateInv, ControlFindsEvent, TypeOK
  <1>1. CASE SendControl
    BY <1>1 DEF SendControl, AcceptsControls, jobVars, threadVars
  <1>2. CASE ServiceControlHandler
    BY <1>2 DEF ServiceControlHandler, jobVars, threadVars
  <1>3. CASE OrchestratorStartsProcess
    BY <1>3 DEF OrchestratorStartsProcess, threadVars
  <1>4. CASE \E code \in {"zero", "nonzero"} : OrchestratorExits(code)
    BY <1>4 DEF OrchestratorExits, threadVars
  <1>5. CASE StrayExits
    BY <1>5 DEF StrayExits, threadVars
  <1>6. CASE OrchestratorDies
    BY <1>6 DEF OrchestratorDies, threadVars
  <1>7. CASE ServiceMain
    BY <1>7 DEF ServiceMain, jobVars, threadVars
  <1>8. CASE ServiceMainReturns
    BY <1>8 DEF ServiceMainReturns, jobVars, threadVars
  <1>9. CASE CreateCancellationEvent
    BY <1>9 DEF CreateCancellationEvent, jobVars, threadVars
  <1>10. CASE StartBackupProcess
    BY <1>10 DEF StartBackupProcess, threadVars
  <1>11. CASE ReportRunning
    BY <1>11 DEF ReportRunning, jobVars, threadVars
  <1>12. CASE ResumeOrchestrator
    BY <1>12 DEF ResumeOrchestrator, threadVars
  <1>13. CASE WaitAny
    BY <1>13 DEF WaitAny, jobVars, threadVars
  <1>14. CASE SampleCancellation
    BY <1>14 DEF SampleCancellation, jobVars
  <1>15. CASE WaitProcess
    BY <1>15 DEF WaitProcess, jobVars
  <1>16. CASE WaitProcessTimesOut
    BY <1>16 DEF WaitProcessTimesOut, jobVars
  <1>17. CASE ReadExitCode
    BY <1>17 DEF ReadExitCode, jobVars, threadVars
  <1>18. CASE WaitForAll
    BY <1>18 DEF WaitForAll, jobVars
  <1>19. CASE WaitForAllTimesOut
    BY <1>19 DEF WaitForAllTimesOut, jobVars
  <1>20. CASE ForceCleanup
    BY <1>20 DEF ForceCleanup, threadVars
  <1>21. CASE WaitTerminated
    BY <1>21 DEF WaitTerminated, jobVars
  <1>22. CASE WaitTerminatedTimesOut
    BY <1>22 DEF WaitTerminatedTimesOut, CloseJob
  <1>23. CASE RunBackupReturns
    BY <1>23 DEF RunBackupReturns, CloseJob, Outcome, threadVars
  <1>24. CASE RunServiceCatches
    BY <1>24 DEF RunServiceCatches, CloseJob, ReportStopping, threadVars
  <1>25. CASE ReportStopped
    BY <1>25 DEF ReportStopped, jobVars, threadVars
  <1>26. CASE UNCHANGED vars
    BY <1>26 DEF vars, jobVars, threadVars
  <1>27. CASE QueryJobFails
    BY <1>27 DEF QueryJobFails, CloseJob
  <1> QED
    BY <1>1, <1>2, <1>3, <1>4, <1>5, <1>6, <1>7, <1>8, <1>9, <1>10, <1>11,
       <1>12, <1>13, <1>14, <1>15, <1>16, <1>17, <1>18, <1>19, <1>20, <1>21,
       <1>22, <1>23, <1>24, <1>25, <1>26, <1>27 DEF Next, JobProcesses,
       ServiceThread, RunBackup

\* Who leaves the two places of RUNNING reports STOP_PENDING.
LEMMA StateInvInductive == TypeOK /\ StateInv /\ [Next]_vars => StateInv'
  <1> SUFFICES ASSUME TypeOK, StateInv, [Next]_vars
               PROVE  StateInv'
    OBVIOUS
  <1> USE TimeoutsAssumption DEF StateInv, TypeOK
  <1>1. CASE SendControl
    BY <1>1 DEF SendControl, AcceptsControls, jobVars, threadVars
  <1>2. CASE ServiceControlHandler
    BY <1>2 DEF ServiceControlHandler, jobVars, threadVars
  <1>3. CASE OrchestratorStartsProcess
    BY <1>3 DEF OrchestratorStartsProcess, threadVars
  <1>4. CASE \E code \in {"zero", "nonzero"} : OrchestratorExits(code)
    BY <1>4 DEF OrchestratorExits, threadVars
  <1>5. CASE StrayExits
    BY <1>5 DEF StrayExits, threadVars
  <1>6. CASE OrchestratorDies
    BY <1>6 DEF OrchestratorDies, threadVars
  <1>7. CASE ServiceMain
    BY <1>7 DEF ServiceMain, jobVars, threadVars
  <1>8. CASE ServiceMainReturns
    BY <1>8 DEF ServiceMainReturns, jobVars, threadVars
  <1>9. CASE CreateCancellationEvent
    BY <1>9 DEF CreateCancellationEvent, jobVars, threadVars
  <1>10. CASE StartBackupProcess
    BY <1>10 DEF StartBackupProcess, threadVars
  <1>11. CASE ReportRunning
    BY <1>11 DEF ReportRunning, jobVars, threadVars
  <1>12. CASE ResumeOrchestrator
    BY <1>12 DEF ResumeOrchestrator, threadVars
  <1>13. CASE WaitAny
    BY <1>13 DEF WaitAny, jobVars, threadVars
  <1>14. CASE SampleCancellation
    BY <1>14 DEF SampleCancellation, jobVars
  <1>15. CASE WaitProcess
    BY <1>15 DEF WaitProcess, jobVars
  <1>16. CASE WaitProcessTimesOut
    BY <1>16 DEF WaitProcessTimesOut, jobVars
  <1>17. CASE ReadExitCode
    BY <1>17 DEF ReadExitCode, jobVars, threadVars
  <1>18. CASE WaitForAll
    BY <1>18 DEF WaitForAll, jobVars
  <1>19. CASE WaitForAllTimesOut
    BY <1>19 DEF WaitForAllTimesOut, jobVars
  <1>20. CASE ForceCleanup
    BY <1>20 DEF ForceCleanup, threadVars
  <1>21. CASE WaitTerminated
    BY <1>21 DEF WaitTerminated, jobVars
  <1>22. CASE WaitTerminatedTimesOut
    BY <1>22 DEF WaitTerminatedTimesOut, CloseJob
  <1>23. CASE RunBackupReturns
    BY <1>23 DEF RunBackupReturns, CloseJob, Outcome, threadVars
  <1>24. CASE RunServiceCatches
    BY <1>24 DEF RunServiceCatches, CloseJob, ReportStopping, threadVars
  <1>25. CASE ReportStopped
    BY <1>25 DEF ReportStopped, jobVars, threadVars
  <1>26. CASE UNCHANGED vars
    BY <1>26 DEF vars, jobVars, threadVars
  <1>27. CASE QueryJobFails
    BY <1>27 DEF QueryJobFails, CloseJob
  <1> QED
    BY <1>1, <1>2, <1>3, <1>4, <1>5, <1>6, <1>7, <1>8, <1>9, <1>10, <1>11,
       <1>12, <1>13, <1>14, <1>15, <1>16, <1>17, <1>18, <1>19, <1>20, <1>21,
       <1>22, <1>23, <1>24, <1>25, <1>26, <1>27 DEF Next, JobProcesses,
       ServiceThread, RunBackup

\* The job is empty or terminated before anything is reported.
LEMMA JobInvInductive == TypeOK /\ TimeInv /\ JobInv /\ [Next]_vars => JobInv'
  <1> SUFFICES ASSUME TypeOK, TimeInv, JobInv, [Next]_vars
               PROVE  JobInv'
    OBVIOUS
  <1> USE TimeoutsAssumption DEF JobInv, TypeOK, JobIsEmpty, TimeInv
  <1>1. CASE SendControl
    BY <1>1 DEF SendControl, AcceptsControls, jobVars, threadVars
  <1>2. CASE ServiceControlHandler
    BY <1>2 DEF ServiceControlHandler, jobVars, threadVars
  <1>3. CASE OrchestratorStartsProcess
    BY <1>3 DEF OrchestratorStartsProcess, threadVars
  <1>4. CASE \E code \in {"zero", "nonzero"} : OrchestratorExits(code)
    BY <1>4 DEF OrchestratorExits, threadVars
  <1>5. CASE StrayExits
    BY <1>5 DEF StrayExits, threadVars
  <1>6. CASE OrchestratorDies
    BY <1>6 DEF OrchestratorDies, threadVars
  <1>7. CASE ServiceMain
    BY <1>7 DEF ServiceMain, jobVars, threadVars
  <1>8. CASE ServiceMainReturns
    BY <1>8 DEF ServiceMainReturns, jobVars, threadVars
  <1>9. CASE CreateCancellationEvent
    BY <1>9 DEF CreateCancellationEvent, jobVars, threadVars
  <1>10. CASE StartBackupProcess
    BY <1>10 DEF StartBackupProcess, threadVars
  <1>11. CASE ReportRunning
    BY <1>11 DEF ReportRunning, jobVars, threadVars
  <1>12. CASE ResumeOrchestrator
    BY <1>12 DEF ResumeOrchestrator, threadVars
  <1>13. CASE WaitAny
    BY <1>13 DEF WaitAny, jobVars, threadVars
  <1>14. CASE SampleCancellation
    BY <1>14 DEF SampleCancellation, jobVars
  <1>15. CASE WaitProcess
    BY <1>15 DEF WaitProcess, jobVars
  <1>16. CASE WaitProcessTimesOut
    BY <1>16 DEF WaitProcessTimesOut, jobVars
  <1>17. CASE ReadExitCode
    BY <1>17 DEF ReadExitCode, jobVars, threadVars
  <1>18. CASE WaitForAll
    BY <1>18 DEF WaitForAll, jobVars
  <1>19. CASE WaitForAllTimesOut
    BY <1>19 DEF WaitForAllTimesOut, jobVars
  <1>20. CASE ForceCleanup
    BY <1>20 DEF ForceCleanup, threadVars
  <1>21. CASE WaitTerminated
    BY <1>21 DEF WaitTerminated, jobVars
  <1>22. CASE WaitTerminatedTimesOut
    BY <1>22 DEF WaitTerminatedTimesOut, CloseJob
  <1>23. CASE RunBackupReturns
    BY <1>23 DEF RunBackupReturns, CloseJob, Outcome, threadVars
  <1>24. CASE RunServiceCatches
    BY <1>24 DEF RunServiceCatches, CloseJob, ReportStopping, threadVars
  <1>25. CASE ReportStopped
    BY <1>25 DEF ReportStopped, jobVars, threadVars
  <1>26. CASE UNCHANGED vars
    BY <1>26 DEF vars, jobVars, threadVars
  <1>27. CASE QueryJobFails
    BY <1>27 DEF QueryJobFails, CloseJob
  <1> QED
    BY <1>1, <1>2, <1>3, <1>4, <1>5, <1>6, <1>7, <1>8, <1>9, <1>10, <1>11,
       <1>12, <1>13, <1>14, <1>15, <1>16, <1>17, <1>18, <1>19, <1>20, <1>21,
       <1>22, <1>23, <1>24, <1>25, <1>26, <1>27 DEF Next, JobProcesses,
       ServiceThread, RunBackup

\* Each wait adds at most its timeout, and a forced cleanup waits once.
LEMMA TimeInvInductive ==
    TypeOK /\ JobInv /\ TimeInv /\ [Next]_vars => TimeInv'
  <1> SUFFICES ASSUME TypeOK, JobInv, TimeInv, [Next]_vars
               PROVE  TimeInv'
    OBVIOUS
  <1> USE TimeoutsAssumption DEF TimeInv, TypeOK, JobIsEmpty, JobInv,
          StopWithinHint, StopWaitHint
  <1>1. CASE SendControl
    BY <1>1 DEF SendControl, AcceptsControls, jobVars, threadVars
  <1>2. CASE ServiceControlHandler
    BY <1>2 DEF ServiceControlHandler, jobVars, threadVars
  <1>3. CASE OrchestratorStartsProcess
    BY <1>3 DEF OrchestratorStartsProcess, threadVars
  <1>4. CASE \E code \in {"zero", "nonzero"} : OrchestratorExits(code)
    BY <1>4 DEF OrchestratorExits, threadVars
  <1>5. CASE StrayExits
    BY <1>5 DEF StrayExits, threadVars
  <1>6. CASE OrchestratorDies
    BY <1>6 DEF OrchestratorDies, threadVars
  <1>7. CASE ServiceMain
    BY <1>7 DEF ServiceMain, jobVars, threadVars
  <1>8. CASE ServiceMainReturns
    BY <1>8 DEF ServiceMainReturns, jobVars, threadVars
  <1>9. CASE CreateCancellationEvent
    BY <1>9 DEF CreateCancellationEvent, jobVars, threadVars
  <1>10. CASE StartBackupProcess
    BY <1>10 DEF StartBackupProcess, threadVars
  <1>11. CASE ReportRunning
    BY <1>11 DEF ReportRunning, jobVars, threadVars
  <1>12. CASE ResumeOrchestrator
    BY <1>12 DEF ResumeOrchestrator, threadVars
  <1>13. CASE WaitAny
    BY <1>13 DEF WaitAny, jobVars, threadVars
  <1>14. CASE SampleCancellation
    BY <1>14 DEF SampleCancellation, jobVars
  <1>15. CASE WaitProcess
    BY <1>15 DEF WaitProcess, jobVars
  <1>16. CASE WaitProcessTimesOut
    BY <1>16 DEF WaitProcessTimesOut, jobVars
  <1>17. CASE ReadExitCode
    BY <1>17 DEF ReadExitCode, jobVars, threadVars
  <1>18. CASE WaitForAll
    BY <1>18 DEF WaitForAll, jobVars
  <1>19. CASE WaitForAllTimesOut
    BY <1>19 DEF WaitForAllTimesOut, jobVars
  <1>20. CASE ForceCleanup
    BY <1>20 DEF ForceCleanup, threadVars
  <1>21. CASE WaitTerminated
    BY <1>21 DEF WaitTerminated, jobVars
  <1>22. CASE WaitTerminatedTimesOut
    BY <1>22 DEF WaitTerminatedTimesOut, CloseJob
  <1>23. CASE RunBackupReturns
    BY <1>23 DEF RunBackupReturns, CloseJob, Outcome, threadVars
  <1>24. CASE RunServiceCatches
    BY <1>24 DEF RunServiceCatches, CloseJob, ReportStopping, threadVars
  <1>25. CASE ReportStopped
    BY <1>25 DEF ReportStopped, jobVars, threadVars
  <1>26. CASE UNCHANGED vars
    BY <1>26 DEF vars, jobVars, threadVars
  <1>27. CASE QueryJobFails
    BY <1>27 DEF QueryJobFails, CloseJob
  <1> QED
    BY <1>1, <1>2, <1>3, <1>4, <1>5, <1>6, <1>7, <1>8, <1>9, <1>10, <1>11,
       <1>12, <1>13, <1>14, <1>15, <1>16, <1>17, <1>18, <1>19, <1>20, <1>21,
       <1>22, <1>23, <1>24, <1>25, <1>26, <1>27 DEF Next, JobProcesses,
       ServiceThread, RunBackup

\* An orchestrator that was not terminated has an exit code of its own.
LEMMA OutcomeInvInductive ==
    TypeOK /\ EventInv /\ JobInv /\ OutcomeInv /\ [Next]_vars => OutcomeInv'
  <1> SUFFICES ASSUME TypeOK, EventInv, JobInv, OutcomeInv, [Next]_vars
               PROVE  OutcomeInv'
    OBVIOUS
  <1> USE TimeoutsAssumption DEF OutcomeInv, TypeOK, EventInv, JobInv, Errors,
          JobIsEmpty
  <1>1. CASE SendControl
    BY <1>1 DEF SendControl, AcceptsControls, jobVars, threadVars
  <1>2. CASE ServiceControlHandler
    BY <1>2 DEF ServiceControlHandler, jobVars, threadVars
  <1>3. CASE OrchestratorStartsProcess
    BY <1>3 DEF OrchestratorStartsProcess, threadVars
  <1>4. CASE \E code \in {"zero", "nonzero"} : OrchestratorExits(code)
    BY <1>4 DEF OrchestratorExits, threadVars
  <1>5. CASE StrayExits
    BY <1>5 DEF StrayExits, threadVars
  <1>6. CASE OrchestratorDies
    BY <1>6 DEF OrchestratorDies, threadVars
  <1>7. CASE ServiceMain
    BY <1>7 DEF ServiceMain, jobVars, threadVars
  <1>8. CASE ServiceMainReturns
    BY <1>8 DEF ServiceMainReturns, jobVars, threadVars
  <1>9. CASE CreateCancellationEvent
    BY <1>9 DEF CreateCancellationEvent, jobVars, threadVars
  <1>10. CASE StartBackupProcess
    BY <1>10 DEF StartBackupProcess, threadVars
  <1>11. CASE ReportRunning
    BY <1>11 DEF ReportRunning, jobVars, threadVars
  <1>12. CASE ResumeOrchestrator
    BY <1>12 DEF ResumeOrchestrator, threadVars
  <1>13. CASE WaitAny
    BY <1>13 DEF WaitAny, jobVars, threadVars
  <1>14. CASE SampleCancellation
    BY <1>14 DEF SampleCancellation, jobVars
  <1>15. CASE WaitProcess
    BY <1>15 DEF WaitProcess, jobVars
  <1>16. CASE WaitProcessTimesOut
    BY <1>16 DEF WaitProcessTimesOut, jobVars
  <1>17. CASE ReadExitCode
    BY <1>17 DEF ReadExitCode, jobVars, threadVars
  <1>18. CASE WaitForAll
    BY <1>18 DEF WaitForAll, jobVars
  <1>19. CASE WaitForAllTimesOut
    BY <1>19 DEF WaitForAllTimesOut, jobVars
  <1>20. CASE ForceCleanup
    BY <1>20 DEF ForceCleanup, threadVars
  <1>21. CASE WaitTerminated
    BY <1>21 DEF WaitTerminated, jobVars
  <1>22. CASE WaitTerminatedTimesOut
    BY <1>22 DEF WaitTerminatedTimesOut, CloseJob
  <1>23. CASE RunBackupReturns
    BY <1>23 DEF RunBackupReturns, CloseJob, Outcome, threadVars
  <1>24. CASE RunServiceCatches
    BY <1>24 DEF RunServiceCatches, CloseJob, ReportStopping, threadVars
  <1>25. CASE ReportStopped
    BY <1>25 DEF ReportStopped, jobVars, threadVars
  <1>26. CASE UNCHANGED vars
    BY <1>26 DEF vars, jobVars, threadVars
  <1>27. CASE QueryJobFails
    BY <1>27 DEF QueryJobFails, CloseJob
  <1> QED
    BY <1>1, <1>2, <1>3, <1>4, <1>5, <1>6, <1>7, <1>8, <1>9, <1>10, <1>11,
       <1>12, <1>13, <1>14, <1>15, <1>16, <1>17, <1>18, <1>19, <1>20, <1>21,
       <1>22, <1>23, <1>24, <1>25, <1>26, <1>27 DEF Next, JobProcesses,
       ServiceThread, RunBackup

\* IInv is an invariant of the service.
LEMMA IInvInvariant == Spec => []IInv
  <1>1. Init => IInv
    BY InitEstablishesIInv
  <1>2. IInv /\ [Next]_vars => IInv'
    BY TypeOKInductive, EventInvInductive, StateInvInductive, JobInvInductive,
       TimeInvInductive, OutcomeInvInductive DEF IInv
  <1> QED
    BY <1>1, <1>2, PTL DEF Spec

-----------------------------------------------------------------------------
(* The theorems.                                                           *)

\* Every state of the service and its job is of the declared type.
THEOREM TypeCorrect == Spec => []TypeOK
  <1>1. IInv => TypeOK
    BY DEF IInv
  <1> QED
    BY <1>1, IInvInvariant, PTL

\* The control handler never runs without an event to signal.
THEOREM HandlerHasEvent == Spec => []ControlFindsEvent
  <1>1. IInv => ControlFindsEvent
    BY DEF IInv, EventInv
  <1> QED
    BY <1>1, IInvInvariant, PTL

\* A cleanup by force, of the orchestrator or of what it left behind, and an
\* orchestrator that failed unasked are never reported as a success.
THEOREM ReportsAreTruthful == Spec => []SuccessIsEarned
  <1>1. IInv => SuccessIsEarned
    BY DEF IInv, OutcomeInv, SuccessIsEarned
  <1> QED
    BY <1>1, IInvInvariant, PTL

\* STOPPED is reported only of a job that is empty or terminated.
THEOREM NothingIsLeftRunning == Spec => []JobEndsWithService
  <1>1. IInv => JobEndsWithService
    BY DEF IInv, StateInv, JobInv, JobEndsWithService
  <1> QED
    BY <1>1, IInvInvariant, PTL

\* The waits on any path add up to at most kStopWaitHint.
THEOREM StopsWithinHint == Spec => []StopWithinHint
  <1>1. IInv => StopWithinHint
    BY DEF IInv, TimeInv
  <1> QED
    BY <1>1, IInvInvariant, PTL

\* RUNNING is followed by STOP_PENDING in every step that leaves it.
THEOREM StopIsAnnounced == Spec => StoppedThroughStopPending
  <1> DEFINE Step ==
               state = "RUNNING" => state' \in {"RUNNING", "STOP_PENDING"}
  <1>1. IInv /\ [Next]_vars => [Step]_vars
    <2> SUFFICES ASSUME TypeOK, StateInv, [Next]_vars PROVE Step
      BY DEF IInv
    <2> USE DEF TypeOK, StateInv
    <2>1. CASE SendControl
      BY <2>1 DEF SendControl, AcceptsControls, jobVars, threadVars
    <2>2. CASE ServiceControlHandler
      BY <2>2 DEF ServiceControlHandler, jobVars, threadVars
    <2>3. CASE OrchestratorStartsProcess
      BY <2>3 DEF OrchestratorStartsProcess, threadVars
    <2>4. CASE \E code \in {"zero", "nonzero"} : OrchestratorExits(code)
      BY <2>4 DEF OrchestratorExits, threadVars
    <2>5. CASE StrayExits
      BY <2>5 DEF StrayExits, threadVars
    <2>6. CASE OrchestratorDies
      BY <2>6 DEF OrchestratorDies, threadVars
    <2>7. CASE ServiceMain
      BY <2>7 DEF ServiceMain, jobVars, threadVars
    <2>8. CASE ServiceMainReturns
      BY <2>8 DEF ServiceMainReturns, jobVars, threadVars
    <2>9. CASE CreateCancellationEvent
      BY <2>9 DEF CreateCancellationEvent, jobVars, threadVars
    <2>10. CASE StartBackupProcess
      BY <2>10 DEF StartBackupProcess, threadVars
    <2>11. CASE ReportRunning
      BY <2>11 DEF ReportRunning, jobVars, threadVars
    <2>12. CASE ResumeOrchestrator
      BY <2>12 DEF ResumeOrchestrator, threadVars
    <2>13. CASE WaitAny
      BY <2>13 DEF WaitAny, jobVars, threadVars
    <2>14. CASE SampleCancellation
      BY <2>14 DEF SampleCancellation, jobVars
    <2>15. CASE WaitProcess
      BY <2>15 DEF WaitProcess, jobVars
    <2>16. CASE WaitProcessTimesOut
      BY <2>16 DEF WaitProcessTimesOut, jobVars
    <2>17. CASE ReadExitCode
      BY <2>17 DEF ReadExitCode, jobVars, threadVars
    <2>18. CASE WaitForAll
      BY <2>18 DEF WaitForAll, jobVars
    <2>19. CASE WaitForAllTimesOut
      BY <2>19 DEF WaitForAllTimesOut, jobVars
    <2>20. CASE ForceCleanup
      BY <2>20 DEF ForceCleanup, threadVars
    <2>21. CASE WaitTerminated
      BY <2>21 DEF WaitTerminated, jobVars
    <2>22. CASE WaitTerminatedTimesOut
      BY <2>22 DEF WaitTerminatedTimesOut, CloseJob
    <2>23. CASE RunBackupReturns
      BY <2>23 DEF RunBackupReturns, CloseJob, Outcome, threadVars
    <2>24. CASE RunServiceCatches
      BY <2>24 DEF RunServiceCatches, CloseJob, ReportStopping, threadVars
    <2>25. CASE ReportStopped
      BY <2>25 DEF ReportStopped, jobVars, threadVars
    <2>26. CASE UNCHANGED vars
      BY <2>26 DEF vars
    <2>27. CASE QueryJobFails
      BY <2>27 DEF QueryJobFails, CloseJob
    <2> QED
      BY <2>1, <2>2, <2>3, <2>4, <2>5, <2>6, <2>7, <2>8, <2>9, <2>10, <2>11,
         <2>12, <2>13, <2>14, <2>15, <2>16, <2>17, <2>18, <2>19, <2>20, <2>21,
         <2>22, <2>23, <2>24, <2>25, <2>26, <2>27 DEF Next, JobProcesses,
         ServiceThread, RunBackup
  <1> QED
    BY <1>1, IInvInvariant, PTL DEF Spec, StoppedThroughStopPending

=============================================================================
